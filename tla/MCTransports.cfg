SPECIFICATION Spec
CONSTANTS
  Udp = {u1}
  Mqtt = {q1, q2}
  None = None
PROPERTIES KeepsContract ClosesForGood
CHECK_DEADLOCK FALSE
