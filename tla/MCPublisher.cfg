SPECIFICATION LiveSpec
CONSTANTS
  Nodes = {cyc, acyc, other}
  Cyclic = {cyc}
  Transports = {t1, t2}
  Values = {v0, v1}
  Empty = v0
  KeepAlive = KeepAlive
  None = None
INVARIANTS ConsumersShare NoneLeftBehind ReadyIsTrue LatestFrameKept
PROPERTIES WaitingIsTried
CHECK_DEADLOCK FALSE
