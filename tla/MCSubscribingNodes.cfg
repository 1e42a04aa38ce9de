SPECIFICATION Spec
CONSTANTS
  Topics = {t1, t2}
  Messages = {m1, m2}
  Kinds = {"client", "event", "browseRead", "browseSubscribe"}
  MaxSubs = 2
  MaxCopies = 2
  MaxRefused = 1
  None = None
CONSTRAINT Followed
SYMMETRY Perms
INVARIANTS DataFlows OncePerTopic NothingLeft
CHECK_DEADLOCK FALSE
