SPECIFICATION Spec
CONSTANTS
  Writers = {w}
  SeqMod = 2
  Messages = {m1, m2}
  Sizes = {2, 3, 4}
  DataSizes = {1, 2}
  MaxTotalSize = 3
  MaxInflight = 1
  Expiry = 1
  None = None
SYMMETRY Perms
INVARIANTS ReassemblyIsExact EachArrivalCountsOnce
CHECK_DEADLOCK FALSE
