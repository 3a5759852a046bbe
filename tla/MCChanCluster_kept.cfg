CONSTANTS
  Caller = {p1, p2}
  Name = {n1, n2}
  Event = {e1, e2}
  MaxParallel = 1
  Size = 1
  MaxUnregister = 1
  Nil = Nil
SPECIFICATION FairSpec
INVARIANTS
  NoSlotLost
PROPERTIES
  KeptIsDealt
  WokenUp
  StopEnds
CHECK_DEADLOCK FALSE
