CONSTANTS
  Caller = {p1}
  Name = {n1, n2}
  Event = {e1, e2}
  MaxParallel = 1
  Size = 1
  MaxUnregister = 0
  Nil = Nil
SPECIFICATION FairSpec
PROPERTIES
  AllDealt
CHECK_DEADLOCK FALSE
