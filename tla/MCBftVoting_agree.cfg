CONSTANTS
  w1 = w1
  w2 = w2
  w3 = w3
  w4 = w4
  a = a
  b = b
  Witness = {w1, w2, w3, w4}
  Honest = {w1, w2, w3}
  Others = {}
  Hash = {a, b}
  Nil = Nil
  MinVotings = 3
  DeadLockPeriod = 1
  MaxRestarts = 1
  MaxRound = 1
  MaxSeq = 2
SPECIFICATION Spec
SYMMETRY Symmetry
CONSTRAINTS RoundsOrHeights OneForgets
INVARIANTS
  Agreement
  SameViewLocks
  StoredIsSealed
PROPERTIES
  LockKept
CHECK_DEADLOCK FALSE
