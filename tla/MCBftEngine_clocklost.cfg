CONSTANTS
  u1 = u1
  u2 = u2
  N = 3
  MinVotings = 2
  DeadLockPeriod = 2
  Slot = 0
  Hash = {u1, u2}
  Author <- MCAuthor
  Nil = Nil
  MaxRound = 2
  Self = 0
  Loads <- LoadsClock
  MaxSeq = 1
  MaxRestarts = 0
SPECIFICATION Spec
INVARIANT ActiveHasClock
CHECK_DEADLOCK FALSE
