CONSTANTS
  u1 = u1
  u2 = u2
  N = 3
  MinVotings = 2
  DeadLockPeriod = 2
  Slot = 0
  Hash = {u1, u2}
  Author <- MCAuthor
  Nil = Nil
  MaxRound = 2
  Self = 0
  Loads <- LoadsAll
  MaxSeq = 2
  MaxRestarts = 1
SPECIFICATION Spec
INVARIANTS
  TypeOK
  LockedOnProposal
  VoteOnce
  VotesNotStuck
PROPERTIES
  ClockKept
  Refinement
CHECK_DEADLOCK FALSE
