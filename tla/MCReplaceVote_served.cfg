CONSTANTS
    w1 = w1
    w2 = w2
    w3 = w3
    c1 = c1
    c2 = c2
    Witness = {w1, w2, w3}
    Live = {w1, w2}
    Chain = {c1, c2}
    NoChain = NoChain
    MaxSlot = 3
    SCMin = 2
    MaxPending = 1
    SleepNumbers = 1
    ReplaceWait = 0
    Loads <- LoadsAll
SPECIFICATION Spec
INVARIANTS TypeOK VotesAgree InStep VoteAtTail
PROPERTIES Served
CHECK_DEADLOCK FALSE
