SPECIFICATION FairSpec
CONSTANTS
    Docs = {d1, d2}
    Writers = {w1, w2}
    MaxAttempts = 2
    MaxVersion = 2
CHECK_DEADLOCK FALSE
INVARIANTS TypeOK NoLostWaiter
PROPERTIES NoEarlyCredit WaitEnds
