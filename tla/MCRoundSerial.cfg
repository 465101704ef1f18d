SPECIFICATION Spec
CONSTANTS
    Users = {u1, u2}
    Books = {b1, b2, b3}
    RoundIds = {k1, k2}
    Reqs = {r1}
    Operations = {"start", "finalize", "finish", "suggest", "remove"}
    PoolMax = 2
    NULL = NULL
SYMMETRY Symmetry
INVARIANTS TypeOK OneActiveRound LockHonoured NoSecondReading
