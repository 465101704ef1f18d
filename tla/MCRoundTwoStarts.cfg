SPECIFICATION Spec
CONSTANTS
    Users = {u1, u2}
    Books = {b1, b2}
    RoundIds = {k1, k2}
    Reqs = {r1, r2}
    Operations = {"start", "finalize", "finish"}
    PoolMax = 2
    NULL = NULL
INVARIANTS OneActiveRound
