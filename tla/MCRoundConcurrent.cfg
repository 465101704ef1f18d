SPECIFICATION Spec
CONSTANTS
    Users = {u1, u2, u3}
    Books = {b1, b2}
    RoundIds = {k1}
    Reqs = {r1, r2}
    Operations = {"start", "finalize", "finish", "join", "depart", "changeRole"}
    PoolMax = 2
    NULL = NULL
SYMMETRY Symmetry
INVARIANTS HistoryBacked
PROPERTIES RoundFlow ConclusionExact
