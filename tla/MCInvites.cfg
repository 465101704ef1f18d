SPECIFICATION Spec
CONSTANTS
    Users = {u1, u2}
    Ids = {i1, i2}
    Reqs = {r1, r2}
    MaxUses = 2
    Workloads <- MCWorkloads
    NULL = NULL
    Gone = Gone
SYMMETRY Symmetry
INVARIANTS ForItsTarget UsesBacked OneWorkingLink
PROPERTIES DeadLinksStayDead
CHECK_DEADLOCK FALSE
