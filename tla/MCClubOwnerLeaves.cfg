SPECIFICATION Spec
CONSTANTS
    Users = {u1, u2, u3}
    Reqs = {r1, r2}
    Operations = {"transfer", "admitDirect", "leave"}
    ReclaimWindow = 0
    Cooldown = 1
    MaxTime = 1
    NULL = NULL
PROPERTIES OwnerNeverLeaves
