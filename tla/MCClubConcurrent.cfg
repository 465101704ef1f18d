SPECIFICATION Spec
CONSTANTS
    Users = {u1, u2, u3}
    Reqs = {r1, r2}
    Operations = {"approve", "reject", "remove", "transfer", "leave", "dissolve",
                  "reclaim", "admit", "admitDirect", "changeRole", "settings"}
    ReclaimWindow = 0
    Cooldown = 1
    MaxTime = 1
    NULL = NULL
CONSTRAINT Overlap
SYMMETRY Symmetry
INVARIANTS AtMostOneOwner OwnershipRecord OwnerOnlyWhileLive
PROPERTIES OwnershipMoves PendingOnlyFromNoRow
