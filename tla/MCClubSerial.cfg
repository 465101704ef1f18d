SPECIFICATION Spec
CONSTANTS
    Users = {u1, u2, u3}
    Reqs = {r1}
    Operations = {"approve", "reject", "remove", "transfer", "leave", "dissolve",
                  "reclaim", "admit", "admitDirect", "changeRole", "settings"}
    ReclaimWindow = 1
    Cooldown = 2
    MaxTime = 3
    NULL = NULL
SYMMETRY Symmetry
INVARIANTS TypeOK OneOwner
PROPERTIES ProtectionHonoured BanHonoured ImplementsOwnership
