SPECIFICATION Spec
CONSTANTS
    ann = ann
    bob = bob
    club = club
    w1 = w1
    Addresses = {ann, bob}
    Clubs = {club}
    Workers = {w1, w2}
    Workloads <- MCWorkloads
    NULL = NULL
INVARIANTS AtMostOnce OptOutHonoured CacheCoherent
PROPERTIES EveryJobSettles
CHECK_DEADLOCK FALSE
