SPECIFICATION Spec
CONSTANTS
    Users = {u1}
    Names = {n1}
    Emails = {e1}
    Passwords = {p1}
    Externals = {x1, x2}
    CodeIds = {c1}
    Reqs = {r1}
    Workloads <- Linking
    MaxTime = 0
    MaxAttempts = 2
    Lifetime = 1
    ResetLifetime = 1
    NULL = NULL
    Expired = Expired
INVARIANT OneLinkPerProvider
