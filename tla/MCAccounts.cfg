SPECIFICATION Spec
CONSTANTS
    Users = {u1, u2}
    Names = {n1, n2}
    Emails = {e1, e2}
    Passwords = {p1, p2}
    Externals = {x1, x2}
    CodeIds = {c1, c2}
    Reqs = {r1, r2}
    Workloads <- MCWorkloads
    MaxTime = 1
    MaxAttempts = 2
    Lifetime = 1
    ResetLifetime = 1
    NULL = NULL
    Expired = Expired
SYMMETRY Symmetry
INVARIANTS TypeOK SessionsEnd OneActiveCode
PROPERTIES OneAccount NeverLockedOut CodesStayUsed AvatarChoiceKept
