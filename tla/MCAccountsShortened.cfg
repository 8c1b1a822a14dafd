\* by hand: two late LockUserUntil of one account, the newer lock first
CONSTANTS
    Users = {u1}
    Requests = {r1, r2}
    Passwords = {p1, p2}
    NoPassword = NoPassword
    NoUser = NoUser
    Threshold = 2
    Window = 2
    InactiveAfter = 1
    MaxTime = 3
    MaxFailures = 3
    MaxVersion = 2
SPECIFICATION Spec
SYMMETRY Symmetry
INVARIANT LockIsFull
