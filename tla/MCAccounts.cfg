\* two concurrent logins of one account, cut off anywhere
CONSTANTS
    Users = {u1}
    Requests = {r1, r2}
    Passwords = {p1, p2}
    NoPassword = NoPassword
    NoUser = NoUser
    Threshold = 2
    Window = 2
    InactiveAfter = 1
    MaxTime = 3
    MaxFailures = 3
    MaxVersion = 2
SPECIFICATION Spec
SYMMETRY Symmetry
INVARIANTS TypeOK RevokedNeverValid RowsConsistent LockoutArmed
PROPERTIES LockNotProlonged ImplementsAuthority
