\* one login at a time; the inactivity job after a recovery
CONSTANTS
    Users = {u1}
    Requests = {r1}
    Passwords = {p1, p2}
    NoPassword = NoPassword
    NoUser = NoUser
    Threshold = 2
    Window = 1
    InactiveAfter = 1
    MaxTime = 3
    MaxFailures = 3
    MaxVersion = 2
SPECIFICATION Spec
PROPERTIES RecoveredStaysActive
