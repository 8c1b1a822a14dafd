\* two requests at a time of one browser, a logout among them
CONSTANTS
    Users = {u1, u2}
    Tokens = {t1, t2}
    Flows = {f1}
    Requests = {r1, r2}
    None = None
    MaxVersion = 2
SPECIFICATION Spec
SYMMETRY Symmetry
INVARIANT LogoutEndsSession
CHECK_DEADLOCK FALSE
