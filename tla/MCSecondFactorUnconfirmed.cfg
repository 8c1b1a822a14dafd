\* a setup overtakes a confirmation
CONSTANTS
    Users = {u1}
    Secrets = {s1, s2}
    Requests = {r1, r2}
    Nothing = Nothing
SPECIFICATION Spec
INVARIANTS DisabledBeforeConfirmation
