\* two requests of one user race with each other, a sweep and a role change
CONSTANTS
    Users = {u1}
    RoleSets = {admin, plain}
    NoRoles = NoRoles
    Requests = {r1, r2}
    TTL = 1
    MaxTime = 3
SPECIFICATION Spec
SYMMETRY Symmetry
INVARIANTS TypeOK AnswersAreFresh
PROPERTIES OnlyExpiredRemoved KeepsPromise
