\* two users, one of them with a copied authenticator, two requests at a time
CONSTANTS
    Users = {u1, u2}
    Credentials = {c1, c2}
    Requests = {r1, r2}
    Nobody = Nobody
    MaxCount = 2
SPECIFICATION Spec
SYMMETRY Symmetry
INVARIANTS CloneWarned
PROPERTIES RevertedOnlyByOverlap ReturnsByRegistrationOnly
