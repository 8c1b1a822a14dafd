\* two attempts to consume tokens of two kinds overlap, with a request for one
CONSTANTS
    Users = {u1}
    Kinds = {verify, reset}
    Verification = verify
    Tokens = {t1, t2}
    Requests = {r1}
    Consumers = {c1, c2}
    Nobody = Nobody
    TTL = 2
    MaxTime = 3
SPECIFICATION Spec
SYMMETRY Symmetry
INVARIANTS ConsumedOnce
