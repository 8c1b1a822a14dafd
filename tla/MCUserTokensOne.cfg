\* two requests for a token overlap
CONSTANTS
    Users = {u1}
    Kinds = {verify}
    Verification = verify
    Tokens = {t1, t2, t3}
    Requests = {r1, r2}
    Consumers = {c1}
    Nobody = Nobody
    TTL = 2
    MaxTime = 3
SPECIFICATION Spec
INVARIANTS OneTokenAtATime
