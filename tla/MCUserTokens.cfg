\* two requests for a token and two attempts to consume one overlap, with the cleanup
CONSTANTS
    Users = {u1}
    Kinds = {verify}
    Verification = verify
    Tokens = {t1, t2, t3}
    Requests = {r1, r2}
    Consumers = {c1, c2}
    Nobody = Nobody
    TTL = 1
    MaxTime = 2
SPECIFICATION Spec
SYMMETRY Symmetry
INVARIANTS TypeOK ReplacedIsDead LatestIsGood ConsumedOnce
