\* two emails, two clients behind up to two hops of a proxy, two logins at a time
CONSTANTS
    Emails = {e1, e2}
    Clients = {a1, a2}
    Proxies = {p1}
    Garbage = Garbage
    Nothing = Nothing
    Logins = {l1, l2}
    MaxHops = 2
    MaxBefore = 1
    Threshold = 1
    IPFactor = 1
    Window = 3
    StaleAfter = 1
    MaxTime = 3
SPECIFICATION RateSpec
SYMMETRY Symmetry
INVARIANTS ChargedToOrigin LimitsHold
