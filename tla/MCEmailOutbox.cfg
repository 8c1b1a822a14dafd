\* two workers, three mails, everything that may go wrong
CONSTANTS
    Mails = {m1, m2, m3}
    Workers = {w1, w2}
    Stalling = {}
    Refused = {}
    Faults = {"crash", "cancel", "database", "quit", "slow"}
    Limit = 2
    RetryDelay = 1
    Retention = 3
    JobTimeout = 1
    RescueAfter = 2
    MaxCrashes = 1
SPECIFICATION Spec
SYMMETRY Symmetry
INVARIANTS TypeOK AgainOnlyIfBlind SentWasDelivered
