\* a crash and refusals, a sweep of one mail at a time
CONSTANTS
    Mails = {m1, m2}
    Workers = {w1}
    Stalling = {}
    Refused = {}
    Faults = {"crash", "quit"}
    Limit = 1
    RetryDelay = 1
    Retention = 3
    JobTimeout = 1
    RescueAfter = 2
    MaxCrashes = 1
SPECIFICATION AcceptingSpec
PROPERTIES EveryMailDelivered
