\* nothing goes wrong but that the server never answers for one mail
CONSTANTS
    Mails = {m1, m2}
    Workers = {w1}
    Stalling = {m1}
    Refused = {}
    Faults = {}
    Limit = 2
    RetryDelay = 1
    Retention = 3
    JobTimeout = 1
    RescueAfter = 2
    MaxCrashes = 0
SPECIFICATION AcceptingSpec
PROPERTIES EveryMailDelivered
