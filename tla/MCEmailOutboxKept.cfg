\* a server that refuses
CONSTANTS
    Mails = {m1}
    Workers = {w1}
    Stalling = {}
    Refused = {m1}
    Faults = {}
    Limit = 1
    RetryDelay = 1
    Retention = 3
    JobTimeout = 1
    RescueAfter = 2
    MaxCrashes = 0
SPECIFICATION JobsSpec
PROPERTIES FailedNotKept
