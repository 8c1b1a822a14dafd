\* two handlers and two jobs at a time
CONSTANTS
    MaxHandlers = 2
    MaxJobs = 2
SPECIFICATION AppFairSpec
INVARIANTS NothingLeft ClosedAfterUse
PROPERTIES RunEnds
\* the process ends
CHECK_DEADLOCK FALSE
