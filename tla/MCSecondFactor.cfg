\* three requests of one user overlap, with removals
CONSTANTS
    Users = {u1}
    Secrets = {s1, s2, s3}
    Requests = {r1, r2, r3}
    Nothing = Nothing
SPECIFICATION Spec
SYMMETRY Symmetry
INVARIANTS TypeOK UnconfirmedWasOvertaken RemovedNeverReturns FlaggedWasAsked
PROPERTIES ReplacedBySlowSetup
