CONSTANTS
    Owned <- MCOwned
    PR <- MCPR
    Confs <- MCConfs
    Limits = {0}
    Sinces = {0, 2, 3}
    MaxUpdates = 0
SPECIFICATION Spec
CHECK_DEADLOCK FALSE
INVARIANTS
    PercentilesRun
