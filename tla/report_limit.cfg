CONSTANTS
    Owned <- MCOwned
    PR <- MCPR
    Confs <- MCConfs
    Limits = {1}
    Sinces = {0, 2, 3}
    MaxUpdates = 0
SPECIFICATION Spec
CHECK_DEADLOCK FALSE
INVARIANTS
    LimitRespected
