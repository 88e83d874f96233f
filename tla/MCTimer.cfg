CONSTANTS
    Owner = owner
    Others = {other}
    Task = {t1, t2}
    NoTask = none
    MaxId = 3
    Usage <- Orderly
    Delay <- Delays
    Period = 1
    MaxTime = 3
SPECIFICATION FairSpec
CHECK_DEADLOCK FALSE
INVARIANTS
    IdsConserved
    OnePlace
    NotBeforeItsTime
PROPERTIES
    NothingLate
    ExpiredRuns
