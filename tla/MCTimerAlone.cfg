CONSTANTS
    Owner = owner
    Others = {}
    Task = {t1, t2}
    NoTask = none
    MaxId = 2
    Usage <- Alone
    Delay <- Later
    Period = 1
    MaxTime = 3
SPECIFICATION Spec
CHECK_DEADLOCK FALSE
INVARIANT NotBeforeItsTime
