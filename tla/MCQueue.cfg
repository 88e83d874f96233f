SPECIFICATION FairSpec
CONSTANTS
    p1 = p1
    c1 = c1
    c2 = c2
    Thread = {p1, c1, c2}
    NoThread = NoThread
    NoElement = NoElement
    Element = {e1, e2}
    OpsOf <- Roles
    MaxCalls = 2
INVARIANTS
    TypeOK
    MutualExclusion
    NothingOwed
    NoLostWakeup
    OwnedOnce
PROPERTIES
    QueueIsAtomic
    ServedInTheEnd
CHECK_DEADLOCK FALSE
