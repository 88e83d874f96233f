SPECIFICATION Spec
CONSTANTS
    k1 = k1
    k2 = k2
    k3 = k3
    o1 = o1
    o2 = o2
    Thread = {t1, t2}
    Net = Net
    Call = {k1, k2}
    Oneway = {}
    Object = {o1}
    ObjectOf <- OneObject
    Conn = {c1, c2}
    NoConn = NoConn
    NoCall = NoCall
    MaxUid = 1
    MaxWait = 1
    MaxLost = 1
INVARIANTS
    OwnAnswers
CHECK_DEADLOCK FALSE
