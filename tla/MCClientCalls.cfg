SPECIFICATION Spec
CONSTANTS
    k1 = k1
    k2 = k2
    k3 = k3
    o1 = o1
    o2 = o2
    Thread = {t1, t2}
    Net = Net
    Call = {k1, k2, k3}
    Oneway = {k3}
    Object = {o1, o2}
    ObjectOf <- TwoObjects
    Conn = {c1, c2, c3}
    NoConn = NoConn
    NoCall = NoCall
    MaxUid = 2
    MaxWait = 2
    MaxLost = 1
SYMMETRY Symmetry
INVARIANTS
    
    SeqsConserved
PROPERTIES
    CallsServed
CHECK_DEADLOCK FALSE
