SPECIFICATION Spec
CONSTANTS
    NumNet = 2
    Handle = {h1, h2}
    Conn = {c1, c2}
    NoConn = NoConn
    NoReq = NoReq
    MaxUid = 1
    MaxReq = 1
    Oneway = {}
    SockCap = 1
    HashLimit = 0
    MaxAcceptErrors = 1
SYMMETRY Symmetry
INVARIANTS
    RoundInv
    CallsConserved
CHECK_DEADLOCK FALSE
