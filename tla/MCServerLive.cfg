SPECIFICATION FairSpec
CONSTANTS
    NumNet = 1
    Handle = {h1}
    Conn = {c1, c2}
    NoConn = NoConn
    NoReq = NoReq
    MaxUid = 1
    MaxReq = 2
    Oneway = {1}
    SockCap = 1
    HashLimit = 1
    MaxAcceptErrors = 1
PROPERTIES
    CallsAnswered
    GoneIsClosed
CHECK_DEADLOCK FALSE
