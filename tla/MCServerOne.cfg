SPECIFICATION Spec
CONSTANTS
    NumNet = 1
    Handle = {h1}
    Conn = {c1, c2}
    NoConn = NoConn
    NoReq = NoReq
    MaxUid = 1
    MaxReq = 2
    Oneway = {}
    SockCap = 1
    HashLimit = 1
    MaxAcceptErrors = 1
SYMMETRY ConnSymmetry
INVARIANTS
    TypeOK
    UidsConserved
    TableSound
    EventsAreFresh
    NoLostWakeup
    BacklogAnnounced
    CallsConserved
    OpenKeepsItsAnswers
    FinLosesNoRequest
    AnswersInOrder
CHECK_DEADLOCK FALSE
