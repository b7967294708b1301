SPECIFICATION Spec
CONSTANTS
    w1 = w1
    w2 = w2
    c1 = c1
    c2 = c2
    Workers <- OneWorker
    Conns <- OneConn
    Listen = Listen
    NoConn = NoConn
    NoPacket = NoPacket
    maxStandbySocket = 2
    MaxSends = 0
    MaxCloses = 0
    MaxAcceptFails = 1
INVARIANTS
    FailedAcceptReleased
CHECK_DEADLOCK FALSE
