SPECIFICATION FairSpec
CONSTANTS
    w1 = w1
    w2 = w2
    c1 = c1
    c2 = c2
    Workers <- OneWorker
    Conns <- TwoConns
    Listen = Listen
    NoConn = NoConn
    NoPacket = NoPacket
    maxStandbySocket = 1
    MaxSends = 0
    MaxCloses = 0
    MaxAcceptFails = 0
INVARIANTS
    Attended
PROPERTIES
    LeaversReleased
