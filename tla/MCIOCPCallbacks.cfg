SPECIFICATION Spec
CONSTANTS
    w1 = w1
    w2 = w2
    c1 = c1
    c2 = c2
    Workers <- TwoWorkers
    Conns <- OneConn
    Listen = Listen
    NoConn = NoConn
    NoPacket = NoPacket
    maxStandbySocket = 1
    MaxSends = 2
    MaxCloses = 1
    MaxAcceptFails = 1
SYMMETRY Symmetry
INVARIANTS
    TypeOK
    SoleOwner
    CloseOnce
PROPERTIES
    ImplementsLife
CHECK_DEADLOCK FALSE
