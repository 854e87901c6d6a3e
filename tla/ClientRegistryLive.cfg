\* Two connections of one agent whose goroutines get to run.
SPECIFICATION FairSpec
CONSTANTS
    a1 = a1  a2 = a2  a3 = a3  w1 = w1  n1 = n1
    Conns = {a1, a2}
    WsConns = {}
    Names = {n1}
    NameOf <- OneName
    NoConn = NoConn
    MaxReplies = 1
PROPERTIES
    SilentClientIsDropped
    ClosedSessionEnds
CHECK_DEADLOCK FALSE
