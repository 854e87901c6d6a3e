\* An agent that reconnects while the server still cleans up its old connection.
SPECIFICATION Spec
CONSTANTS
    a1 = a1  a2 = a2  a3 = a3  w1 = w1  n1 = n1
    Conns = {a1, a2}
    WsConns = {}
    Names = {n1}
    NameOf <- OneName
    NoConn = NoConn
    MaxReplies = 1
PROPERTIES
    RemovedForOwnReason
CHECK_DEADLOCK FALSE
