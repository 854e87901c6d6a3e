\* Two connections of one agent, one websocket connection of it.
SPECIFICATION Spec
CONSTANTS
    a1 = a1  a2 = a2  a3 = a3  w1 = w1  n1 = n1
    Conns = {a1, a2, w1}
    WsConns = {w1}
    Names = {n1}
    NameOf <- OneName
    NoConn = NoConn
    MaxReplies = 1
SYMMETRY Symmetry
INVARIANTS
    TypeOK
    OpenSessionIsRegistered
    RegisteredIsWatched
    PanicNeedsReAdd
PROPERTIES
    TableSpec
CHECK_DEADLOCK FALSE
