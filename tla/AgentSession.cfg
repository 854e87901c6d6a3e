\* An agent whose network and timers fail it three times.
SPECIFICATION FairSpec
CONSTANTS
    c1 = c1  c2 = c2
    Conns = {c1, c2}
    NoConn = NoConn
    MaxFaults = 3
    MaxUnread = 2
INVARIANTS
    TypeOK
    OkMeansLoggedIn
    AbandonedIsBroken
PROPERTIES
    Recovers
\* Run returns when its first dial or login fails.
CHECK_DEADLOCK FALSE
