\* Two requests, and an agent that may reconnect once.  One response may have
\* three pieces, the other up to two.
SPECIFICATION LossSpec
CONSTANTS
    r1 = r1  r2 = r2
    Reqs = {r1, r2}
    MaxSessions = 2
    MaxFrames = 3
SYMMETRY Symmetry
CONSTRAINT OneLong
INVARIANTS
    TypeOK
    TableMatchesWaiters
    StraysAreFromOldSessions
    
PROPERTIES
    StreamSpec
CHECK_DEADLOCK FALSE
