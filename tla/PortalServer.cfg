CONSTANTS
    a = a
    b = b
    Hosts <- MCHosts
    Web = Web
    Nobody = Nobody
    Unknown = Unknown
    NoHost = NoHost
    MaxPortalDeep = 1
    Requests <- MCRequests
SPECIFICATION FairSpec
INVARIANTS
    TypeOK
    ChainIsBounded
    OnlyFaultsPanic
PROPERTIES
    CircleUnwinds
    SignalEnds
CHECK_DEADLOCK FALSE
