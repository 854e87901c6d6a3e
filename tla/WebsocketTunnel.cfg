\* One request, three messages either way: enough to fill the tunnel and the
\* hands at both its ends, and have another one wait.
SPECIFICATION FairSpec
CONSTANTS
    b1 = b1  b2 = b2  b3 = b3  r1 = r1  r2 = r2  r3 = r3
    FromBrowser <- MCFromBrowser
    FromRemote <- MCFromRemote
    Window = 2
INVARIANTS
    TypeOK
    ListenerMissesNothing
PROPERTIES
    DuplexSpec
    BrowserGoneEndsRequest
    RemoteClosedEndsAll
    LoginEnds
\* A tunnel ends.
CHECK_DEADLOCK FALSE
