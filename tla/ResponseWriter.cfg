\* The smallest receive limit that frames fit in: growBuf may refuse a read.
SPECIFICATION Spec
CONSTANTS
    ResponseSizeLimit = 4
    ResponseReadSize = 2
    MaxReceiveSize = 7
    PoolCaps <- Caps
    MaxWrite = 2
    MaxBody = 12
    MaxFields = 1
INVARIANTS
    TypeOK
    BytesConserved
    RoomIsThere
    FramesFit
PROPERTIES
    NeverSpins
CHECK_DEADLOCK FALSE
