CONSTANTS
    k1 = k1
    k2 = k2
    Senders <- MCSenders
    None = None
    Pieces = 2
    Window = 2
    Ahead = 1
SPECIFICATION FairSpec
INVARIANTS
    TypeOK
    FramesAreWhole
    IdleIsUnarmed
    KeepsItsPlace
PROPERTIES
    WriteEndsByDeadline
    SendEnds
CHECK_DEADLOCK FALSE
