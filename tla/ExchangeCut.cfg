\* One request whose response may be cut short.
SPECIFICATION Spec
CONSTANTS
    r1 = r1  r2 = r2
    Reqs = {r1}
    MaxSessions = 1
    MaxFrames = 3
INVARIANTS
    OkMeansComplete
CHECK_DEADLOCK FALSE
