\* The agent reconnects while it still answers an old request.
SPECIFICATION Spec
CONSTANTS
    r1 = r1  r2 = r2
    Reqs = {r1, r2}
    MaxSessions = 2
    MaxFrames = 2
INVARIANTS
    ResponseToOwner
CHECK_DEADLOCK FALSE
