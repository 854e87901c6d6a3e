\* What moves while the agent does not reconnect; the agent and the
\* browsers may stop at any point.
SPECIFICATION FairSpec
CONSTANTS
    r1 = r1  r2 = r2
    Reqs = {r1, r2}
    MaxSessions = 1
    MaxFrames = 2
PROPERTIES
    FramesDrain
    RequestTerminates
CHECK_DEADLOCK FALSE
