SPECIFICATION FairSpec
CONSTANTS
    Callers = {c1, c2}
    NoCaller = NoCaller
    MaxRequests = 2
    MaxFetches = 1
INVARIANTS
    TypeOK
    OneLiveRequest
    CursorKept
    LateByOneAtMost
    HeartbeatIffNeeded
PROPERTIES
    DisconnectIsFinal
    ServesStreams
    WaitersServed
    ClosedEndsHeartbeat
CHECK_DEADLOCK FALSE
