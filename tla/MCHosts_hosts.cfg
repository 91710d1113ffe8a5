CONSTANTS
    Buffer = {b1}
    h1 = h1
    Host = {h1}
    None = None
    HostOf <- OneHost
    MaxLosses = 1
    MaxFailures = 1
SPECIFICATION FairSpec
INVARIANT WaitingIsReached
INVARIANT PumpIsHeld
INVARIANT RemovedIsReleased
PROPERTY WaitingEnds
CHECK_DEADLOCK FALSE
