CONSTANTS
    Buffer = {b1}
    h1 = h1
    Host = {h1}
    None = None
    HostOf <- OneHost
    MaxLosses = 1
    MaxFailures = 0
SPECIFICATION FairSpec
PROPERTY StrandedIsReached
CHECK_DEADLOCK FALSE
