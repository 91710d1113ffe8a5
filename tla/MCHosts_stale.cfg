CONSTANTS
    Buffer = {b1}
    h1 = h1
    Host = {h1}
    None = None
    HostOf <- OneHost
    MaxLosses = 2
    MaxFailures = 0
SPECIFICATION Spec
INVARIANT RunsNotInterrupted
CHECK_DEADLOCK FALSE
