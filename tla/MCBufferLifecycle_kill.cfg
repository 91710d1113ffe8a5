\* Outside the runs: TLC reports that KillEndsAll does not hold.
CONSTANTS
    Buffer = {b1}
    Keeper = {k1}
    None = None
    RemainOnExit = {}
    Faults = {"kill_server"}
SPECIFICATION Spec
INVARIANT KillEndsAll
CHECK_DEADLOCK FALSE
