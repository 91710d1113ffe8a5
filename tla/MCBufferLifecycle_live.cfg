CONSTANTS
    Buffer = {b1}
    Keeper = {k1}
    None = None
    RemainOnExit = {}
    Faults = {"start_fails", "keeper_dies"}
SPECIFICATION FairSpec
PROPERTY RemovedKeeperTold
CHECK_DEADLOCK FALSE
