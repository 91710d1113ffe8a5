\* Outside the runs: TLC reports that NoKeeperLeftBehind does not hold.
CONSTANTS
    Buffer = {b1}
    Keeper = {k1}
    None = None
    RemainOnExit = {}
    Faults = {"start_fails"}
SPECIFICATION FairSpec
PROPERTY NoKeeperLeftBehind
CHECK_DEADLOCK FALSE
