CONSTANTS
    Buffer = {b1}
    Keeper = {k1, k2}
    None = None
    RemainOnExit = {}
    Faults = {"crash", "keeper_dies", "save_fails", "sync_fails"}
SPECIFICATION Spec
SYMMETRY KeeperSymmetry
INVARIANT ToldNotNeeded
PROPERTY SavedExitIsFinal
CHECK_DEADLOCK FALSE
