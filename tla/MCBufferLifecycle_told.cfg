CONSTANTS
    Buffer = {b1}
    Keeper = {k1, k2}
    None = None
    RemainOnExit = {}
    Faults = {"crash"}
SPECIFICATION Spec
SYMMETRY KeeperSymmetry
INVARIANT ToldNeverNeeded
CHECK_DEADLOCK FALSE
