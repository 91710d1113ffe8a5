CONSTANTS
    Buffer = {b1}
    Keeper = {k1, k2}
    None = None
    RemainOnExit = {}
    Faults = {"crash", "pipe"}
SPECIFICATION Spec
SYMMETRY KeeperSymmetry
INVARIANT LiveKeeperTakenUp
CHECK_DEADLOCK FALSE
