\* Outside the runs: the inductive invariant the proofs rest on, with crashes,
\* stops and restarts.
CONSTANTS
    Buffer = {b1}
    Keeper = {k1, k2}
    None = None
    RemainOnExit = {}
    Faults = {"crash", "stop", "kill_server", "save_fails", "start_fails"}
SPECIFICATION Spec
SYMMETRY KeeperSymmetry
INVARIANT IInv
CHECK_DEADLOCK FALSE
