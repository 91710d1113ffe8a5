\* A buffer that remains on exit, restored, restarted, stopped and killed.
SPECIFICATION Spec
CONSTANTS
  Buffer = {b1}
  Keeper = {k1, k2}
  None = None
  RemainOnExit = {b1}
  Faults = {"start_fails", "pipe", "stop", "kill_server"}
SYMMETRY KeeperSymmetry
INVARIANTS TypeOK RunningHasRuntime
CHECK_DEADLOCK FALSE
