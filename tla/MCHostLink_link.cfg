\* Two buffers on one host, a connection that may be lost, queues of one.
SPECIFICATION Spec
CONSTANTS
  Task = {t1, t2}
  MaxInFlight = 2
  CommandRoom = 1
  OutRoom = 1
  QueueRoom = 1
  InRoom = 1
  MaxLinks = 2
  MaxChanges = 2
  MaxUnsaid = 1
  MaxToggles = 2
  MaxFaults = 1
SYMMETRY TaskSymmetry
INVARIANTS ChangeIsReported HostHearsGraphics NeverBothWait
PROPERTY OpenNotReplaced
CHECK_DEADLOCK FALSE
