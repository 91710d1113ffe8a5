\* One connection: what is asked of it ends.
SPECIFICATION FairSpec
CONSTANTS
  Task = {t1, t2}
  MaxInFlight = 2
  CommandRoom = 1
  OutRoom = 1
  QueueRoom = 1
  InRoom = 1
  MaxLinks = 1
  MaxChanges = 1
  MaxUnsaid = 1
  MaxToggles = 1
  MaxFaults = 0

PROPERTIES AskedEnds
CHECK_DEADLOCK FALSE
