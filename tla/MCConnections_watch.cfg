\* A watching client is detached by another.
SPECIFICATION Spec
CONSTANTS
  c1 = c1  c2 = c2
  Conn = {c1, c2}
  Session = {s1}
  Buffer = {b1}
  All = All
  None = None
  Capacity = 2
  MaxRequests = 1
  Asks = {"watch", "detach"}
  Detachers <- OneWay
  Stallers = {}
INVARIANT WatchedIsWatched
CHECK_DEADLOCK FALSE
