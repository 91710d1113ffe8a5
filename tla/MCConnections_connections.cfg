\* Every kind of request, each client one; a client may stop reading.
SPECIFICATION Spec
CONSTANTS
  c1 = c1  c2 = c2
  Conn = {c1, c2}
  Session = {s1}
  Buffer = {b1}
  All = All
  None = None
  Capacity = 2
  MaxRequests = 1
  Asks = {"subscribe", "change", "close", "switch", "display", "graphics", "watch", "kill", "detach", "stop", "output"}
  Detachers <- OneWay
  Stallers = {c2}
INVARIANTS TypeOK ShownSessionExists NothingLeft GraphicsHeard
PROPERTY FeedKept
CHECK_DEADLOCK FALSE
