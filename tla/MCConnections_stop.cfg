\* A client that stops reading while its response waits for room.
SPECIFICATION Spec
CONSTANTS
  c1 = c1  c2 = c2
  Conn = {c1, c2}
  Session = {s1}
  Buffer = {b1}
  All = All
  None = None
  Capacity = 1
  MaxRequests = 1
  Asks = {"subscribe", "output", "stop", "change"}
  Detachers <- NoDetach
  Stallers = {c1}
PROPERTY StopCompletes
CHECK_DEADLOCK FALSE
