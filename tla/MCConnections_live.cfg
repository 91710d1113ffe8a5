\* A queue of one, clients that read, no two that detach each other.
SPECIFICATION Spec
CONSTANTS
  c1 = c1  c2 = c2
  Conn = {c1, c2}
  Session = {s1}
  Buffer = {b1}
  All = All
  None = None
  Capacity = 1
  MaxRequests = 1
  Asks = {"subscribe", "kill", "detach", "output"}
  Detachers <- OneWay
  Stallers = {}
PROPERTIES RequestsEnd StopCompletes
CHECK_DEADLOCK FALSE
