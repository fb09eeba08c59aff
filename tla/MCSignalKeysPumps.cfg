CONSTANTS
  a = a
  b = b
  c = c
  Peers = {a, b, c}
  Requests = {1, 2, 3}
  Keepers = {c}
  Rows <- OneSession
  Hosts = {"app", "extension"}
  LeaseTTL = 1
  MaxPool = 4
  MaxLeases = 3
  First = 2
  Low = 2
  Full = 3
  MaxLocal = 4
  Batch = 2
  MaxNow = 0
  MaxFaults = 1
  MaxLate = 1
  MaxUnlinks = 0
SPECIFICATION Spec
INVARIANTS
  PublicationsSucceed
CHECK_DEADLOCK FALSE
