CONSTANTS
  a = a
  b = b
  c = c
  Peers = {a, b, c}
  Requests = {1, 2, 3}
  Keepers = {c}
  Rows <- TwoRows
  Hosts = {"app"}
  LeaseTTL = 1
  MaxPool = 4
  MaxLeases = 3
  First = 2
  Low = 2
  Full = 3
  MaxLocal = 4
  Batch = 2
  MaxNow = 1
  MaxFaults = 1
  MaxLate = 1
  MaxUnlinks = 1
SPECIFICATION FairSpec
INVARIANTS
  OneTime
  FirstMessageOpens
PROPERTIES
  Restocked
CHECK_DEADLOCK FALSE
