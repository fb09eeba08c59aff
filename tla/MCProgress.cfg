CONSTANTS
  Blobs = {b1, b2}
  Parts = {0, 1, 2}
  Hosts = {"app"}
  Slots = 1
  MaxMediaFaults = 1
  Capacity <- Capacities
  Refill <- Refills
  BulkNeeds = 2
  Burst = 2
  Pause = 2
  LongestWait = 2
  Window = 2
  MaxRequests = 5
  Pushes = {1, 2}
  CallPushes = {1}
  Page = 1
  Batch = 1
  RingTicks = 1
  LongestBackoff = 1
  Registrations = 1
  MaxDeaths = 0
SPECIFICATION ProgressSpec
PROPERTIES
  FilesArrive
  QueueDrains
  OwedPushIsMade
CHECK_DEADLOCK FALSE
