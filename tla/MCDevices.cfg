CONSTANTS
  phone1 = phone1
  phone2 = phone2
  phone3 = phone3
  text1 = text1
  text2 = text2
  file1 = file1
  file2 = file2
  Phones = {phone1, phone2, phone3}
  Owner = phone1
  Msgs = {text1, text2}
  Author <- Authors
  MaxOps = 4
  Blobs = {file1, file2}
  Parts = {0, 1, 2}
  Hosts = {"app", "intent"}
  Slots = 1
  MaxMediaFaults = 2
  Capacity <- Capacities
  Refill <- Refills
  BulkNeeds = 2
  Burst = 2
  Pause = 2
  LongestWait = 2
  Window = 2
  MaxRequests = 8
SPECIFICATION DevicesSpec
INVARIANTS
  CopiesAgree
  ReceiptsAreTrue
  OnlyPartedAreStuck
  FileSomewhere
  RequestsArePaced
PROPERTIES
  DeletionIsFinal
CHECK_DEADLOCK FALSE
