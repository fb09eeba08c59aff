CONSTANTS
  a = a
  b = b
  Peers = {a, b}
  Messages <- OneMessage
  Extended = {}
  TTL = 1
  MaxNow = 1
  Skew = 0
  MaxFaults = 1
  MaxLate = 1
  MaxBlocks <- RecipientBlocks
  MaxPending = 4
  MaxUnapplied = 4
  MaxInbox = 4
SPECIFICATION Spec
INVARIANTS
  BlocksSynchronised
