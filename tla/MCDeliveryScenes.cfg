CONSTANTS
  a = a
  b = b
  Peers = {a, b}
  Messages <- OneMessage
  Extended = {b}
  TTL = 2
  MaxNow = 4
  Skew = 0
  MaxFaults = 2
  MaxLate = 1
  MaxBlocks <- EitherBlocks
  MaxPending = 4
  MaxUnapplied = 4
  MaxInbox = 4
SPECIFICATION DeliverySpec
INVARIANTS
  SealedOnce
  Custody
  DroppedOnlyWhenCommitted
  ReceiptOnItsWay
  BlocksSynchronised
PROPERTIES
  KeepsPromise
