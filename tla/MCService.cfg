CONSTANTS
  a = a
  b = b
  Peers = {a, b}
  TTL = 2
  Skew = 1
  MaxInbox = 1
  MaxNow = 5
  Envelopes <- MCEnvelopes
  Keys = {a, b}
  Numbers = {1, 2}
  NoKey = NoKey
  MaxChecks = 1
  Quota = 2
  MaxTexts = 3
  MaxRestarts = 1
  Pushes = {1, 2}
  CallPushes = {1}
  Page = 2
  Batch = 1
  RingTicks = 2
  LongestBackoff = 2
  Registrations = 2
  MaxDeaths = 1
SPECIFICATION ServiceSpec
INVARIANTS
  NothingComesBack
  SeveredPairHoldsNothing
  TextsWithinQuota
  NothingOutlivesUnlink
  PushIsOwed
PROPERTIES
  RetryKeepsReceipt
  BindingIsEarned
  PushesAreCurrent
CHECK_DEADLOCK FALSE
