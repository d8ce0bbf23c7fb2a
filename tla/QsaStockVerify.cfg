CONSTANTS
  a = a
  b = b
  Token = {a, b}
  NumRequestSlots = 2
  NumPages = 3
  PageSize = 4
  Ratio = 4
  RingWindow = 0
  DraftTokens = 4
  Stream <- VerifyStreams
SPECIFICATION Spec
INVARIANTS PendingKeptBetweenForwards
