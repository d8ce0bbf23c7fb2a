CONSTANTS
  a = a
  b = b
  Token = {a, b}
  NumRequestSlots = 3
  NumPages = 2
  PageSize = 2
  Ratio = 2
  RingWindow = 4
  DraftTokens = 2
  Stream <- TwoStreams
SPECIFICATION Spec
INVARIANTS PendingRing ReadersSeeOwnGroups SharedPagesCommitted IInv
PROPERTIES ImplementsPromise
