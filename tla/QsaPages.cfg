CONSTANTS
  a = a
  b = b
  Token = {a, b}
  NumRequestSlots = 3
  NumPages = 2
  PageSize = 4
  Ratio = 2
  RingWindow = 0
  DraftTokens = 0
  Stream <- MidStreams
SPECIFICATION Spec
INVARIANTS ReadersMeetWriter TreeServesGroups ChunksStartOnGroups IInv
