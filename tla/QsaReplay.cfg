CONSTANTS
  Lengths <- MCLengths
  MaxAhead = 2
  NumRequests = 2
  Ratio = 2
  Stride = 2
  DraftTokens = 2
  Modes = {"verify", "draft_extend"}
  MaxPadding = 1
  MaxLength = 5
  BatchSize = 2
SPECIFICATION ReplaySpec
INVARIANTS ReplayTypeOK ReplaySeesItsOwnLengths RowsFollowTheBatch EagerMirrorsGraph
