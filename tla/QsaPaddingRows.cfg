CONSTANTS
  NumRequests = 2
  Ratio = 2
  Stride = 4
  DraftTokens = 2
  Modes = {"draft_extend"}
  MaxPadding = 0
  MaxLength = 6
SPECIFICATION Spec
INVARIANTS PendingKeysSurvive
