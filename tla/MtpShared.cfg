CONSTANTS
  NumRequests = 2
  DraftTokens = 3
  DraftSteps = 2
  FrontTokens = 1
  TailWidth = 2
  MaxPadding = 1
  MaxLength = 7
SPECIFICATION Spec
INVARIANTS TypeOK SeedIsCurrent DraftSeesEveryPosition
