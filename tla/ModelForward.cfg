CONSTANTS
  Server <- Servers
  Plan <- ThreeLayers
  MaxAhead = 1
  MaxFaults = 1
SPECIFICATION Spec
INVARIANTS TypeOK ReadsAreOwn RanksMeet
PROPERTIES ForwardsComplete
CHECK_DEADLOCK FALSE
