CONSTANTS
  Ratio = 2
  PageSize = 4
  MaxRequests = 3
  MaxPrefix = 4
  MaxExtend = 3
  MaxTail = 1
SPECIFICATION BatchSpec
INVARIANTS PlanTypeOK PlanCoversCompletedGroups MembersAreTheGroup RangeIsOwnCausalGroups GraphWritesWhatEagerWrites
CHECK_DEADLOCK FALSE
