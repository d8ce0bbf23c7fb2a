CONSTANTS
  a = a
  b = b
  Eos = eos
  eos = eos
  s1 = s1
  s2 = s2
  s3 = s3
  s4 = s4
  s5 = s5
  DummySlot = DummySlot
  NoSlot = NoSlot
  Request = {0, 1}
  Slot <- FiveSlots
  Token <- Vocabulary
  Context = 2
  Kernel = 2
  Zero = Zero
  Interval = 2
  DraftTokens = 2
  Servers = {TRUE, FALSE}
  MaxPadding = 1
  Stream <- TwoStreams
SPECIFICATION Spec
SYMMETRY SlotSymmetry
INVARIANTS TypeOK HistoryIsOwnTail SnapshotIsBoundary TreeServesTails StepsAreTails
