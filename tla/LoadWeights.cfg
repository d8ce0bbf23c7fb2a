CONSTANTS
  BitXor <- XorBits
  Width = 12
  Gamma = 2531
  M1 = 1381
  M2 = 2731
  Shifts <- SmallShifts
  Seed = 34
  Prime1 = 107
  Salts <- TwoSalts
  HeadSalt = 353
  Mulc = 1777
  Token = {0, 1, 2}
  Eos = 2
  PleLayer = {0, 1}
  NgramSize = 3
  HeadsPerNgram = 2
  VocabBase = 3
  SplitParts = 4
  Ratio = 4
  RowValues <- QuarterRow
  Server <- Servers
  Expert = {0, 1}
  NoLayer = NoLayer
  Batches <- SomeBatches
SPECIFICATION Spec
INVARIANTS TypeOK LoadedIsWhole TokensGetTheirRows SlotsHoldTheRow
CHECK_DEADLOCK FALSE
