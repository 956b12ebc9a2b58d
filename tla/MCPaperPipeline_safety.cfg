CONSTANTS
  w1 = w1
  w2 = w2
  c1 = c1
  c2 = c2
  Workers <- TwoWorkers
  Candles <- TwoCandles
  Kinds <- ClosedOnly
  Lookback = 2
  Strays <- Nobody
  BatchSize = 2
  MaxEvents = 3
  MaxFaults = 2
SPECIFICATION Spec
SYMMETRY Interchangeable
INVARIANTS
  ExclusiveRun
  EffectsInOrder
  CompletedRunsAreWhole
  StuckRunsNeedFaults
  RepeatNeedsFault
  AckedWasBegun
PROPERTIES
  KeepsRunLog
