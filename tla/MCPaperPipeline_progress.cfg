CONSTANTS
  w1 = w1
  w2 = w2
  c1 = c1
  c2 = c2
  Workers <- TwoWorkers
  Candles <- OneCandle
  Kinds <- EventKinds
  Lookback = 2
  Strays <- Second
  BatchSize = 2
  MaxEvents = 2
  MaxFaults = 2
SPECIFICATION FairSpec
PROPERTIES
  EveryCandleCompletes
  WorkersDrainTheStream
