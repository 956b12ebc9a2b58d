CONSTANTS
  r1 = r1
  r2 = r2
  j1 = j1
  Runners <- TwoRunners
  Jobs <- OneJob
  Halts <- Gap
  Limit = 2
  MaxAttempts = 2
  Horizon = 3
  MaxFaults = 1
SPECIFICATION FairSpec
INVARIANTS
  NothingSkipped
  CountIsExact
  CompletesWholeRange
PROPERTIES
  RegressNeedsTwoRuns
  RunsReturn
