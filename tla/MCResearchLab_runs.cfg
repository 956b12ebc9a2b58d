CONSTANTS
  Natives = {"sma"}
  Templates <- Catalog
  Intervals = {"1m", "1h"}
  Periods = {9, 50}
  Cooldowns = {1, 3}
  Opening <- Mount
  MaxDeeds = 5
SPECIFICATION FairSpec
INVARIANTS
  ResultsOfTheirClick
  BlockedNeverRuns
  
  ShortingHasATemplate
PROPERTY
  SimulationsEnd
CHECK_DEADLOCK FALSE
