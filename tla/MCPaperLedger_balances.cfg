CONSTANTS
  w1 = w1
  m1 = m1
  e1 = e1
  BTC = BTC
  Symbol = BTC
  Strength = 2
  Workers <- OneWorker
  Cycles <- OneCycle
  CliRuns <- OneCli
  Engine <- PaperConfig
  Risk <- NoLimits
  Prices <- TwoPrices
  Opening <- Stocked
  Resets <- Bare
  Idleness <- Always
  MaxRuns = 2
  MaxDays = 1
  MaxResets = 1
  MaxFaults = 1
SPECIFICATION Spec
INVARIANTS
  TypeOK
  BalancesNeverNegative
  BalancesAgreeWithTrades
