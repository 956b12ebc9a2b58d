CONSTANTS
  w1 = w1
  m1 = m1
  e1 = e1
  BTC = BTC
  Symbol = BTC
  Strength = 2
  Workers <- OneWorker
  Cycles <- OneCycle
  CliRuns <- None
  Engine <- HalfFills
  Risk <- OneTradeADay
  Prices <- OnePrice
  Opening <- Stocked
  Resets <- Bare
  Idleness <- Sometimes
  MaxRuns = 3
  MaxDays = 2
  MaxResets = 0
  MaxFaults = 1
SPECIFICATION Spec
INVARIANTS
  DailyTradesBounded
  KillSwitchDrains
  ApprovedOrdersFill
  OrdersFollowApproval
