CONSTANTS
  Queries <- Typed
  Listing <- Found
  MaxOrders = 2
  MaxOrphans = 1
SPECIFICATION Spec
INVARIANTS
  StaleOnlyAtTheTop
PROPERTIES
  ArmedNeedsOlderHold
  OrdersNeedAPressedButton
