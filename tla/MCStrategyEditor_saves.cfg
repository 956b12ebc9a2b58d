CONSTANTS
  good = good
  wrong = wrong
  lines = lines
  Spellings <- Typed
  Trim <- Trimmed
  Codes <- Scripts
  Broken = {wrong}
  Templates <- Catalog
  Reference = lines
  Opening <- Mount
  Fresh <- New
  MaxWrites = 2
  MaxDeeds = 4
SPECIFICATION FairSpec
INVARIANTS
  ReferenceStaysOut
  SuccessIsOfThisScript
  ListKeepsUp
PROPERTY
  CompilingEnds
CHECK_DEADLOCK FALSE
