SPECIFICATION LateSpec
CONSTANTS
  Runners = {r1, r2}
  Ids <- MCIds
  Calls <- MCCalls
  Legacies <- NoLegacy
  MayCrash = TRUE
  None = None
  MaxLate = 2
INVARIANTS TruthBesideLateWork LateStatementIsFenced
PROPERTIES CallsEnd
