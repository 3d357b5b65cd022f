SPECIFICATION OverlapSpec
CONSTANTS
  Runners = {r1, r2}
  Ids <- MCIds
  Calls <- MCCalls
  Legacies <- NoLegacy
  MayCrash = TRUE
  Strict <- MCStrict
  None = None
SYMMETRY Symmetry
INVARIANTS TruthWithoutLock
PROPERTIES ImplementsMigrator
