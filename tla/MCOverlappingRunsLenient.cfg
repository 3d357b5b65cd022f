SPECIFICATION OverlapSpec
CONSTANTS
  Runners = {r1, r2}
  Ids <- MCIds
  Calls <- UpAndDown
  Legacies <- NoLegacy
  MayCrash = TRUE
  Strict = {}
  None = None
SYMMETRY Symmetry
INVARIANTS LedgerTruth
