SPECIFICATION Spec
CONSTANTS
  Runners = {r1, r2}
  Ids <- MCIds
  Calls <- AllCalls
  Legacies <- MCLegacies
  MayCrash = TRUE
  None = None
SYMMETRY Symmetry
INVARIANTS TypeOK LedgerTruth SuccessConverges ResultIsFact DownTakesTheTail
PROPERTIES FailedRowFreezes IrreversibleStays RollbackLatestFirst InOrderUnlessAllowed ImplementsLedger
