SPECIFICATION Spec
CONSTANTS
  Directories <- BothDirectories
  Fold <- NameFold
INVARIANTS IrreversibleStandsAlone
CHECK_DEADLOCK FALSE
