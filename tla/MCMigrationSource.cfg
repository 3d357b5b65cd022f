SPECIFICATION Spec
CONSTANTS
  Directories <- MCDirectories
  Fold <- NameFold
INVARIANTS NoSqlFileIsSilent DirectivesAreInForce LoadIsExact
CHECK_DEADLOCK FALSE
