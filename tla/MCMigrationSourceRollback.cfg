SPECIFICATION Spec
CONSTANTS
  Directories <- DownDirectories
  Fold <- NameFold
INVARIANTS RollbackIsWritten
CHECK_DEADLOCK FALSE
