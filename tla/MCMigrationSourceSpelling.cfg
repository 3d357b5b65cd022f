SPECIFICATION Spec
CONSTANTS
  Directories <- SpeltDirectories
  Fold <- NameFold
INVARIANTS MisspeltIsRejected
CHECK_DEADLOCK FALSE
