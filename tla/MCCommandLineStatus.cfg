SPECIFICATION Spec
CONSTANTS
  Invocations <- StatusInvocations
  defaultLockTimeout = 5
  cliLockTimeout = 300
  defaultLockID = 42
  maxIdentifierBytes = 3
  maxSlugLength = 3
  String <- MCString
  None = None
INVARIANT StatusShowsTheScript
CHECK_DEADLOCK FALSE
