SPECIFICATION Spec
CONSTANTS
  Invocations <- MCInvocations
  defaultLockTimeout = 5
  cliLockTimeout = 300
  defaultLockID = 42
  maxIdentifierBytes = 3
  maxSlugLength = 3
  String <- MCString
  None = None
INVARIANTS
  DestructionIsAskedFor LockIsTheOneSaid OnlyMistakesAreRefused
  ConnectionIsTheOneGiven TableIsTheOneNamed SlugIsStable
CHECK_DEADLOCK FALSE
