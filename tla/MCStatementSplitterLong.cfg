SPECIFICATION Spec
CONSTANT Scripts <- LongScripts
INVARIANTS NoSQLIsDropped
CHECK_DEADLOCK FALSE
