SPECIFICATION Spec
CONSTANT Scripts <- MCScripts
INVARIANTS CutsWhereStatementsEnd NoSQLIsDropped
CHECK_DEADLOCK FALSE
