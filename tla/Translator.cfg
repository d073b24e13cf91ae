SPECIFICATION Spec
CONSTANT
  Length = 6
  Tables <- MCTables
INVARIANTS OneTerminatorIfClean OwnFlagIfClean
CHECK_DEADLOCK FALSE
