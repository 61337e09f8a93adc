SPECIFICATION Spec
INVARIANTS TypeOK BlocksTile
CONSTANTS
  int_max = 7
  MaxSize = 60
CHECK_DEADLOCK FALSE
