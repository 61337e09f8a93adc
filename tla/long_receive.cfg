SPECIFICATION Spec
INVARIANT LengthExact
CONSTANTS
  int_max = 7
  MaxSize = 60
CHECK_DEADLOCK FALSE
