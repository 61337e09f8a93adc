SPECIFICATION Spec
INVARIANT LocksMatchTable
CONSTANTS
  Enabled = {"MPI"}
  CustomTables = {"custom"}
  MaxManagers = 2
  MaxDevices = 3
  NULL = NULL
CHECK_DEADLOCK FALSE
