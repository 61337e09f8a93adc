SPECIFICATION Spec
INVARIANTS TypeOK MpiFollowsBackend DevicesSupported
PROPERTY OnlySetupMismatches
CONSTANTS
  Enabled = {"MPI", "LCI2", "GEX"}
  CustomTables = {"custom", "other"}
  MaxManagers = 2
  MaxDevices = 3
  NULL = NULL
CHECK_DEADLOCK FALSE
