SPECIFICATION FairSpec
INVARIANTS TypeOK HandlerFindsDevice HandlerKeepsDevice
PROPERTIES ContractSpec AllExit
CONSTANTS
  t1 = t1
  t2 = t2
  t3 = t3
  NULL = NULL
  Threads = {t1, t2, t3}
  Procs <- GexProcs
  ThreadProc <- GexThreadProc
  DeviceIds <- GexDeviceIds
  Comps <- GexComps
  Handlers <- GexHandlers
  CompProc <- GexCompProc
  PutComp <- GexPutComp
  Ops <- GexOps
  PutTag = 9
  g_pending_msg_max = 0
  g_num_comp_managers = 0
CHECK_DEADLOCK FALSE
