SPECIFICATION FairSpec
INVARIANTS TypeOK ContextsExact
PROPERTIES ContractSpec AllComplete
CONSTANTS
  t1 = t1
  t2 = t2
  t3 = t3
  NULL = NULL
  Threads = {t1, t2, t3}
  Procs <- LciProcs
  ThreadProc <- LciThreadProc
  DeviceIds = {0, 1}
  Comps <- LciComps
  Handlers = {"handler0"}
  CompProc <- LciCompProc
  PutComp <- LciPutComp
  Ops <- LciOps
  PutTag = 0
  g_pending_msg_max = 0
  g_num_comp_managers = 0
  Libs = {"LCI", "LCI2"}
  Programs <- LciPrograms
  LCI_MEDIUM_SIZE = 2
  Garbage <- MCGarbage
CHECK_DEADLOCK FALSE
