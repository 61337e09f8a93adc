SPECIFICATION FairSpec
INVARIANTS TypeOK PutExactlyOnce PutAlwaysPosted PendingBound LocksExact
PROPERTIES RbufStable ContractSpec AllPutsArrive AllComplete
CONSTANTS
  t1 = t1
  t2 = t2
  NULL = NULL
  Threads = {t1, t2}
  Procs <- SelfProcs
  ThreadProc <- SelfThreadProc
  DeviceIds <- OneDevice
  Comps <- SelfComps
  Handlers <- SelfHandlers
  CompProc <- SelfCompProc
  PutComp <- CqPutComp
  Ops <- DeviceOps
  Programs <- DevicePrograms
  PutTag <- MCPutTag
  g_pending_msg_max = 1
  g_num_comp_managers = 0
  eager_limit = 1
