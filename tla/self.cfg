SPECIFICATION Spec
INVARIANTS ExactlyOnce PendingExact LocksExact ReportsTrue
PROPERTY ContractSpec
SYMMETRY SelfSymmetry
CONSTANTS
  t1 = t1
  t2 = t2
  NULL = NULL
  Threads = {t1, t2}
  Procs <- SelfProcs
  ThreadProc <- SelfThreadProc
  DeviceIds <- TwoDevices
  Comps <- SelfComps
  Handlers <- SelfHandlers
  CompProc <- SelfCompProc
  PutComp <- MixedPutComp
  Ops <- SelfOps
  Programs <- SelfPrograms
  PutTag <- MCPutTag
  g_pending_msg_max = 1
  g_num_comp_managers = 1
  eager_limit = 0
