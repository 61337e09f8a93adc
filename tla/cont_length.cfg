SPECIFICATION XSpec
INVARIANT ReportsTrue
CONSTANTS
  t1 = t1
  t2 = t2
  NULL = NULL
  Threads = {t1, t2}
  Procs = {0}
  ThreadProc <- MCThreadProc
  DeviceIds = {0}
  Comps <- MCComps
  Handlers <- MCHandlers
  CompProc <- MCCompProc
  PutComp <- MCPutComp
  Ops <- ShortOps
  PutTag <- MCPutTag
  g_pending_msg_max = 1
  g_num_comp_managers = 0
  eager_limit = 0
  Configs <- DefaultConfig
  Programs <- ShortPrograms
