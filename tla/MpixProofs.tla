----------------------------- MODULE MpixProofs -----------------------------
(***************************************************************************)
(* The MPI backend with the MPIX extensions: streams and continuations.    *)
(* Every step of it is a step of BackendMpi or one of the few that         *)
(* manager_cont_t adds, so what LockProofs and ReportProofs show of the    *)
(* former is kept, and only the latter remain.                             *)
(***************************************************************************)
EXTENDS BackendMpix, ReportProofs

(* The steps of manager_cont_t: add_entry, do_progress and complete_cb.    *)
ContStep(t) ==
    \/ AttachCont(t) \/ TryLockCont(t) \/ TestCont(t) \/ StartCont(t) \/ UnlockCont(t)
    \/ CbFetchSub(t) \/ CbSignal(t) \/ \E o \in Ops : RunContinuation(t, o)

(* The calls that go into MPI as they did without streams.                 *)
LEMMA StreamCallIsNext ==
    ASSUME NEW t \in Threads, StreamCall(t)
    PROVE  Next
  <1>1. \/ Post(t) \/ PutStep(t)
        \/ ManagerStep(t) /\ UNCHANGED <<signalVars, todo, put_lock>>
    BY DEF StreamCall, PutStep, ManagerStep
  <1> QED  BY <1>1 DEF Next

(* So are the steps that make no call of MPI.                              *)
LEMMA PlainStepIsNext ==
    ASSUME NEW t \in Threads, PlainStep(t)
    PROVE  Next
  <1>1. \/ FetchAdd(t) \/ PutStep(t)
        \/ ManagerStep(t) /\ UNCHANGED <<signalVars, todo, put_lock>>
        \/ SignalStep(t) /\ UNCHANGED <<mpiVars, managerVars, todo, put_lock>>
    BY DEF PlainStep, PutStep, ManagerStep, SignalStep
  <1> QED  BY <1>1 DEF Next

(* Every step is one of BackendMpi, which leaves the continuations alone,  *)
(* or one of manager_cont_t.                                               *)
LEMMA XSteps ==
    ASSUME [XNext]_xvars
    PROVE  \/ [Next]_vars /\ UNCHANGED <<config, conts, cb, cb_slot>>
           \/ \E t \in Threads : ContStep(t)
  <1>1. ASSUME NEW t \in Threads, XInCall(t)
        PROVE  \/ [Next]_vars /\ UNCHANGED <<config, conts, cb, cb_slot>>
               \/ ContStep(t)
    <2>1. CASE PlainStep(t)
      BY <2>1, PlainStepIsNext DEF PlainStep, mpixVars
    <2>2. CASE StreamCall(t)
      BY <2>2, StreamCallIsNext DEF StreamCall
    <2>3. CASE LeaveMpi(t)
      BY <2>3 DEF LeaveMpi
    <2> QED  BY <1>1, <2>1, <2>2, <2>3 DEF XInCall, ContStep
  <1>2. ASSUME NEW t \in Threads, NEW o \in Ops, XIssue(t, o) PROVE Next /\ UNCHANGED mpixVars
    BY <1>2 DEF XIssue, Next, CallStep
  <1>3. ASSUME NEW t \in Threads, NEW d \in Devices, XProgress(t, d)
        PROVE  Next /\ UNCHANGED mpixVars
    BY <1>3 DEF XProgress, Next
  <1>4. ASSUME NEW t \in Threads, NEW c \in Comps, XPoll(t, c) PROVE Next /\ UNCHANGED mpixVars
    BY <1>4 DEF XPoll, Next, SignalStep
  <1>5. ASSUME MpiStep, UNCHANGED <<frameVars, signalVars, managerVars, todo, put_lock, mpixVars>>
        PROVE  Next /\ UNCHANGED mpixVars
    BY <1>5 DEF Next
  <1>6. CASE XNext
    BY <1>1, <1>2, <1>3, <1>4, <1>5, <1>6 DEF XNext, ContStep, mpixVars
  <1>7. CASE UNCHANGED xvars
    BY <1>7 DEF xvars, mpixVars
  <1> QED  BY <1>6, <1>7

-----------------------------------------------------------------------------
(* The state of streams and continuations.                                 *)
XTypeOK ==
    /\ conts \subseteq Ops
    /\ stream_lock \in [Devices -> Threads \cup {NULL}]
    /\ in_mpi \in [Threads -> Calls \cup {NULL}]
    /\ cb \in [Threads -> Ops \cup {NULL}]
    /\ cb_slot \in [Threads -> BOOLEAN]

(* complete_cb runs in a thread of the operation's process, after MPI has  *)
(* freed the request, and gives a slot back only if one was taken.         *)
CbOf(t) ==
    /\ cb[t] # NULL =>
          /\ cb[t].proc = ThreadProc[t] /\ mpi_req[cb[t]] = "freed"
          /\ IsRecv(cb[t]) => matched[cb[t]] \in Ops
    /\ cb_slot[t] => cb[t] # NULL /\ Counted(cb[t]) /\ g_pending_msg_max > 0

(* The types hold before the first call.                                   *)
LEMMA XTypeInit == XInit => Start /\ XTypeOK /\ \A t \in Threads : CbOf(t)
  BY DEF XInit, Start, XTypeOK, CbOf

(* A call enters the critical section of a stream, or not.                 *)
LEMMA EnterStreamType ==
    ASSUME XTypeOK, NEW t \in Threads, NEW d, EnterStreamCs(t, d)
    PROVE  stream_lock' \in [Devices -> Threads \cup {NULL}]
  BY DEF EnterStreamCs, XTypeOK

(* A thread enters a call of MPI.                                          *)
LEMMA EnterMpiType ==
    ASSUME XTypeOK, NEW t \in Threads, NEW o \in Ops \cup {NULL},
           EnterMpi(t, "call", o) \/ EnterMpi(t, "continue", o) \/ EnterMpi(t, "cont_test", o)
    PROVE  in_mpi' \in [Threads -> Calls \cup {NULL}]
  <1>1. <<"call", o>> \in Calls /\ <<"continue", o>> \in Calls /\ <<"cont_test", o>> \in Calls
    BY DEF Calls
  <1> QED  BY <1>1 DEF EnterMpi, XTypeOK

(* Every step keeps the types of streams and continuations.                *)
LEMMA XTypeNext ==
    ASSUME TypeInv, XTypeOK, [XNext]_xvars
    PROVE  XTypeOK'
  <1>1. ASSUME UNCHANGED mpixVars PROVE XTypeOK'
    BY <1>1 DEF XTypeOK, mpixVars
  <1>2. ASSUME NEW t \in Threads, StreamCall(t) PROVE XTypeOK'
    <2>1. stream_lock' \in [Devices -> Threads \cup {NULL}]
      BY <1>2, EnterStreamType DEF StreamCall
    <2>2. EnterMpi(t, "call", NULL) /\ UNCHANGED <<conts, cb, cb_slot>>
      BY <1>2 DEF StreamCall
    <2> QED  BY <2>1, <2>2, EnterMpiType DEF XTypeOK
  <1>3. ASSUME NEW t \in Threads, AttachCont(t) PROVE XTypeOK'
    <2>1. EnterStreamCs(t, DeviceOf(entry[t])) /\ EnterMpi(t, "continue", entry[t])
      BY <1>3 DEF AttachCont
    <2>2. entry[t] \in Ops
      BY <1>3, FrameFacts DEF AttachCont, TypeInv, WithEntry, PostSteps
    <2> QED  BY <1>3, <2>1, <2>2, EnterStreamType, EnterMpiType DEF XTypeOK, AttachCont
  <1>4. ASSUME NEW t \in Threads, TestCont(t) \/ StartCont(t) PROVE XTypeOK'
    <2>1. EnterMpi(t, "cont_test", NULL) \/ EnterMpi(t, "call", NULL)
      BY <1>4 DEF TestCont, StartCont
    <2>2. UNCHANGED <<stream_lock, conts, cb, cb_slot>>
      BY <1>4 DEF TestCont, StartCont
    <2> QED  BY <2>1, <2>2, EnterMpiType DEF XTypeOK
  <1>5. ASSUME NEW t \in Threads, LeaveMpi(t) PROVE XTypeOK'
    BY <1>5 DEF LeaveMpi, XTypeOK
  <1>6. ASSUME NEW t \in Threads, CbFetchSub(t) \/ CbSignal(t) PROVE XTypeOK'
    BY <1>6 DEF CbFetchSub, CbSignal, XTypeOK
  <1>7. ASSUME NEW t \in Threads, NEW o \in Ops, RunContinuation(t, o) PROVE XTypeOK'
    <2>1. (Counted(o) /\ g_pending_msg_max > 0) \in BOOLEAN
      BY DEF Counted
    <2> QED  BY <1>7, <2>1 DEF RunContinuation, XTypeOK
  <1>8. CASE XNext
    BY <1>1, <1>2, <1>3, <1>4, <1>5, <1>6, <1>7, <1>8
    DEF XNext, XInCall, XIssue, XProgress, XPoll, PlainStep, TryLockCont, UnlockCont
  <1>9. CASE UNCHANGED xvars
    BY <1>1, <1>9 DEF xvars
  <1> QED  BY <1>8, <1>9

-----------------------------------------------------------------------------
(* The steps of manager_cont_t keep the types and the locks.               *)

(* What complete_cb passes on is a well-formed request_t.                  *)
LEMMA UnreadType ==
    ASSUME XTypeOK, NEW t \in Threads, CbOf(t), cb[t] # NULL
    PROVE  /\ cb[t] \in Ops /\ cb[t].comp \in Comps
           /\ UnreadRequest(cb[t]) \in Completion
           /\ Key(UnreadRequest(cb[t])) = <<"operation", cb[t]>>
  <1>1. cb[t] \in Ops /\ (IsRecv(cb[t]) => matched[cb[t]] \in Ops)
    BY DEF XTypeOK, CbOf
  <1>2. UnreadRequest(cb[t]) \in Completion
    BY <1>1, OpsAssumption DEF UnreadRequest, Completion
  <1>3. Key(UnreadRequest(cb[t])) = <<"operation", cb[t]>>
    BY <1>1, OpsAssumption DEF UnreadRequest, Key, OpTypes
  <1> QED  BY <1>1, <1>2, <1>3, OpsAssumption

(* do_progress of manager_cont_t goes on with the manager's lock.          *)
ContGoto(t) ==
    /\ pc[t] \in {"mgr_empty", "cont_test", "cont_start"}
    /\ \E step \in {"cont_test", "cont_start", "cont_unlock"} : Goto(t, step)
    /\ UNCHANGED <<dev, entry, status, buffer>>

(* What each of the steps does to the thread that takes it.                *)
LEMMA ContFrames ==
    ASSUME NEW t \in Threads, ContStep(t)
    PROVE  /\ Return(t) \/ ContGoto(t) \/ UNCHANGED frameVars
           /\ UNCHANGED <<put_req, put_rbuf, net, matched, entries, todo, put_lock>>
  <1> USE DEF mpiVars, managerVars, frameVars
  <1>1. CASE AttachCont(t) \/ UnlockCont(t) \/ TryLockCont(t)
    BY <1>1 DEF AttachCont, UnlockCont, TryLockCont, ContGoto
  <1>2. CASE TestCont(t) \/ StartCont(t)
    BY <1>2 DEF TestCont, StartCont, ContGoto
  <1>3. CASE CbFetchSub(t) \/ CbSignal(t) \/ \E o \in Ops : RunContinuation(t, o)
    BY <1>3 DEF CbFetchSub, CbSignal, RunContinuation, FreeRequest
  <1> QED  BY <1>1, <1>2, <1>3 DEF ContStep

(* They keep the types.                                                    *)
LEMMA ContTypeOK ==
    ASSUME TypeInv, XTypeOK, NEW t \in Threads, CbOf(t), ContStep(t)
    PROVE  TypeOK'
  <1> USE DEF TypeInv, TypeOK
  <1>1. FramesTypeOK'
    <2>1. CASE ContGoto(t)
      BY <2>1 DEF ContGoto, Goto, FramesTypeOK, Steps, ProgressSteps, ManagerSteps, ManagerLocked
    <2> QED  BY <2>1, ContFrames, ReturnType, TypeUnchanged
  <1>2. MpiTypeOK'
    BY DEF ContStep, AttachCont, TryLockCont, TestCont, StartCont, UnlockCont, CbFetchSub, CbSignal,
           RunContinuation, FreeRequest, mpiVars, MpiTypeOK
  <1>3. ManagerTypeOK'
    BY DEF ContStep, AttachCont, TryLockCont, TestCont, StartCont, UnlockCont, CbFetchSub, CbSignal,
           RunContinuation, managerVars, ManagerTypeOK
  <1>4. SignalTypeOK'
    <2>1. CASE CbSignal(t)
      BY <2>1, UnreadType, SignalCompType DEF CbSignal
    <2>2. CASE CbFetchSub(t)
      BY <2>2, ProcsAssumption DEF CbFetchSub, SignalTypeOK
    <2>3. CASE UNCHANGED signalVars
      BY <2>3, TypeUnchanged
    <2> QED  BY <2>1, <2>2, <2>3
             DEF ContStep, AttachCont, TryLockCont, TestCont, StartCont, UnlockCont, RunContinuation
  <1>5. todo' = todo /\ put_lock' = put_lock
    BY ContFrames
  <1> QED  BY <1>1, <1>2, <1>3, <1>4, <1>5

(* They keep the frames.                                                   *)
LEMMA ContFrameOK ==
    ASSUME TypeInv, NEW t \in Threads, ContStep(t)
    PROVE  FrameOK' /\ MpiOK' /\ EntriesOwned'
  <1> USE DEF TypeInv
  <1>1. FrameOK'
    <2>1. CASE Return(t)
      BY <2>1, ContFrames, FrameReturn
    <2>2. CASE ContGoto(t)
      <3>1. /\ pc[t] \in {"mgr_empty", "cont_test", "cont_start"}
            /\ pc'[t] \in {"cont_test", "cont_start", "cont_unlock"}
            /\ \A u \in Threads : u # t => pc'[u] = pc[u]
            /\ dev' = dev /\ entry' = entry /\ status' = status /\ buffer' = buffer
        BY <2>2 DEF ContGoto, Goto, TypeOK, FramesTypeOK
      <3>2. FrameOf(t)'
        BY <3>1 DEF FrameOK, FrameOf, WithEntry, WithStatus, Finished, ProgressSteps, PostSteps,
                    PutSteps, PutLocked, ManagerSteps, ManagerLocked, SignalSteps
      <3>3. ASSUME NEW u \in Threads, u # t PROVE FrameOf(u)'
        BY <3>1, <3>3, ContFrames, FrameOther DEF FrameOK
      <3> QED  BY <3>2, <3>3 DEF FrameOK
    <2>3. CASE UNCHANGED frameVars
      BY <2>3, ContFrames, FrameOther DEF FrameOK, frameVars
    <2> QED  BY <2>1, <2>2, <2>3, ContFrames
  <1>2. MpiOK'
    <2>1. \A o \in Ops : mpi_req'[o] = mpi_req[o] \/ mpi_req'[o] = "freed"
      BY DEF ContStep, AttachCont, TryLockCont, TestCont, StartCont, UnlockCont, CbFetchSub, CbSignal,
             RunContinuation, FreeRequest, mpiVars, TypeOK, MpiTypeOK
    <2> QED  BY <2>1, ContFrames DEF MpiOK
  <1>3. EntriesOwned'
    BY ContFrames DEF EntriesOwned
  <1> QED  BY <1>1, <1>2, <1>3

(* They keep the locks: try_lock and unlock in do_progress are the only    *)
(* ones that touch one.                                                    *)
LEMMA ContLock ==
    ASSUME LockInv, XTypeOK, NEW t \in Threads, CbOf(t), ContStep(t)
    PROVE  LockInv'
  <1> USE DEF LockInv, TypeInv
  <1>1. TypeInv'
    BY ContTypeOK, ContFrameOK
  <1>2. \A u \in Threads : u # t => pc'[u] = pc[u] /\ dev'[u] = dev[u] /\ entry'[u] = entry[u]
    BY ContFrames DEF Return, Goto, ContGoto, frameVars, TypeOK, FramesTypeOK
  <1>3. ManagerLocksExact'
    <2> DEFINE m == ManagerOf(dev[t])
    <2> USE DEF TypeOK, FramesTypeOK
    <2>1. pc[t] \in ProgressSteps => m \in Managers
      BY FrameFacts DEF Managers
    <2>2. CASE TryLockCont(t)
      <3>1. m \in Managers /\ \A n \in Managers : ~HoldsManager(t, n)
        BY <2>1, <2>2 DEF TryLockCont, ProgressSteps, ManagerSteps, HoldsManager, ManagerLocked
      <3>2. CASE lock[m] = NULL /\ lock' = [lock EXCEPT ![m] = t] /\ pc'[t] = "cont_test" /\ dev' = dev
        <4>1. \A n \in Managers : HoldsManager(t, n)' <=> n = m
          BY <3>2 DEF HoldsManager, ManagerLocked
        <4> HIDE DEF m
        <4> QED  BY <1>2, <3>1, <3>2, <4>1, ManagerLockAcquire
      <3>3. CASE Return(t) /\ UNCHANGED lock
        <4>1. \A n \in Managers : ~HoldsManager(t, n)'
          BY <3>3 DEF Return, Goto, HoldsManager, ManagerLocked
        <4> QED  BY <1>2, <3>1, <3>3, <4>1, ManagerLockNeutral
      <3> QED  BY <2>2, <3>2, <3>3 DEF TryLockCont, Goto
    <2>3. CASE UnlockCont(t)
      <3>1. m \in Managers
        BY <2>1, <2>3 DEF UnlockCont, ProgressSteps, ManagerSteps, ManagerLocked
      <3>2. \A n \in Managers : (HoldsManager(t, n) <=> n = m) /\ ~HoldsManager(t, n)'
        BY <2>3 DEF UnlockCont, Return, Goto, HoldsManager, ManagerLocked
      <3>3. lock' = [lock EXCEPT ![m] = NULL]
        BY <2>3 DEF UnlockCont
      <3> HIDE DEF m
      <3> QED  BY <1>2, <3>1, <3>2, <3>3, ManagerLockRelease
    <2>4. CASE AttachCont(t)
      <3>1. \A n \in Managers : ~HoldsManager(t, n) /\ ~HoldsManager(t, n)'
        BY <2>4 DEF AttachCont, Return, Goto, HoldsManager, ManagerLocked
      <3> QED  BY <1>2, <2>4, <3>1, ManagerLockNeutral DEF AttachCont, managerVars
    <2>5. CASE TestCont(t) \/ StartCont(t)
      <3>1. \A n \in Managers : HoldsManager(t, n)' <=> HoldsManager(t, n)
        BY <2>5 DEF TestCont, StartCont, Goto, HoldsManager, ManagerLocked
      <3> QED  BY <1>2, <2>5, <3>1, ManagerLockNeutral DEF TestCont, StartCont, managerVars
    <2>6. CASE CbFetchSub(t) \/ CbSignal(t) \/ \E o \in Ops : RunContinuation(t, o)
      <3>1. UNCHANGED <<pc, dev, entry, lock>>
        BY <2>6 DEF CbFetchSub, CbSignal, RunContinuation, frameVars, managerVars
      <3> QED  BY <3>1 DEF ManagerLocksExact, HoldsManager
    <2> QED  BY <2>2, <2>3, <2>4, <2>5, <2>6 DEF ContStep
  <1>4. PutLocksExact' /\ NullExact'
    <2>1. \A d \in Devices : /\ HoldsPut(t, d)' <=> HoldsPut(t, d)
                             /\ Reposting(t, d)' <=> Reposting(t, d)
      <3>1. CASE UNCHANGED frameVars
        BY <3>1 DEF frameVars, HoldsPut, Reposting
      <3>2. CASE pc[t] \notin PutLocked /\ pc'[t] \notin PutLocked
        BY <3>2 DEF HoldsPut, Reposting, PutLocked
      <3>3. (pc[t] \notin PutLocked /\ pc'[t] \notin PutLocked) \/ UNCHANGED frameVars
        BY DEF ContStep, AttachCont, TryLockCont, TestCont, StartCont, UnlockCont, CbFetchSub,
               CbSignal, RunContinuation, Return, Goto, PutLocked, TypeOK, FramesTypeOK
      <3> QED  BY <3>1, <3>2, <3>3
    <2> QED  BY <1>2, <2>1, ContFrames, PutNeutral
  <1> QED  BY <1>1, <1>3, <1>4
-----------------------------------------------------------------------------
(* A thread that signals holds no stream_lock.                             *)

Signals == {"put_signal"} \cup SignalSteps
PollOnly == config.use_cont_req /\ config.use_cont_poll_only /\ ~config.use_cont_imm

(* A stream_lock is held only inside a call of MPI other than the test of  *)
(* cont_req, by a thread that is not about to signal.  Continuations are   *)
(* attached and run by manager_cont_t only, and run nowhere but in that    *)
(* test if they are to be run by polling alone.                            *)
StreamsOK ==
    /\ \A t \in Threads, d \in Devices : stream_lock[d] = t =>
          /\ in_mpi[t] \in Calls \ {<<"cont_test", NULL>>}
          /\ pc[t] \notin Signals
    /\ ~CompCont => conts = {} /\ \A t \in Threads : cb[t] = NULL
    /\ PollOnly => \A t \in Threads : cb[t] # NULL => in_mpi[t] = <<"cont_test", NULL>>

(* A thread that enters a call of MPI, with or without a stream's lock,    *)
(* and that does not go on to signal.                                      *)
LEMMA StreamsEnter ==
    ASSUME TypeInv, XTypeOK, StreamsOK, NEW t \in Threads, in_mpi[t] = NULL,
           in_mpi'[t] \in Calls, \A u \in Threads : u # t => in_mpi'[u] = in_mpi[u],
           \A d \in Devices : stream_lock'[d] \in {stream_lock[d], t},
           (\E d \in Devices : stream_lock'[d] = t) => in_mpi'[t] # <<"cont_test", NULL>>,
           pc'[t] \notin Signals, \A u \in Threads : u # t => pc'[u] = pc[u],
           UNCHANGED <<config, cb>>, conts' = conts \/ CompCont
    PROVE  StreamsOK'
  <1>1. ASSUME NEW u \in Threads, NEW d \in Devices, stream_lock'[d] = u
        PROVE  /\ in_mpi'[u] \in Calls \ {<<"cont_test", NULL>>}
               /\ pc'[u] \notin Signals
    BY <1>1 DEF StreamsOK
  <1>2. ASSUME PollOnly, NEW u \in Threads, cb[u] # NULL PROVE in_mpi'[u] = <<"cont_test", NULL>>
    <2>1. in_mpi[u] = <<"cont_test", NULL>> /\ in_mpi[u] \in Calls
      BY <1>2 DEF StreamsOK, Calls
    <2> QED  BY <1>2, <2>1, CallsAssumption
  <1> QED  BY <1>1, <1>2 DEF StreamsOK, CompCont, PollOnly

(* A thread outside MPI holds no stream_lock.                              *)
LEMMA StreamFree ==
    ASSUME StreamsOK, NEW t \in Threads, in_mpi[t] = NULL, NEW d \in Devices
    PROVE  stream_lock[d] # t
  BY CallsAssumption DEF StreamsOK

(* A step that is outside MPI, and leaves it alone.                        *)
LEMMA StreamsOutside ==
    ASSUME StreamsOK, NEW t \in Threads, in_mpi[t] = NULL,
           \A u \in Threads : u # t => pc'[u] = pc[u],
           UNCHANGED <<config, stream_lock, in_mpi, conts, cb>>
    PROVE  StreamsOK'
  <1>1. \A d \in Devices : stream_lock[d] # t
    BY StreamFree
  <1> QED  BY <1>1 DEF StreamsOK, CompCont, PollOnly

(* Every step keeps the streams' locks inside the calls they guard.        *)
LEMMA StreamsNext ==
    ASSUME LockInv, XTypeOK, StreamsOK, [XNext]_xvars
    PROVE  StreamsOK'
  <1> USE DEF LockInv
  <1>1. ASSUME NEW t \in Threads, in_mpi[t] = NULL, UNCHANGED mpixVars,
               \/ CallStep(t) \/ FetchAdd(t) \/ Post(t)
               \/ \E d \in Devices : ReadPutReq(t, d)
               \/ PutStep(t) \/ ManagerStep(t) \/ SignalStep(t)
        PROVE  StreamsOK'
    BY <1>1, OneFrame, StreamsOutside DEF mpixVars, TypeInv
  <1>2. ASSUME NEW t \in Threads, in_mpi[t] = NULL, TryLockCont(t) \/ UnlockCont(t)
        PROVE  StreamsOK'
    <2>1. \A u \in Threads : u # t => pc'[u] = pc[u]
      BY <1>2 DEF TryLockCont, UnlockCont, Return, Goto, TypeInv, TypeOK, FramesTypeOK
    <2> QED  BY <1>2, <2>1, StreamsOutside DEF TryLockCont, UnlockCont, mpixVars
  <1>3. ASSUME NEW t \in Threads, in_mpi[t] = NULL, StreamCall(t) PROVE StreamsOK'
    <2>1. pc'[t] \notin Signals /\ \A u \in Threads : u # t => pc'[u] = pc[u]
      BY <1>3 DEF StreamCall, Post, TestPut, PostPutRecv, TestFront, Goto, Signals, SignalSteps,
                  TypeInv, TypeOK, FramesTypeOK
    <2>2. in_mpi'[t] = <<"call", NULL>> /\ \A u \in Threads : u # t => in_mpi'[u] = in_mpi[u]
      BY <1>3 DEF StreamCall, EnterMpi, XTypeOK
    <2>3. \A d \in Devices : stream_lock'[d] \in {stream_lock[d], t}
      BY <1>3 DEF StreamCall, EnterStreamCs, XTypeOK
    <2>4. UNCHANGED <<config, conts, cb>>
      BY <1>3 DEF StreamCall
    <2>5. <<"call", NULL>> \in Calls /\ <<"call", NULL>> # <<"cont_test", NULL>>
      BY DEF Calls
    <2> QED  BY <1>3, <2>1, <2>2, <2>3, <2>4, <2>5, StreamsEnter
  <1>4. ASSUME NEW t \in Threads, in_mpi[t] = NULL, AttachCont(t) PROVE StreamsOK'
    <2>1. pc'[t] \notin Signals /\ \A u \in Threads : u # t => pc'[u] = pc[u]
      BY <1>4 DEF AttachCont, Return, Goto, Signals, SignalSteps, TypeInv, TypeOK, FramesTypeOK
    <2>2. /\ in_mpi'[t] = <<"continue", entry[t]>>
          /\ \A u \in Threads : u # t => in_mpi'[u] = in_mpi[u]
      BY <1>4 DEF AttachCont, EnterMpi, XTypeOK
    <2>3. \A d \in Devices : stream_lock'[d] \in {stream_lock[d], t}
      BY <1>4 DEF AttachCont, EnterStreamCs, XTypeOK
    <2>4. UNCHANGED <<config, cb>> /\ CompCont
      BY <1>4 DEF AttachCont
    <2>5. <<"continue", entry[t]>> \in Calls /\ <<"continue", entry[t]>> # <<"cont_test", NULL>>
      BY DEF Calls, TypeInv, TypeOK, FramesTypeOK
    <2> QED  BY <1>4, <2>1, <2>2, <2>3, <2>4, <2>5, StreamsEnter
  <1>5. ASSUME NEW t \in Threads, in_mpi[t] = NULL, TestCont(t) \/ StartCont(t)
        PROVE  StreamsOK'
    <2>1. pc'[t] \notin Signals /\ \A u \in Threads : u # t => pc'[u] = pc[u]
      BY <1>5 DEF TestCont, StartCont, Goto, Signals, SignalSteps, TypeInv, TypeOK, FramesTypeOK
    <2>2. /\ in_mpi'[t] \in {<<"cont_test", NULL>>, <<"call", NULL>>}
          /\ \A u \in Threads : u # t => in_mpi'[u] = in_mpi[u]
      BY <1>5 DEF TestCont, StartCont, EnterMpi, XTypeOK
    <2>3. UNCHANGED <<config, stream_lock, conts, cb>>
      BY <1>5 DEF TestCont, StartCont
    <2>4. \A d \in Devices : stream_lock[d] # t
      BY <1>5, StreamFree
    <2>5. in_mpi'[t] \in Calls
      BY <2>2 DEF Calls
    <2> QED  BY <1>5, <2>1, <2>2, <2>3, <2>4, <2>5, StreamsEnter
  <1>6. ASSUME NEW t \in Threads, LeaveMpi(t) PROVE StreamsOK'
    <2>1. /\ cb[t] = NULL /\ UNCHANGED <<pc, config, conts, cb>>
          /\ \A u \in Threads : u # t => in_mpi'[u] = in_mpi[u]
          /\ \A d \in Devices : stream_lock'[d] # t /\ stream_lock'[d] \in {stream_lock[d], NULL}
      BY <1>6, NullIsNoThread DEF LeaveMpi, XTypeOK, vars, frameVars
    <2> QED  BY <2>1, NullIsNoThread DEF StreamsOK, CompCont, PollOnly
  <1>7. ASSUME NEW t \in Threads, CbFetchSub(t) \/ CbSignal(t) PROVE StreamsOK'
    <2>1. /\ UNCHANGED <<pc, config, stream_lock, in_mpi, conts>>
          /\ \A u \in Threads : cb'[u] \in {cb[u], NULL}
      BY <1>7 DEF CbFetchSub, CbSignal, frameVars, XTypeOK
    <2> QED  BY <2>1 DEF StreamsOK, CompCont, PollOnly
  <1>8. ASSUME NEW t \in Threads, NEW o \in Ops, RunContinuation(t, o) PROVE StreamsOK'
    <2>1. /\ UNCHANGED <<pc, config, stream_lock, in_mpi>>
          /\ \A u \in Threads : u # t => cb'[u] = cb[u]
      BY <1>8 DEF RunContinuation, frameVars, XTypeOK
    <2>2. CompCont
      BY <1>8 DEF RunContinuation, StreamsOK
    <2>3. PollOnly => in_mpi[t] = <<"cont_test", NULL>>
      BY <1>8 DEF RunContinuation, MayContinue, PollOnly
    <2> QED  BY <2>1, <2>2, <2>3 DEF StreamsOK, CompCont, PollOnly
  <1>9. ASSUME UNCHANGED <<pc, mpixVars>> PROVE StreamsOK'
    BY <1>9 DEF StreamsOK, CompCont, PollOnly, mpixVars
  <1>10. CASE XNext
    <2>1. ASSUME NEW t \in Threads, in_mpi[t] = NULL, PlainStep(t) PROVE StreamsOK'
      BY <1>1, <2>1 DEF PlainStep, PutStep, ManagerStep, SignalStep
    <2> QED  BY <1>1, <1>2, <1>3, <1>4, <1>5, <1>6, <1>7, <1>8, <1>9, <1>10, <2>1
             DEF XNext, XInCall, XIssue, XProgress, XPoll, CallStep, SignalStep, frameVars
  <1>11. CASE UNCHANGED xvars
    BY <1>9, <1>11 DEF xvars, vars, frameVars
  <1> QED  BY <1>10, <1>11
-----------------------------------------------------------------------------
(* Every operation is in one place, also those with continuations.         *)

ContsOK ==
    \A o \in conts : mpi_req[o] \in {"active", "done"} /\ ~Somewhere(o) /\ ~InCallback(o)

CbOK ==
    /\ \A t \in Threads : CbOf(t) /\ (cb[t] # NULL => ~Somewhere(cb[t]))
    /\ \A t, u \in Threads : cb[t] = cb[u] /\ cb[t] # NULL => t = u

(* The client's operations are the ones that are in some place.            *)
ProgramOK == \A o \in Ops : Somewhere(o) \/ o \in conts \/ InCallback(o)

XPlaceInv == PlaceInv /\ XTypeOK /\ ContsOK /\ CbOK /\ ProgramOK

(* A step of BackendMpi starts and frees the requests of the operations in *)
(* its places only.                                                        *)
LEMMA RequestsKept ==
    ASSUME PlaceInv, [Next]_vars, NEW o \in Ops, ~Somewhere(o)
    PROVE  /\ mpi_req'[o] = mpi_req[o] \/ (mpi_req[o] = "active" /\ mpi_req'[o] = "done")
           /\ matched'[o] = matched[o] \/ mpi_req[o] = "active"
  <1> USE DEF PlaceInv, LockInv, TypeInv, TypeOK, MpiTypeOK
  <1>1. ASSUME NEW t \in Threads, Post(t) PROVE mpi_req'[o] = mpi_req[o] /\ matched' = matched
    <2>1. entry[t] # o
      BY DEF Somewhere, InHand
    <2> QED  BY <1>1, <2>1 DEF Post, StartRequest
  <1>2. ASSUME NEW t \in Threads, TestFront(t) PROVE mpi_req'[o] = mpi_req[o] /\ matched' = matched
    <2>1. dev[t] \in Devices
      BY <1>2, FrameFacts DEF TestFront, ProgressSteps, ManagerSteps, ManagerLocked
    <2>2. PICK m \in Managers : m = ManagerOf(dev[t])
      BY <2>1 DEF Managers
    <2>3. entries[m] \in Seq(Ops) /\ entries[m] # <<>>
      BY <1>2, <2>2 DEF TestFront, ManagerTypeOK
    <2>4. Head(entries[m]) = entries[m][1] /\ 1 \in DOMAIN entries[m]
      BY <2>3
    <2>5. Head(entries[m]) # o
      BY <2>4 DEF Somewhere, Queued
    <2> QED  BY <1>2, <2>2, <2>5 DEF TestFront, FreeRequest, mpiVars
  <1>3. ASSUME MpiStep
        PROVE  /\ mpi_req'[o] = mpi_req[o] \/ (mpi_req[o] = "active" /\ mpi_req'[o] = "done")
               /\ matched'[o] = matched[o] \/ mpi_req[o] = "active"
    BY <1>3 DEF MpiStep, MpiMatch, MpiPutArrive, MpiSendComplete
  <1>4. CASE UNCHANGED <<mpi_req, matched>>
    BY <1>4
  <1>5. CASE UNCHANGED vars
    BY <1>4, <1>5 DEF vars, mpiVars
  <1>6. CASE Next
    BY <1>1, <1>2, <1>3, <1>4, <1>6
    DEF Next, CallStep, SendOrPut, Recv, FetchAdd, ReadPutReq, PutStep, TryLockPut, TestPut,
        CopyPut, PostPutRecv, UnlockPut, SignalPut, ManagerStep, FoundEmpty, mpiVars
  <1> QED  BY <1>5, <1>6

(* So it leaves continuations, and the callbacks that run, as they are.    *)
LEMMA XPlacePlain ==
    ASSUME XPlaceInv, XTypeOK', [Next]_vars, UNCHANGED <<conts, cb, cb_slot>>
    PROVE  XPlaceInv'
  <1> USE DEF XPlaceInv
  <1>1. PlaceInv' /\ \A o \in Ops : Somewhere(o)' <=> Somewhere(o)
    BY PlaceStep DEF PlacesKept
  <1>2. \A o \in Ops : InCallback(o)' <=> InCallback(o)
    BY DEF InCallback
  <1>3. ContsOK'
    BY <1>1, <1>2, RequestsKept DEF ContsOK, XTypeOK
  <1>4. ASSUME NEW t \in Threads, cb[t] # NULL
        PROVE  /\ ~Somewhere(cb[t])' /\ mpi_req'[cb[t]] = mpi_req[cb[t]]
               /\ matched'[cb[t]] = matched[cb[t]]
    <2>1. cb[t] \in Ops /\ mpi_req[cb[t]] = "freed" /\ ~Somewhere(cb[t])
      BY <1>4 DEF XTypeOK, CbOK, CbOf
    <2>2. PICK o \in Ops : o = cb[t]
      BY <2>1
    <2>3. ~Somewhere(o)' /\ mpi_req'[o] = mpi_req[o] /\ matched'[o] = matched[o]
      BY <1>1, <2>1, <2>2, RequestsKept
    <2> QED  BY <2>2, <2>3 DEF Somewhere, InHand, Queued, Reported
  <1>5. CbOK'
    BY <1>4 DEF CbOK, CbOf
  <1>6. ProgramOK'
    BY <1>1, <1>2 DEF ProgramOK
  <1> QED  BY <1>1, <1>3, <1>5, <1>6

(* The places, after a step that touches only pc, locks and counters.      *)
LEMMA ContQuiet ==
    ASSUME XPlaceInv, XTypeOK', NEW t \in Threads, ContStep(t),
           UNCHANGED <<mpi_req, cq, polled, conts, cb>>,
           entry' = entry, pc'[t] \notin Fresh \cup Live \cup Finished \/ UNCHANGED pc,
           \A u \in Threads : cb_slot'[u] => cb_slot[u]
    PROVE  XPlaceInv'
  <1> USE DEF XPlaceInv
  <1>1. UNCHANGED <<todo, entry, entries, cq, polled, matched>>
    BY ContFrames
  <1>2. MostOnce' /\ \A o : Somewhere(o)' <=> Somewhere(o)
    BY <1>1, PlaceSame DEF PlaceInv, MostOnce
  <1>3. \A u \in Threads : u # t => pc'[u] = pc[u]
    BY ContFrames
    DEF Return, Goto, ContGoto, frameVars, PlaceInv, LockInv, TypeInv, TypeOK, FramesTypeOK
  <1>4. StageOK'
    <2>1. \A u \in Threads : StageOf(u)'
      BY <1>1, <1>3 DEF PlaceInv, StageOK, StageOf, Fresh, Live, Finished, SignalSteps
    <2> QED  BY <1>1, <2>1 DEF PlaceInv, StageOK
  <1>5. LockInv'
    BY ContLock DEF PlaceInv, CbOK
  <1>6. \A o : InCallback(o)' <=> InCallback(o)
    BY DEF InCallback
  <1>7. ContsOK' /\ ProgramOK'
    BY <1>2, <1>6 DEF ContsOK, ProgramOK
  <1>8. CbOK'
    BY <1>1, <1>2 DEF CbOK, CbOf
  <1> QED  BY <1>2, <1>4, <1>5, <1>7, <1>8 DEF PlaceInv
(* MPIX_Continue: the operation goes from the thread's hands to MPI.       *)
LEMMA PlaceAttach ==
    ASSUME XPlaceInv, XTypeOK', NEW t \in Threads, AttachCont(t)
    PROVE  XPlaceInv'
  <1> USE DEF XPlaceInv, PlaceInv, LockInv, TypeInv, TypeOK
  <1>1. PICK e \in Ops : e = entry[t]
    BY FrameFacts DEF AttachCont, WithEntry, PostSteps
  <1>2. mpi_req[e] \in {"active", "done"} /\ pc[t] = "add_lock"
    BY <1>1 DEF AttachCont, StageOK, StageOf, Live
  <1>3. PlacedOnce(e) /\ InHand(e) /\ Somewhere(e)
    BY <1>1 DEF MostOnce, InHand, Somewhere
  <1>4. /\ entry' = [entry EXCEPT ![t] = NULL] /\ conts' = conts \cup {e}
        /\ UNCHANGED <<todo, entries, cq, polled, mpi_req, matched, cb, cb_slot>>
    BY <1>1 DEF AttachCont, Return, mpiVars, signalVars, managerVars
  <1>5. pc'[t] = "idle" /\ \A u \in Threads : u # t => pc'[u] = pc[u] /\ entry'[u] = entry[u]
    BY DEF AttachCont, Return, Goto, FramesTypeOK
  <1>6. ASSUME NEW o \in Ops
        PROVE  PlacedOnce(o)' /\ (Somewhere(o)' <=> Somewhere(o) /\ o # e)
    <2>1. PlacedOnce(o)
      BY DEF MostOnce
    <2>2. (InHand(o)' <=> (InHand(o) /\ o # e)) /\ HandOnce(o)'
      BY <1>1, <1>4, <2>1, HandGive DEF PlacedOnce
    <2> QED  BY <1>3, <1>4, <2>1, <2>2, DequesSame, ReportsSame
             DEF PlacedOnce, AtMostOneOf, Somewhere
  <1>7. LockInv'
    BY ContLock DEF CbOK, ContStep
  <1>8. StageOK'
    <2>1. \A u \in Threads : StageOf(u)'
      BY <1>4, <1>5 DEF StageOK, StageOf, Fresh, Live, Finished, SignalSteps
    <2> QED  BY <1>4, <2>1 DEF StageOK
  <1>9. \A o \in Ops : InCallback(o)' <=> InCallback(o)
    BY <1>4 DEF InCallback
  <1>10. ~InCallback(e)
    BY <1>3, OpsAssumption DEF InCallback, CbOK, XTypeOK
  <1>11. ContsOK'
    BY <1>2, <1>4, <1>6, <1>9, <1>10 DEF ContsOK, XTypeOK
  <1>12. CbOK'
    <2>1. ASSUME NEW u \in Threads, cb[u] # NULL PROVE ~Somewhere(cb[u])'
      <3>1. PICK o \in Ops : o = cb[u]
        BY <2>1 DEF XTypeOK
      <3>2. ~Somewhere(o)'
        BY <1>6, <2>1, <3>1 DEF CbOK
      <3> QED  BY <1>4, <3>1, <3>2 DEF Somewhere, InHand, Queued, Reported
    <2> QED  BY <1>4, <2>1 DEF CbOK, CbOf
  <1>13. ProgramOK'
    BY <1>3, <1>4, <1>6, <1>9 DEF ProgramOK
  <1> QED  BY <1>6, <1>7, <1>8, <1>11, <1>12, <1>13 DEF MostOnce

(* MPI frees the request of an operation and starts its complete_cb: the   *)
(* operation was in no other callback, and is MPI's no longer.             *)
LEMMA PlaceRun ==
    ASSUME XPlaceInv, XTypeOK', NEW t \in Threads, NEW e \in Ops, RunContinuation(t, e)
    PROVE  XPlaceInv'
  <1> USE DEF XPlaceInv, PlaceInv, LockInv, TypeInv, TypeOK
  <1>1. /\ e \in conts /\ ~Somewhere(e) /\ ~InCallback(e) /\ cb[t] = NULL
        /\ mpi_req[e] = "done" /\ e.proc = ThreadProc[t]
    BY DEF RunContinuation, FreeRequest, MayContinue, ContsOK
  <1>2. /\ mpi_req'[e] = "freed" /\ \A o \in Ops : o # e => mpi_req'[o] = mpi_req[o]
        /\ conts' = conts \ {e}
        /\ cb'[t] = e /\ \A u \in Threads : u # t => cb'[u] = cb[u] /\ cb_slot'[u] = cb_slot[u]
        /\ cb_slot'[t] = (Counted(e) /\ g_pending_msg_max > 0)
        /\ UNCHANGED <<pc, entry, todo, entries, cq, polled, matched>>
    BY DEF RunContinuation, FreeRequest, MpiTypeOK, XTypeOK, frameVars, signalVars, managerVars
  <1>3. MostOnce' /\ \A o : Somewhere(o)' <=> Somewhere(o)
    BY <1>2, PlaceSame DEF MostOnce
  <1>4. LockInv'
    BY ContLock DEF CbOK, ContStep
  <1>5. StageOK'
    <2>1. ASSUME NEW u \in Threads PROVE StageOf(u)'
      <3>1. entry[u] # e
        BY <1>1 DEF Somewhere, InHand
      <3> QED  BY <1>2, <3>1, StageEntry DEF StageOK, StageOf
    <2>2. \A o \in todo' : mpi_req'[o] = "none"
      BY <1>1, <1>2 DEF StageOK, Somewhere
    <2>3. ASSUME NEW m \in Managers, NEW i \in DOMAIN entries[m]
          PROVE  mpi_req'[entries[m][i]] \in {"active", "done"}
      <3>1. entries[m][i] # e /\ entries[m][i] \in Ops
        BY <1>1 DEF Somewhere, Queued, ManagerTypeOK
      <3> QED  BY <1>2, <3>1 DEF StageOK
    <2> QED  BY <1>2, <2>1, <2>2, <2>3 DEF StageOK
  <1>6. \A o \in Ops : InCallback(o)' <=> InCallback(o) \/ o = e
    BY <1>1, <1>2, OpsAssumption DEF InCallback
  <1>7. ContsOK'
    BY <1>2, <1>3, <1>6 DEF ContsOK, XTypeOK
  <1>8. IsRecv(e) => matched[e] \in Ops
    BY <1>1 DEF MpiOK
  <1>9. CbOf(t)'
    BY <1>1, <1>2, <1>8, OpsAssumption DEF CbOf
  <1>10. ASSUME NEW u \in Threads, u # t PROVE CbOf(u)' /\ cb'[u] # e
    <2>1. cb[u] # e
      BY <1>1 DEF InCallback
    <2>2. cb[u] \in Ops \cup {NULL}
      BY DEF XTypeOK
    <2> QED  BY <1>2, <1>10, <2>1, <2>2 DEF CbOK, CbOf
  <1>11. ASSUME NEW u \in Threads, cb'[u] # NULL PROVE ~Somewhere(cb[u])'
    <2>1. ~Somewhere(cb'[u])
      BY <1>1, <1>2, <1>11 DEF CbOK
    <2> QED  BY <1>2, <2>1 DEF Somewhere, InHand, Queued, Reported
  <1>12. CbOK'
    BY <1>2, <1>9, <1>10, <1>11 DEF CbOK
  <1>13. ProgramOK'
    BY <1>1, <1>2, <1>3, <1>6 DEF ProgramOK
  <1> QED  BY <1>3, <1>4, <1>5, <1>7, <1>12, <1>13

(* complete_cb signals the completion and is done: the operation is        *)
(* reported.                                                               *)
LEMMA PlaceCbSignal ==
    ASSUME XPlaceInv, XTypeOK', NEW t \in Threads, CbSignal(t)
    PROVE  XPlaceInv'
  <1> USE DEF XPlaceInv, PlaceInv, LockInv, TypeInv, TypeOK
  <1>1. cb[t] # NULL /\ CbOf(t) /\ ~cb_slot[t]
    BY DEF CbSignal, CbOK
  <1>2. PICK e \in Ops : e = cb[t]
    BY <1>1 DEF XTypeOK
  <1>3. PICK r \in Completion : r = UnreadRequest(e) /\ Key(r) = <<"operation", e>>
    BY <1>1, <1>2, UnreadType
  <1>4. e.comp \in Comps /\ SignalComp(e.comp, r)
    BY <1>2, <1>3, OpsAssumption DEF CbSignal
  <1>5. /\ cb'[t] = NULL /\ \A u \in Threads : u # t => cb'[u] = cb[u]
        /\ UNCHANGED <<pc, entry, todo, entries, mpi_req, matched, conts, cb_slot>>
    BY DEF CbSignal, XTypeOK, frameVars, managerVars, mpiVars
  <1>6. ~Somewhere(e) /\ e \notin conts /\ InCallback(e)
    BY <1>1, <1>2 DEF CbOK, ContsOK, InCallback
  <1>7. ASSUME NEW o \in Ops
        PROVE  PlacedOnce(o)' /\ (Somewhere(o)' <=> Somewhere(o) \/ o = e)
    <2> DEFINE k == <<"operation", o>>
    <2>1. PlacedOnce(o)
      BY DEF MostOnce
    <2>2. /\ Reported(k)' <=> (Reported(k) \/ Key(r) = k)
          /\ ~ReportedTwice(k) /\ ~(Reported(k) /\ Key(r) = k) => ~ReportedTwice(k)'
      BY <1>4, SignalReports
    <2>3. Key(r) = k <=> o = e
      BY <1>3
    <2>4. ~(o = e /\ Somewhere(o))
      BY <1>6
    <2> QED  BY <1>5, <2>1, <2>2, <2>3, <2>4, DequesSame, HandsSame
             DEF PlacedOnce, AtMostOneOf, Somewhere
  <1>8. LockInv'
    BY ContLock, <1>1 DEF ContStep
  <1>9. StageOK'
    BY <1>5 DEF StageOK, StageOf
  <1>10. ASSUME NEW o \in Ops PROVE InCallback(o)' <=> InCallback(o) /\ o # e
    BY <1>2, <1>5, OpsAssumption DEF InCallback, CbOK
  <1>11. ContsOK'
    BY <1>5, <1>6, <1>7, <1>10 DEF ContsOK, XTypeOK
  <1>12. ASSUME NEW u \in Threads, cb'[u] # NULL PROVE ~Somewhere(cb[u])'
    <2>1. u # t /\ cb[u] # NULL /\ cb[u] # e /\ cb'[u] = cb[u]
      BY <1>2, <1>5, <1>12 DEF CbOK
    <2>2. PICK o \in Ops : o = cb[u]
      BY <2>1 DEF XTypeOK
    <2>3. ~Somewhere(o)'
      BY <1>7, <2>1, <2>2 DEF CbOK
    <2> QED  BY <2>1, <2>2, <2>3 DEF Somewhere, InHand, Queued, Reported
  <1>13. CbOK'
    <2>1. ASSUME NEW u \in Threads PROVE CbOf(u)'
      BY <1>1, <1>5 DEF CbOK, CbOf
    <2>2. ASSUME NEW u \in Threads, NEW v \in Threads, cb'[u] = cb'[v], cb'[u] # NULL PROVE u = v
      BY <1>5, <2>2 DEF CbOK
    <2> QED  BY <1>12, <2>1, <2>2 DEF CbOK
  <1>14. ProgramOK'
    BY <1>5, <1>6, <1>7, <1>10 DEF ProgramOK
  <1> QED  BY <1>7, <1>8, <1>9, <1>11, <1>13, <1>14 DEF MostOnce
(* Every step keeps every operation in one place.                          *)
LEMMA XPlaceNext ==
    ASSUME XPlaceInv, [XNext]_xvars
    PROVE  XPlaceInv'
  <1>1. XTypeOK'
    BY XTypeNext DEF XPlaceInv, PlaceInv, LockInv
  <1>2. CASE [Next]_vars /\ UNCHANGED <<config, conts, cb, cb_slot>>
    BY <1>1, <1>2, XPlacePlain
  <1>3. ASSUME NEW t \in Threads, ContStep(t) PROVE XPlaceInv'
    <2> USE DEF XPlaceInv, PlaceInv, LockInv, TypeInv, TypeOK
    <2>1. CASE TryLockCont(t) \/ UnlockCont(t)
      <3>1. entry[t] = NULL
        BY <2>1 DEF FrameOK, FrameOf, TryLockCont, UnlockCont, WithEntry, PostSteps, SignalSteps
      <3>2. entry' = entry
        BY <2>1, <3>1, ReturnEmpty DEF TryLockCont, UnlockCont
      <3>3. pc'[t] \in {"idle", "cont_test"}
        BY <2>1 DEF TryLockCont, UnlockCont, Return, Goto, FramesTypeOK
      <3>4. UNCHANGED <<mpi_req, cq, polled, conts, cb, cb_slot>>
        BY <2>1 DEF TryLockCont, UnlockCont, mpiVars, signalVars, mpixVars
      <3>5. pc'[t] \notin Fresh \cup Live \cup Finished
        BY <3>3 DEF Fresh, Live, Finished, SignalSteps
      <3> QED  BY <1>1, <1>3, <3>2, <3>4, <3>5, ContQuiet
    <2>2. CASE TestCont(t) \/ StartCont(t)
      <3>1. pc'[t] \in {"cont_start", "cont_unlock"} /\ entry' = entry
        BY <2>2 DEF TestCont, StartCont, Goto, FramesTypeOK
      <3>2. UNCHANGED <<mpi_req, cq, polled, conts, cb, cb_slot>>
        BY <2>2 DEF TestCont, StartCont, mpiVars, signalVars
      <3>3. pc'[t] \notin Fresh \cup Live \cup Finished
        BY <3>1 DEF Fresh, Live, Finished, SignalSteps
      <3> QED  BY <1>1, <1>3, <3>1, <3>2, <3>3, ContQuiet
    <2>3. CASE CbFetchSub(t)
      <3>1. /\ UNCHANGED <<mpi_req, cq, polled, conts, cb, entry, pc>>
            /\ \A u \in Threads : cb_slot'[u] => cb_slot[u]
        BY <2>3 DEF CbFetchSub, mpiVars, frameVars, XTypeOK
      <3> QED  BY <1>1, <1>3, <3>1, ContQuiet
    <2> QED  BY <1>1, <1>3, <2>1, <2>2, <2>3, PlaceAttach, PlaceRun, PlaceCbSignal DEF ContStep
  <1> QED  BY <1>2, <1>3, XSteps

(* Before the first call every operation is with the client.               *)
LEMMA XPlaceStart == XInit => XPlaceInv
  <1> SUFFICES ASSUME XInit PROVE XPlaceInv
    OBVIOUS
  <1>1. Start /\ XTypeOK /\ conts = {} /\ todo = Ops /\ \A t \in Threads : cb[t] = NULL /\ CbOf(t)
    BY XTypeInit DEF XInit
  <1>2. PlaceInv /\ \A o \in Ops : Somewhere(o)
    BY <1>1, PlaceInvInit, PlaceInit
  <1>3. ContsOK /\ CbOK /\ \A o \in Ops : ~InCallback(o)
    BY <1>1, OpsAssumption DEF ContsOK, CbOK, InCallback
  <1> QED  BY <1>1, <1>2, <1>3 DEF XPlaceInv, ProgramOK

(* The inductive invariant of the backend with streams and continuations:  *)
(* that of the backend without them; an operation with a continuation has  *)
(* a live request and is in no other place; one in complete_cb has a freed *)
(* request, is in one thread's callback and in no other place; and the     *)
(* client's operations are in one of the places.                           *)
THEOREM XPlaceCorrect == XSpec => []XPlaceInv
  BY XPlaceStart, XPlaceNext, PTL DEF XSpec

(* With continuations too, every operation the client has issued is in one *)
(* place: in the hands of one call, with MPI, in one running complete_cb,  *)
(* or reported once.  A continuation that MPI runs inside any thread's     *)
(* call, also inside MPIX_Continue, loses none and reports none twice.     *)
THEOREM XOperationsOnce == XSpec => []XExactlyOnce
  <1>1. XPlaceInv => XExactlyOnce
    <2> SUFFICES ASSUME XPlaceInv, NEW o \in Ops \ todo
                 PROVE  /\ ExactlyOneOf(InHand(o), InCallback(o), InFlight(o),
                                        Reported(<<"operation", o>>))
                        /\ \A t1, t2 \in Threads : cb[t1] = o /\ cb[t2] = o => t1 = t2
                        /\ ~(o \in conts /\ Queued(o))
                        /\ ~ReportedTwice(<<"operation", o>>)
      BY DEF XExactlyOnce
    <2> USE DEF XPlaceInv
    <2>1. o \in Ops /\ o # NULL
      BY OpsAssumption DEF XTypeOK
    <2>2. PlacedOnce(o) /\ (Somewhere(o) \/ o \in conts \/ InCallback(o))
      BY <2>1 DEF PlaceInv, MostOnce, ProgramOK
    <2>3. \A t1, t2 \in Threads : cb[t1] = o /\ cb[t2] = o => t1 = t2
      BY <2>1 DEF CbOK
    <2>4. o \in conts => ~Somewhere(o) /\ ~InCallback(o)
      BY DEF ContsOK
    <2>5. InCallback(o) => ~Somewhere(o)
      BY <2>1 DEF InCallback, CbOK
    <2> QED  BY <2>2, <2>3, <2>4, <2>5 DEF Somewhere, PlacedOnce, AtMostOneOf, ExactlyOneOf, InFlight
  <1> QED  BY <1>1, XPlaceCorrect, PTL

(* A thread that signals a completion holds no stream_lock, so a handler   *)
(* may call back into the library, if completions are found by testing     *)
(* requests or continuations run only inside the test of cont_req.         *)
THEOREM ReentryHolds == XSpec => []SafeToReenter
  <1>1. XInit => StreamsOK
    BY NullIsNoThread DEF XInit, StreamsOK
  <1>2. XPlaceInv /\ StreamsOK /\ [XNext]_xvars => StreamsOK'
    BY StreamsNext DEF XPlaceInv, PlaceInv
  <1>3. StreamsOK => SafeToReenter
    BY DEF StreamsOK, SafeToReenter, Signalling, Signals, PollOnly
  <1> QED  BY <1>1, <1>2, <1>3, XPlaceCorrect, PTL DEF XSpec

-----------------------------------------------------------------------------
(* The counter is exact.                                                   *)

CbSlots(p) == {o \in Ops : o.proc = p /\ \E t \in Threads : cb[t] = o /\ cb_slot[t]}
XSlots(p) == {o \in Ops : o.proc = p /\ XHoldsSlot(o)}

(* The operations that hold a slot are those of BackendMpi and those whose *)
(* complete_cb has not given it back yet; none is both.                    *)
LEMMA XSlotsSplit ==
    ASSUME XPlaceInv, NEW p \in Procs
    PROVE  /\ XSlots(p) = Slots(p) \cup CbSlots(p) /\ Slots(p) \cap CbSlots(p) = {}
           /\ IsFiniteSet(XSlots(p))
           /\ \A o \in CbSlots(p) : mpi_req[o] = "freed"
  <1>1. XSlots(p) = Slots(p) \cup CbSlots(p)
    BY DEF XSlots, Slots, CbSlots, XHoldsSlot
  <1>2. ASSUME NEW o \in CbSlots(p) PROVE mpi_req[o] = "freed" /\ ~HoldsSlot(o)
    <2>1. o # NULL /\ o \in Ops
      BY OpsAssumption DEF CbSlots
    <2>2. mpi_req[o] = "freed" /\ ~InHand(o)
      BY <2>1 DEF CbSlots, XPlaceInv, CbOK, CbOf, Somewhere
    <2> QED  BY <2>2 DEF HoldsSlot, InHand
  <1>3. XSlots(p) \subseteq Ops
    BY DEF XSlots
  <1>4. IsFiniteSet(XSlots(p))
    BY <1>3, OpsAssumption, FS_Subset
  <1>5. Slots(p) \cap CbSlots(p) = {}
    BY <1>2 DEF Slots
  <1> QED  BY <1>1, <1>2, <1>4, <1>5

(* A step of BackendMpi counts the slots it moves.                         *)
LEMMA XSlotsPlain ==
    ASSUME XPlaceInv, XPlaceInv', g_pending_msg_max > 0, XPendingExact, [Next]_vars,
           UNCHANGED <<cb, cb_slot>>
    PROVE  XPendingExact'
  <1> SUFFICES ASSUME NEW p \in Procs
               PROVE  g_pending_msg'[p] = Cardinality(XSlots(p)')
    BY DEF XPendingExact, XSlots
  <1>1. SlotMove(p)
    BY SlotsStep DEF XPlaceInv
  <1>2. CbSlots(p)' = CbSlots(p)
    BY DEF CbSlots
  <1>3. XSlots(p)' = Slots(p)' \cup CbSlots(p)'
    BY DEF XSlots, Slots, CbSlots, XHoldsSlot
  <1>4. /\ XSlots(p) = Slots(p) \cup CbSlots(p) /\ Slots(p) \cap CbSlots(p) = {}
        /\ IsFiniteSet(XSlots(p)) /\ \A o \in CbSlots(p) : mpi_req[o] = "freed"
    BY XSlotsSplit
  <1>5. g_pending_msg[p] = Cardinality(XSlots(p))
    BY DEF XPendingExact, XSlots
  <1>6. CASE Slots(p)' = Slots(p) /\ g_pending_msg'[p] = g_pending_msg[p]
    BY <1>2, <1>3, <1>4, <1>5, <1>6
  <1>7. ASSUME NEW e \in Ops, e \notin Slots(p), mpi_req[e] = "none",
               Slots(p)' = Slots(p) \cup {e}, g_pending_msg'[p] = g_pending_msg[p] + 1
        PROVE  g_pending_msg'[p] = Cardinality(XSlots(p)')
    <2>1. e \notin XSlots(p) /\ XSlots(p)' = XSlots(p) \cup {e}
      BY <1>2, <1>3, <1>4, <1>7
    <2> QED  BY <1>4, <1>5, <1>7, <2>1, FS_AddElement
  <1>8. ASSUME NEW e \in Slots(p), Slots(p)' = Slots(p) \ {e},
               g_pending_msg'[p] = g_pending_msg[p] - 1
        PROVE  g_pending_msg'[p] = Cardinality(XSlots(p)')
    <2>1. e \in XSlots(p) /\ XSlots(p)' = XSlots(p) \ {e}
      BY <1>2, <1>3, <1>4, <1>8
    <2> QED  BY <1>4, <1>5, <1>8, <2>1, FS_RemoveElement
  <1> QED  BY <1>1, <1>6, <1>7, <1>8 DEF SlotMove
(* Of the steps of manager_cont_t only the fetch_sub of complete_cb moves  *)
(* a slot: a continuation that starts has the slot its message had.        *)
LEMMA ContHolds ==
    ASSUME XPlaceInv, g_pending_msg_max > 0, NEW t \in Threads, ContStep(t), ~CbFetchSub(t)
    PROVE  UNCHANGED g_pending_msg /\ \A o \in Ops : XHoldsSlot(o)' <=> XHoldsSlot(o)
  <1> USE DEF XPlaceInv, PlaceInv, LockInv, TypeInv, TypeOK, FramesTypeOK
  <1>1. CASE AttachCont(t) \/ TryLockCont(t) \/ TestCont(t) \/ StartCont(t) \/ UnlockCont(t)
    <2>1. UNCHANGED <<mpi_req, cb, cb_slot, g_pending_msg>>
      BY <1>1 DEF AttachCont, TryLockCont, TestCont, StartCont, UnlockCont, mpiVars, signalVars,
                  mpixVars
    <2>2. /\ pc[t] \notin {"post", "mgr_unlock", "fetch_sub"}
          /\ pc'[t] \notin {"post", "mgr_unlock", "fetch_sub"}
          /\ \A u \in Threads : u # t => pc'[u] = pc[u] /\ entry'[u] = entry[u]
      BY <1>1 DEF AttachCont, TryLockCont, TestCont, StartCont, UnlockCont, Return, Goto
    <2>3. \A o \in Ops : HoldsSlot(o)' <=> HoldsSlot(o)
      BY <2>1, <2>2, SlotKept DEF Busy, AtSlotStep
    <2> QED  BY <2>1, <2>3 DEF XHoldsSlot
  <1>2. CASE CbSignal(t)
    <2>1. /\ UNCHANGED <<mpi_req, pc, entry, cb_slot, g_pending_msg>> /\ ~cb_slot[t]
          /\ \A u \in Threads : u # t => cb'[u] = cb[u]
      BY <1>2 DEF CbSignal, mpiVars, frameVars, XTypeOK
    <2> QED  BY <2>1 DEF XHoldsSlot, HoldsSlot
  <1>3. ASSUME NEW e \in Ops, RunContinuation(t, e)
        PROVE  UNCHANGED g_pending_msg /\ \A o \in Ops : XHoldsSlot(o)' <=> XHoldsSlot(o)
    <2>1. /\ mpi_req[e] = "done" /\ cb[t] = NULL /\ ~InCallback(e) /\ ~InHand(e)
          /\ mpi_req'[e] = "freed" /\ \A o \in Ops : o # e => mpi_req'[o] = mpi_req[o]
          /\ cb'[t] = e /\ \A u \in Threads : u # t => cb'[u] = cb[u] /\ cb_slot'[u] = cb_slot[u]
          /\ cb_slot'[t] = (Counted(e) /\ g_pending_msg_max > 0)
          /\ UNCHANGED <<pc, entry, g_pending_msg>>
      BY <1>3 DEF RunContinuation, FreeRequest, MayContinue, MpiTypeOK, XTypeOK, frameVars,
                  signalVars, ContsOK, Somewhere
    <2>2. XHoldsSlot(e)' <=> XHoldsSlot(e)
      <3>1. XHoldsSlot(e) <=> Counted(e)
        BY <2>1 DEF XHoldsSlot, HoldsSlot, InCallback
      <3>2. XHoldsSlot(e)' <=> Counted(e)
        <4>1. ~HoldsSlot(e)'
          BY <2>1 DEF HoldsSlot, InHand
        <4>2. (\E u \in Threads : cb'[u] = e /\ cb'[u] = e /\ cb_slot'[u]) <=> cb_slot'[t]
          BY <2>1 DEF InCallback
        <4> QED  BY <2>1, <4>1, <4>2 DEF XHoldsSlot
      <3> QED  BY <3>1, <3>2
    <2>3. ASSUME NEW o \in Ops, o # e PROVE XHoldsSlot(o)' <=> XHoldsSlot(o)
      <3>1. HoldsSlot(o)' <=> HoldsSlot(o)
        BY <2>1, <2>3 DEF HoldsSlot
      <3>2. \A u \in Threads : cb'[u] = o /\ cb_slot'[u] <=> cb[u] = o /\ cb_slot[u]
        BY <2>1, <2>3, OpsAssumption
      <3> QED  BY <3>1, <3>2 DEF XHoldsSlot
    <2> QED  BY <2>1, <2>2, <2>3
  <1> QED  BY <1>1, <1>2, <1>3 DEF ContStep

(* The fetch_sub of complete_cb gives back the slot of its own operation.  *)
LEMMA CbSlotGiven ==
    ASSUME XPlaceInv, g_pending_msg_max > 0, XPendingExact, NEW t \in Threads, CbFetchSub(t)
    PROVE  XPendingExact'
  <1> USE DEF XPlaceInv, PlaceInv, LockInv, TypeInv, TypeOK
  <1>1. cb[t] # NULL /\ cb_slot[t]
    BY DEF CbFetchSub, CbOK, CbOf
  <1>2. PICK e \in Ops : e = cb[t] /\ e.proc = ThreadProc[t] /\ mpi_req[e] = "freed" /\ ~InHand(e)
    BY <1>1 DEF XTypeOK, CbOK, CbOf, Somewhere
  <1>3. /\ ~cb_slot'[t] /\ \A u \in Threads : u # t => cb_slot'[u] = cb_slot[u]
        /\ UNCHANGED <<pc, entry, mpi_req, cb>>
    BY DEF CbFetchSub, mpiVars, frameVars, XTypeOK
  <1>4. XHoldsSlot(e) /\ ~XHoldsSlot(e)'
    <2>1. XHoldsSlot(e)
      BY <1>1, <1>2 DEF XHoldsSlot
    <2>2. ~HoldsSlot(e)'
      BY <1>2, <1>3 DEF HoldsSlot, InHand
    <2>3. \A u \in Threads : cb[u] = e => u = t
      BY <1>1, <1>2 DEF CbOK
    <2> QED  BY <1>3, <2>1, <2>2, <2>3 DEF XHoldsSlot
  <1>5. ASSUME NEW o \in Ops, o # e PROVE XHoldsSlot(o)' <=> XHoldsSlot(o)
    BY <1>2, <1>3, <1>5 DEF XHoldsSlot, HoldsSlot
  <1>6. ASSUME NEW p \in Procs PROVE g_pending_msg'[p] = Cardinality(XSlots(p)')
    <2>1. IsFiniteSet(XSlots(p)) /\ g_pending_msg[p] = Cardinality(XSlots(p))
      BY XSlotsSplit DEF XPendingExact, XSlots
    <2>2. CASE p = ThreadProc[t]
      <3>1. XSlots(p)' = XSlots(p) \ {e} /\ e \in XSlots(p)
        BY <1>2, <1>4, <1>5, <2>2 DEF XSlots
      <3>2. g_pending_msg'[p] = g_pending_msg[p] - 1
        BY <2>2 DEF CbFetchSub, SignalTypeOK
      <3> QED  BY <2>1, <3>1, <3>2, FS_RemoveElement
    <2>3. CASE p # ThreadProc[t]
      <3>1. XSlots(p)' = XSlots(p)
        BY <1>2, <1>5, <2>3 DEF XSlots
      <3>2. g_pending_msg'[p] = g_pending_msg[p]
        BY <2>3 DEF CbFetchSub, SignalTypeOK
      <3> QED  BY <2>1, <3>1, <3>2
    <2> QED  BY <2>2, <2>3
  <1> QED  BY <1>6 DEF XPendingExact, XSlots

(* g_pending_msg is exactly the number of sends and puts between their     *)
(* fetch_add and their fetch_sub, also when that runs in a continuation,   *)
(* and so in any thread's call of MPI.                                     *)
THEOREM XPendingCounted == XSpec => []XPendingExact
  <1>1. XInit => XPendingExact
    <2> SUFFICES ASSUME XInit, NEW p \in Procs
                 PROVE  g_pending_msg[p] = Cardinality(XSlots(p))
      BY DEF XPendingExact, XSlots
    <2>1. XSlots(p) = {}
      BY DEF XInit, MpiInit, FramesInit, XSlots, XHoldsSlot, HoldsSlot
    <2> QED  BY <2>1, FS_EmptySet DEF XInit, SignalInit
  <1>2. XPlaceInv /\ XPlaceInv' /\ XPendingExact /\ [XNext]_xvars => XPendingExact'
    <2> SUFFICES ASSUME XPlaceInv, XPlaceInv', XPendingExact, [XNext]_xvars, g_pending_msg_max > 0
                 PROVE  XPendingExact'
      BY DEF XPendingExact
    <2>1. CASE [Next]_vars /\ UNCHANGED <<config, conts, cb, cb_slot>>
      BY <2>1, XSlotsPlain
    <2>2. ASSUME NEW t \in Threads, ContStep(t), ~CbFetchSub(t) PROVE XPendingExact'
      <3>1. \A p \in Procs : g_pending_msg'[p] = g_pending_msg[p] /\ XSlots(p)' = XSlots(p)
        BY <2>2, ContHolds DEF XSlots
      <3> QED  BY <3>1 DEF XPendingExact, XSlots
    <2> QED  BY <2>1, <2>2, CbSlotGiven, XSteps
  <1> QED  BY <1>1, <1>2, XPlaceCorrect, PTL DEF XSpec

-----------------------------------------------------------------------------
(* The contract.  add_entry asks MPI for no status, so complete_cb reports *)
(* the length of the buffer the client gave: what it reports of a receive  *)
(* is true where every message fills its buffer.                           *)
BuffersFilled == \A s, r \in Ops : Matches(s, r) => s.length = r.length

XMessageInv == XPlaceInv /\ MessageInv

(* The steps of manager_cont_t do not touch messages: requests that are    *)
(* done are freed, and threads that handle no arrival go on to handle none.*)
LEMMA ContMessages ==
    ASSUME XMessageInv, NEW t \in Threads, ContStep(t)
    PROVE  /\ \A o \in Ops : mpi_req'[o] \in {"none", "active"} <=> mpi_req[o] \in {"none", "active"}
           /\ \A o \in Ops : mpi_req'[o] = "none" <=> mpi_req[o] = "none"
           /\ MatchedOK' /\ RbufOK' /\ StatusOK'
           /\ \A s : CopiedOut(s)' <=> CopiedOut(s)
           /\ \A u \in Threads, s \in Ops : status'[u] = s => status[u] = s
  <1> USE DEF XMessageInv, MessageInv, PlaceInv, LockInv, TypeInv, TypeOK
  <1>1. \A o \in Ops : mpi_req'[o] = mpi_req[o] \/ (mpi_req[o] = "done" /\ mpi_req'[o] = "freed")
    BY DEF ContStep, AttachCont, TryLockCont, TestCont, StartCont, UnlockCont, CbFetchSub, CbSignal,
           RunContinuation, FreeRequest, mpiVars, MpiTypeOK
  <1>2. UNCHANGED <<put_req, put_rbuf, net, matched>>
    BY ContFrames
  <1>3. RbufOK'
    BY <1>2 DEF RbufOK
  <1>4. MatchedOK'
    <2>1. \A r \in Ops : matched[r] # NULL => matched[r] \in Ops
      BY DEF MpiTypeOK
    <2> QED  BY <1>1, <1>2, <2>1 DEF MatchedOK
  <1>5. CASE UNCHANGED frameVars
    BY <1>1, <1>2, <1>3, <1>4, <1>5 DEF StatusOK, StatusOf, CopiedOut, frameVars
  <1>6. CASE ~UNCHANGED frameVars
    <2>1. pc[t] \in {"add_lock", "mgr_empty", "cont_test", "cont_start", "cont_unlock"}
      BY <1>6 DEF ContStep, AttachCont, TryLockCont, TestCont, StartCont, UnlockCont, CbFetchSub,
                  CbSignal, RunContinuation
    <2>2. /\ pc'[t] \in {"idle", "cont_test", "cont_start", "cont_unlock"}
          /\ \A u \in Threads : u # t =>
                /\ pc'[u] = pc[u] /\ dev'[u] = dev[u] /\ entry'[u] = entry[u]
                /\ status'[u] = status[u] /\ buffer'[u] = buffer[u]
          /\ status'[t] \in {status[t], NULL}
      BY <1>6, ContFrames DEF Return, ContGoto, Goto, FramesTypeOK
    <2>3. pc[t] \notin PutSteps /\ pc'[t] \notin PutSteps \cup Finished
      BY <2>1, <2>2 DEF PutSteps, PutLocked, Finished, SignalSteps
    <2>4. pc'[t] \notin {"put_copy", "put_repost", "put_unlock", "put_signal"}
      BY <2>2
    <2>5. StatusOK'
      BY <1>2, <2>2, <2>3, <2>4 DEF StatusOK, StatusOf
    <2>6. \A s : CopiedOut(s)' <=> CopiedOut(s)
      BY <2>2, <2>3, CopiedQuiet
    <2> QED  BY <1>1, <1>3, <1>4, <2>2, <2>5, <2>6, OpsAssumption
  <1> QED  BY <1>5, <1>6

(* What complete_cb signals is true.                                       *)
LEMMA UnreadGood ==
    ASSUME BuffersFilled, XMessageInv, NEW t \in Threads, cb[t] # NULL
    PROVE  GoodReport(cb[t].comp, UnreadRequest(cb[t]))
  <1> USE DEF XMessageInv, XPlaceInv, MessageInv
  <1>1. PICK e \in Ops : e = cb[t]
    BY DEF XTypeOK
  <1>2. PICK r \in Completion : r = UnreadRequest(e) /\ Key(r) = <<"operation", e>>
    BY <1>1, UnreadType DEF CbOK
  <1>3. e.op \in OpTypes /\ r.op = e.op /\ r.user_context = e
    BY <1>1, <1>2, OpsAssumption DEF UnreadRequest
  <1>4. CASE IsRecv(e)
    <2>1. matched[e] \in Ops /\ Matches(matched[e], e)
      BY <1>1, <1>4, OpsAssumption DEF CbOK, CbOf, MatchedOK
    <2>2. r.buffer = matched[e] /\ r.rank = matched[e].proc /\ r.length = matched[e].length
      BY <1>2, <1>4, <2>1 DEF UnreadRequest, BuffersFilled, Matches
    <2>3. GoodReport(e.comp, r)
      BY <1>3, <1>4, <2>1, <2>2 DEF GoodReport, TrueReport, IsRecv
    <2> QED  BY <1>1, <1>2, <2>3
  <1>5. CASE ~IsRecv(e)
    <2>1. GoodReport(e.comp, r)
      BY <1>3, <1>5 DEF GoodReport, TrueReport, IsRecv, OpTypes
    <2> QED  BY <1>1, <1>2, <2>1
  <1> QED  BY <1>4, <1>5

(* The signal of complete_cb is the only step of manager_cont_t that adds  *)
(* a report.                                                               *)
LEMMA ContReports ==
    ASSUME BuffersFilled, XMessageInv, NEW t \in Threads, ContStep(t)
    PROVE  /\ ReportsGood'
           /\ \A s : /\ Reported(<<"arrival", s>>)' <=> Reported(<<"arrival", s>>)
                     /\ ~ReportedTwice(<<"arrival", s>>) => ~ReportedTwice(<<"arrival", s>>)'
  <1> USE DEF XMessageInv, XPlaceInv, MessageInv, PlaceInv, LockInv, TypeInv, TypeOK
  <1>1. CASE CbSignal(t)
    <2>1. cb[t] # NULL
      BY <1>1 DEF CbSignal
    <2>2. PICK c \in Comps, r \in Completion :
             /\ c = cb[t].comp /\ r = UnreadRequest(cb[t]) /\ SignalComp(c, r)
             /\ Key(r) = <<"operation", cb[t]>>
      BY <1>1, <2>1, UnreadType DEF CbSignal, CbOK
    <2>3. GoodReport(c, r)
      BY <2>1, <2>2, UnreadGood
    <2>4. ASSUME NEW s
          PROVE  /\ Reported(<<"arrival", s>>)' <=> Reported(<<"arrival", s>>)
                 /\ ~ReportedTwice(<<"arrival", s>>) => ~ReportedTwice(<<"arrival", s>>)'
      <3>1. Key(r) # <<"arrival", s>>
        BY <2>2
      <3> QED  BY <2>2, <3>1, SignalReports
    <2>5. \A e \in Comps : \A x \in ReportsAt(e)' : GoodReport(e, x)
      BY <2>2, <2>3, ReportsAdded DEF ReportsGood, ReportsAt
    <2>6. \A e \in Comps : \A x \in ReportsAt(e)' : GoodReport(e, x)'
      BY <2>5, ContFrames DEF GoodReport, TrueReport
    <2>7. ReportsGood'
      <3>1. ASSUME NEW e \in Comps, NEW i \in DOMAIN cq'[e] PROVE GoodReport(e, cq[e][i])'
        <4>1. PICK x : x = cq'[e][i]
          OBVIOUS
        <4>2. GoodReport(e, x)'
          BY <2>6, <4>1 DEF ReportsAt
        <4> QED  BY <4>1, <4>2 DEF GoodReport, TrueReport
      <3>2. ASSUME NEW e \in Comps, NEW x \in polled'[e] PROVE GoodReport(e, x)'
        BY <2>6 DEF ReportsAt
      <3> QED  BY <3>1, <3>2 DEF ReportsGood
    <2> QED  BY <2>4, <2>7
  <1>2. CASE ~CbSignal(t)
    <2>1. UNCHANGED <<cq, polled, matched>>
      BY <1>2, ContFrames
      DEF ContStep, AttachCont, TryLockCont, TestCont, StartCont, UnlockCont, CbFetchSub,
          RunContinuation, signalVars
    <2> QED  BY <2>1 DEF ReportsGood, GoodReport, TrueReport, Reported, ReportedTwice
  <1> QED  BY <1>1, <1>2

(* Every step keeps what is known of messages.                             *)
LEMMA XMessageNext ==
    ASSUME BuffersFilled, XMessageInv, [XNext]_xvars
    PROVE  XMessageInv'
  <1> USE DEF XMessageInv
  <1>1. XPlaceInv'
    BY XPlaceNext
  <1>2. CASE [Next]_vars
    BY <1>1, <1>2, MessageStep
  <1>3. ASSUME NEW t \in Threads, ContStep(t) PROVE MessageInv'
    <2>1. ASSUME NEW s \in Ops PROVE PutPlaced(s)'
      <3>1. (s \in net' <=> s \in net) /\ (InRbuf(s)' <=> InRbuf(s))
        BY <1>3, ContFrames DEF InRbuf
      <3> QED  BY <1>3, <3>1, ContMessages, ContReports, PutQuiet DEF MessageInv, PutsPlaced
    <2> QED  BY <1>1, <1>3, <2>1, ContMessages, ContReports DEF MessageInv, PutsPlaced, XPlaceInv
  <1> QED  BY <1>1, <1>2, <1>3, XSteps

(* What complete_cb signals is due.                                        *)
LEMMA UnreadDue ==
    ASSUME BuffersFilled, XMessageInv, NEW t \in Threads, cb[t] # NULL
    PROVE  UnreadRequest(cb[t]) \in Contract!Due(cb[t].comp)
  <1> USE DEF XMessageInv, XPlaceInv, MessageInv, PlaceInv, LockInv
  <1>1. PICK e \in Ops : e = cb[t]
    BY DEF XTypeOK
  <1>2. PICK r \in Completion : r = UnreadRequest(e) /\ Key(r) = <<"operation", e>>
    BY <1>1, UnreadType DEF CbOK
  <1>3. e \in Posted /\ ~Reported(Key(r))
    BY <1>1, <1>2 DEF Posted, CbOK, CbOf, Somewhere
  <1>4. \A q \in Contract!Reports : Key(q) # Key(r)
    BY <1>3, ContractReports
  <1>5. CASE Counted(e)
    <2>1. r = Contract!Sent(e)
      BY <1>2, <1>5 DEF UnreadRequest, Contract!Sent, Counted, IsRecv
    <2>2. r \in Contract!Due(e.comp)
      BY <1>3, <1>4, <1>5, <2>1, SentDue
    <2> QED  BY <1>1, <1>2, <2>2
  <1>6. CASE IsRecv(e)
    <2>1. PICK s \in Ops : s = matched[e] /\ s # NULL
      BY <1>1, <1>6, OpsAssumption DEF CbOK, CbOf
    <2>2. Matches(s, e) /\ s \in Posted
      BY <2>1 DEF MatchedOK, Posted
    <2>3. r = Contract!Received(e, s)
      BY <1>2, <1>6, <2>1, <2>2 DEF UnreadRequest, Contract!Received, IsRecv, BuffersFilled, Matches
    <2>4. ASSUME NEW q \in Contract!Reports, q.op = "RECV" PROVE q.buffer # s
      <3>1. PICK b \in Comps : q \in ReportsAt(b)
        BY ContractReports
      <3>2. GoodReport(b, q)
        BY <3>1 DEF ReportsGood, ReportsAt
      <3>3. q.user_context \in Ops /\ q.buffer = matched[q.user_context]
        BY <2>4, <3>2 DEF GoodReport
      <3>4. q.user_context # e
        BY <1>2, <1>4, <2>4 DEF Key
      <3> QED  BY <2>1, <3>3, <3>4 DEF MatchedOK
    <2>5. r \in Contract!Due(e.comp)
      BY <1>3, <1>4, <2>2, <2>3, <2>4, ReceivedDue
    <2> QED  BY <1>1, <1>2, <2>5
  <1>7. Counted(e) \/ IsRecv(e)
    BY OpsAssumption DEF Counted, IsRecv, OpTypes
  <1> QED  BY <1>5, <1>6, <1>7

(* With streams and continuations the MPI backend still implements the     *)
(* contract of lcw.hpp, if every message fills the buffer of its receive:  *)
(* complete_cb, in whichever thread's MPI call it runs, reports what is    *)
(* due.                                                                    *)
THEOREM XContract == BuffersFilled => (XSpec => ContractSpec)
  <1> SUFFICES ASSUME BuffersFilled PROVE XSpec => ContractSpec
    OBVIOUS
  <1>1. XInit => Contract!Init
    BY DEF XInit, MpiInit, SignalInit, Contract!Init
  <1>2. XMessageInv /\ [XNext]_xvars => [Contract!Next]_(Contract!contractVars)
    <2> SUFFICES ASSUME XMessageInv, [XNext]_xvars
                 PROVE  Contract!Next \/ UNCHANGED Contract!contractVars
      OBVIOUS
    <2> USE DEF XMessageInv
    <2>1. CASE Next
      BY <2>1, ContractStep
    <2>2. CASE UNCHANGED vars
      BY <2>2, ContractQuiet DEF vars, mpiVars, signalVars
    <2>3. ASSUME NEW t \in Threads, CbSignal(t) PROVE Contract!Next
      <3>1. cb[t] # NULL
        BY <2>3 DEF CbSignal
      <3>2. PICK c \in Comps, r \in Completion :
               c = cb[t].comp /\ r = UnreadRequest(cb[t]) /\ SignalComp(c, r)
        BY <2>3, <3>1, UnreadType DEF CbSignal, XPlaceInv, CbOK
      <3>3. r \in Contract!Due(c)
        BY <3>1, <3>2, UnreadDue
      <3> QED  BY <2>3, <3>2, <3>3, SignalIsReport
               DEF CbSignal, mpiVars, XPlaceInv, PlaceInv, LockInv, TypeInv, TypeOK
    <2>4. ASSUME NEW t \in Threads, ContStep(t), ~CbSignal(t) PROVE UNCHANGED Contract!contractVars
      <3>1. UNCHANGED <<cq, polled>>
        BY <2>4 DEF ContStep, AttachCont, TryLockCont, TestCont, StartCont, UnlockCont, CbFetchSub,
                    RunContinuation, signalVars
      <3> QED  BY <2>4, <3>1, ContMessages, ContractQuiet
    <2> QED  BY <2>1, <2>2, <2>3, <2>4, XSteps
  <1>3. XInit => XMessageInv
    BY XPlaceStart, XTypeInit, MessageInit DEF XMessageInv
  <1> QED  BY <1>1, <1>2, <1>3, XMessageNext, PTL DEF XSpec, ContractSpec, Contract!Spec
=============================================================================
