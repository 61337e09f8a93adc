----------------------------- MODULE LockProofs -----------------------------
(***************************************************************************)
(* Type correctness of the MPI backend and its two spinlocks: the frame of *)
(* every thread fits the step it takes next, a finished request has a      *)
(* message, a deque holds entries of its own devices, and each lock is     *)
(* held by exactly the thread that is in the code it guards.               *)
(***************************************************************************)
EXTENDS BackendMpi, TLAPS

(* The frame of a thread is what its step needs: an entry from the first   *)
(* step of a post and from pop_front on, a device during do_progress, a    *)
(* status once MPI_Test has succeeded and a buffer once put_rbuf was       *)
(* copied.                                                                 *)
WithEntry == PostSteps \cup {"mgr_push_back", "mgr_unlock"} \cup SignalSteps
Finished == {"mgr_unlock"} \cup SignalSteps
WithStatus == {"put_copy", "put_repost", "put_unlock", "put_signal"} \cup Finished

FrameOf(t) ==
    /\ pc[t] \in WithEntry => entry[t] \in Ops /\ entry[t].proc = ThreadProc[t]
    /\ pc[t] \notin WithEntry => entry[t] = NULL
    /\ pc[t] \in ProgressSteps => dev[t] \in Devices /\ dev[t][1] = ThreadProc[t]
    /\ pc[t] \in {"put_copy", "put_repost", "put_signal"} => status[t] \in Ops
    /\ pc[t] \notin WithStatus => status[t] = NULL
    /\ pc[t] = "put_copy" => put_rbuf[dev[t]] \in Ops
    /\ pc[t] \in {"put_repost", "put_signal"} => buffer[t] \in Ops
    /\ pc[t] = "put_unlock" /\ status[t] # NULL => buffer[t] \in Ops
    /\ pc[t] \in Finished /\ IsRecv(entry[t]) => status[t] \in Ops
    /\ pc[t] \in {"mgr_push_back", "mgr_unlock"} =>
          ManagerOf(DeviceOf(entry[t])) = ManagerOf(dev[t])

FrameOK == \A t \in Threads : FrameOf(t)

(* A put receive that completed has a message in its buffer, a receive     *)
(* that completed was matched.                                             *)
MpiOK ==
    /\ \A d \in Devices : put_req[d] = "done" => put_rbuf[d] \in Ops
    /\ \A o \in Ops : IsRecv(o) /\ mpi_req[o] = "done" => matched[o] \in Ops

(* An entry is in the deque of its own device's manager.                   *)
EntriesOwned ==
    \A m \in Managers : \A i \in 1 .. Len(entries[m]) :
       ManagerOf(DeviceOf(entries[m][i])) = m

TypeInv == TypeOK /\ FrameOK /\ MpiOK /\ EntriesOwned

(* Before the first call, whatever the client is about to issue.           *)
Start ==
    /\ MpiInit /\ FramesInit /\ SignalInit /\ ManagerInit
    /\ todo \subseteq Ops
    /\ put_lock = [d \in Devices |-> NULL]

(* The clients of Spec are about to issue all the operations.              *)
LEMMA InitStarts == Init => Start
  BY DEF Init, Start

(* The types hold before the first call: all threads idle, put receives    *)
(* posted by alloc_device, deques empty.                                   *)
LEMMA TypeInit == Start => TypeInv
  BY ProcsAssumption, DevicesAssumption, ConfigAssumption, OpsAssumption
  DEF Start, MpiInit, FramesInit, SignalInit, ManagerInit, TypeInv, TypeOK,
      MpiTypeOK, FramesTypeOK, SignalTypeOK, ManagerTypeOK, FrameOK, FrameOf, MpiOK,
      EntriesOwned, Steps, WithEntry, WithStatus, Finished, PostSteps, ProgressSteps, PutSteps, PutLocked,
      ManagerSteps, ManagerLocked, SignalSteps

(* What a thread finds in its frame, by the step it is at.                 *)
LEMMA FrameFacts ==
    ASSUME FrameOK, NEW t \in Threads
    PROVE  /\ pc[t] \in WithEntry => entry[t] \in Ops /\ entry[t].proc = ThreadProc[t]
           /\ pc[t] \in ProgressSteps => dev[t] \in Devices /\ dev[t][1] = ThreadProc[t]
           /\ pc[t] = "put_signal" => status[t] \in Ops /\ buffer[t] \in Ops
           /\ pc[t] \in Finished /\ IsRecv(entry[t]) => status[t] \in Ops
  BY DEF FrameOK, FrameOf

-----------------------------------------------------------------------------
(* Types.                                                                  *)

(* A part of the state that a step leaves alone keeps its type.            *)
LEMMA TypeUnchanged ==
    /\ MpiTypeOK /\ UNCHANGED mpiVars => MpiTypeOK'
    /\ FramesTypeOK /\ UNCHANGED frameVars => FramesTypeOK'
    /\ SignalTypeOK /\ UNCHANGED signalVars => SignalTypeOK'
    /\ ManagerTypeOK /\ UNCHANGED managerVars => ManagerTypeOK'
  BY DEF MpiTypeOK, mpiVars, FramesTypeOK, frameVars, SignalTypeOK, signalVars,
         ManagerTypeOK, managerVars

(* A thread goes on to a step that exists.                                 *)
LEMMA GotoType ==
    ASSUME pc \in [Threads -> Steps], NEW t \in Threads, NEW step \in Steps, Goto(t, step)
    PROVE  pc' \in [Threads -> Steps]
  BY DEF Goto

(* Returning to the client clears the thread's frame.                      *)
LEMMA ReturnType ==
    ASSUME FramesTypeOK, NEW t \in Threads, Return(t)
    PROVE  FramesTypeOK'
  <1>1. "idle" \in Steps
    BY DEF Steps
  <1> QED  BY <1>1, GotoType DEF FramesTypeOK, Return

(* util::signal_comp pushes on a queue, or hands to a handler, a well-     *)
(* formed request_t.                                                       *)
LEMMA SignalCompType ==
    ASSUME SignalTypeOK, NEW c \in Comps, NEW r \in Completion, SignalComp(c, r),
           UNCHANGED g_pending_msg
    PROVE  SignalTypeOK'
  <1>1. Append(cq[c], r) \in Seq(Completion)
    BY DEF SignalTypeOK
  <1>2. polled[c] \cup {r} \in SUBSET Completion
    BY DEF SignalTypeOK
  <1> QED  BY <1>1, <1>2 DEF SignalTypeOK, SignalComp, CqSignal, HandlerSignal

(* A step of send, recv or put keeps the types.                            *)
LEMMA TypeCall ==
    ASSUME TypeOK, FrameOK, NEW t \in Threads,
           CallStep(t) \/ FetchAdd(t) \/ Post(t) \/ \E d \in Devices : ReadPutReq(t, d)
    PROVE  TypeOK'
  <1> USE DEF TypeOK
  <1>1. ASSUME NEW o \in Ops, SendOrPut(t, o) \/ Recv(t, o)
        PROVE  TypeOK'
    <2>1. pc' \in [Threads -> Steps]
      BY <1>1, GotoType DEF SendOrPut, Recv, FramesTypeOK, Steps, PostSteps
    <2>2. FramesTypeOK'
      BY <1>1, <2>1 DEF SendOrPut, Recv, FramesTypeOK
    <2>3. MpiTypeOK' /\ SignalTypeOK' /\ ManagerTypeOK'
      BY <1>1, TypeUnchanged DEF SendOrPut, Recv
    <2> QED  BY <1>1, <2>2, <2>3 DEF SendOrPut, Recv
  <1>2. CASE FetchAdd(t)
    <2>1. FramesTypeOK'
      BY <1>2, GotoType DEF FetchAdd, FramesTypeOK, Steps, PostSteps
    <2>2. ThreadProc[t] \in Procs
      BY ProcsAssumption
    <2>3. SignalTypeOK'
      BY <1>2, <2>2 DEF FetchAdd, SignalTypeOK
    <2>4. MpiTypeOK' /\ ManagerTypeOK'
      BY <1>2, TypeUnchanged DEF FetchAdd
    <2> QED  BY <1>2, <2>1, <2>3, <2>4 DEF FetchAdd
  <1>3. CASE Post(t)
    <2>1. entry[t] \in Ops
      BY <1>3, FrameFacts DEF Post, WithEntry, PostSteps
    <2>2. FramesTypeOK'
      BY <1>3, GotoType DEF Post, FramesTypeOK, Steps, PostSteps
    <2>3. MpiTypeOK'
      BY <1>3, <2>1 DEF Post, StartRequest, MpiTypeOK
    <2>4. SignalTypeOK' /\ ManagerTypeOK'
      BY <1>3, TypeUnchanged DEF Post
    <2> QED  BY <1>3, <2>2, <2>3, <2>4 DEF Post
  <1>4. ASSUME NEW d \in Devices, ReadPutReq(t, d) PROVE TypeOK'
    <2>1. pc' \in [Threads -> Steps]
      BY <1>4, GotoType
      DEF ReadPutReq, FramesTypeOK, Steps, ProgressSteps, PutSteps, ManagerSteps
    <2>2. FramesTypeOK'
      BY <1>4, <2>1 DEF ReadPutReq, FramesTypeOK
    <2>3. MpiTypeOK' /\ SignalTypeOK' /\ ManagerTypeOK'
      BY <1>4, TypeUnchanged DEF ReadPutReq
    <2> QED  BY <1>4, <2>2, <2>3 DEF ReadPutReq
  <1> QED  BY <1>1, <1>2, <1>3, <1>4 DEF CallStep

(* A step of do_progress on the put receive keeps the types.               *)
LEMMA TypePut ==
    ASSUME TypeOK, FrameOK, NEW t \in Threads, PutStep(t)
    PROVE  TypeOK'
  <1> USE DEF TypeOK
  <1>1. dev[t] \in Devices
    <2>1. pc[t] \in ProgressSteps
      BY DEF PutStep, TryLockPut, TestPut, CopyPut, PostPutRecv, UnlockPut, SignalPut,
             ProgressSteps, PutSteps, PutLocked
    <2> QED  BY <2>1, FrameFacts
  <1>2. pc' \in [Threads -> Steps]
    BY GotoType
    DEF PutStep, TryLockPut, TestPut, CopyPut, PostPutRecv, UnlockPut, SignalPut,
        FramesTypeOK, Steps, ProgressSteps, PutSteps, PutLocked, ManagerSteps
  <1>3. CASE TryLockPut(t)
    <2>1. FramesTypeOK'
      BY <1>2, <1>3 DEF TryLockPut, FramesTypeOK
    <2>2. put_lock' \in [Devices -> Threads \cup {NULL}]
      BY <1>1, <1>3 DEF TryLockPut
    <2>3. MpiTypeOK' /\ SignalTypeOK' /\ ManagerTypeOK'
      BY <1>3, TypeUnchanged DEF TryLockPut
    <2> QED  BY <1>3, <2>1, <2>2, <2>3 DEF TryLockPut
  <1>4. CASE TestPut(t)
    <2>1. FramesTypeOK'
      BY <1>1, <1>2, <1>4 DEF TestPut, FramesTypeOK, MpiTypeOK
    <2>2. MpiTypeOK'
      BY <1>1, <1>4 DEF TestPut, MpiTypeOK
    <2>3. SignalTypeOK' /\ ManagerTypeOK'
      BY <1>4, TypeUnchanged DEF TestPut
    <2> QED  BY <1>4, <2>1, <2>2, <2>3 DEF TestPut
  <1>5. CASE CopyPut(t)
    <2>1. FramesTypeOK'
      BY <1>1, <1>2, <1>5 DEF CopyPut, FramesTypeOK, MpiTypeOK
    <2>2. MpiTypeOK' /\ SignalTypeOK' /\ ManagerTypeOK'
      BY <1>5, TypeUnchanged DEF CopyPut
    <2> QED  BY <1>5, <2>1, <2>2 DEF CopyPut
  <1>6. CASE PostPutRecv(t)
    <2>1. FramesTypeOK'
      BY <1>2, <1>6 DEF PostPutRecv, FramesTypeOK
    <2>2. MpiTypeOK'
      BY <1>1, <1>6 DEF PostPutRecv, MpiTypeOK
    <2>3. SignalTypeOK' /\ ManagerTypeOK'
      BY <1>6, TypeUnchanged DEF PostPutRecv
    <2> QED  BY <1>6, <2>1, <2>2, <2>3 DEF PostPutRecv
  <1>7. CASE UnlockPut(t)
    <2>1. FramesTypeOK'
      BY <1>2, <1>7 DEF UnlockPut, FramesTypeOK
    <2>2. put_lock' \in [Devices -> Threads \cup {NULL}]
      BY <1>1, <1>7 DEF UnlockPut
    <2>3. MpiTypeOK' /\ SignalTypeOK' /\ ManagerTypeOK'
      BY <1>7, TypeUnchanged DEF UnlockPut
    <2> QED  BY <1>7, <2>1, <2>2, <2>3 DEF UnlockPut
  <1>8. CASE SignalPut(t)
    <2>1. FramesTypeOK'
      BY <1>2, <1>8 DEF SignalPut, FramesTypeOK
    <2>2. status[t] \in Ops /\ buffer[t] \in Ops
      BY <1>8, FrameFacts DEF SignalPut
    <2>3. ArrivedRequest(status[t], buffer[t]) \in Completion
      BY <2>2, OpsAssumption DEF ArrivedRequest, Completion
    <2>4. PutComp[dev[t]] \in Comps
      BY <1>1, ProcsAssumption
    <2>5. SignalTypeOK'
      BY <1>8, <2>3, <2>4, SignalCompType DEF SignalPut
    <2>6. MpiTypeOK' /\ ManagerTypeOK'
      BY <1>8, TypeUnchanged DEF SignalPut
    <2> QED  BY <1>8, <2>1, <2>5, <2>6 DEF SignalPut
  <1> QED  BY <1>3, <1>4, <1>5, <1>6, <1>7, <1>8 DEF PutStep

(* A step of add_entry or of the manager's do_progress keeps the types.    *)
LEMMA TypeManager ==
    ASSUME TypeOK, FrameOK, NEW t \in Threads, ManagerStep(t),
           UNCHANGED <<signalVars, todo, put_lock>>
    PROVE  TypeOK'
  <1> USE DEF TypeOK
  <1>1. SignalTypeOK'
    BY TypeUnchanged
  <1>2. ASSUME NEW m \in Managers, NEW o \in Ops
        PROVE  Append(entries[m], o) \in Seq(Ops)
    BY DEF ManagerTypeOK
  <1>3. pc[t] \in WithEntry => entry[t] \in Ops /\ ManagerOf(DeviceOf(entry[t])) \in Managers
    BY FrameFacts, OpsAssumption DEF Managers, DeviceOf, Devices
  <1>4. pc[t] \in ProgressSteps => ManagerOf(dev[t]) \in Managers
    BY FrameFacts DEF Managers
  <1>5. CASE AddEntryLock(t) /\ UNCHANGED mpiVars
    <2>1. FramesTypeOK'
      BY <1>5, GotoType DEF AddEntryLock, FramesTypeOK, Steps, PostSteps
    <2>2. ManagerTypeOK'
      BY <1>3, <1>5 DEF AddEntryLock, ManagerTypeOK, WithEntry, PostSteps
    <2> QED  BY <1>1, <1>5, <2>1, <2>2, TypeUnchanged
  <1>6. CASE AddEntryPush(t) /\ UNCHANGED mpiVars
    <2>1. FramesTypeOK'
      BY <1>6, ReturnType DEF AddEntryPush
    <2>2. ManagerTypeOK'
      BY <1>2, <1>3, <1>6 DEF AddEntryPush, ManagerTypeOK, WithEntry, PostSteps
    <2> QED  BY <1>1, <1>6, <2>1, <2>2, TypeUnchanged
  <1>7. CASE ReadEmpty(t) /\ UNCHANGED mpiVars
    <2>1. "mgr_try" \in Steps
      BY DEF Steps, ProgressSteps, ManagerSteps
    <2>2. FramesTypeOK'
      BY <1>7, <2>1, GotoType, ReturnType DEF ReadEmpty, FramesTypeOK
    <2> QED  BY <1>1, <1>7, <2>2, TypeUnchanged DEF ReadEmpty
  <1>8. CASE TryLockManager(t) /\ UNCHANGED mpiVars
    <2>1. "mgr_test" \in Steps
      BY DEF Steps, ProgressSteps, ManagerSteps, ManagerLocked
    <2>2. FramesTypeOK'
      BY <1>8, <2>1, GotoType, ReturnType DEF TryLockManager, FramesTypeOK
    <2>3. ManagerTypeOK'
      BY <1>4, <1>8 DEF TryLockManager, ManagerTypeOK, ProgressSteps, ManagerSteps
    <2> QED  BY <1>1, <1>8, <2>2, <2>3, TypeUnchanged
  <1>9. CASE FoundEmpty(t)
    <2>1. FramesTypeOK'
      BY <1>9, ReturnType DEF FoundEmpty
    <2>2. ManagerTypeOK'
      BY <1>4, <1>9 DEF FoundEmpty, ManagerTypeOK, ProgressSteps, ManagerSteps, ManagerLocked
    <2> QED  BY <1>1, <1>9, <2>1, <2>2, TypeUnchanged DEF FoundEmpty
  <1>10. CASE TestFront(t)
    <2> DEFINE m == ManagerOf(dev[t])
               o == Head(entries[m])
    <2>1. m \in Managers
      BY <1>4, <1>10 DEF TestFront, ProgressSteps, ManagerSteps, ManagerLocked
    <2>2. o \in Ops /\ Tail(entries[m]) \in Seq(Ops)
      BY <1>10, <2>1 DEF TestFront, ManagerTypeOK
    <2>3. pc' \in [Threads -> Steps]
      BY <1>10, GotoType
      DEF TestFront, FramesTypeOK, Steps, ProgressSteps, ManagerSteps, ManagerLocked
    <2>4. ManagerTypeOK'
      BY <1>10, <2>1, <2>2 DEF TestFront, ManagerTypeOK
    <2>5. FramesTypeOK'
      BY <1>10, <2>2, <2>3 DEF TestFront, FramesTypeOK, MpiTypeOK, mpiVars
    <2>6. MpiTypeOK'
      BY <1>10, <2>2, TypeUnchanged DEF TestFront, FreeRequest, MpiTypeOK
    <2> QED  BY <1>1, <2>4, <2>5, <2>6
  <1>11. CASE PushBack(t) /\ UNCHANGED mpiVars
    <2>1. FramesTypeOK'
      BY <1>11, ReturnType DEF PushBack
    <2>2. entry[t] \in Ops /\ ManagerOf(dev[t]) \in Managers
      BY <1>3, <1>4, <1>11 DEF PushBack, WithEntry, ProgressSteps, ManagerSteps, ManagerLocked
    <2>3. ManagerTypeOK'
      BY <1>2, <1>11, <2>2 DEF PushBack, ManagerTypeOK
    <2> QED  BY <1>1, <1>11, <2>1, <2>3, TypeUnchanged
  <1>12. CASE UnlockManager(t) /\ UNCHANGED mpiVars
    <2>1. FramesTypeOK'
      BY <1>12, GotoType
      DEF UnlockManager, FramesTypeOK, Steps, ProgressSteps, SignalSteps
    <2>2. ManagerTypeOK'
      BY <1>4, <1>12 DEF UnlockManager, ManagerTypeOK, ProgressSteps, ManagerSteps, ManagerLocked
    <2> QED  BY <1>1, <1>12, <2>1, <2>2, TypeUnchanged
  <1> QED
    BY <1>5, <1>6, <1>7, <1>8, <1>9, <1>10, <1>11, <1>12 DEF ManagerStep

(* A step of signal_comp or poll_cq keeps the types.                       *)
LEMMA TypeSignal ==
    ASSUME TypeOK, FrameOK, NEW t \in Threads, SignalStep(t),
           UNCHANGED <<mpiVars, managerVars, todo, put_lock>>
    PROVE  TypeOK'
  <1> USE DEF TypeOK
  <1>1. MpiTypeOK' /\ ManagerTypeOK'
    BY TypeUnchanged
  <1>2. CASE FetchSub(t)
    <2>1. FramesTypeOK'
      BY <1>2, GotoType DEF FetchSub, FramesTypeOK, Steps, ProgressSteps, SignalSteps
    <2>2. ThreadProc[t] \in Procs
      BY ProcsAssumption
    <2>3. SignalTypeOK'
      BY <1>2, <2>2 DEF FetchSub, SignalTypeOK
    <2> QED  BY <1>1, <2>1, <2>3
  <1>3. CASE SignalEntry(t)
    <2>1. FramesTypeOK'
      BY <1>3, ReturnType DEF SignalEntry
    <2>2. entry[t] \in Ops /\ (IsRecv(entry[t]) => status[t] \in Ops)
      BY <1>3, FrameFacts DEF SignalEntry, WithEntry, WithStatus, Finished, SignalSteps
    <2>3. entry[t].comp \in Comps
      BY <2>2, OpsAssumption
    <2>4. FinishedRequest(entry[t], status[t]) \in Completion
      BY <2>2, OpsAssumption DEF FinishedRequest, Completion
    <2>5. SignalTypeOK'
      BY <1>3, <2>3, <2>4, SignalCompType DEF SignalEntry
    <2> QED  BY <1>1, <2>1, <2>5
  <1>4. ASSUME NEW c \in Comps, PollCq(t, c) PROVE TypeOK'
    <2>1. Head(cq[c]) \in Completion /\ Tail(cq[c]) \in Seq(Completion)
      BY <1>4 DEF PollCq, Poll, SignalTypeOK
    <2>2. polled[c] \cup {Head(cq[c])} \in SUBSET Completion
      BY <2>1 DEF SignalTypeOK
    <2>3. SignalTypeOK'
      BY <1>4, <2>1, <2>2 DEF PollCq, Poll, SignalTypeOK
    <2> QED  BY <1>1, <1>4, <2>3, TypeUnchanged DEF PollCq
  <1> QED  BY <1>2, <1>3, <1>4 DEF SignalStep

(* A step of MPI keeps the types.                                          *)
LEMMA TypeMpi ==
    ASSUME TypeOK, MpiStep, UNCHANGED <<frameVars, signalVars, managerVars, todo, put_lock>>
    PROVE  TypeOK'
  <1>1. MpiTypeOK'
    <2> USE DEF TypeOK, MpiTypeOK
    <2>1. ASSUME NEW o \in Ops, NEW r \in Ops, MpiMatch(o, r) PROVE MpiTypeOK'
      BY <2>1 DEF MpiMatch
    <2>2. ASSUME NEW o \in Ops, MpiPutArrive(o) PROVE MpiTypeOK'
      BY <2>2 DEF MpiPutArrive
    <2>3. ASSUME NEW o \in Ops, MpiSendComplete(o) PROVE MpiTypeOK'
      BY <2>3 DEF MpiSendComplete
    <2> QED  BY <2>1, <2>2, <2>3 DEF MpiStep
  <1> QED  BY <1>1, TypeUnchanged DEF TypeOK

(* Every step keeps the types.                                             *)
LEMMA TypeNext ==
    ASSUME TypeOK, FrameOK, Next
    PROVE  TypeOK'
  BY TypeCall, TypePut, TypeManager, TypeSignal, TypeMpi DEF Next

-----------------------------------------------------------------------------
(* Frames.                                                                 *)

(* A step of another thread leaves a frame as it is.                       *)
LEMMA FrameOther ==
    ASSUME NEW u \in Threads, FrameOf(u), put_rbuf' = put_rbuf,
           pc'[u] = pc[u], dev'[u] = dev[u], entry'[u] = entry[u],
           status'[u] = status[u], buffer'[u] = buffer[u]
    PROVE  FrameOf(u)'
  BY DEF FrameOf

(* A thread that returns to the client holds nothing.                      *)
LEMMA FrameReturn ==
    ASSUME TypeOK, FrameOK, NEW t \in Threads, Return(t), put_rbuf' = put_rbuf
    PROVE  FrameOK'
  <1> USE DEF TypeOK, FramesTypeOK, FrameOK, Return, Goto
  <1>1. FrameOf(t)'
    BY DEF FrameOf, WithEntry, WithStatus, Finished, ProgressSteps, PostSteps, PutSteps, PutLocked,
           ManagerSteps, ManagerLocked, SignalSteps
  <1>2. ASSUME NEW u \in Threads, u # t PROVE FrameOf(u)'
    BY <1>2, FrameOther
  <1> QED  BY <1>1, <1>2

(* send, recv, put and the start of do_progress give the thread the frame  *)
(* its next step needs.                                                    *)
LEMMA FrameCall ==
    ASSUME TypeOK, FrameOK, NEW t \in Threads,
           CallStep(t) \/ FetchAdd(t) \/ Post(t) \/ \E d \in Devices : ReadPutReq(t, d)
    PROVE  FrameOK'
  <1> USE DEF TypeOK, FramesTypeOK, FrameOK, Goto
  <1>1. ASSUME NEW u \in Threads, u # t PROVE FrameOf(u)'
    BY <1>1, FrameOther
    DEF CallStep, SendOrPut, Recv, FetchAdd, Post, StartRequest, ReadPutReq, mpiVars
  <1> USE DEF FrameOf, WithEntry, WithStatus, Finished, ProgressSteps, PostSteps, PutSteps,
          PutLocked, ManagerSteps, ManagerLocked, SignalSteps
  <1>2. ASSUME NEW o \in Ops, SendOrPut(t, o) \/ Recv(t, o) PROVE FrameOf(t)'
    BY <1>2 DEF SendOrPut, Recv, MayIssue
  <1>3. CASE FetchAdd(t)
    BY <1>1, <1>3 DEF FetchAdd
  <1>4. CASE Post(t)
    BY <1>1, <1>4 DEF Post
  <1>5. ASSUME NEW d \in Devices, ReadPutReq(t, d) PROVE FrameOf(t)'
    BY <1>5 DEF ReadPutReq
  <1> QED  BY <1>1, <1>2, <1>3, <1>4, <1>5 DEF CallStep

(* So do the steps of do_progress on the put receive: the status is there  *)
(* once MPI_Test succeeded, the buffer once it was copied.                 *)
LEMMA FramePut ==
    ASSUME TypeOK, FrameOK, MpiOK, NEW t \in Threads, PutStep(t)
    PROVE  FrameOK'
  <1> USE DEF TypeOK, FramesTypeOK, FrameOK, Goto
  <1>1. ASSUME NEW u \in Threads, u # t PROVE FrameOf(u)'
    BY <1>1, FrameOther
    DEF PutStep, TryLockPut, TestPut, CopyPut, PostPutRecv, UnlockPut, SignalPut, mpiVars
  <1> USE DEF FrameOf, WithEntry, WithStatus, Finished, ProgressSteps, PostSteps, PutSteps,
          PutLocked, ManagerSteps, ManagerLocked, SignalSteps, mpiVars
  <1>2. CASE TryLockPut(t)
    BY <1>1, <1>2 DEF TryLockPut
  <1>3. CASE TestPut(t)
    <2>1. dev[t] \in Devices /\ entry[t] = NULL /\ dev[t][1] = ThreadProc[t]
      BY <1>3 DEF TestPut
    <2>2. put_req[dev[t]] = "done" => put_rbuf[dev[t]] \in Ops
      BY <2>1 DEF MpiOK
    <2>3. entry'[t] = NULL /\ dev'[t] = dev[t] /\ put_rbuf' = put_rbuf
      BY <1>3, <2>1 DEF TestPut
    <2>4. CASE pc'[t] = "put_copy"
      <3>1. status'[t] = put_rbuf[dev[t]] /\ put_req[dev[t]] = "done"
        BY <1>3, <2>4 DEF TestPut
      <3>2. FrameOf(t)'
        BY <2>1, <2>2, <2>3, <2>4, <3>1
      <3> QED  BY <1>1, <3>2
    <2>5. CASE pc'[t] = "put_unlock"
      <3>1. status'[t] = NULL
        BY <1>3, <2>5 DEF TestPut
      <3>2. FrameOf(t)'
        BY <2>1, <2>3, <2>5, <3>1
      <3> QED  BY <1>1, <3>2
    <2> QED  BY <1>3, <2>4, <2>5 DEF TestPut
  <1>4. CASE CopyPut(t)
    BY <1>1, <1>4 DEF CopyPut
  <1>5. CASE PostPutRecv(t)
    BY <1>1, <1>5 DEF PostPutRecv
  <1>6. CASE UnlockPut(t)
    <2>1. FrameOf(t)'
      BY <1>6 DEF UnlockPut
    <2> QED  BY <1>1, <2>1
  <1>7. CASE SignalPut(t)
    BY <1>1, <1>7 DEF SignalPut
  <1> QED  BY <1>2, <1>3, <1>4, <1>5, <1>6, <1>7 DEF PutStep

(* A manager belongs to one process.                                       *)
LEMMA ManagerProc ==
    ASSUME NEW d \in Devices, NEW e \in Devices, ManagerOf(d) = ManagerOf(e)
    PROVE  d[1] = e[1]
  BY DEF ManagerOf, Devices

(* So do add_entry and the manager's do_progress: an entry popped from a   *)
(* deque belongs to the thread's process, and a finished receive has a     *)
(* status.                                                                 *)
LEMMA FrameManager ==
    ASSUME TypeOK, FrameOK, MpiOK, EntriesOwned, NEW t \in Threads, ManagerStep(t)
    PROVE  FrameOK'
  <1> USE DEF TypeOK, FramesTypeOK, FrameOK, Goto
  <1>1. ASSUME NEW u \in Threads, u # t PROVE FrameOf(u)'
    BY <1>1, FrameOther
    DEF ManagerStep, AddEntryLock, AddEntryPush, ReadEmpty, TryLockManager, FoundEmpty,
        TestFront, FreeRequest, PushBack, UnlockManager, Return, mpiVars
  <1>2. CASE AddEntryLock(t) /\ UNCHANGED mpiVars
    BY <1>1, <1>2
    DEF AddEntryLock, FrameOf, WithEntry, WithStatus, Finished, ProgressSteps, PostSteps, PutSteps,
        PutLocked, ManagerSteps, ManagerLocked, SignalSteps, mpiVars
  <1>3. CASE (AddEntryPush(t) \/ PushBack(t)) /\ UNCHANGED mpiVars
    BY <1>3, FrameReturn DEF AddEntryPush, PushBack, mpiVars
  <1>4. CASE ReadEmpty(t) /\ UNCHANGED mpiVars
    <2>1. CASE Return(t)
      BY <1>4, <2>1, FrameReturn DEF mpiVars
    <2>2. CASE ~Return(t)
      BY <1>1, <1>4, <2>2
      DEF ReadEmpty, FrameOf, WithEntry, WithStatus, Finished, ProgressSteps, PostSteps, PutSteps,
          PutLocked, ManagerSteps, ManagerLocked, SignalSteps, mpiVars
    <2> QED  BY <2>1, <2>2
  <1>5. CASE TryLockManager(t) /\ UNCHANGED mpiVars
    <2>1. CASE Return(t)
      BY <1>5, <2>1, FrameReturn DEF mpiVars
    <2>2. CASE ~Return(t)
      BY <1>1, <1>5, <2>2
      DEF TryLockManager, FrameOf, WithEntry, WithStatus, Finished, ProgressSteps, PostSteps, PutSteps,
          PutLocked, ManagerSteps, ManagerLocked, SignalSteps, mpiVars
    <2> QED  BY <2>1, <2>2
  <1>6. CASE FoundEmpty(t)
    BY <1>6, FrameReturn DEF FoundEmpty, mpiVars
  <1>7. CASE TestFront(t)
    <2> DEFINE m == ManagerOf(dev[t])
               o == Head(entries[m])
    <2>1. dev[t] \in Devices /\ dev[t][1] = ThreadProc[t] /\ m \in Managers
      BY <1>7, FrameFacts DEF TestFront, Managers, ProgressSteps, ManagerSteps, ManagerLocked
    <2>2. o \in Ops /\ o = entries[m][1] /\ 1 \in 1 .. Len(entries[m])
      BY <1>7, <2>1 DEF TestFront, ManagerTypeOK
    <2>3. ManagerOf(DeviceOf(o)) = m
      BY <2>1, <2>2 DEF EntriesOwned
    <2>4. DeviceOf(o) \in Devices /\ DeviceOf(o)[1] = o.proc
      BY <2>2, OpsAssumption DEF DeviceOf, Devices
    <2>5. o.proc = ThreadProc[t]
      BY <2>1, <2>3, <2>4, ManagerProc
    <2>6. IsRecv(o) /\ mpi_req[o] = "done" => matched[o] \in Ops
      BY <2>2 DEF MpiOK
    <2>7. entry'[t] = o /\ dev'[t] = dev[t]
      BY <1>7 DEF TestFront
    <2>8. pc'[t] = "mgr_unlock" => status'[t] = matched[o] /\ mpi_req[o] = "done"
      BY <1>7 DEF TestFront, FreeRequest
    <2>9. pc'[t] \in {"mgr_unlock", "mgr_push_back"}
      BY <1>7 DEF TestFront
    <2>10. pc'[t] = "mgr_push_back" => status'[t] = NULL
      BY <1>7 DEF TestFront, FrameOf, WithStatus, Finished, SignalSteps
    <2> HIDE DEF m, o
    <2>11. FrameOf(t)'
      BY <2>1, <2>2, <2>3, <2>5, <2>6, <2>7, <2>8, <2>9, <2>10
      DEF FrameOf, WithEntry, WithStatus, Finished, ProgressSteps, PostSteps, PutSteps, PutLocked,
          ManagerSteps, ManagerLocked, SignalSteps, m
    <2> QED  BY <1>1, <2>11
  <1>8. CASE UnlockManager(t) /\ UNCHANGED mpiVars
    BY <1>1, <1>8
    DEF UnlockManager, FrameOf, WithEntry, WithStatus, Finished, ProgressSteps, PostSteps, PutSteps,
        PutLocked, ManagerSteps, ManagerLocked, SignalSteps, mpiVars
  <1> QED
    BY <1>2, <1>3, <1>4, <1>5, <1>6, <1>7, <1>8 DEF ManagerStep

(* So do the two halves of signal_comp; poll_cq changes no frame.          *)
LEMMA FrameSignal ==
    ASSUME TypeOK, FrameOK, NEW t \in Threads, SignalStep(t), UNCHANGED mpiVars
    PROVE  FrameOK'
  <1> USE DEF TypeOK, FramesTypeOK, FrameOK, mpiVars
  <1>1. CASE FetchSub(t)
    <2>1. ASSUME NEW u \in Threads, u # t PROVE FrameOf(u)'
      BY <1>1, <2>1, FrameOther DEF FetchSub, Goto
    <2>2. FrameOf(t)'
      BY <1>1
      DEF FetchSub, Goto, FrameOf, WithEntry, WithStatus, Finished, ProgressSteps, PostSteps, PutSteps,
          PutLocked, ManagerSteps, ManagerLocked, SignalSteps
    <2> QED  BY <2>1, <2>2
  <1>2. CASE SignalEntry(t)
    BY <1>2, FrameReturn DEF SignalEntry
  <1>3. ASSUME NEW c \in Comps, PollCq(t, c) PROVE FrameOK'
    BY <1>3, FrameOther DEF PollCq, frameVars
  <1> QED  BY <1>1, <1>2, <1>3 DEF SignalStep

(* MPI's own steps change no thread's frame.                               *)
LEMMA FrameMpi ==
    ASSUME TypeOK, FrameOK, MpiStep, UNCHANGED frameVars
    PROVE  FrameOK'
  <1> USE DEF FrameOK, frameVars
  <1>1. ASSUME NEW o \in Ops, MpiPutArrive(o) PROVE FrameOK'
    <2>1. \A d \in Devices : put_rbuf[d] \in Ops => put_rbuf'[d] \in Ops
      BY <1>1 DEF MpiPutArrive, TypeOK, MpiTypeOK
    <2>2. ASSUME NEW u \in Threads PROVE FrameOf(u)'
      BY <2>1
      DEF FrameOf, ProgressSteps, PutSteps, PutLocked
    <2> QED  BY <2>2
  <1>2. CASE ~\E o \in Ops : MpiPutArrive(o)
    <2>1. put_rbuf' = put_rbuf
      BY <1>2 DEF MpiStep, MpiMatch, MpiSendComplete
    <2> QED  BY <2>1, FrameOther
  <1> QED  BY <1>1, <1>2

(* Every step keeps the frames right.                                      *)
LEMMA FrameNext ==
    ASSUME TypeOK, FrameOK, MpiOK, EntriesOwned, Next
    PROVE  FrameOK'
  BY FrameCall, FramePut, FrameManager, FrameSignal, FrameMpi DEF Next

-----------------------------------------------------------------------------
(* Requests and deques.                                                    *)

(* What is known of MPI's requests depends on MPI's state only.            *)
LEMMA MpiUnchanged ==
    ASSUME MpiOK, UNCHANGED mpiVars
    PROVE  MpiOK'
  BY DEF MpiOK, mpiVars

(* A finished receive has a message that matches it, and a finished put    *)
(* receive has one in put_rbuf, after every step.                          *)
LEMMA MpiNext ==
    ASSUME TypeOK, FrameOK, MpiOK, EntriesOwned, Next
    PROVE  MpiOK'
  <1> USE DEF TypeOK, MpiTypeOK
  <1>1. ASSUME NEW t \in Threads, Post(t) PROVE MpiOK'
    BY <1>1 DEF Post, StartRequest, MpiOK
  <1>2. ASSUME NEW t \in Threads, TestPut(t) \/ PostPutRecv(t) PROVE MpiOK'
    BY <1>2 DEF TestPut, PostPutRecv, MpiOK
  <1>3. ASSUME NEW t \in Threads, TestFront(t) PROVE MpiOK'
    BY <1>3, MpiUnchanged DEF TestFront, FreeRequest, MpiOK
  <1>4. ASSUME NEW s \in Ops, NEW r \in Ops, MpiMatch(s, r) PROVE MpiOK'
    BY <1>4 DEF MpiMatch, MpiOK
  <1>5. ASSUME NEW s \in Ops, MpiPutArrive(s) PROVE MpiOK'
    BY <1>5 DEF MpiPutArrive, MpiOK
  <1>6. ASSUME NEW s \in Ops, MpiSendComplete(s) PROVE MpiOK'
    BY <1>6 DEF MpiSendComplete, MpiOK, Counted, IsRecv
  <1>7. CASE UNCHANGED mpiVars
    BY <1>7, MpiUnchanged
  <1> QED
    BY <1>1, <1>2, <1>3, <1>4, <1>5, <1>6, <1>7
    DEF Next, CallStep, SendOrPut, Recv, FetchAdd, ReadPutReq, PutStep, TryLockPut,
        CopyPut, UnlockPut, SignalPut, ManagerStep, FoundEmpty, MpiStep

(* What the deque operations do to the elements of a sequence.             *)
LEMMA AppendElements ==
    ASSUME NEW S, NEW q \in Seq(S), NEW e \in S
    PROVE  /\ Len(Append(q, e)) = Len(q) + 1
           /\ \A i \in 1 .. Len(q) : Append(q, e)[i] = q[i]
           /\ Append(q, e)[Len(q) + 1] = e
  OBVIOUS

(* front() and pop_front() of a deque.                                     *)
LEMMA TailElements ==
    ASSUME NEW S, NEW q \in Seq(S), q # <<>>
    PROVE  /\ Head(q) = q[1] /\ 1 \in 1 .. Len(q)
           /\ Len(Tail(q)) = Len(q) - 1
           /\ \A i \in 1 .. Len(Tail(q)) : i + 1 \in 1 .. Len(q) /\ Tail(q)[i] = q[i + 1]
  OBVIOUS

(* An entry appended to a deque belongs there.                             *)
LEMMA OwnedAppend ==
    ASSUME TypeOK, EntriesOwned, NEW m \in Managers, NEW o \in Ops,
           ManagerOf(DeviceOf(o)) = m,
           entries' = [entries EXCEPT ![m] = Append(@, o)]
    PROVE  EntriesOwned'
  <1>1. entries[m] \in Seq(Ops) /\ entries'[m] = Append(entries[m], o)
    BY DEF TypeOK, ManagerTypeOK
  <1>2. ASSUME NEW i \in 1 .. Len(entries'[m])
        PROVE  ManagerOf(DeviceOf(entries'[m][i])) = m
    <2>1. i \in 1 .. Len(entries[m]) \/ i = Len(entries[m]) + 1
      BY <1>1, AppendElements
    <2> QED  BY <1>1, <2>1, AppendElements DEF EntriesOwned
  <1>3. ASSUME NEW n \in Managers, n # m PROVE entries'[n] = entries[n]
    BY <1>3 DEF TypeOK, ManagerTypeOK
  <1> QED  BY <1>2, <1>3 DEF EntriesOwned

(* Every entry of a deque belongs to a device of that manager, also when   *)
(* devices share managers.                                                 *)
LEMMA OwnedNext ==
    ASSUME TypeOK, FrameOK, EntriesOwned, Next
    PROVE  EntriesOwned'
  <1>1. ASSUME NEW t \in Threads, AddEntryPush(t) PROVE EntriesOwned'
    <2>1. entry[t] \in Ops /\ ManagerOf(DeviceOf(entry[t])) \in Managers
      BY <1>1, FrameFacts, OpsAssumption
      DEF AddEntryPush, WithEntry, PostSteps, Managers, DeviceOf, Devices
    <2> QED  BY <1>1, <2>1, OwnedAppend DEF AddEntryPush
  <1>2. ASSUME NEW t \in Threads, PushBack(t) PROVE EntriesOwned'
    <2>1. entry[t] \in Ops /\ ManagerOf(DeviceOf(entry[t])) = ManagerOf(dev[t])
      BY <1>2 DEF PushBack, FrameOK, FrameOf, WithEntry
    <2>2. ManagerOf(dev[t]) \in Managers
      BY <1>2, FrameFacts DEF PushBack, ProgressSteps, ManagerSteps, ManagerLocked, Managers
    <2> QED  BY <1>2, <2>1, <2>2, OwnedAppend DEF PushBack
  <1>3. ASSUME NEW t \in Threads, TestFront(t) PROVE EntriesOwned'
    <2> DEFINE m == ManagerOf(dev[t])
    <2>1. m \in Managers
      BY <1>3, FrameFacts DEF TestFront, ProgressSteps, ManagerSteps, ManagerLocked, Managers
    <2>2. entries[m] \in Seq(Ops) /\ entries[m] # <<>> /\ entries'[m] = Tail(entries[m])
      BY <1>3, <2>1 DEF TestFront, TypeOK, ManagerTypeOK
    <2>3. ASSUME NEW i \in 1 .. Len(entries'[m])
          PROVE  ManagerOf(DeviceOf(entries'[m][i])) = m
      BY <2>1, <2>2, TailElements DEF EntriesOwned
    <2>4. ASSUME NEW n \in Managers, n # m PROVE entries'[n] = entries[n]
      BY <1>3, <2>4 DEF TestFront, TypeOK, ManagerTypeOK
    <2> QED  BY <2>3, <2>4 DEF EntriesOwned
  <1>4. CASE UNCHANGED entries
    BY <1>4 DEF EntriesOwned
  <1> QED
    BY <1>1, <1>2, <1>3, <1>4
    DEF Next, CallStep, SendOrPut, Recv, FetchAdd, Post, ReadPutReq, PutStep, TryLockPut,
        TestPut, CopyPut, PostPutRecv, UnlockPut, SignalPut, ManagerStep, AddEntryLock,
        ReadEmpty, TryLockManager, FoundEmpty, UnlockManager, managerVars

(* Every step of send, recv, put, do_progress, poll_cq or MPI keeps the    *)
(* types.                                                                  *)
LEMMA TypeStep ==
    ASSUME TypeInv, [Next]_vars
    PROVE  TypeInv'
  <1>1. CASE Next
    BY <1>1, TypeNext, FrameNext, MpiNext, OwnedNext DEF TypeInv
  <1>2. CASE UNCHANGED vars
    BY <1>2, TypeUnchanged, MpiUnchanged, FrameOther
    DEF TypeInv, TypeOK, vars, FrameOK, EntriesOwned, frameVars, mpiVars, managerVars
  <1> QED  BY <1>1, <1>2

(* The type invariant holds of every behaviour of the backend, for any     *)
(* number of processes, threads, devices, managers and operations.         *)
THEOREM TypeCorrect == Spec => []TypeInv
  BY InitStarts, TypeInit, TypeStep, PTL DEF Spec

(* Every variable of the backend keeps its type in every behaviour of      *)
(* send, recv, put, do_progress and poll_cq.                               *)
THEOREM TypesHold == Spec => []TypeOK
  BY TypeCorrect, PTL DEF TypeInv

-----------------------------------------------------------------------------
(* The two spinlocks do what they are there for.                           *)
ManagerLocksExact ==
    \A t \in Threads, m \in Managers : HoldsManager(t, m) <=> lock[m] = t
PutLocksExact ==
    \A t \in Threads, d \in Devices : HoldsPut(t, d) <=> put_lock[d] = t

(* put_entry.mpi_req is MPI_REQUEST_NULL exactly while the holder of the   *)
(* lock is between a successful MPI_Test and post_put_recv.                *)
Reposting(t, d) == pc[t] \in {"put_copy", "put_repost"} /\ dev[t] = d
NullExact ==
    \A d \in Devices : put_req[d] = "null" <=> \E t \in Threads : Reposting(t, d)

LockInv == TypeInv /\ ManagerLocksExact /\ PutLocksExact /\ NullExact

(* NULL, the owner of a free lock, is no thread.                           *)
LEMMA NullIsNoThread == \A t \in Threads : t # NULL
  BY OpsAssumption

(* Whoever's frame stays as it is holds what it held.                      *)
LEMMA HoldsUnchanged ==
    ASSUME NEW u \in Threads,
           pc'[u] = pc[u], dev'[u] = dev[u], entry'[u] = entry[u]
    PROVE  /\ \A m \in Managers : HoldsManager(u, m)' <=> HoldsManager(u, m)
           /\ \A d \in Devices : HoldsPut(u, d)' <=> HoldsPut(u, d)
           /\ \A d \in Devices : Reposting(u, d)' <=> Reposting(u, d)
  BY DEF HoldsManager, HoldsPut, Reposting

(* A step of a thread changes its own frame only.                          *)
LEMMA OneFrame ==
    ASSUME TypeOK, NEW t \in Threads, NEW u \in Threads, u # t,
           \/ CallStep(t) \/ FetchAdd(t) \/ Post(t)
           \/ \E d \in Devices : ReadPutReq(t, d)
           \/ PutStep(t) \/ ManagerStep(t) \/ SignalStep(t)
    PROVE  pc'[u] = pc[u] /\ dev'[u] = dev[u] /\ entry'[u] = entry[u]
  <1> USE DEF TypeOK, FramesTypeOK, Goto, Return, frameVars
  <1>1. CASE CallStep(t) \/ FetchAdd(t) \/ Post(t) \/ \E d \in Devices : ReadPutReq(t, d)
    BY <1>1 DEF CallStep, SendOrPut, Recv, FetchAdd, Post, ReadPutReq
  <1>2. CASE PutStep(t)
    BY <1>2
    DEF PutStep, TryLockPut, TestPut, CopyPut, PostPutRecv, UnlockPut, SignalPut
  <1>3. CASE ManagerStep(t)
    BY <1>3
    DEF ManagerStep, AddEntryLock, AddEntryPush, ReadEmpty, TryLockManager, FoundEmpty,
        TestFront, PushBack, UnlockManager
  <1>4. CASE SignalStep(t)
    BY <1>4 DEF SignalStep, FetchSub, SignalEntry, PollCq
  <1> QED  BY <1>1, <1>2, <1>3, <1>4

-----------------------------------------------------------------------------
(* The lock of a manager.                                                  *)

(* A step that leaves the lock alone and does not enter or leave the code  *)
(* it guards.                                                              *)
LEMMA ManagerLockNeutral ==
    ASSUME ManagerLocksExact, UNCHANGED lock, NEW t \in Threads,
           \A u \in Threads : u # t => pc'[u] = pc[u] /\ dev'[u] = dev[u] /\ entry'[u] = entry[u],
           \A m \in Managers : HoldsManager(t, m)' <=> HoldsManager(t, m)
    PROVE  ManagerLocksExact'
  BY HoldsUnchanged DEF ManagerLocksExact

(* lock and try_lock of a manager's lock, by the thread that enters the    *)
(* code it guards.                                                         *)
LEMMA ManagerLockAcquire ==
    ASSUME TypeOK, ManagerLocksExact, NEW t \in Threads, NEW m \in Managers,
           \A u \in Threads : u # t => pc'[u] = pc[u] /\ dev'[u] = dev[u] /\ entry'[u] = entry[u],
           lock[m] = NULL, lock' = [lock EXCEPT ![m] = t],
           \A n \in Managers : ~HoldsManager(t, n),
           \A n \in Managers : HoldsManager(t, n)' <=> n = m
    PROVE  ManagerLocksExact'
  <1>1. lock'[m] = t /\ \A n \in Managers : n # m => lock'[n] = lock[n]
    BY DEF TypeOK, ManagerTypeOK
  <1>2. ASSUME NEW u \in Threads, NEW n \in Managers, u # t
        PROVE  HoldsManager(u, n)' <=> lock'[n] = u
    BY <1>1, <1>2, HoldsUnchanged, NullIsNoThread DEF ManagerLocksExact
  <1>3. ASSUME NEW n \in Managers PROVE HoldsManager(t, n)' <=> lock'[n] = t
    BY <1>1 DEF ManagerLocksExact
  <1> QED  BY <1>2, <1>3 DEF ManagerLocksExact

(* unlock of a manager's lock, by the thread that leaves the code it       *)
(* guards.                                                                 *)
LEMMA ManagerLockRelease ==
    ASSUME TypeOK, ManagerLocksExact, NEW t \in Threads, NEW m \in Managers,
           \A u \in Threads : u # t => pc'[u] = pc[u] /\ dev'[u] = dev[u] /\ entry'[u] = entry[u],
           lock' = [lock EXCEPT ![m] = NULL],
           \A n \in Managers : HoldsManager(t, n) <=> n = m,
           \A n \in Managers : ~HoldsManager(t, n)'
    PROVE  ManagerLocksExact'
  <1>1. lock'[m] = NULL /\ lock[m] = t /\ \A n \in Managers : n # m => lock'[n] = lock[n]
    BY DEF TypeOK, ManagerTypeOK, ManagerLocksExact
  <1>2. ASSUME NEW u \in Threads, NEW n \in Managers, u # t
        PROVE  HoldsManager(u, n)' <=> lock'[n] = u
    BY <1>1, <1>2, HoldsUnchanged, NullIsNoThread DEF ManagerLocksExact
  <1>3. ASSUME NEW n \in Managers PROVE HoldsManager(t, n)' <=> lock'[n] = t
    BY <1>1, NullIsNoThread DEF ManagerLocksExact
  <1> QED  BY <1>2, <1>3 DEF ManagerLocksExact

(* Every step keeps the managers' locks exact.                             *)
LEMMA ManagerLockNext ==
    ASSUME TypeInv, ManagerLocksExact, Next
    PROVE  ManagerLocksExact'
  <1> USE DEF TypeInv, TypeOK, FramesTypeOK, Goto
  <1>1. ASSUME NEW t \in Threads,
               CallStep(t) \/ FetchAdd(t) \/ Post(t) \/ \E d \in Devices : ReadPutReq(t, d)
        PROVE  ManagerLocksExact'
    <2>1. UNCHANGED lock
      BY <1>1 DEF CallStep, SendOrPut, Recv, FetchAdd, Post, ReadPutReq, managerVars
    <2>2. pc[t] \notin ManagerLocked \cup {"add_push"} /\ pc'[t] \notin ManagerLocked \cup {"add_push"}
      BY <1>1 DEF CallStep, SendOrPut, Recv, FetchAdd, Post, ReadPutReq, MayIssue, ManagerLocked
    <2> QED  BY <1>1, <2>1, <2>2, OneFrame, ManagerLockNeutral DEF HoldsManager
  <1>2. ASSUME NEW t \in Threads, PutStep(t) PROVE ManagerLocksExact'
    <2>1. UNCHANGED lock
      BY <1>2 DEF PutStep, TryLockPut, TestPut, CopyPut, PostPutRecv, UnlockPut, SignalPut, managerVars
    <2>2. pc[t] \notin ManagerLocked \cup {"add_push"} /\ pc'[t] \notin ManagerLocked \cup {"add_push"}
      BY <1>2 DEF PutStep, TryLockPut, TestPut, CopyPut, PostPutRecv, UnlockPut, SignalPut, ManagerLocked
    <2> QED  BY <1>2, <2>1, <2>2, OneFrame, ManagerLockNeutral DEF HoldsManager
  <1>3. ASSUME NEW t \in Threads, SignalStep(t), UNCHANGED managerVars PROVE ManagerLocksExact'
    <2>1. pc[t] \notin ManagerLocked \cup {"add_push"} /\ pc'[t] \notin ManagerLocked \cup {"add_push"}
      BY <1>3 DEF SignalStep, FetchSub, SignalEntry, PollCq, Return, frameVars, ManagerLocked
    <2> QED  BY <1>3, <2>1, OneFrame, ManagerLockNeutral DEF HoldsManager, managerVars
  <1>4. ASSUME NEW t \in Threads, ManagerStep(t) PROVE ManagerLocksExact'
    <2>1. \A u \in Threads : u # t => pc'[u] = pc[u] /\ dev'[u] = dev[u] /\ entry'[u] = entry[u]
      BY <1>4, OneFrame
    <2>2. CASE AddEntryLock(t)
      <3> DEFINE m == ManagerOf(DeviceOf(entry[t]))
      <3>1. m \in Managers
        BY <2>2, FrameFacts, OpsAssumption
        DEF AddEntryLock, WithEntry, PostSteps, Managers, DeviceOf, Devices
      <3>2. \A n \in Managers : ~HoldsManager(t, n) /\ (HoldsManager(t, n)' <=> n = m)
        BY <2>2 DEF AddEntryLock, HoldsManager, ManagerLocked
      <3>3. lock[m] = NULL /\ lock' = [lock EXCEPT ![m] = t]
        BY <2>2 DEF AddEntryLock
      <3> HIDE DEF m
      <3> QED  BY <2>1, <3>1, <3>2, <3>3, ManagerLockAcquire
    <2>3. CASE AddEntryPush(t)
      <3> DEFINE m == ManagerOf(DeviceOf(entry[t]))
      <3>1. m \in Managers
        BY <2>3, FrameFacts, OpsAssumption
        DEF AddEntryPush, WithEntry, PostSteps, Managers, DeviceOf, Devices
      <3>2. \A n \in Managers : (HoldsManager(t, n) <=> n = m) /\ ~HoldsManager(t, n)'
        BY <2>3 DEF AddEntryPush, Return, HoldsManager, ManagerLocked
      <3>3. lock' = [lock EXCEPT ![m] = NULL]
        BY <2>3 DEF AddEntryPush
      <3> HIDE DEF m
      <3> QED  BY <2>1, <3>1, <3>2, <3>3, ManagerLockRelease
    <2> DEFINE m == ManagerOf(dev[t])
    <2>4. pc[t] \in ProgressSteps => m \in Managers
      BY FrameFacts DEF Managers
    <2>5. CASE ReadEmpty(t)
      <3>1. \A n \in Managers : ~HoldsManager(t, n) /\ ~HoldsManager(t, n)'
        BY <2>5 DEF ReadEmpty, Return, HoldsManager, ManagerLocked
      <3> QED  BY <2>1, <2>5, <3>1, ManagerLockNeutral DEF ReadEmpty, managerVars
    <2>6. CASE TryLockManager(t)
      <3>1. m \in Managers
        BY <2>4, <2>6 DEF TryLockManager, ProgressSteps, ManagerSteps
      <3>2. \A n \in Managers : ~HoldsManager(t, n)
        BY <2>6 DEF TryLockManager, HoldsManager, ManagerLocked
      <3>3. CASE lock[m] = NULL
        <4>1. lock' = [lock EXCEPT ![m] = t]
          BY <2>6, <3>3 DEF TryLockManager
        <4>2. \A n \in Managers : HoldsManager(t, n)' <=> n = m
          BY <2>6, <3>3 DEF TryLockManager, HoldsManager, ManagerLocked
        <4> HIDE DEF m
        <4> QED  BY <2>1, <3>1, <3>2, <3>3, <4>1, <4>2, ManagerLockAcquire
      <3>4. CASE lock[m] # NULL
        <4>1. UNCHANGED lock /\ \A n \in Managers : ~HoldsManager(t, n)'
          BY <2>6, <3>4 DEF TryLockManager, Return, HoldsManager, ManagerLocked
        <4> QED  BY <2>1, <3>2, <4>1, ManagerLockNeutral
      <3> QED  BY <3>3, <3>4
    <2>7. CASE FoundEmpty(t) \/ PushBack(t) \/ UnlockManager(t)
      <3>1. m \in Managers
        BY <2>4, <2>7
        DEF FoundEmpty, PushBack, UnlockManager, ProgressSteps, ManagerSteps, ManagerLocked
      <3>2. \A n \in Managers : (HoldsManager(t, n) <=> n = m) /\ ~HoldsManager(t, n)'
        BY <2>7 DEF FoundEmpty, PushBack, UnlockManager, Return, HoldsManager, ManagerLocked
      <3>3. lock' = [lock EXCEPT ![m] = NULL]
        BY <2>7 DEF FoundEmpty, PushBack, UnlockManager
      <3> HIDE DEF m
      <3> QED  BY <2>1, <3>1, <3>2, <3>3, ManagerLockRelease
    <2>8. CASE TestFront(t)
      <3>1. \A n \in Managers : HoldsManager(t, n)' <=> HoldsManager(t, n)
        BY <2>8 DEF TestFront, HoldsManager, ManagerLocked
      <3> QED  BY <2>1, <2>8, <3>1, ManagerLockNeutral DEF TestFront
    <2> QED
      BY <1>4, <2>2, <2>3, <2>5, <2>6, <2>7, <2>8 DEF ManagerStep
  <1>5. ASSUME UNCHANGED <<frameVars, managerVars>> PROVE ManagerLocksExact'
    BY <1>5 DEF ManagerLocksExact, HoldsManager, frameVars, managerVars
  <1> QED  BY <1>1, <1>2, <1>3, <1>4, <1>5 DEF Next

-----------------------------------------------------------------------------
(* put_entry_lock, and the put receive it guards.                          *)

(* The device a thread holds or reposts for.                               *)
LEMMA PutNeutral ==
    ASSUME PutLocksExact, NullExact, UNCHANGED <<put_lock, put_req>>, NEW t \in Threads,
           \A u \in Threads : u # t => pc'[u] = pc[u] /\ dev'[u] = dev[u] /\ entry'[u] = entry[u],
           \A d \in Devices : HoldsPut(t, d)' <=> HoldsPut(t, d),
           \A d \in Devices : Reposting(t, d)' <=> Reposting(t, d)
    PROVE  PutLocksExact' /\ NullExact'
  <1>1. PutLocksExact'
    BY HoldsUnchanged DEF PutLocksExact
  <1>2. \A d \in Devices, u \in Threads : Reposting(u, d)' <=> Reposting(u, d)
    BY HoldsUnchanged
  <1> QED  BY <1>1, <1>2 DEF NullExact

(* put_entry_lock.try_lock(), successful or not.                           *)
LEMMA PutTryLock ==
    ASSUME TypeInv, PutLocksExact, NullExact, NEW t \in Threads, TryLockPut(t),
           \A u \in Threads : u # t => pc'[u] = pc[u] /\ dev'[u] = dev[u] /\ entry'[u] = entry[u]
    PROVE  PutLocksExact' /\ NullExact'
  <1> USE DEF TypeInv, TypeOK, FramesTypeOK, Goto
  <1> DEFINE d == dev[t]
  <1>1. d \in Devices
    BY FrameFacts DEF TryLockPut, ProgressSteps, PutSteps
  <1>2. \A e \in Devices : /\ ~HoldsPut(t, e) /\ ~Reposting(t, e) /\ ~Reposting(t, e)'
                           /\ HoldsPut(t, e)' <=> e = d /\ put_lock[d] = NULL
    BY DEF TryLockPut, HoldsPut, Reposting, PutLocked
  <1>3. CASE put_lock[d] = NULL
    <2>1. put_lock'[d] = t /\ \A e \in Devices : e # d => put_lock'[e] = put_lock[e]
      BY <1>1, <1>3 DEF TryLockPut
    <2>2. ASSUME NEW u \in Threads, NEW e \in Devices, u # t
          PROVE  HoldsPut(u, e)' <=> put_lock'[e] = u
      BY <1>3, <2>1, <2>2, HoldsUnchanged, NullIsNoThread DEF PutLocksExact
    <2>3. ASSUME NEW e \in Devices PROVE HoldsPut(t, e)' <=> put_lock'[e] = t
      BY <1>2, <1>3, <2>1 DEF PutLocksExact
    <2>4. \A e \in Devices, u \in Threads : Reposting(u, e)' <=> Reposting(u, e)
      BY <1>2, HoldsUnchanged
    <2>5. put_req' = put_req
      BY DEF TryLockPut, mpiVars
    <2> QED  BY <2>2, <2>3, <2>4, <2>5 DEF PutLocksExact, NullExact
  <1>4. CASE put_lock[d] # NULL
    <2>1. UNCHANGED <<put_lock, put_req>>
      BY <1>4 DEF TryLockPut, mpiVars
    <2> HIDE DEF d
    <2> QED  BY <1>2, <1>4, <2>1, PutNeutral
  <1> QED  BY <1>3, <1>4

(* put_entry_lock.unlock().                                                *)
LEMMA PutUnlock ==
    ASSUME TypeInv, PutLocksExact, NullExact, NEW t \in Threads, UnlockPut(t),
           \A u \in Threads : u # t => pc'[u] = pc[u] /\ dev'[u] = dev[u] /\ entry'[u] = entry[u]
    PROVE  PutLocksExact' /\ NullExact'
  <1> USE DEF TypeInv, TypeOK, FramesTypeOK, Goto
  <1> DEFINE d == dev[t]
  <1>1. d \in Devices
    BY FrameFacts DEF UnlockPut, ProgressSteps, PutSteps, PutLocked
  <1>2. \A e \in Devices : /\ ~Reposting(t, e) /\ ~Reposting(t, e)' /\ ~HoldsPut(t, e)'
                           /\ HoldsPut(t, e) <=> e = d
    BY DEF UnlockPut, HoldsPut, Reposting, PutLocked
  <1>3. /\ put_lock[d] = t /\ put_lock'[d] = NULL
        /\ \A e \in Devices : e # d => put_lock'[e] = put_lock[e]
    BY <1>1, <1>2 DEF UnlockPut, PutLocksExact
  <1>4. ASSUME NEW u \in Threads, NEW e \in Devices, u # t
        PROVE  HoldsPut(u, e)' <=> put_lock'[e] = u
    BY <1>3, <1>4, HoldsUnchanged, NullIsNoThread DEF PutLocksExact
  <1>5. ASSUME NEW e \in Devices PROVE HoldsPut(t, e)' <=> put_lock'[e] = t
    BY <1>2, <1>3, NullIsNoThread DEF PutLocksExact
  <1>6. \A e \in Devices, u \in Threads : Reposting(u, e)' <=> Reposting(u, e)
    BY <1>2, HoldsUnchanged
  <1>7. put_req' = put_req
    BY DEF UnlockPut, mpiVars
  <1> QED  BY <1>4, <1>5, <1>6, <1>7 DEF PutLocksExact, NullExact

(* MPI_Test and post_put_recv, with the lock held.                         *)
LEMMA PutTestRepost ==
    ASSUME TypeInv, PutLocksExact, NullExact, NEW t \in Threads,
           TestPut(t) \/ PostPutRecv(t),
           \A u \in Threads : u # t => pc'[u] = pc[u] /\ dev'[u] = dev[u] /\ entry'[u] = entry[u]
    PROVE  PutLocksExact' /\ NullExact'
  <1> USE DEF TypeInv, TypeOK, FramesTypeOK, Goto
  <1> DEFINE d == dev[t]
  <1>1. d \in Devices /\ dev'[t] = d
    BY FrameFacts DEF TestPut, PostPutRecv, ProgressSteps, PutSteps, PutLocked
  <1>2. \A e \in Devices : HoldsPut(t, e)' <=> HoldsPut(t, e)
    BY DEF TestPut, PostPutRecv, HoldsPut, PutLocked
  <1>3. PutLocksExact'
    BY <1>2, HoldsUnchanged DEF PutLocksExact, TestPut, PostPutRecv
  <1>4. HoldsPut(t, d)
    BY DEF TestPut, PostPutRecv, HoldsPut, PutLocked
  <1>5. \A u \in Threads : Reposting(u, d) => u = t
    BY <1>1, <1>4 DEF PutLocksExact, HoldsPut, Reposting, PutLocked
  <1>6. \A u \in Threads, e \in Devices : u # t => (Reposting(u, e)' <=> Reposting(u, e))
    BY HoldsUnchanged
  <1>7. \A e \in Devices : e # d => ~Reposting(t, e) /\ ~Reposting(t, e)' /\ put_req'[e] = put_req[e]
    BY <1>1 DEF Reposting, TestPut, PostPutRecv, MpiTypeOK
  <1>8. put_req'[d] = "null" <=> Reposting(t, d)'
    <2>1. CASE PostPutRecv(t)
      BY <1>1, <2>1 DEF PostPutRecv, Reposting, MpiTypeOK
    <2>2. CASE TestPut(t) /\ put_req[d] = "done"
      BY <1>1, <2>2 DEF TestPut, Reposting, MpiTypeOK
    <2>3. CASE TestPut(t) /\ put_req[d] # "done"
      <3>1. ~Reposting(t, d) /\ ~Reposting(t, d)' /\ put_req' = put_req
        BY <2>3 DEF TestPut, Reposting
      <3> QED  BY <1>1, <1>5, <3>1 DEF NullExact
    <2> QED  BY <2>1, <2>2, <2>3
  <1>9. \A u \in Threads : Reposting(u, d)' => u = t
    BY <1>1, <1>5, <1>6
  <1>10. NullExact'
    <2>1. put_req'[d] = "null" <=> \E u \in Threads : Reposting(u, d)'
      BY <1>8, <1>9
    <2>2. ASSUME NEW e \in Devices, e # d
          PROVE  put_req'[e] = "null" <=> \E u \in Threads : Reposting(u, e)'
      <3>1. \A u \in Threads : Reposting(u, e)' <=> Reposting(u, e)
        <4>1. ~Reposting(t, e) /\ ~Reposting(t, e)'
          BY <1>7, <2>2
        <4> QED  BY <1>6, <4>1
      <3>2. put_req'[e] = put_req[e]
        BY <1>7, <2>2
      <3>3. put_req[e] = "null" <=> \E u \in Threads : Reposting(u, e)
        BY DEF NullExact
      <3> QED  BY <3>1, <3>2, <3>3
    <2>3. \A e \in Devices : put_req'[e] = "null" <=> \E u \in Threads : Reposting(u, e)'
      <3>1. \A e \in Devices : e # d =>
               (put_req'[e] = "null" <=> \E u \in Threads : Reposting(u, e)')
        BY <2>2
      <3>2. put_req'[d] = "null" <=> 
               \E u \in Threads : pc'[u] \in {"put_copy", "put_repost"} /\ dev'[u] = d
        BY <1>1, <2>1 DEF Reposting
      <3> HIDE DEF d
      <3> QED  BY <3>1, <3>2 DEF Reposting
    <2> QED  BY <2>3 DEF NullExact
  <1> QED  BY <1>3, <1>10

(* Every step keeps the put_entry_locks and the put requests exact.        *)
LEMMA PutLockNext ==
    ASSUME TypeInv, PutLocksExact, NullExact, Next
    PROVE  PutLocksExact' /\ NullExact'
  <1> USE DEF TypeInv, TypeOK, FramesTypeOK, Goto
  <1>1. ASSUME NEW t \in Threads,
               CallStep(t) \/ FetchAdd(t) \/ Post(t) \/ \E d \in Devices : ReadPutReq(t, d)
        PROVE  PutLocksExact' /\ NullExact'
    <2>1. UNCHANGED <<put_lock, put_req>>
      BY <1>1 DEF CallStep, SendOrPut, Recv, FetchAdd, Post, StartRequest, ReadPutReq, mpiVars
    <2>2. pc[t] \notin PutLocked /\ pc'[t] \notin PutLocked
      BY <1>1 DEF CallStep, SendOrPut, Recv, FetchAdd, Post, ReadPutReq, MayIssue, PutLocked
    <2> QED  BY <1>1, <2>1, <2>2, OneFrame, PutNeutral DEF HoldsPut, Reposting, PutLocked
  <1>2. ASSUME NEW t \in Threads, PutStep(t) PROVE PutLocksExact' /\ NullExact'
    <2>1. \A u \in Threads : u # t => pc'[u] = pc[u] /\ dev'[u] = dev[u] /\ entry'[u] = entry[u]
      BY <1>2, OneFrame
    <2>2. CASE CopyPut(t)
      <3>1. UNCHANGED <<put_lock, put_req>>
        BY <2>2 DEF CopyPut, mpiVars
      <3>2. \A d \in Devices : /\ HoldsPut(t, d)' <=> HoldsPut(t, d)
                               /\ Reposting(t, d)' <=> Reposting(t, d)
        BY <2>2 DEF CopyPut, HoldsPut, Reposting, PutLocked
      <3> QED  BY <2>1, <3>1, <3>2, PutNeutral
    <2>3. CASE SignalPut(t)
      <3>1. UNCHANGED <<put_lock, put_req>>
        BY <2>3 DEF SignalPut, mpiVars
      <3>2. \A d \in Devices : /\ HoldsPut(t, d)' <=> HoldsPut(t, d)
                               /\ Reposting(t, d)' <=> Reposting(t, d)
        BY <2>3 DEF SignalPut, HoldsPut, Reposting, PutLocked
      <3> QED  BY <2>1, <3>1, <3>2, PutNeutral
    <2> QED
      BY <1>2, <2>1, <2>2, <2>3, PutTryLock, PutUnlock, PutTestRepost DEF PutStep
  <1>3. ASSUME NEW t \in Threads, ManagerStep(t), UNCHANGED put_lock
        PROVE  PutLocksExact' /\ NullExact'
    <2>1. UNCHANGED put_req
      BY <1>3 DEF ManagerStep, FoundEmpty, TestFront, FreeRequest, mpiVars
    <2>2. pc[t] \notin PutLocked /\ pc'[t] \notin PutLocked
      BY <1>3
      DEF ManagerStep, AddEntryLock, AddEntryPush, ReadEmpty, TryLockManager, FoundEmpty,
          TestFront, PushBack, UnlockManager, Return, PutLocked
    <2> QED  BY <1>3, <2>1, <2>2, OneFrame, PutNeutral DEF HoldsPut, Reposting, PutLocked
  <1>4. ASSUME NEW t \in Threads, SignalStep(t), UNCHANGED <<mpiVars, put_lock>>
        PROVE  PutLocksExact' /\ NullExact'
    <2>1. pc[t] \notin PutLocked /\ pc'[t] \notin PutLocked
      BY <1>4 DEF SignalStep, FetchSub, SignalEntry, PollCq, Return, frameVars, PutLocked
    <2> QED  BY <1>4, <2>1, OneFrame, PutNeutral DEF HoldsPut, Reposting, PutLocked, mpiVars
  <1>5. ASSUME MpiStep, UNCHANGED <<frameVars, put_lock>> PROVE PutLocksExact' /\ NullExact'
    <2>1. PutLocksExact'
      BY <1>5 DEF PutLocksExact, HoldsPut, frameVars
    <2>2. \A d \in Devices : put_req'[d] = "null" <=> put_req[d] = "null"
      BY <1>5 DEF MpiStep, MpiMatch, MpiPutArrive, MpiSendComplete, MpiTypeOK
    <2> QED  BY <1>5, <2>1, <2>2 DEF NullExact, Reposting, frameVars
  <1> QED  BY <1>1, <1>2, <1>3, <1>4, <1>5 DEF Next

-----------------------------------------------------------------------------
(* Before the first call no lock is held and every put receive is posted.  *)
LEMMA LockInit == Start => LockInv
  <1>1. Start => ManagerLocksExact /\ PutLocksExact /\ NullExact
    BY NullIsNoThread
    DEF Start, FramesInit, ManagerInit, MpiInit, ManagerLocksExact, PutLocksExact, NullExact,
        HoldsManager, HoldsPut, Reposting, ManagerLocked, PutLocked
  <1> QED  BY <1>1, TypeInit DEF LockInv

(* Every step keeps the locks with the threads in the code they guard.     *)
LEMMA LockStep ==
    ASSUME LockInv, [Next]_vars
    PROVE  LockInv'
  <1>1. TypeInv'
    BY TypeStep DEF LockInv
  <1>2. CASE UNCHANGED vars
    BY <1>1, <1>2
    DEF LockInv, ManagerLocksExact, PutLocksExact, NullExact, HoldsManager, HoldsPut,
        Reposting, vars, frameVars, managerVars, mpiVars
  <1> QED  BY <1>1, <1>2, ManagerLockNext, PutLockNext DEF LockInv

(* The inductive invariant: a lock's owner is exactly the thread in the    *)
(* code of do_progress or add_entry it guards, and put_entry.mpi_req is    *)
(* MPI_REQUEST_NULL exactly between a successful MPI_Test and              *)
(* post_put_recv.                                                          *)
THEOREM LockCorrect == Spec => []LockInv
  BY InitStarts, LockInit, LockStep, PTL DEF Spec

(* Only the holder of put_entry_lock or of a manager's lock is in the code *)
(* it guards; it is held neither across signal_comp nor when a call        *)
(* returns to the client.                                                  *)
THEOREM LocksHold == Spec => []LocksExact
  <1>1. LockInv => LocksExact
    BY DEF LockInv, LocksExact, ManagerLocksExact, PutLocksExact
  <1> QED  BY <1>1, LockCorrect, PTL

(* A device whose put_entry_lock is free has its put receive posted:       *)
(* do_progress always reposts it before it unlocks.                        *)
THEOREM PutPosted == Spec => []PutAlwaysPosted
  <1>1. LockInv => PutAlwaysPosted
    BY NullIsNoThread
    DEF LockInv, PutAlwaysPosted, NullExact, PutLocksExact, Reposting, HoldsPut, PutLocked
  <1> QED  BY <1>1, LockCorrect, PTL

(* put_rbuf is not written between the MPI_Test of do_progress that found  *)
(* a put and the memcpy that copies it out.                                *)
THEOREM RbufHolds == Spec => RbufStable
  <1> DEFINE Stable == \A t \in Threads : pc[t] = "put_copy" =>
                          put_rbuf'[dev[t]] = put_rbuf[dev[t]]
  <1>1. LockInv /\ [Next]_vars => [Stable]_vars
    <2> SUFFICES ASSUME LockInv, Next, NEW t \in Threads, pc[t] = "put_copy"
                 PROVE  put_rbuf'[dev[t]] = put_rbuf[dev[t]]
      BY DEF vars
    <2>1. dev[t] \in Devices /\ put_req[dev[t]] = "null"
      BY FrameFacts
      DEF LockInv, TypeInv, NullExact, Reposting, ProgressSteps, PutSteps, PutLocked
    <2>2. CASE \E s \in Ops : MpiPutArrive(s)
      BY <2>1, <2>2 DEF MpiPutArrive, LockInv, TypeInv, TypeOK, MpiTypeOK
    <2>3. CASE ~\E s \in Ops : MpiPutArrive(s)
      BY <2>3
      DEF Next, CallStep, SendOrPut, Recv, FetchAdd, Post, StartRequest, ReadPutReq, PutStep,
          TryLockPut, TestPut, CopyPut, PostPutRecv, UnlockPut, SignalPut, ManagerStep,
          FoundEmpty, TestFront, FreeRequest, MpiStep, MpiMatch, MpiSendComplete, mpiVars
    <2> QED  BY <2>2, <2>3
  <1> QED  BY <1>1, LockCorrect, PTL DEF Spec, RbufStable
=============================================================================
