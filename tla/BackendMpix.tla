---------------------------- MODULE BackendMpix -----------------------------
(***************************************************************************)
(* backend_mpi_t built with the MPIX extensions: every call into MPI that  *)
(* concerns a device is made under the device's stream_lock if streams are *)
(* in use, and manager_cont_t may take the place of manager_req_t.  It     *)
(* attaches a continuation to every operation, and MPI runs complete_cb    *)
(* inside some later MPI call of any thread of the process.                *)
(*                                                                         *)
(* A thread is inside an MPI call from the step that starts it, which      *)
(* takes the lock and has the call's effect, to LeaveMpi; continuations    *)
(* run in between.                                                         *)
(***************************************************************************)
EXTENDS BackendMpi

CONSTANTS
    Configs         \* the values of mpi::config to consider

VARIABLES
    config,         \* mpi::config, read from the environment
    stream_lock,    \* the thread that holds a device's stream_lock
    in_mpi,         \* the MPI call a thread is in, if any
    conts,          \* the operations with a continuation attached
    cont_active,    \* is a manager's cont_req started?
    cb,             \* the operation whose complete_cb a thread is running
    cb_slot         \* has that complete_cb yet to give a slot back?

mpixVars == <<config, stream_lock, in_mpi, conts, cont_active, cb, cb_slot>>
xvars == <<vars, mpixVars>>

(* The calls into MPI that are told apart: MPIX_Continue for an operation, *)
(* MPI_Test on cont_req, and any other.                                    *)
Calls == {"call", "continue", "cont_test"} \X (Ops \cup {NULL})

ASSUME CallsAssumption == NULL \notin Calls

(* The constructor of manager_cont_t has started cont_req, if there is one *)
XInit ==
    /\ MpiInit /\ FramesInit /\ SignalInit /\ ManagerInit
    /\ todo = Ops
    /\ put_lock = [d \in Devices |-> NULL]
    /\ config \in Configs
    /\ stream_lock = [d \in Devices |-> NULL]
    /\ in_mpi = [t \in Threads |-> NULL]
    /\ conts = {}
    /\ cont_active = [m \in Managers |-> config.use_cont_req]
    /\ cb = [t \in Threads |-> NULL]
    /\ cb_slot = [t \in Threads |-> FALSE]

CompCont == config.comp_type = "CONTINUE"

-----------------------------------------------------------------------------
(* enter_stream_cs: blocks while another thread holds the lock.            *)
EnterStreamCs(t, d) ==
    IF config.use_stream
    THEN /\ stream_lock[d] = NULL
         /\ stream_lock' = [stream_lock EXCEPT ![d] = t]
    ELSE UNCHANGED stream_lock

EnterMpi(t, call, o) == in_mpi' = [in_mpi EXCEPT ![t] = <<call, o>>]
InContinue(t, o) == in_mpi[t] = <<"continue", o>>
InTest(t) == in_mpi[t] \in {<<"call", NULL>>, <<"cont_test", NULL>>}

(* The MPI call returns; leave_stream_cs.                                  *)
LeaveMpi(t) ==
    /\ in_mpi[t] # NULL /\ cb[t] = NULL
    /\ in_mpi' = [in_mpi EXCEPT ![t] = NULL]
    /\ stream_lock' = [d \in Devices |-> IF stream_lock[d] = t THEN NULL
                                                               ELSE stream_lock[d]]
    /\ UNCHANGED <<vars, config, conts, cont_active, cb, cb_slot>>

(* The calls of BackendMpi and of manager_req_t that go into MPI.          *)
StreamCall(t) ==
    /\ \/ Post(t) /\ EnterStreamCs(t, DeviceOf(entry[t]))
       \/ (TestPut(t) \/ PostPutRecv(t)) /\ EnterStreamCs(t, dev[t])
       \/ /\ TestFront(t) /\ UNCHANGED <<signalVars, todo, put_lock>>
          /\ EnterStreamCs(t, DeviceOf(Head(entries[ManagerOf(dev[t])])))
    /\ EnterMpi(t, "call", NULL)
    /\ UNCHANGED <<config, conts, cont_active, cb, cb_slot>>

-----------------------------------------------------------------------------
(* Mutant: the entry is kept in the deque as well.                         *)
AttachContAndQueue(t) ==
    LET o == entry[t]
        m == ManagerOf(DeviceOf(o))
    IN  /\ CompCont /\ pc[t] = "add_lock"
        /\ EnterStreamCs(t, DeviceOf(o))
        /\ EnterMpi(t, "continue", o)
        /\ conts' = conts \cup {o}
        /\ entries' = [entries EXCEPT ![m] = Append(@, o)]
        /\ Return(t)
        /\ UNCHANGED <<mpiVars, signalVars, lock, todo, put_lock,
                       config, cont_active, cb, cb_slot>>

(* manager_cont_t::add_entry: MPIX_Continue; then send, put or recv        *)
(* returns true.                                                           *)
AttachCont(t) ==
    LET o == entry[t]
    IN  /\ CompCont /\ pc[t] = "add_lock"
        /\ EnterStreamCs(t, DeviceOf(o))
        /\ EnterMpi(t, "continue", o)
        /\ conts' = conts \cup {o}
        /\ Return(t)
        /\ UNCHANGED <<mpiVars, signalVars, managerVars, todo, put_lock,
                       config, cont_active, cb, cb_slot>>

(* manager_cont_t::do_progress: nothing to do without a cont_req, or while *)
(* another thread is at it.                                                *)
TryLockCont(t) ==
    LET m == ManagerOf(dev[t])
    IN  /\ CompCont /\ pc[t] = "mgr_empty"
        /\ \/ /\ config.use_cont_req /\ lock[m] = NULL
              /\ lock' = [lock EXCEPT ![m] = t]
              /\ Goto(t, "cont_test")
              /\ UNCHANGED <<dev, entry, status, buffer>>
           \/ /\ ~config.use_cont_req \/ lock[m] # NULL
              /\ Return(t)
              /\ UNCHANGED lock
        /\ UNCHANGED <<mpiVars, signalVars, entries, todo, put_lock, mpixVars>>

(* MPI_Test on cont_req succeeds when every continuation registered with   *)
(* it has run; cont_req is then inactive.                                  *)
TestSucceeds(m) ==
    \/ ~cont_active[m]
    \/ \A o \in Ops : ManagerOf(DeviceOf(o)) = m =>
                         o \notin conts /\ \A t \in Threads : cb[t] # o

(* Mutant: the test is made under stream_lock, as all the others are.      *)
TestContInStream(t) ==
    LET m == ManagerOf(dev[t])
    IN  /\ pc[t] = "cont_test"
        /\ EnterStreamCs(t, dev[t])
        /\ EnterMpi(t, "cont_test", NULL)
        /\ cont_active' = [cont_active EXCEPT ![m] = ~TestSucceeds(m)]
        /\ Goto(t, IF TestSucceeds(m) THEN "cont_start" ELSE "cont_unlock")
        /\ UNCHANGED <<mpiVars, dev, entry, status, buffer, signalVars, managerVars,
                       todo, put_lock, config, conts, cb, cb_slot>>

TestCont(t) ==
    LET m == ManagerOf(dev[t])
    IN  /\ pc[t] = "cont_test"
        /\ EnterMpi(t, "cont_test", NULL)
        /\ cont_active' = [cont_active EXCEPT ![m] = ~TestSucceeds(m)]
        /\ Goto(t, IF TestSucceeds(m) THEN "cont_start" ELSE "cont_unlock")
        /\ UNCHANGED <<mpiVars, dev, entry, status, buffer, signalVars, managerVars,
                       todo, put_lock, config, stream_lock, conts, cb, cb_slot>>

(* Mutant: cont_req is not started again.                                  *)
StartContForgotten(t) ==
    /\ pc[t] = "cont_start"
    /\ Goto(t, "cont_unlock")
    /\ UNCHANGED <<mpiVars, dev, entry, status, buffer, signalVars, managerVars,
                   todo, put_lock, mpixVars>>

(* MPI_Start on cont_req.                                                  *)
StartCont(t) ==
    /\ pc[t] = "cont_start"
    /\ cont_active' = [cont_active EXCEPT ![ManagerOf(dev[t])] = TRUE]
    /\ EnterMpi(t, "call", NULL)
    /\ Goto(t, "cont_unlock")
    /\ UNCHANGED <<mpiVars, dev, entry, status, buffer, signalVars, managerVars,
                   todo, put_lock, config, stream_lock, conts, cb, cb_slot>>

UnlockCont(t) ==
    /\ pc[t] = "cont_unlock"
    /\ lock' = [lock EXCEPT ![ManagerOf(dev[t])] = NULL]
    /\ Return(t)
    /\ UNCHANGED <<mpiVars, signalVars, entries, todo, put_lock, mpixVars>>

-----------------------------------------------------------------------------
(* When MPI may run the continuation of o inside the call thread t is in.  *)
(* MPIX_Continue runs the continuation it attaches only with               *)
(* MPIX_CONT_IMMEDIATE and without MPIX_CONT_DEFER_COMPLETE; one that is   *)
(* registered with a cont_req runs only while that is active, and with     *)
(* MPIX_CONT_POLL_ONLY only inside MPI_Test on it.                         *)
MayContinue(t, o) ==
    /\ in_mpi[t] # NULL /\ cb[t] = NULL /\ o.proc = ThreadProc[t]
    /\ InContinue(t, o) => config.use_cont_imm /\ ~config.use_cont_defer
    /\ config.use_cont_req =>
          /\ cont_active[ManagerOf(DeviceOf(o))]
          /\ config.use_cont_poll_only =>
                \/ InContinue(t, o)
                \/ in_mpi[t] = <<"cont_test", NULL>> /\ ManagerOf(dev[t]) = ManagerOf(DeviceOf(o))

(* The operation has completed: MPI frees the request and calls            *)
(* complete_cb.                                                            *)
RunContinuation(t, o) ==
    /\ o \in conts /\ MayContinue(t, o)
    /\ FreeRequest(o)
    /\ conts' = conts \ {o}
    /\ cb' = [cb EXCEPT ![t] = o]
    /\ cb_slot' = [cb_slot EXCEPT ![t] = Counted(o) /\ g_pending_msg_max > 0]
    /\ UNCHANGED <<frameVars, signalVars, managerVars, todo, put_lock,
                   config, stream_lock, in_mpi, cont_active>>

(* Mutant: the slot is given back only by the request-based manager.       *)
CbFetchSubForgotten(t) ==
    /\ cb_slot[t]
    /\ cb_slot' = [cb_slot EXCEPT ![t] = FALSE]
    /\ UNCHANGED <<vars, config, stream_lock, in_mpi, conts, cont_active, cb>>

(* complete_cb, signal_comp, first half.                                   *)
CbFetchSub(t) ==
    /\ cb_slot[t]
    /\ g_pending_msg' = [g_pending_msg EXCEPT ![ThreadProc[t]] = @ - 1]
    /\ cb_slot' = [cb_slot EXCEPT ![t] = FALSE]
    /\ UNCHANGED <<mpiVars, frameVars, cq, polled, managerVars, todo, put_lock,
                   config, stream_lock, in_mpi, conts, cont_active, cb>>

(* The request_t complete_cb passes on: add_entry asked for no status, so  *)
(* rank and length are what the client gave.                               *)
UnreadRequest(o) ==
    [op |-> o.op, user_context |-> o, rank |-> o.rank, length |-> o.length,
     buffer |-> IF IsRecv(o) THEN matched[o] ELSE o]

(* Mutant: the queue of the device takes every completion.                 *)
CbSignalToDevice(t) ==
    /\ cb[t] # NULL /\ ~cb_slot[t]
    /\ SignalComp(PutComp[DeviceOf(cb[t])], UnreadRequest(cb[t]))
    /\ cb' = [cb EXCEPT ![t] = NULL]
    /\ UNCHANGED <<mpiVars, frameVars, g_pending_msg, managerVars, todo, put_lock,
                   config, stream_lock, in_mpi, conts, cont_active, cb_slot>>

(* complete_cb, signal_comp, second half, and delete entry_p.              *)
CbSignal(t) ==
    /\ cb[t] # NULL /\ ~cb_slot[t]
    /\ SignalComp(cb[t].comp, UnreadRequest(cb[t]))
    /\ cb' = [cb EXCEPT ![t] = NULL]
    /\ UNCHANGED <<mpiVars, frameVars, g_pending_msg, managerVars, todo, put_lock,
                   config, stream_lock, in_mpi, conts, cont_active, cb_slot>>

-----------------------------------------------------------------------------
(* Steps of BackendMpi that make no MPI call.                              *)
PlainStep(t) ==
    /\ \/ FetchAdd(t)
       \/ TryLockPut(t) \/ CopyPut(t) \/ UnlockPut(t) \/ SignalPut(t)
       \/ ~CompCont /\ /\ \/ AddEntryLock(t) \/ AddEntryPush(t) \/ ReadEmpty(t)
                          \/ TryLockManager(t) \/ PushBack(t) \/ UnlockManager(t)
                       /\ UNCHANGED <<mpiVars, signalVars, todo, put_lock>>
       \/ FoundEmpty(t) /\ UNCHANGED <<signalVars, todo, put_lock>>
       \/ (FetchSub(t) \/ SignalEntry(t)) /\ UNCHANGED <<mpiVars, managerVars, todo, put_lock>>
    /\ UNCHANGED mpixVars

XInCall(t) ==
    \/ /\ in_mpi[t] = NULL
       /\ \/ PlainStep(t) \/ StreamCall(t) \/ AttachCont(t)
          \/ TryLockCont(t) \/ TestCont(t) \/ StartCont(t) \/ UnlockCont(t)
    \/ LeaveMpi(t) \/ CbFetchSub(t) \/ CbSignal(t)

XIssue(t, o) ==
    in_mpi[t] = NULL /\ (SendOrPut(t, o) \/ Recv(t, o)) /\ UNCHANGED mpixVars

(* Mutant: enable_put is false, so the put receive is not tested.          *)
XProgressNoPut(t, d) ==
    /\ in_mpi[t] = NULL /\ pc[t] = "idle" /\ d[1] = ThreadProc[t]
    /\ dev' = [dev EXCEPT ![t] = d]
    /\ Goto(t, "mgr_empty")
    /\ UNCHANGED <<mpiVars, entry, status, buffer, signalVars, managerVars,
                   todo, put_lock, mpixVars>>

(* do_progress, the start.                                                 *)
XProgress(t, d) == in_mpi[t] = NULL /\ ReadPutReq(t, d) /\ UNCHANGED mpixVars
XPoll(t, c) ==
    /\ in_mpi[t] = NULL /\ PollCq(t, c)
    /\ UNCHANGED <<mpiVars, managerVars, todo, put_lock, mpixVars>>

XNext ==
    \/ \E t \in Threads :
          \/ \E o \in Ops : XIssue(t, o) \/ RunContinuation(t, o)
          \/ \E d \in Devices : XProgress(t, d)
          \/ \E c \in Comps : XPoll(t, c)
          \/ XInCall(t)
    \/ /\ MpiStep
       /\ UNCHANGED <<frameVars, signalVars, managerVars, todo, put_lock, mpixVars>>

XSpec == XInit /\ [][XNext]_xvars

(* As in FairSpec: threads inside a call go on, and get a spinlock that is *)
(* free again and again; clients progress, poll and retry; MPI delivers.   *)
(* MPI runs a continuation that stays due if some thread tests a request   *)
(* again and again.                                                        *)
XFairSpec ==
    /\ XSpec
    /\ \A t \in Threads : SF_xvars(XInCall(t))
    /\ SF_xvars(\E t \in Threads, o \in Ops : XIssue(t, o))
    /\ SF_xvars(\E t \in Threads, o \in Ops : InTest(t) /\ RunContinuation(t, o))
    /\ \A d \in Devices : SF_xvars(\E t \in Threads : XProgress(t, d))
    /\ \A c \in Comps \ Handlers : SF_xvars(\E t \in Threads : XPoll(t, c))
    /\ WF_xvars(/\ \E o \in Ops : \/ MpiPutArrive(o)
                                  \/ \E r \in Ops : MpiMatch(o, r)
                                  \/ SendDue(o) /\ MpiSendComplete(o)
                /\ UNCHANGED <<frameVars, signalVars, managerVars, todo,
                               put_lock, mpixVars>>)

-----------------------------------------------------------------------------
(* An operation that was issued is in the hands of one call, has its       *)
(* continuation attached or its entry queued once, is in one running       *)
(* complete_cb, or is reported once: whichever thread's MPI call a         *)
(* continuation runs in, also that of MPIX_Continue itself, it runs once.  *)
InFlight(o) == o \in conts \/ Queued(o)
InCallback(o) == \E t \in Threads : cb[t] = o
XExactlyOnce ==
    \A o \in Ops \ todo :
       /\ ExactlyOneOf(InHand(o), InCallback(o), InFlight(o), Reported(<<"operation", o>>))
       /\ \A t1, t2 \in Threads : cb[t1] = o /\ cb[t2] = o => t1 = t2
       /\ ~(o \in conts /\ Queued(o))
       /\ ~ReportedTwice(<<"operation", o>>)

(* A slot is held from fetch_add to the fetch_sub, also when that runs in  *)
(* a continuation.                                                         *)
XHoldsSlot(o) == HoldsSlot(o) \/ \E t \in Threads : cb[t] = o /\ cb_slot[t]
XPendingExact ==
    g_pending_msg_max > 0 =>
       \A p \in Procs :
          g_pending_msg[p] = Cardinality({o \in Ops : o.proc = p /\ XHoldsSlot(o)})

(* In the end the client has issued a whole program and seen all its       *)
(* completions and the arrivals of its puts.  Without a cont_req nothing   *)
(* tests the operations: their continuations run only because do_progress  *)
(* tests the put receive, which is why enable_put is always true.          *)
XAllComplete ==
    <>(\E program \in Programs :
          \A o \in program : /\ Consumed(<<"operation", o>>)
                             /\ IsPut(o) => Consumed(<<"arrival", o>>))

(* A thread that signals a completion holds no stream_lock, the only lock  *)
(* a call from a handler would block on, if completions are found by       *)
(* testing requests, or continuations run only inside the test of          *)
(* cont_req.  In the other configurations with streams a handler must not  *)
(* call back into the library.                                             *)
Signalling(t) == cb[t] # NULL \/ pc[t] \in {"put_signal"} \cup SignalSteps
SafeToReenter ==
    \/ CompCont /\ ~(config.use_cont_req /\ config.use_cont_poll_only /\ ~config.use_cont_imm)
    \/ \A t \in Threads : Signalling(t) => \A d \in Devices : stream_lock[d] # t
=============================================================================
