----------------------------- MODULE BackendGex -----------------------------
(***************************************************************************)
(* backend_gex_t: put over GASNet-EX active messages.  A put names the     *)
(* target's device by its place in the target's g_devices; the handler of  *)
(* the active message looks it up there, on whichever thread of the target *)
(* happens to be inside GASNet.                                            *)
(*                                                                         *)
(* The client is that of examples/pingpong_mt.cpp: a process allocates its *)
(* devices one after the other, meets the others in a barrier, puts, waits *)
(* for its own puts and for those it expects, meets them again, frees its  *)
(* devices and finalizes.                                                  *)
(***************************************************************************)
EXTENDS Completions

(* Where a process is.  The odd numbers are the barriers in between.       *)
Alloc == 0
Comm == 2
Free == 4
Exited == 6

ASSUME GexAssumption ==
    /\ NULL \notin Comps /\ NULL \notin DeviceIds
    /\ IsFiniteSet(DeviceIds) /\ DeviceIds = 0 .. Cardinality(DeviceIds) - 1

VARIABLES
    phase,
    pc,                  \* what each thread is in the middle of
    entry,               \* the put it is in the middle of
    todo,                \* operations the clients have not issued yet
    g_devices,           \* the device table of each process
    id,                  \* device_impl_t::id of each device
    ams,                 \* active messages in flight
    running              \* active-message handlers past their lookup

threadVars == <<pc, entry>>
deviceVars == <<g_devices, id>>
amVars == <<ams, running>>
compVars == <<cq, polled>>
vars == <<phase, threadVars, todo, deviceVars, amVars, compVars>>

NumDevices == Cardinality(DeviceIds)
Puts == {o \in Ops : IsPut(o)}

TypeOK ==
    /\ phase \in [Procs -> Alloc .. Exited]
    /\ pc \in [Threads -> {"idle", "alloc", "put_signal"}]
    /\ entry \in [Threads -> Ops \cup {NULL}]
    /\ todo \subseteq Ops
    /\ \A p \in Procs :
          /\ Len(g_devices[p]) <= NumDevices
          /\ \A i \in DOMAIN g_devices[p] :
                g_devices[p][i] \in [comp : Comps \cup {NULL}, alive : BOOLEAN]
    /\ id \in [Devices -> DeviceIds \cup {NULL}]
    /\ ams \subseteq [op : Puts, device_idx : DeviceIds]
    /\ running \subseteq [op : Puts, device : DeviceIds \cup {NULL}]
    /\ \A c \in Comps : \A i \in DOMAIN cq[c] : cq[c][i] \in Completion
    /\ polled \in [Comps -> SUBSET Completion]

(* backend_gex_t's constructor and initialize.                             *)
Init ==
    /\ phase = [p \in Procs |-> Alloc]
    /\ pc = [t \in Threads |-> "idle"]
    /\ entry = [t \in Threads |-> NULL]
    /\ todo = Ops
    /\ g_devices = [p \in Procs |-> <<>>]
    /\ id = [d \in Devices |-> NULL]
    /\ ams = {} /\ running = {}
    /\ cq = [c \in Comps |-> <<>>]
    /\ polled = [c \in Comps |-> {}]

-----------------------------------------------------------------------------
ThreadsOf(p) == {t \in Threads : ThreadProc[t] = p}
Idle(p) == \A t \in ThreadsOf(p) : pc[t] = "idle"

(* alloc_device, first half: the new device is pushed with its fields not  *)
(* yet set.  The client's threads take turns.                              *)
AllocPush(t) ==
    LET p == ThreadProc[t]
        n == Len(g_devices[p])
    IN  /\ phase[p] = Alloc /\ Idle(p) /\ n < NumDevices
        /\ g_devices' = [g_devices EXCEPT ![p] =
                            Append(@, [comp |-> NULL, alive |-> TRUE])]
        /\ pc' = [pc EXCEPT ![t] = "alloc"]
        /\ UNCHANGED <<phase, entry, todo, id, amVars, compVars>>

(* Mutant: the id is the size of the table after push_back.                *)
AllocFillIdIsSize(t) ==
    LET p == ThreadProc[t]
        n == Len(g_devices[p])
        d == <<p, n - 1>>
    IN  /\ pc[t] = "alloc"
        /\ id' = [id EXCEPT ![d] = n]
        /\ g_devices' = [g_devices EXCEPT ![p][n].comp = PutComp[d]]
        /\ pc' = [pc EXCEPT ![t] = "idle"]
        /\ UNCHANGED <<phase, entry, todo, amVars, compVars>>

(* alloc_device, second half: id and comp.                                 *)
AllocFill(t) ==
    LET p == ThreadProc[t]
        n == Len(g_devices[p])
        d == <<p, n - 1>>
    IN  /\ pc[t] = "alloc"
        /\ id' = [id EXCEPT ![d] = n - 1]
        /\ g_devices' = [g_devices EXCEPT ![p][n].comp = PutComp[d]]
        /\ pc' = [pc EXCEPT ![t] = "idle"]
        /\ UNCHANGED <<phase, entry, todo, amVars, compVars>>

(* free_device deletes the device; its place in g_devices stays.           *)
FreeDevice(t, d) ==
    /\ d[1] = ThreadProc[t] /\ phase[d[1]] = Free
    /\ g_devices[d[1]][id[d] + 1].alive
    /\ g_devices' = [g_devices EXCEPT ![d[1]][id[d] + 1].alive = FALSE]
    /\ UNCHANGED <<phase, threadVars, todo, id, amVars, compVars>>

-----------------------------------------------------------------------------
(* put, first half: the active message is injected.                        *)
Put(t, o) ==
    /\ pc[t] = "idle" /\ o \in todo /\ IsPut(o)
    /\ o.proc = ThreadProc[t] /\ phase[o.proc] = Comm
    /\ ams' = ams \cup {[op |-> o, device_idx |-> id[DeviceOf(o)]]}
    /\ todo' = todo \ {o}
    /\ pc' = [pc EXCEPT ![t] = "put_signal"]
    /\ entry' = [entry EXCEPT ![t] = o]
    /\ UNCHANGED <<phase, deviceVars, running, compVars>>

PutRequest(o) ==
    [op |-> "PUT", user_context |-> o, rank |-> o.rank,
     length |-> o.length, buffer |-> o]

(* Mutant: put returns without signalling.                                 *)
PutSignalForgotten(t) ==
    /\ pc[t] = "put_signal"
    /\ pc' = [pc EXCEPT ![t] = "idle"]
    /\ entry' = [entry EXCEPT ![t] = NULL]
    /\ UNCHANGED <<phase, todo, deviceVars, amVars, compVars>>

(* put, second half: GEX_EVENT_NOW lets the buffer be reused, so the put   *)
(* is complete at its source.                                              *)
PutSignal(t) ==
    /\ pc[t] = "put_signal"
    /\ SignalComp(entry[t].comp, PutRequest(entry[t]))
    /\ pc' = [pc EXCEPT ![t] = "idle"]
    /\ entry' = [entry EXCEPT ![t] = NULL]
    /\ UNCHANGED <<phase, todo, deviceVars, amVars>>

(* send and recv throw before they do anything: nothing is posted.  The    *)
(* client is one that catches the exception and goes on; one that does not *)
(* ends here.                                                              *)
SendOrRecv(t, o) ==
    /\ pc[t] = "idle" /\ o \in todo /\ ~IsPut(o)
    /\ o.proc = ThreadProc[t] /\ phase[o.proc] = Comm
    /\ todo' = todo \ {o}
    /\ UNCHANGED <<phase, threadVars, deviceVars, amVars, compVars>>

PollCq(t, c) ==
    /\ pc[t] = "idle" /\ CompProc[c] = ThreadProc[t]
    /\ Poll(c)
    /\ UNCHANGED <<phase, threadVars, todo, deviceVars, amVars>>

-----------------------------------------------------------------------------
(* What g_devices[i] is: a place outside of the table holds anything.      *)
DeviceAt(p, i) == IF i + 1 \in DOMAIN g_devices[p] THEN i ELSE NULL

(* gex_reqhandler, first half: the data is copied and the device looked    *)
(* up.  Any thread inside GASNet runs it: in do_progress (gasnet_AMPoll),  *)
(* in put, in a barrier.                                                   *)
ReqHandler(am) ==
    LET p == am.op.rank
    IN  /\ phase[p] # Exited
        /\ ams' = ams \ {am}
        /\ running' = running \cup
              {[op |-> am.op, device |-> DeviceAt(p, am.device_idx)]}
        /\ UNCHANGED <<phase, threadVars, todo, deviceVars, compVars>>

(* A device_impl_t that can be read: allocated, filled in, not deleted.    *)
HasDevice(p, d) ==
    /\ d # NULL /\ d + 1 \in DOMAIN g_devices[p]
    /\ g_devices[p][d + 1].alive /\ g_devices[p][d + 1].comp # NULL

(* What the handler finds in device->comp.  Where there is no such device, *)
(* it is anything.                                                         *)
CompFound(p, d) == IF HasDevice(p, d) THEN {g_devices[p][d + 1].comp} ELSE Comps

(* Mutant: the rank is the target's own.                                   *)
ArrivedRequestOwnRank(o) ==
    [op |-> "PUT_SIGNAL", user_context |-> NULL, rank |-> o.rank,
     length |-> o.length, buffer |-> o]

(* The request_t gex_reqhandler makes.                                     *)
ArrivedRequest(o) ==
    [op |-> "PUT_SIGNAL", user_context |-> NULL, rank |-> o.proc,
     length |-> o.length, buffer |-> o]

(* gex_reqhandler, second half: device->comp is read, through the pointer  *)
(* found before, and signalled.                                            *)
ReqHandlerSignal(h) ==
    /\ running' = running \ {h}
    /\ \E c \in CompFound(h.op.rank, h.device) : SignalComp(c, ArrivedRequest(h.op))
    /\ UNCHANGED <<phase, threadVars, todo, deviceVars, ams>>

(* do_progress: gasnet_AMPoll.  The client learns nothing from its result. *)
Progress == (\E am \in ams : ReqHandler(am)) \/ (\E h \in running : ReqHandlerSignal(h))

-----------------------------------------------------------------------------
Consumed(k) == \E c \in Comps : \E r \in polled[c] : Key(r) = k

(* Mutant: the client waits for its own puts, not for those that come in.  *)
ReadyForBarrierOwnPutsOnly(p) ==
    CASE phase[p] = Alloc -> Len(g_devices[p]) = NumDevices
      [] phase[p] = Comm ->
            /\ \A o \in todo : o.proc # p
            /\ \A o \in Puts : o.proc = p => Consumed(<<"operation", o>>)
      [] phase[p] = Free ->
            \A i \in DOMAIN g_devices[p] : ~g_devices[p][i].alive
      [] OTHER -> FALSE

(* What the client waits for before it enters the next barrier.            *)
ReadyForBarrier(p) ==
    CASE phase[p] = Alloc -> Len(g_devices[p]) = NumDevices
      [] phase[p] = Comm ->
            /\ \A o \in todo : o.proc # p
            /\ \A o \in Puts : /\ o.proc = p => Consumed(<<"operation", o>>)
                               /\ o.rank = p => Consumed(<<"arrival", o>>)
      [] phase[p] = Free ->
            \A i \in DOMAIN g_devices[p] : ~g_devices[p][i].alive
      [] OTHER -> FALSE

(* barrier, and the barrier in finalize: gex_Coll_BarrierNB.               *)
BarrierArrive(p) ==
    /\ Idle(p) /\ ReadyForBarrier(p)
    /\ phase' = [phase EXCEPT ![p] = @ + 1]
    /\ UNCHANGED <<threadVars, todo, deviceVars, amVars, compVars>>

(* Mutant: the event of the barrier is not waited for.                     *)
BarrierLeaveAtOnce(p) ==
    /\ phase[p] % 2 = 1
    /\ phase' = [phase EXCEPT ![p] = @ + 1]
    /\ UNCHANGED <<threadVars, todo, deviceVars, amVars, compVars>>

(* gex_Event_Wait: everybody has arrived.  After the barrier in finalize   *)
(* comes gasnet_exit.                                                      *)
BarrierLeave(p) ==
    /\ phase[p] % 2 = 1
    /\ \A q \in Procs : phase[q] >= phase[p]
    /\ phase' = [phase EXCEPT ![p] = @ + 1]
    /\ UNCHANGED <<threadVars, todo, deviceVars, amVars, compVars>>

ThreadStep(t) ==
    \/ AllocPush(t) \/ AllocFill(t) \/ PutSignal(t)
    \/ \E d \in Devices : FreeDevice(t, d)
    \/ \E o \in Ops : Put(t, o) \/ SendOrRecv(t, o)
    \/ \E c \in Comps : PollCq(t, c)

Next ==
    \/ \E t \in Threads : ThreadStep(t)
    \/ Progress
    \/ \E p \in Procs : BarrierArrive(p) \/ BarrierLeave(p)

Spec == Init /\ [][Next]_vars

(* The threads of a client go on, poll their queues and call do_progress;  *)
(* GASNet delivers what was injected and lets a full barrier go.           *)
FairSpec ==
    /\ Spec
    /\ \A t \in Threads : WF_vars(ThreadStep(t))
    /\ WF_vars(Progress)
    /\ \A p \in Procs : WF_vars(BarrierArrive(p) \/ BarrierLeave(p))

-----------------------------------------------------------------------------
(* An active message in flight names a device that exists at its target,   *)
(* is filled in, not freed, and is the peer of the device it was put on:   *)
(* the id a device got from its own process's table fits the other one's.  *)
HandlerFindsDevice ==
    \A am \in ams :
       /\ HasDevice(am.op.rank, am.device_idx)
       /\ g_devices[am.op.rank][am.device_idx + 1].comp =
             PutComp[<<am.op.rank, am.op.dev>>]

(* The device a handler has looked up is still there, filled in and not    *)
(* freed, when the handler gets to signal it, and is the one the put is    *)
(* for: nobody frees it in between, although gex_reqhandler holds no lock  *)
(* and may run on another thread than free_device.                         *)
HandlerKeepsDevice ==
    \A h \in running :
       /\ HasDevice(h.op.rank, h.device)
       /\ g_devices[h.op.rank][h.device + 1].comp = PutComp[<<h.op.rank, h.op.dev>>]

(* Nobody waits for ever: every put is completed and arrives, every        *)
(* barrier is left, and all processes come to the end of finalize.         *)
AllExit == <>(\A p \in Procs : phase[p] = Exited)

-----------------------------------------------------------------------------
(* The backend keeps the promises of lcw.hpp for put: a put is accepted    *)
(* when its active message is injected, completed once at its source and   *)
(* signalled once at its target, to the completion object of that device.  *)
Contract == INSTANCE LcwContract WITH
    posted <- Puts \ todo,
    queued <- [c \in Comps |-> {cq[c][i] : i \in DOMAIN cq[c]}],
    consumed <- polled
ContractSpec == Contract!Spec
=============================================================================
