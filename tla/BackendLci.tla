----------------------------- MODULE BackendLci -----------------------------
(***************************************************************************)
(* backend_lci_t and backend_lci2_t.  Both hand an operation to LCI with a *)
(* request_t of their own as user_context; LCI either takes it or asks to  *)
(* retry; the status LCI signals later leads back to that request_t, which *)
(* whoever receives the status copies and deletes.                         *)
(*                                                                         *)
(* LCI itself is external: it signals a status inside a post or inside     *)
(* progress on the device, to a queue of its own or, with LCI2, to a       *)
(* handler.  The client allocates its devices in the same order in every   *)
(* process and has a barrier before it communicates and before it frees.   *)
(***************************************************************************)
EXTENDS Requests, Sequences

CONSTANTS
    Libs,               \* "LCI", "LCI2"
    Programs,           \* the sets of operations clients of each of them issue
    LCI_MEDIUM_SIZE,
    Garbage             \* what is read from the wrong member of a union

(* backend_lci_t makes no handlers, and ids count from 0.                  *)
ASSUME LciAssumption ==
    /\ Libs \subseteq {"LCI", "LCI2"} /\ Programs \in [Libs -> SUBSET SUBSET Ops]
    /\ "LCI" \in Libs => \A o \in UNION Programs["LCI"] :
          o.comp \notin Handlers /\ (IsPut(o) => PutComp[<<o.rank, o.dev>>] \notin Handlers)
    /\ Garbage \notin Nat
    /\ IsFiniteSet(DeviceIds) /\ DeviceIds = 0 .. Cardinality(DeviceIds) - 1

(* Both ends of a message choose the size class by the length they give.   *)
Medium(o) == o.length <= LCI_MEDIUM_SIZE
SizeClass(o) == IF Medium(o) THEN "LCI_MEDIUM" ELSE "LCI_LONG"

VARIABLES
    lib,         \* the backend in use
    program,     \* the operations the clients issue in this run
    todo,        \* operations the client has not issued yet, or must retry
    pc,          \* the step each thread takes next
    entry,       \* the operation a thread is posting
    dev,         \* the device a thread is allocating
    ret,         \* what the post returned
    g_ndevices,  \* devices of each process
    rcomp,       \* the handle for remote completions each device got
    rcomps,      \* the completion objects behind the handles of a process
    freed,       \* devices that were freed
    ctxs,        \* live request_t of each operation
    posted,      \* operations LCI has and has not signalled
    net,         \* messages on their way
    cq,          \* statuses waiting in each queue
    polled       \* completions the client has taken or handled

callVars == <<pc, entry, dev, ret>>
deviceVars == <<g_ndevices, rcomp, rcomps, freed>>
lciVars == <<posted, net>>
compVars == <<cq, polled>>
vars == <<lib, program, todo, callVars, deviceVars, ctxs, lciVars, compVars>>

Statuses ==
    [user_context : Ops \cup {NULL}, msg : Ops, type : {"LCI_MEDIUM", "LCI_LONG"}]

TypeOK ==
    /\ lib \in Libs /\ program \in Programs[lib] /\ todo \subseteq program
    /\ pc \in [Threads -> {"idle", "register", "post", "return"}]
    /\ entry \in [Threads -> Ops \cup {NULL}]
    /\ dev \in [Threads -> Devices \cup {NULL}]
    /\ ret \in [Threads -> {"OK", "RETRY"}]
    /\ g_ndevices \in [Procs -> 0 .. Cardinality(DeviceIds)]
    /\ rcomp \in [Devices -> Nat]
    /\ \A p \in Procs : rcomps[p] \in Seq(Comps)
    /\ freed \subseteq Devices
    /\ ctxs \in [Ops -> Nat]
    /\ posted \subseteq Ops /\ net \subseteq Ops
    /\ cq \in [Comps -> Seq(Statuses)]
    /\ polled \in [Comps -> SUBSET Completion]

Init ==
    /\ lib \in Libs /\ program \in Programs[lib] /\ todo = program
    /\ pc = [t \in Threads |-> "idle"]
    /\ entry = [t \in Threads |-> NULL]
    /\ dev = [t \in Threads |-> NULL]
    /\ ret = [t \in Threads |-> "OK"]
    /\ g_ndevices = [p \in Procs |-> 0]
    /\ rcomp = [d \in Devices |-> 0]
    /\ rcomps = [p \in Procs |-> <<>>]
    /\ freed = {}
    /\ ctxs = [o \in Ops |-> 0]
    /\ posted = {} /\ net = {}
    /\ cq = [c \in Comps |-> <<>>]
    /\ polled = [c \in Comps |-> {}]

Goto(t, step) == pc' = [pc EXCEPT ![t] = step]
ThreadsOf(p) == {t \in Threads : ThreadProc[t] = p}
Allocated == \A d \in Devices : rcomp[d] # 0

-----------------------------------------------------------------------------
(* Mutant: two threads allocate devices at the same time.                  *)
MayAllocAnytime(p) == TRUE

(* The client's threads take turns (g_device_sequence_control).            *)
MayAlloc(p) == \A t \in ThreadsOf(p) : pc[t] = "idle"

(* Mutant: backend_lci_t only warns, too.                                  *)
PutLengthFitsUnchecked == TRUE

(* The client gives alloc_device a max_put_length that bounds its puts.    *)
(* The assertion of backend_lci_t ends the program when it is above        *)
(* LCI_MEDIUM_SIZE; backend_lci2_t only warns.                             *)
PutLengthFits == lib = "LCI" => \A o \in program : IsPut(o) => Medium(o)

(* alloc_device: id is g_ndevices++.                                       *)
AllocDevice(t) ==
    LET p == ThreadProc[t]
    IN  /\ pc[t] = "idle" /\ MayAlloc(p) /\ g_ndevices[p] < Cardinality(DeviceIds)
        /\ PutLengthFits
        /\ dev' = [dev EXCEPT ![t] = <<p, g_ndevices[p]>>]
        /\ g_ndevices' = [g_ndevices EXCEPT ![p] = @ + 1]
        /\ Goto(t, "register")
        /\ UNCHANGED <<lib, program, todo, entry, ret, rcomp, rcomps, freed, ctxs, lciVars, compVars>>

(* alloc_device: LCI_endpoint_init with put_comp as its default completion *)
(* object, or register_rcomp; the handle counts up in every process.       *)
RegisterComp(t) ==
    LET d == dev[t]
        p == ThreadProc[t]
    IN  /\ pc[t] = "register"
        /\ rcomps' = [rcomps EXCEPT ![p] = Append(@, PutComp[d])]
        /\ rcomp' = [rcomp EXCEPT ![d] = Len(rcomps[p]) + 1]
        /\ dev' = [dev EXCEPT ![t] = NULL]
        /\ Goto(t, "idle")
        /\ UNCHANGED <<lib, program, todo, entry, ret, g_ndevices, freed, ctxs, lciVars, compVars>>

-----------------------------------------------------------------------------
(* The status of a finished operation o, or of the arrival of a put, that  *)
(* came with the message s.                                                *)
Status(o, s, type) == [user_context |-> o, msg |-> s, type |-> type]

(* data.mbuffer.length and data.lbuffer.length share storage.              *)
MbufferLength(st) == IF st.type = "LCI_MEDIUM" THEN st.msg.length ELSE Garbage
LbufferLength(st) == IF st.type = "LCI_LONG" THEN st.msg.length ELSE Garbage

(* Mutant: the member is chosen by the length that was posted.             *)
StatusLengthByPosted(st) ==
    CASE lib = "LCI2" -> st.msg.length
      [] lib = "LCI" /\ Medium(st.user_context) -> MbufferLength(st)
      [] OTHER -> LbufferLength(st)

(* The length of a receive.                                                *)
StatusLength(st) ==
    CASE lib = "LCI2" -> st.msg.length
      [] lib = "LCI" /\ st.type = "LCI_MEDIUM" -> MbufferLength(st)
      [] OTHER -> LbufferLength(st)

(* poll_cq, or get_request_from_status: no user_context is the sign of the *)
(* arrival of a put.                                                       *)
RequestFromStatus(st) ==
    LET o == st.user_context
    IN  IF o = NULL
        THEN [op |-> "PUT_SIGNAL", user_context |-> NULL, rank |-> st.msg.proc,
              length |-> IF lib = "LCI2" THEN st.msg.length ELSE MbufferLength(st),
              buffer |-> st.msg]
        ELSE [op |-> o.op, user_context |-> o, rank |-> o.rank,
              length |-> IF IsRecv(o) THEN StatusLength(st) ELSE o.length,
              buffer |-> st.msg]

DeleteCtx(o) == IF o = NULL THEN UNCHANGED ctxs ELSE ctxs' = [ctxs EXCEPT ![o] = @ - 1]

(* LCI signals a status; comp_handler_lci_t::signal converts it there and  *)
(* then.                                                                   *)
LciSignal(c, st) ==
    IF c \in Handlers
    THEN /\ polled' = [polled EXCEPT ![c] = @ \cup {RequestFromStatus(st)}]
         /\ DeleteCtx(st.user_context)
         /\ UNCHANGED cq
    ELSE /\ cq' = [cq EXCEPT ![c] = Append(@, st)]
         /\ UNCHANGED <<polled, ctxs>>

-----------------------------------------------------------------------------
(* send, recv and put: new request_t.                                      *)
NewRequest(t, o) ==
    /\ pc[t] = "idle" /\ Allocated /\ o \in todo /\ o.proc = ThreadProc[t]
    /\ todo' = todo \ {o}
    /\ entry' = [entry EXCEPT ![t] = o]
    /\ ctxs' = [ctxs EXCEPT ![o] = @ + 1]
    /\ Goto(t, "post")
    /\ UNCHANGED <<lib, program, dev, ret, deviceVars, lciVars, compVars>>

(* LCI takes the operation, ...                                            *)
LciPost(t) ==
    /\ pc[t] = "post"
    /\ ret' = [ret EXCEPT ![t] = "OK"]
    /\ posted' = posted \cup {entry[t]}
    /\ net' = IF IsRecv(entry[t]) THEN net ELSE net \cup {entry[t]}
    /\ Goto(t, "return")
    /\ UNCHANGED <<lib, program, todo, entry, dev, deviceVars, ctxs, compVars>>

(* ... or it lacks the resources to.                                       *)
LciRetry(t) ==
    /\ pc[t] = "post"
    /\ ret' = [ret EXCEPT ![t] = "RETRY"]
    /\ Goto(t, "return")
    /\ UNCHANGED <<lib, program, todo, entry, dev, deviceVars, ctxs, lciVars, compVars>>

(* Mutant: the request_t of a refused operation is not deleted.            *)
ReturnLeaks(t) ==
    /\ pc[t] = "return"
    /\ todo' = IF ret[t] = "RETRY" THEN todo \cup {entry[t]} ELSE todo
    /\ entry' = [entry EXCEPT ![t] = NULL]
    /\ Goto(t, "idle")
    /\ UNCHANGED <<lib, program, dev, ret, deviceVars, ctxs, lciVars, compVars>>

(* Mutant: the call returns true although LCI asked to retry.              *)
ReturnAlwaysTrue(t) ==
    /\ pc[t] = "return"
    /\ IF ret[t] = "RETRY" THEN DeleteCtx(entry[t]) ELSE UNCHANGED ctxs
    /\ entry' = [entry EXCEPT ![t] = NULL]
    /\ Goto(t, "idle")
    /\ UNCHANGED <<lib, program, todo, dev, ret, deviceVars, lciVars, compVars>>

(* The call returns: a refused operation's request_t is deleted, and the   *)
(* client keeps the operation.  One that LCI took may be complete by now,  *)
(* and its request_t deleted.                                              *)
Return(t) ==
    /\ pc[t] = "return"
    /\ IF ret[t] = "RETRY"
       THEN DeleteCtx(entry[t]) /\ todo' = todo \cup {entry[t]}
       ELSE UNCHANGED <<ctxs, todo>>
    /\ entry' = [entry EXCEPT ![t] = NULL]
    /\ Goto(t, "idle")
    /\ UNCHANGED <<lib, program, dev, ret, deviceVars, lciVars, compVars>>

-----------------------------------------------------------------------------
(* A send or put completes, in do_progress on its device or while it is    *)
(* still being posted.                                                     *)
SendDone(t, o) ==
    /\ Counted(o) /\ o \in posted /\ o.proc = ThreadProc[t]
    /\ pc[t] = "idle" \/ entry[t] = o
    /\ posted' = posted \ {o}
    /\ LciSignal(o.comp, Status(o, o, SizeClass(o)))
    /\ UNCHANGED <<lib, program, todo, callVars, deviceVars, net>>

(* do_progress on the receiver's device: a message meets its receive, by   *)
(* rank and tag; where the two are not of one size class, LCI may call the *)
(* completion either, ...                                                  *)
RecvDone(t, s, r) ==
    /\ pc[t] = "idle" /\ r.proc = ThreadProc[t]
    /\ s \in net /\ r \in posted /\ Matches(s, r)
    /\ posted' = posted \ {r}
    /\ net' = net \ {s}
    /\ \E type \in {SizeClass(s), SizeClass(r)} : LciSignal(r.comp, Status(r, s, type))
    /\ UNCHANGED <<lib, program, todo, callVars, deviceVars>>

(* ... or a put arrives.  The sender named the completion object by the    *)
(* handle of its own device.                                               *)
PutArrives(t, s) ==
    /\ pc[t] = "idle" /\ s.rank = ThreadProc[t]
    /\ s \in net /\ IsPut(s)
    /\ net' = net \ {s}
    /\ LciSignal(rcomps[s.rank][rcomp[DeviceOf(s)]], Status(NULL, s, SizeClass(s)))
    /\ UNCHANGED <<lib, program, todo, callVars, deviceVars, posted>>

Progress(t) ==
    \E s \in Ops : SendDone(t, s) \/ PutArrives(t, s) \/ \E r \in Ops : RecvDone(t, s, r)

(* poll_cq, when the queue is not empty.                                   *)
PollCq(t, c) ==
    /\ pc[t] = "idle" /\ CompProc[c] = ThreadProc[t]
    /\ cq[c] # <<>>
    /\ cq' = [cq EXCEPT ![c] = Tail(@)]
    /\ polled' = [polled EXCEPT ![c] = @ \cup {RequestFromStatus(Head(cq[c]))}]
    /\ DeleteCtx(Head(cq[c]).user_context)
    /\ UNCHANGED <<lib, program, todo, callVars, deviceVars, lciVars>>

(* free_device, once the client has seen everything it waits for.          *)
Consumed(k) == \E c \in Comps : \E r \in polled[c] : Key(r) = k
Quiet ==
    /\ Allocated /\ todo = {} /\ posted = {} /\ net = {}
    /\ \A t \in Threads : pc[t] = "idle"
    /\ \A c \in Comps : cq[c] = <<>>
FreeDevice(t, d) ==
    /\ Quiet /\ d[1] = ThreadProc[t] /\ d \notin freed
    /\ freed' = freed \cup {d}
    /\ UNCHANGED <<lib, program, todo, callVars, g_ndevices, rcomp, rcomps, ctxs, lciVars, compVars>>

Next ==
    \E t \in Threads :
       \/ AllocDevice(t) \/ RegisterComp(t)
       \/ \E o \in Ops : NewRequest(t, o)
       \/ LciPost(t) \/ LciRetry(t) \/ Return(t)
       \/ Progress(t)
       \/ \E c \in Comps : PollCq(t, c)
       \/ \E d \in Devices : FreeDevice(t, d)

Spec == Init /\ [][Next]_vars

(* Threads inside a call go on; clients progress, poll and retry; LCI      *)
(* takes an operation that is posted again and again.                      *)
FairSpec ==
    /\ Spec
    /\ \A t \in Threads : /\ WF_vars(AllocDevice(t) \/ RegisterComp(t))
                          /\ WF_vars(LciPost(t) \/ LciRetry(t) \/ Return(t))
                          /\ SF_vars(LciPost(t))
    /\ \A p \in Procs : /\ SF_vars(\E t \in ThreadsOf(p) : Progress(t))
                        /\ SF_vars(\E t \in ThreadsOf(p), o \in Ops : NewRequest(t, o))
    /\ \A c \in Comps \ Handlers : SF_vars(\E t \in Threads : PollCq(t, c))
    /\ WF_vars(\E t \in Threads, d \in Devices : FreeDevice(t, d))

-----------------------------------------------------------------------------
(* There is one request_t for every operation that a call is about to      *)
(* post, that LCI holds, or whose status waits in a queue, and none for    *)
(* any other: a retry leaks none, and none is deleted that a status still  *)
(* points to, however early the completion comes.                          *)
HeldByCall(t, o) ==
    entry[t] = o /\ (pc[t] = "post" \/ <<pc[t], ret[t]>> = <<"return", "RETRY">>)
Holders(o) ==
    Cardinality({t \in Threads : HeldByCall(t, o)})
    + (IF o \in posted THEN 1 ELSE 0)
    + Cardinality(UNION {{<<c, i>> : i \in {j \in DOMAIN cq[c] : cq[c][j].user_context = o}} :
                         c \in Comps})
ContextsExact == \A o \in Ops : ctxs[o] = Holders(o)

(* In the end every operation is complete, also one that LCI refused at    *)
(* first, every put has been signalled at its target, and the devices are  *)
(* freed, unless alloc_device found the puts too long.                     *)
AllComplete == PutLengthFits =>
    <>(/\ \A o \in program : /\ Consumed(<<"operation", o>>)
                             /\ IsPut(o) => Consumed(<<"arrival", o>>)
       /\ freed = Devices)

(* The client of either backend sees what lcw.hpp promises.                *)
Contract == INSTANCE LcwContract WITH
    posted <- posted \cup {o \in Ops : \E c \in Comps :
                  \/ \E r \in polled[c] : Key(r) = <<"operation", o>>
                  \/ \E i \in DOMAIN cq[c] : cq[c][i].user_context = o},
    queued <- [c \in Comps |-> {RequestFromStatus(cq[c][i]) : i \in DOMAIN cq[c]}],
    consumed <- polled
ContractSpec == Contract!Spec
=============================================================================
