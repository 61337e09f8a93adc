----------------------------- MODULE BackendMpi -----------------------------
(***************************************************************************)
(* backend_mpi_t with the request-based completion manager: every thread   *)
(* of every process may at any time send, recv, put, do_progress on any of *)
(* its process's devices, or poll a completion queue.                      *)
(***************************************************************************)
EXTENDS ManagerReq

CONSTANT
    Programs    \* the sets of operations the clients may issue

ASSUME ProgramsAssumption == Programs \subseteq SUBSET Ops

VARIABLES
    todo,       \* operations the client has not issued yet, or must retry
    put_lock    \* the thread that holds a device's put_entry_lock

vars == <<mpiVars, frameVars, signalVars, managerVars, todo, put_lock>>

TypeOK ==
    /\ MpiTypeOK /\ FramesTypeOK /\ SignalTypeOK /\ ManagerTypeOK
    /\ todo \subseteq Ops
    /\ put_lock \in [Devices -> Threads \cup {NULL}]

Init ==
    /\ MpiInit /\ FramesInit /\ SignalInit /\ ManagerInit
    /\ todo = Ops
    /\ put_lock = [d \in Devices |-> NULL]

(* A thread of the client issues an operation, of the one program that all *)
(* operations issued so far belong to.                                     *)
MayIssue(t, o) ==
    /\ pc[t] = "idle" /\ o \in todo /\ o.proc = ThreadProc[t]
    /\ \E program \in Programs : o \in program /\ Ops \ todo \subseteq program

-----------------------------------------------------------------------------
(* Mutant: the limit is off by one more.                                   *)
AdmitsOneMore(p) ==
    g_pending_msg_max = 0 \/ g_pending_msg[p] <= g_pending_msg_max + 1

(* send and put: the load of g_pending_msg.  Above the limit the call      *)
(* returns false and the client keeps the operation to retry it.           *)
Admits(p) == g_pending_msg_max = 0 \/ g_pending_msg[p] <= g_pending_msg_max

SendOrPut(t, o) ==
    /\ MayIssue(t, o) /\ Counted(o)
    /\ Admits(o.proc)
    /\ todo' = todo \ {o}
    /\ entry' = [entry EXCEPT ![t] = o]
    /\ Goto(t, IF g_pending_msg_max > 0 THEN "fetch_add" ELSE "post")
    /\ UNCHANGED <<mpiVars, dev, status, buffer, signalVars, managerVars, put_lock>>

(* send and put: the fetch_add that follows the load.                      *)
FetchAdd(t) ==
    /\ pc[t] = "fetch_add"
    /\ g_pending_msg' = [g_pending_msg EXCEPT ![ThreadProc[t]] = @ + 1]
    /\ Goto(t, "post")
    /\ UNCHANGED <<mpiVars, dev, entry, status, buffer, cq, polled,
                   managerVars, todo, put_lock>>

Recv(t, o) ==
    /\ MayIssue(t, o) /\ IsRecv(o)
    /\ todo' = todo \ {o}
    /\ entry' = [entry EXCEPT ![t] = o]
    /\ Goto(t, "post")
    /\ UNCHANGED <<mpiVars, dev, status, buffer, signalVars, managerVars, put_lock>>

(* mpi::isend or mpi::irecv; add_entry follows.                            *)
Post(t) ==
    /\ pc[t] = "post"
    /\ StartRequest(entry[t])
    /\ Goto(t, "add_lock")
    /\ UNCHANGED <<dev, entry, status, buffer, signalVars, managerVars, todo, put_lock>>

-----------------------------------------------------------------------------
(* do_progress: the unlocked read of put_entry.mpi_req.  It races with the *)
(* holder of put_entry_lock, and may then give either answer.              *)
ReadPutReq(t, d) ==
    /\ pc[t] = "idle" /\ d[1] = ThreadProc[t]
    /\ dev' = [dev EXCEPT ![t] = d]
    /\ \/ /\ put_lock[d] # NULL \/ put_req[d] # "null"
          /\ Goto(t, "put_try")
       \/ /\ put_lock[d] # NULL \/ put_req[d] = "null"
          /\ Goto(t, "mgr_empty")
    /\ UNCHANGED <<mpiVars, entry, status, buffer, signalVars, managerVars,
                   todo, put_lock>>

(* put_entry_lock.try_lock().                                              *)
TryLockPut(t) ==
    LET d == dev[t]
    IN  /\ pc[t] = "put_try"
        /\ \/ /\ put_lock[d] = NULL
              /\ put_lock' = [put_lock EXCEPT ![d] = t]
              /\ Goto(t, "put_test")
           \/ /\ put_lock[d] # NULL
              /\ Goto(t, "mgr_empty")
              /\ UNCHANGED put_lock
        /\ UNCHANGED <<mpiVars, dev, entry, status, buffer, signalVars,
                       managerVars, todo>>

(* Mutant: the receive is reposted before put_rbuf is copied.              *)
TestPutRepostFirst(t) ==
    LET d == dev[t]
    IN  /\ pc[t] = "put_test"
        /\ \/ /\ put_req[d] = "done"
              /\ put_req' = [put_req EXCEPT ![d] = "active"]
              /\ status' = [status EXCEPT ![t] = put_rbuf[d]]
              /\ Goto(t, "put_copy")
           \/ /\ put_req[d] # "done"
              /\ Goto(t, "put_unlock")
              /\ UNCHANGED <<put_req, status>>
        /\ UNCHANGED <<mpi_req, net, matched, put_rbuf, dev, entry, buffer,
                       signalVars, managerVars, todo, put_lock>>

(* With the lock: MPI_Test on the put receive, if there is one.  Success   *)
(* sets put_entry.mpi_req to MPI_REQUEST_NULL.                             *)
TestPut(t) ==
    LET d == dev[t]
    IN  /\ pc[t] = "put_test"
        /\ \/ /\ put_req[d] = "done"
              /\ put_req' = [put_req EXCEPT ![d] = "null"]
              /\ status' = [status EXCEPT ![t] = put_rbuf[d]]
              /\ Goto(t, "put_copy")
           \/ /\ put_req[d] # "done"
              /\ Goto(t, "put_unlock")
              /\ UNCHANGED <<put_req, status>>
        /\ UNCHANGED <<mpi_req, net, matched, put_rbuf, dev, entry, buffer,
                       signalVars, managerVars, todo, put_lock>>

(* Mutant: no copy is made.                                                *)
CopyPutForgotten(t) ==
    /\ pc[t] = "put_copy"
    /\ Goto(t, "put_repost")
    /\ UNCHANGED <<mpiVars, dev, entry, status, buffer, signalVars, managerVars,
                   todo, put_lock>>

(* memcpy from put_rbuf into a buffer from the allocator.                  *)
CopyPut(t) ==
    /\ pc[t] = "put_copy"
    /\ buffer' = [buffer EXCEPT ![t] = put_rbuf[dev[t]]]
    /\ Goto(t, "put_repost")
    /\ UNCHANGED <<mpiVars, dev, entry, status, signalVars, managerVars, todo, put_lock>>

(* Mutant: the receive is not reposted.                                    *)
PostPutRecvForgotten(t) ==
    /\ pc[t] = "put_repost"
    /\ Goto(t, "put_unlock")
    /\ UNCHANGED <<mpiVars, dev, entry, status, buffer, signalVars, managerVars,
                   todo, put_lock>>

(* post_put_recv: from here on MPI may overwrite put_rbuf.                 *)
PostPutRecv(t) ==
    /\ pc[t] = "put_repost"
    /\ put_req' = [put_req EXCEPT ![dev[t]] = "active"]
    /\ Goto(t, "put_unlock")
    /\ UNCHANGED <<mpi_req, net, matched, put_rbuf, dev, entry, status, buffer,
                   signalVars, managerVars, todo, put_lock>>

(* Mutant: the arrival is not signalled.                                   *)
UnlockPutNoSignal(t) ==
    /\ pc[t] = "put_unlock"
    /\ put_lock' = [put_lock EXCEPT ![dev[t]] = NULL]
    /\ Goto(t, "mgr_empty")
    /\ UNCHANGED <<mpiVars, dev, entry, status, buffer, signalVars, managerVars, todo>>

(* Mutant: the lock is kept while the arrival is signalled.                *)
UnlockPutNotBeforeSignal(t) ==
    /\ pc[t] = "put_unlock"
    /\ put_lock' = [put_lock EXCEPT ![dev[t]] = IF status[t] # NULL THEN @ ELSE NULL]
    /\ Goto(t, IF status[t] # NULL THEN "put_signal" ELSE "mgr_empty")
    /\ UNCHANGED <<mpiVars, dev, entry, status, buffer, signalVars, managerVars, todo>>

(* Unlock, and go on to signal_comp if a put had arrived.                  *)
UnlockPut(t) ==
    /\ pc[t] = "put_unlock"
    /\ put_lock' = [put_lock EXCEPT ![dev[t]] = NULL]
    /\ Goto(t, IF status[t] # NULL THEN "put_signal" ELSE "mgr_empty")
    /\ UNCHANGED <<mpiVars, dev, entry, status, buffer, signalVars, managerVars, todo>>

(* signal_comp for PUT_SIGNAL; the manager's do_progress follows.          *)
SignalPut(t) ==
    /\ pc[t] = "put_signal"
    /\ SignalComp(PutComp[dev[t]], ArrivedRequest(status[t], buffer[t]))
    /\ status' = [status EXCEPT ![t] = NULL]
    /\ buffer' = [buffer EXCEPT ![t] = NULL]
    /\ Goto(t, "mgr_empty")
    /\ UNCHANGED <<mpiVars, dev, entry, g_pending_msg, managerVars, todo, put_lock>>

-----------------------------------------------------------------------------
PutStep(t) ==
    \/ TryLockPut(t) \/ TestPut(t) \/ CopyPut(t) \/ PostPutRecv(t)
    \/ UnlockPut(t) \/ SignalPut(t)

CallStep(t) == \E o \in Ops : SendOrPut(t, o) \/ Recv(t, o)

Next ==
    \/ \E t \in Threads :
          \/ CallStep(t)
          \/ FetchAdd(t)
          \/ Post(t)
          \/ \E d \in Devices : ReadPutReq(t, d)
          \/ PutStep(t)
          \/ ManagerStep(t) /\ UNCHANGED <<signalVars, todo, put_lock>>
          \/ SignalStep(t) /\ UNCHANGED <<mpiVars, managerVars, todo, put_lock>>
    \/ MpiStep /\ UNCHANGED <<frameVars, signalVars, managerVars, todo, put_lock>>

Spec == Init /\ [][Next]_vars

(* The scheduler runs every thread that is inside a call, and a spinlock   *)
(* that is free again and again is obtained in the end.                    *)
InCall(t) ==
    \/ FetchAdd(t) \/ Post(t) \/ PutStep(t)
    \/ ManagerStep(t) /\ UNCHANGED <<signalVars, todo, put_lock>>
    \/ /\ FetchSub(t) \/ SignalEntry(t)
       /\ UNCHANGED <<mpiVars, managerVars, todo, put_lock>>

ThreadFairness ==
    \A t \in Threads :
       /\ WF_vars(InCall(t))
       /\ SF_vars(/\ AddEntryLock(t)
                  /\ UNCHANGED <<mpiVars, signalVars, todo, put_lock>>)

(* Clients keep calling do_progress on every device they own, poll their   *)
(* queues, issue what they have left and retry what was refused.           *)
ClientFairness ==
    /\ SF_vars(\E t \in Threads : CallStep(t))
    /\ \A d \in Devices : SF_vars(\E t \in Threads : ReadPutReq(t, d))
    /\ \A c \in Comps \ Handlers :
          SF_vars(/\ \E t \in Threads : PollCq(t, c)
                  /\ UNCHANGED <<mpiVars, managerVars, todo, put_lock>>)

(* MPI delivers messages for which a receive is posted, and completes the  *)
(* sends it is bound to complete.                                          *)
MpiFairness ==
    WF_vars(/\ \E o \in Ops : \/ MpiPutArrive(o)
                              \/ \E r \in Ops : MpiMatch(o, r)
                              \/ SendDue(o) /\ MpiSendComplete(o)
            /\ UNCHANGED <<frameVars, signalVars, managerVars, todo, put_lock>>)

FairSpec ==
    Spec /\ ThreadFairness /\ ClientFairness /\ MpiFairness

-----------------------------------------------------------------------------
(* Where an operation, and the message of a put, can be.                   *)
InHand(o) == \E t \in Threads : entry[t] = o
Queued(o) == \E m \in Managers : \E i \in DOMAIN entries[m] : entries[m][i] = o
Reported(k) ==
    \E c \in Comps : \/ \E i \in DOMAIN cq[c] : Key(cq[c][i]) = k
                     \/ \E r \in polled[c] : Key(r) = k
InRbuf(s) == \E d \in Devices : put_req[d] = "done" /\ put_rbuf[d] = s
CopiedOut(s) == \E t \in Threads : pc[t] \in PutSteps /\ status[t] = s

ExactlyOneOf(a, b, c, d) ==
    /\ a \/ b \/ c \/ d
    /\ ~(a /\ b) /\ ~(a /\ c) /\ ~(a /\ d) /\ ~(b /\ c) /\ ~(b /\ d) /\ ~(c /\ d)

(* No two completions report the same thing.                               *)
ReportedTwice(k) ==
    \E c1, c2 \in Comps :
       \/ \E i \in DOMAIN cq[c1], j \in DOMAIN cq[c2] :
             <<c1, i>> # <<c2, j>> /\ Key(cq[c1][i]) = k /\ Key(cq[c2][j]) = k
       \/ \E i \in DOMAIN cq[c1], r \in polled[c2] : Key(cq[c1][i]) = k /\ Key(r) = k
       \/ \E r1 \in polled[c1], r2 \in polled[c2] :
             <<c1, r1>> # <<c2, r2>> /\ Key(r1) = k /\ Key(r2) = k

-----------------------------------------------------------------------------
(* Every operation is at any time in exactly one place: with the client,   *)
(* in the hands of one thread, once in one manager's deque, or reported by *)
(* one completion.  None is lost between pop_front and push_back, and none *)
(* is signalled twice, whatever the threads in add_entry and do_progress   *)
(* do at the same time.                                                    *)
ExactlyOnce ==
    \A o \in Ops :
       /\ ExactlyOneOf(o \in todo, InHand(o), Queued(o), Reported(<<"operation", o>>))
       /\ \A t1, t2 \in Threads : entry[t1] = o /\ entry[t2] = o => t1 = t2
       /\ \A m1, m2 \in Managers :
             \A i \in DOMAIN entries[m1], j \in DOMAIN entries[m2] :
                entries[m1][i] = o /\ entries[m2][j] = o => m1 = m2 /\ i = j
       /\ ~ReportedTwice(<<"operation", o>>)

(* A put that MPI has taken is in flight, in one put_rbuf, copied out by   *)
(* one thread, or reported to the target by one PUT_SIGNAL: the single     *)
(* receive buffer of a device neither loses a put nor reports one twice.   *)
PutExactlyOnce ==
    \A s \in {o \in Ops : IsPut(o) /\ mpi_req[o] # "none"} :
       /\ ExactlyOneOf(s \in net, InRbuf(s), CopiedOut(s), Reported(<<"arrival", s>>))
       /\ \A t1, t2 \in Threads :
             status[t1] = s /\ status[t2] = s => t1 = t2
       /\ ~ReportedTwice(<<"arrival", s>>)

(* A completion tells the truth about the message it came with, goes to    *)
(* the completion object it was asked for, and a receive reports a message *)
(* sent to it: the copy of put_rbuf is the message that MPI_Test's status  *)
(* describes, and a receive's length is the message's, not the buffer's.   *)
TrueReport(c, r) ==
    /\ r.op \in {"RECV", "PUT_SIGNAL"} =>
          r.rank = r.buffer.proc /\ r.length = r.buffer.length
    /\ r.op = "RECV" => Matches(r.buffer, r.user_context)
    /\ r.op = "PUT_SIGNAL" =>
          IsPut(r.buffer) /\ PutComp[<<r.buffer.rank, r.buffer.dev>>] = c
    /\ r.op # "PUT_SIGNAL" => r.op = r.user_context.op /\ r.user_context.comp = c

ReportsTrue ==
    \A c \in Comps : /\ \A i \in DOMAIN cq[c] : TrueReport(c, cq[c][i])
                     /\ \A r \in polled[c] : TrueReport(c, r)

(* put_rbuf keeps the message a thread is about to copy out: MPI writes to *)
(* it only after post_put_recv.                                            *)
RbufStable ==
    [][\A t \in Threads : pc[t] = "put_copy" =>
          put_rbuf'[dev[t]] = put_rbuf[dev[t]]]_vars

(* g_pending_msg counts the sends and puts between fetch_add and fetch_sub *)
(* exactly, so no slot leaks and none is given back twice.                 *)
HoldsSlot(o) ==
    /\ Counted(o)
    /\ \/ mpi_req[o] \in {"active", "done"}
       \/ \E t \in Threads :
             entry[t] = o /\ pc[t] \in {"post", "mgr_unlock", "fetch_sub"}

PendingExact ==
    g_pending_msg_max > 0 =>
       \A p \in Procs :
          g_pending_msg[p] = Cardinality({o \in Ops : o.proc = p /\ HoldsSlot(o)})

(* The load and the fetch_add are two steps, so the limit can be passed,   *)
(* but by no more than one message per thread of the process.              *)
ThreadsOf(p) == {t \in Threads : ThreadProc[t] = p}

PendingBound ==
    \A p \in Procs :
       g_pending_msg[p] <= g_pending_msg_max + Cardinality(ThreadsOf(p))

(* Only the holder of a lock is in the code it guards, and nobody keeps it *)
(* beyond: not when the call returns, nor across signal_comp, so a         *)
(* client's handler may call back into the library.                        *)
HoldsManager(t, m) ==
    \/ pc[t] \in ManagerLocked /\ ManagerOf(dev[t]) = m
    \/ pc[t] = "add_push" /\ ManagerOf(DeviceOf(entry[t])) = m
HoldsPut(t, d) == pc[t] \in PutLocked /\ dev[t] = d

LocksExact ==
    /\ \A t \in Threads, m \in Managers : HoldsManager(t, m) <=> lock[m] = t
    /\ \A t \in Threads, d \in Devices : HoldsPut(t, d) <=> put_lock[d] = t

(* A device that nobody works on has its put receive posted: do_progress,  *)
(* which skips a device whose request is MPI_REQUEST_NULL, never leaves it *)
(* deaf to later puts.                                                     *)
PutAlwaysPosted == \A d \in Devices : put_lock[d] = NULL => put_req[d] # "null"

(* In the end a whole program has been issued and completed, the           *)
(* operations that were refused at first because of the limit too, and     *)
(* every completion has reached the client: neither a full counter nor     *)
(* threads that get in one another's way in try_lock stop it for ever.     *)
Consumed(k) == \E c \in Comps : \E r \in polled[c] : Key(r) = k
AllComplete ==
    <>(\E program \in Programs : \A o \in program : Consumed(<<"operation", o>>))

(* From some time on, every put the client has issued is signalled at its  *)
(* target: no thread's stale read of put_entry.mpi_req or failed try_lock  *)
(* leaves one in put_rbuf for ever.                                        *)
AllPutsArrive ==
    <>[](\A o \in Ops \ todo : IsPut(o) => Consumed(<<"arrival", o>>))

-----------------------------------------------------------------------------
(* The backend keeps the promises of lcw.hpp: an operation is accepted     *)
(* when it is handed to MPI, and every step of every thread is a step of   *)
(* the contract or none.                                                   *)
Contract == INSTANCE LcwContract WITH
    posted <- {o \in Ops : mpi_req[o] # "none"},
    queued <- [c \in Comps |-> {cq[c][i] : i \in DOMAIN cq[c]}],
    consumed <- polled
ContractSpec == Contract!Spec
=============================================================================
