------------------------------- MODULE Signal -------------------------------
(***************************************************************************)
(* mpi::signal_comp, the path every finished operation takes back to the   *)
(* client: give the message's slot back, then push the request on the      *)
(* completion queue or run the handler.                                    *)
(***************************************************************************)
EXTENDS Frames, Completions

VARIABLES
    g_pending_msg     \* sends and puts holding a slot, per process

signalVars == <<g_pending_msg, cq, polled>>

SignalTypeOK ==
    /\ g_pending_msg \in [Procs -> Int]
    /\ cq \in [Comps -> Seq(Completion)]
    /\ polled \in [Comps -> SUBSET Completion]

SignalInit ==
    /\ g_pending_msg = [p \in Procs |-> 0]
    /\ cq = [c \in Comps |-> <<>>]
    /\ polled = [c \in Comps |-> {}]

-----------------------------------------------------------------------------
(* Mutant: the length of a receive stays that of its buffer.               *)
FinishedRequestOwnLength(o, st) ==
    [op |-> o.op, user_context |-> o,
     rank |-> IF IsRecv(o) THEN st.proc ELSE o.rank,
     length |-> o.length,
     buffer |-> IF IsRecv(o) THEN st ELSE o]

(* The request_t of an operation the manager has seen complete.  A receive *)
(* reports what MPI_Test's status says of the message.                     *)
FinishedRequest(o, st) ==
    [op |-> o.op, user_context |-> o,
     rank |-> IF IsRecv(o) THEN st.proc ELSE o.rank,
     length |-> IF IsRecv(o) THEN st.length ELSE o.length,
     buffer |-> IF IsRecv(o) THEN st ELSE o]

(* The request_t of a put that has arrived: rank and length come from the  *)
(* status, the bytes from the copy of put_rbuf.                            *)
ArrivedRequest(st, buf) ==
    [op |-> "PUT_SIGNAL", user_context |-> NULL,
     rank |-> st.proc, length |-> st.length, buffer |-> buf]

(* Mutant: the slot is never given back.                                   *)
FetchSubForgotten(t) ==
    /\ pc[t] = "fetch_sub"
    /\ Goto(t, "signal")
    /\ UNCHANGED <<dev, entry, status, buffer, signalVars>>

(* signal_comp, first half: a finished send or put gives its slot back.    *)
FetchSub(t) ==
    /\ pc[t] = "fetch_sub"
    /\ g_pending_msg' = [g_pending_msg EXCEPT ![ThreadProc[t]] = @ - 1]
    /\ Goto(t, "signal")
    /\ UNCHANGED <<dev, entry, status, buffer, cq, polled>>

(* signal_comp, second half, and do_progress returns.                      *)
SignalEntry(t) ==
    /\ pc[t] = "signal"
    /\ SignalComp(entry[t].comp, FinishedRequest(entry[t], status[t]))
    /\ Return(t)
    /\ UNCHANGED g_pending_msg

(* lcw::poll_cq, when the queue is not empty.                              *)
PollCq(t, c) ==
    /\ pc[t] = "idle"
    /\ CompProc[c] = ThreadProc[t]
    /\ Poll(c)
    /\ UNCHANGED <<frameVars, g_pending_msg>>

SignalStep(t) == FetchSub(t) \/ SignalEntry(t) \/ \E c \in Comps : PollCq(t, c)
=============================================================================
