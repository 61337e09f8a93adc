------------------------------- MODULE Frames -------------------------------
(***************************************************************************)
(* What each thread holds while it is inside a call of the MPI backend:    *)
(* the next step it takes and the locals of the call.  A thread that is    *)
(* "idle" is in the client's code.                                         *)
(***************************************************************************)
EXTENDS MpiLib

VARIABLES
    pc,        \* the step the thread takes next
    dev,       \* the device do_progress was called with
    entry,     \* the operation whose entry_t the thread holds
    status,    \* the message MPI_Test's status tells of
    buffer     \* the bytes copied out of put_rbuf

frameVars == <<pc, dev, entry, status, buffer>>

(* send, put and recv, with the manager's add_entry.                       *)
PostSteps == {"fetch_add", "post", "add_lock", "add_push"}

(* The part of do_progress that looks after incoming puts.                 *)
PutLocked == {"put_test", "put_copy", "put_repost", "put_unlock"}
PutSteps == {"put_try", "put_signal"} \cup PutLocked

(* The manager's do_progress, of manager_req_t or of manager_cont_t, and   *)
(* signal_comp for the entry the former finished.                          *)
ManagerLocked == {"mgr_test", "mgr_push_back", "mgr_unlock",
                  "cont_test", "cont_start", "cont_unlock"}
ManagerSteps == {"mgr_empty", "mgr_try"} \cup ManagerLocked
SignalSteps == {"fetch_sub", "signal"}

ProgressSteps == PutSteps \cup ManagerSteps \cup SignalSteps
Steps == {"idle"} \cup PostSteps \cup ProgressSteps

FramesTypeOK ==
    /\ pc \in [Threads -> Steps]
    /\ dev \in [Threads -> Devices \cup {NULL}]
    /\ entry \in [Threads -> Ops \cup {NULL}]
    /\ status \in [Threads -> Ops \cup {NULL}]
    /\ buffer \in [Threads -> Ops \cup {NULL}]

FramesInit ==
    /\ pc = [t \in Threads |-> "idle"]
    /\ dev = [t \in Threads |-> NULL]
    /\ entry = [t \in Threads |-> NULL]
    /\ status = [t \in Threads |-> NULL]
    /\ buffer = [t \in Threads |-> NULL]

Goto(t, step) == pc' = [pc EXCEPT ![t] = step]

(* The call returns to the client.                                         *)
Return(t) ==
    /\ Goto(t, "idle")
    /\ dev' = [dev EXCEPT ![t] = NULL]
    /\ entry' = [entry EXCEPT ![t] = NULL]
    /\ status' = [status EXCEPT ![t] = NULL]
    /\ buffer' = [buffer EXCEPT ![t] = NULL]
=============================================================================
