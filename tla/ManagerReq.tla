----------------------------- MODULE ManagerReq -----------------------------
(***************************************************************************)
(* mpi::comp::manager_req_t: the deque of operations in flight and the     *)
(* spinlock that guards it.  add_entry blocks on the lock, do_progress     *)
(* only tries it, and looks at the deque once before it has the lock.      *)
(***************************************************************************)
EXTENDS Signal

VARIABLES
    entries,    \* the deque of each manager
    lock        \* the thread that holds the manager's lock

managerVars == <<entries, lock>>

ManagerTypeOK ==
    /\ entries \in [Managers -> Seq(Ops)]
    /\ lock \in [Managers -> Threads \cup {NULL}]

ManagerInit ==
    /\ entries = [m \in Managers |-> <<>>]
    /\ lock = [m \in Managers |-> NULL]

-----------------------------------------------------------------------------
(* add_entry, the lock.                                                    *)
AddEntryLock(t) ==
    LET m == ManagerOf(DeviceOf(entry[t]))
    IN  /\ pc[t] = "add_lock"
        /\ lock[m] = NULL
        /\ lock' = [lock EXCEPT ![m] = t]
        /\ Goto(t, "add_push")
        /\ UNCHANGED <<dev, entry, status, buffer, entries>>

(* add_entry, push_back and unlock; then send, put or recv returns true.   *)
AddEntryPush(t) ==
    LET m == ManagerOf(DeviceOf(entry[t]))
    IN  /\ pc[t] = "add_push"
        /\ entries' = [entries EXCEPT ![m] = Append(@, entry[t])]
        /\ lock' = [lock EXCEPT ![m] = NULL]
        /\ Return(t)

-----------------------------------------------------------------------------
(* do_progress: entries.empty() before the lock is taken.  While another   *)
(* thread holds the lock and changes the deque, the read races with it and *)
(* may give either answer.                                                 *)
ReadEmpty(t) ==
    LET m == ManagerOf(dev[t])
    IN  /\ pc[t] = "mgr_empty"
        /\ \/ /\ lock[m] # NULL \/ entries[m] # <<>>
              /\ Goto(t, "mgr_try")
              /\ UNCHANGED <<dev, entry, status, buffer>>
           \/ /\ lock[m] # NULL \/ entries[m] = <<>>
              /\ Return(t)
        /\ UNCHANGED managerVars

(* Mutant: the result of try_lock is not looked at.                        *)
TryLockManagerUnchecked(t) ==
    LET m == ManagerOf(dev[t])
    IN  /\ pc[t] = "mgr_try"
        /\ lock' = [lock EXCEPT ![m] = IF @ = NULL THEN t ELSE @]
        /\ Goto(t, "mgr_test")
        /\ UNCHANGED <<dev, entry, status, buffer, entries>>

(* lock.try_lock().                                                        *)
TryLockManager(t) ==
    LET m == ManagerOf(dev[t])
    IN  /\ pc[t] = "mgr_try"
        /\ \/ /\ lock[m] = NULL
              /\ lock' = [lock EXCEPT ![m] = t]
              /\ Goto(t, "mgr_test")
              /\ UNCHANGED <<dev, entry, status, buffer>>
           \/ /\ lock[m] # NULL
              /\ Return(t)
              /\ UNCHANGED lock
        /\ UNCHANGED entries

(* With the lock: the deque was emptied meanwhile.                         *)
FoundEmpty(t) ==
    LET m == ManagerOf(dev[t])
    IN  /\ pc[t] = "mgr_test" /\ entries[m] = <<>>
        /\ lock' = [lock EXCEPT ![m] = NULL]
        /\ Return(t)
        /\ UNCHANGED <<mpiVars, entries>>

(* Mutant: front() without pop_front().                                    *)
TestFrontNoPop(t) ==
    LET m == ManagerOf(dev[t])
        o == Head(entries[m])
    IN  /\ pc[t] = "mgr_test" /\ entries[m] # <<>>
        /\ entry' = [entry EXCEPT ![t] = o]
        /\ \/ /\ FreeRequest(o)
              /\ status' = [status EXCEPT ![t] = matched[o]]
              /\ Goto(t, "mgr_unlock")
           \/ /\ mpi_req[o] # "done"
              /\ Goto(t, "mgr_push_back")
              /\ UNCHANGED <<mpiVars, status>>
        /\ UNCHANGED <<dev, buffer, managerVars>>

(* With the lock: pop the front entry and MPI_Test it.                     *)
TestFront(t) ==
    LET m == ManagerOf(dev[t])
        o == Head(entries[m])
    IN  /\ pc[t] = "mgr_test" /\ entries[m] # <<>>
        /\ entries' = [entries EXCEPT ![m] = Tail(@)]
        /\ entry' = [entry EXCEPT ![t] = o]
        /\ \/ /\ FreeRequest(o)
              /\ status' = [status EXCEPT ![t] = matched[o]]
              /\ Goto(t, "mgr_unlock")
           \/ /\ mpi_req[o] # "done"
              /\ Goto(t, "mgr_push_back")
              /\ UNCHANGED <<mpiVars, status>>
        /\ UNCHANGED <<dev, buffer, lock>>

(* Not complete: the entry goes to the back of the deque; unlock.          *)
PushBack(t) ==
    LET m == ManagerOf(dev[t])
    IN  /\ pc[t] = "mgr_push_back"
        /\ entries' = [entries EXCEPT ![m] = Append(@, entry[t])]
        /\ lock' = [lock EXCEPT ![m] = NULL]
        /\ Return(t)

(* Complete: unlock, and go on to signal_comp.                             *)
UnlockManager(t) ==
    LET m == ManagerOf(dev[t])
    IN  /\ pc[t] = "mgr_unlock"
        /\ lock' = [lock EXCEPT ![m] = NULL]
        /\ Goto(t, IF Counted(entry[t]) /\ g_pending_msg_max > 0
                     THEN "fetch_sub" ELSE "signal")
        /\ UNCHANGED <<dev, entry, status, buffer, entries>>

ManagerStep(t) ==
    \/ /\ \/ AddEntryLock(t) \/ AddEntryPush(t)
          \/ ReadEmpty(t) \/ TryLockManager(t)
          \/ PushBack(t) \/ UnlockManager(t)
       /\ UNCHANGED mpiVars
    \/ FoundEmpty(t) \/ TestFront(t)
=============================================================================
