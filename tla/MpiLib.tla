------------------------------- MODULE MpiLib -------------------------------
(***************************************************************************)
(* The MPI library as the backend uses it (external: MPI is not part of    *)
(* the repository).  A nonblocking operation is an MPI_Request that        *)
(* becomes complete some time after it was started and that a successful   *)
(* MPI_Test frees.  The communicators carry mpi_assert_allow_overtaking,   *)
(* so messages in flight match receives in any order.                      *)
(*                                                                         *)
(* The receive of a device for incoming puts is a request of its own: it   *)
(* takes any put sent to the device and has one buffer, put_rbuf.          *)
(***************************************************************************)
EXTENDS Requests

CONSTANT
    eager_limit     \* the longest message MPI sends without a receive

ASSUME EagerAssumption == eager_limit \in Nat

VARIABLES
    mpi_req,    \* the MPI_Request of each operation
    net,        \* messages sent and not yet matched
    matched,    \* the message a receive was matched with
    put_req,    \* the MPI_Request put_entry.mpi_req of each device
    put_rbuf    \* the message whose bytes are in put_rbuf

mpiVars == <<mpi_req, net, matched, put_req, put_rbuf>>

MpiTypeOK ==
    /\ mpi_req \in [Ops -> {"none", "active", "done", "freed"}]
    /\ net \subseteq Ops
    /\ matched \in [Ops -> Ops \cup {NULL}]
    /\ put_req \in [Devices -> {"null", "active", "done"}]
    /\ put_rbuf \in [Devices -> Ops \cup {NULL}]

(* alloc_device has posted the put receive of every device.                *)
MpiInit ==
    /\ mpi_req = [o \in Ops |-> "none"]
    /\ net = {}
    /\ matched = [o \in Ops |-> NULL]
    /\ put_req = [d \in Devices |-> "active"]
    /\ put_rbuf = [d \in Devices |-> NULL]

-----------------------------------------------------------------------------
(* MPI_Isend and MPI_Irecv, for the operation o.                           *)
StartRequest(o) ==
    /\ mpi_req' = [mpi_req EXCEPT ![o] = "active"]
    /\ net' = IF IsRecv(o) THEN net ELSE net \cup {o}
    /\ UNCHANGED <<matched, put_req, put_rbuf>>

(* MPI_Test for the operation o, once it has completed: the request is     *)
(* freed.                                                                  *)
FreeRequest(o) ==
    /\ mpi_req[o] = "done"
    /\ mpi_req' = [mpi_req EXCEPT ![o] = "freed"]
    /\ UNCHANGED <<net, matched, put_req, put_rbuf>>

-----------------------------------------------------------------------------
(* Steps MPI takes on its own.                                             *)

(* A message meets a receive; its bytes are in the receive's buffer.       *)
MpiMatch(s, r) ==
    /\ s \in net /\ Matches(s, r) /\ mpi_req[r] = "active"
    /\ net' = net \ {s}
    /\ matched' = [matched EXCEPT ![r] = s]
    /\ mpi_req' = [mpi_req EXCEPT ![r] = "done"]
    /\ UNCHANGED <<put_req, put_rbuf>>

(* A put reaches the posted put receive of its target.                     *)
MpiPutArrive(s) ==
    LET d == <<s.rank, s.dev>>
    IN  /\ s \in net /\ IsPut(s) /\ put_req[d] = "active"
        /\ net' = net \ {s}
        /\ put_req' = [put_req EXCEPT ![d] = "done"]
        /\ put_rbuf' = [put_rbuf EXCEPT ![d] = s]
        /\ UNCHANGED <<mpi_req, matched>>

(* A send completes: as soon as MPI has copied the message (eager), or     *)
(* when it has been received (rendezvous).                                 *)
MpiSendComplete(s) ==
    /\ Counted(s) /\ mpi_req[s] = "active"
    /\ mpi_req' = [mpi_req EXCEPT ![s] = "done"]
    /\ UNCHANGED <<net, matched, put_req, put_rbuf>>

(* A send that MPI is bound to complete: its message has been received, or *)
(* is short enough to be copied.                                           *)
SendDue(s) == s \notin net \/ s.length <= eager_limit

MpiStep ==
    \/ \E s, r \in Ops : MpiMatch(s, r)
    \/ \E s \in Ops : MpiPutArrive(s)
    \/ \E s \in Ops : MpiSendComplete(s)
=============================================================================
