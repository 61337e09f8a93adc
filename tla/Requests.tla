------------------------------ MODULE Requests ------------------------------
(***************************************************************************)
(* The vocabulary of the MPI backend of LCW: processes and their threads,  *)
(* the devices they allocated, the completion objects, and the operations  *)
(* the client of the library issues.                                       *)
(*                                                                         *)
(* An operation is the argument list of one call of lcw::send, lcw::recv   *)
(* or lcw::put.  It stands for the request_t the call allocates and for    *)
(* the bytes it sends: a message is the operation that sent it.            *)
(***************************************************************************)
EXTENDS Integers, FiniteSets

CONSTANTS
    Procs,                \* the ranks
    Threads,              \* the threads of all the processes
    ThreadProc,           \* the process of each thread
    DeviceIds,            \* device_t::id of the devices each process allocated
    Comps,                \* completion queues and handlers
    Handlers,             \* those of them made by alloc_handler
    CompProc,             \* the process that owns each of them
    PutComp,              \* put_comp given to alloc_device, per device
    Ops,                  \* the operations the clients issue
    PutTag,               \* device_t::put_tag
    g_pending_msg_max,    \* LCW_MPI_MAX_PENDING_MSG; 0 is no limit
    g_num_comp_managers,  \* 0 gives every device a manager of its own
    NULL

(* Every process allocates its devices in the same order, so MPI_Comm_dup, *)
(* which is collective, gives devices of one id the same communicator.     *)
Devices == Procs \X DeviceIds

(* alloc_device: a shared manager is picked by device id, round robin.     *)
ManagerOf(d) ==
    IF g_num_comp_managers > 0 THEN <<d[1], d[2] % g_num_comp_managers>>
                               ELSE d
Managers == {ManagerOf(d) : d \in Devices}

OpTypes == {"SEND", "RECV", "PUT"}

DeviceOf(o) == <<o.proc, o.dev>>
IsRecv(o) == o.op = "RECV"
IsPut(o) == o.op = "PUT"

(* SEND and PUT are what the limit on pending messages counts.             *)
Counted(o) == o.op \in {"SEND", "PUT"}

(* The client keeps its tags below put_tag (lcw::get_max_tag) and gives a  *)
(* receive a buffer that is long enough.                                   *)
Matches(s, r) ==
    /\ s.op = "SEND" /\ r.op = "RECV"
    /\ s.rank = r.proc /\ r.rank = s.proc
    /\ s.dev = r.dev /\ s.tag = r.tag

ASSUME ProcsAssumption ==
    /\ IsFiniteSet(Threads)
    /\ ThreadProc \in [Threads -> Procs]
    /\ CompProc \in [Comps -> Procs]
    /\ PutComp \in [Devices -> Comps]
    /\ Handlers \subseteq Comps
ASSUME DevicesAssumption == DeviceIds \subseteq Nat
ASSUME ConfigAssumption ==
    g_pending_msg_max \in Nat /\ g_num_comp_managers \in Nat
ASSUME OpsAssumption ==
    /\ IsFiniteSet(Ops)
    /\ NULL \notin Ops \cup Threads \cup Devices
    /\ \A o \in Ops :
          /\ o.op \in OpTypes
          /\ o.proc \in Procs /\ o.dev \in DeviceIds /\ o.rank \in Procs
          /\ o.length \in Nat /\ o.comp \in Comps
          /\ CompProc[o.comp] = o.proc
          /\ (o.tag = PutTag) <=> IsPut(o)
    /\ \A s, r \in Ops : Matches(s, r) => s.length <= r.length

(* What the client learns from a completion: the fields of request_t that  *)
(* the backend fills in.  The payload found at request_t::buffer is the    *)
(* message it came with.                                                   *)
Completion ==
    [op : OpTypes \cup {"PUT_SIGNAL"}, user_context : Ops \cup {NULL},
     rank : Procs, length : Nat, buffer : Ops]

(* A completion reports an operation, or, for PUT_SIGNAL, the arrival of a *)
(* put; each of the two may be reported only once.                         *)
Key(c) == IF c.op = "PUT_SIGNAL" THEN <<"arrival", c.buffer>>
                                 ELSE <<"operation", c.user_context>>
=============================================================================
