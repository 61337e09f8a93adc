---------------------------- MODULE MCBackendMpi ----------------------------
(***************************************************************************)
(* Small instances of BackendMpi: one process whose threads talk to        *)
(* themselves.                                                             *)
(***************************************************************************)
EXTENDS BackendMpi, TLC

CONSTANTS t1, t2

SelfSymmetry == Permutations(Threads)

MCPutTag == 9
Op(id, op, dv, tag, length, comp) ==
    [op |-> op, proc |-> 0, dev |-> dv, rank |-> 0, tag |-> tag,
     length |-> length, comp |-> comp, user_context |-> id]

SelfProcs == {0}
SelfThreadProc == [t \in Threads |-> 0]
SelfComps == {"cq0", "handler0"}
SelfHandlers == {"handler0"}
SelfCompProc == [c \in SelfComps |-> 0]
OneDevice == {0}
TwoDevices == {0, 1}
CqPutComp == [d \in {0} \X {0} |-> "cq0"]
MixedPutComp == [d \in {0} \X {0, 1} |-> IF d[2] = 0 THEN "cq0" ELSE "handler0"]

(* Two sends of one tag and two receives for them with longer buffers: MPI *)
(* may match them in either order.                                         *)
SelfOps ==
    {Op(1, "SEND", 0, 1, 1, "handler0"), Op(2, "SEND", 0, 1, 2, "handler0"),
     Op(3, "RECV", 0, 1, 2, "cq0"), Op(4, "RECV", 0, 1, 3, "handler0")}

SelfPrograms == {SelfOps}

(* Two puts that race for one put_rbuf, or more sends than the limit lets  *)
(* through at once, even when both threads pass the load of g_pending_msg  *)
(* before the other's fetch_add.                                           *)
TwoPuts == {Op(i, "PUT", 0, MCPutTag, i, "handler0") : i \in 1 .. 2}
FourSends == {Op(i, "SEND", 0, 1, 1, "handler0") : i \in 3 .. 6}
DeviceOps == TwoPuts \cup FourSends
DevicePrograms == {TwoPuts, FourSends}
=============================================================================
