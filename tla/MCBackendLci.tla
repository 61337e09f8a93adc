---------------------------- MODULE MCBackendLci ----------------------------
(***************************************************************************)
(* Two processes over LCI, the first with two threads, with two devices    *)
(* each.  The name of a completion object says which process owns it.      *)
(***************************************************************************)
EXTENDS BackendLci

CONSTANTS t1, t2, t3

LciProcs == {0, 1}
LciThreadProc == [t \in Threads |-> IF t = t3 THEN 1 ELSE 0]
LciComps == {"cq0", "handler0", "cq1"}
LciCompProc == [c \in LciComps |-> IF c = "cq1" THEN 1 ELSE 0]
LciPutComp == [d \in LciProcs \X {0, 1} |->
                 CASE d[1] = 1 -> "cq1" [] d[2] = 0 -> "cq0" [] OTHER -> "handler0"]

LciOp(op, proc, dv, tag, length, comp) ==
    [op |-> op, proc |-> proc, dev |-> dv, rank |-> 1 - proc, tag |-> tag,
     length |-> length, comp |-> comp]

(* Messages of both size classes, each with a receive whose buffer is      *)
(* longer, and a medium one with a long buffer; puts on both devices, a    *)
(* long one over LCI2 and one that LCI's alloc_device does not accept.     *)
Short(comp, buffer) ==
    {LciOp("SEND", 0, 0, 1, 1, comp), LciOp("RECV", 1, 0, 1, buffer, "cq1")}
Long(comp) == {LciOp("SEND", 1, 1, 2, 3, "cq1"), LciOp("RECV", 0, 1, 2, 4, comp)}
Put(proc, dv, length, comp) == LciOp("PUT", proc, dv, 0, length, comp)
LciPrograms ==
    [LCI |-> {Short("cq0", 3) \cup {Put(1, 0, 1, "cq1")}, Long("cq0"),
              {Put(0, 0, 1, "cq0"), Put(0, 1, 2, "cq0")}, {Put(0, 0, 3, "cq0")}},
     LCI2 |-> {Short("handler0", 2), Long("handler0"),
               {Put(1, 0, 1, "cq1"), Put(1, 1, 3, "cq1")}}]
LciOps == UNION (LciPrograms.LCI \cup LciPrograms.LCI2)
MCGarbage == -1
=============================================================================
