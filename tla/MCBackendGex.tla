---------------------------- MODULE MCBackendGex ----------------------------
(***************************************************************************)
(* Two processes over GASNet-EX, the first with two threads, with two      *)
(* devices each.  Puts go both ways and on both devices.                   *)
(***************************************************************************)
EXTENDS BackendGex

CONSTANTS t1, t2, t3

GexProcs == {0, 1}
GexThreadProc == [t \in Threads |-> IF t = t3 THEN 1 ELSE 0]
GexDeviceIds == {0, 1}
GexComps == {"cq0", "handler0", "cq1", "handler1"}
GexHandlers == {"handler0", "handler1"}
GexCompProc == [c \in GexComps |-> IF c \in {"cq0", "handler0"} THEN 0 ELSE 1]
GexPutComp ==
    [d \in GexProcs \X GexDeviceIds |->
       CASE d = <<0, 0>> -> "handler0" [] d = <<0, 1>> -> "cq0"
         [] d = <<1, 0>> -> "cq1" [] d = <<1, 1>> -> "handler1"]

GexOp(op, proc, dv, rank, tag, length, comp) ==
    [op |-> op, proc |-> proc, dev |-> dv, rank |-> rank, tag |-> tag,
     length |-> length, comp |-> comp]

GexOps ==
    {GexOp("PUT", 0, 0, 1, 9, 1, "cq0"), GexOp("PUT", 0, 1, 1, 9, 2, "handler0"),
     GexOp("PUT", 1, 1, 0, 9, 3, "cq1"), GexOp("SEND", 1, 0, 0, 1, 1, "cq1")}
=============================================================================
