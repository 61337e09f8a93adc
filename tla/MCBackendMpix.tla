---------------------------- MODULE MCBackendMpix ---------------------------
(***************************************************************************)
(* Small instances of BackendMpix: one process, one device.                *)
(***************************************************************************)
EXTENDS BackendMpix, TLC

CONSTANTS t1, t2

MCPutTag == 9
MCThreadProc == [t \in Threads |-> 0]
MCCompProc == [c \in {"cq0", "handler0"} |-> 0]
MCComps == {"cq0", "handler0"}
MCHandlers == {"handler0"}
MCPutComp == [d \in {0} \X {0} |-> "cq0"]

MCOp(id, op, tag, length, comp) ==
    [op |-> op, proc |-> 0, dev |-> 0, rank |-> 0, tag |-> tag,
     length |-> length, comp |-> comp, user_context |-> id]
MCSend(length) == MCOp(1, "SEND", 1, length, "handler0")
MCRecv == MCOp(2, "RECV", 1, 2, "cq0")
MCPut == MCOp(3, "PUT", MCPutTag, 1, "handler0")

(* A message that fills the buffer of its receive, or a put.               *)
ExactOps == {MCSend(2), MCRecv, MCPut}
ExactPrograms == {{MCSend(2), MCRecv}, {MCPut}}

(* A message shorter than the buffer.                                      *)
ShortOps == {MCSend(1), MCRecv}
ShortPrograms == {ShortOps}

(* LCW_MPI_COMP_TYPE, LCW_MPI_USE_STREAM and the LCW_MPI_CONT_ variables   *)
(* that are set.                                                           *)
Config(type, stream, flags) ==
    [comp_type |-> type, use_stream |-> stream,
     use_cont_imm |-> "IMM" \in flags, use_cont_defer |-> "DEFER" \in flags,
     use_cont_req |-> "REQ" \in flags, use_cont_poll_only |-> "POLL_ONLY" \in flags]
MCConfigs ==
    {Config("REQUEST", TRUE, {}),
     Config("CONTINUE", FALSE, {}),
     Config("CONTINUE", TRUE, {"IMM"}),
     Config("CONTINUE", TRUE, {"IMM", "DEFER", "REQ"}),
     Config("CONTINUE", TRUE, {"REQ", "POLL_ONLY"})}
DefaultConfig == {Config("CONTINUE", FALSE, {})}
=============================================================================
