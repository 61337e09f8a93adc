----------------------------- MODULE MCPingPong -----------------------------
(***************************************************************************)
(* Command lines for PingPong: workers that share a device and its put_cq, *)
(* and workers with devices of their own and a progress thread.            *)
(***************************************************************************)
EXTENDS PingPong

Line(op, ndevices, nthreads, nprgthreads, send_window, recv_window) ==
    [op |-> op, ndevices |-> ndevices, nthreads |-> nthreads, nprgthreads |-> nprgthreads,
     send_window |-> send_window, recv_window |-> recv_window]
MCConfigs ==
    {Line("PUT", 1, 2, 0, 1, 1),
     Line("PUT", 2, 2, 0, 2, 1),
     Line("SEND", 2, 3, 1, 1, 1),
     Line("SEND", 1, 1, 0, 2, 2)}
=============================================================================
