---------------------------- MODULE Completions -----------------------------
(***************************************************************************)
(* The completion objects every backend signals: comp_cq_t, a queue the    *)
(* client polls, and comp_handler_t, a function of the client.             *)
(***************************************************************************)
EXTENDS Requests, Sequences

VARIABLES
    cq,               \* completions waiting in each queue
    polled            \* completions the client has taken or handled

(* comp_cq_t::signal.                                                      *)
CqSignal(c, request) ==
    /\ cq' = [cq EXCEPT ![c] = Append(@, request)]
    /\ UNCHANGED polled

(* comp_handler_t::signal: the client's function runs here and now.        *)
HandlerSignal(c, request) ==
    /\ polled' = [polled EXCEPT ![c] = @ \cup {request}]
    /\ UNCHANGED cq

(* util::signal_comp.                                                      *)
SignalComp(c, request) ==
    IF c \in Handlers THEN HandlerSignal(c, request) ELSE CqSignal(c, request)

(* comp_cq_t::poll, when the queue is not empty.                           *)
Poll(c) ==
    /\ c \notin Handlers
    /\ cq[c] # <<>>
    /\ cq' = [cq EXCEPT ![c] = Tail(@)]
    /\ polled' = [polled EXCEPT ![c] = @ \cup {Head(cq[c])}]
=============================================================================
