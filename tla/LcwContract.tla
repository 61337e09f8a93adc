---------------------------- MODULE LcwContract -----------------------------
(***************************************************************************)
(* What lcw.hpp promises the client of send, recv, put, do_progress and    *)
(* poll_cq, without a word about how: an operation that was posted is      *)
(* reported at most once, to the completion object it was posted with; a   *)
(* receive reports a message that was sent to it and that no other receive *)
(* got; a put is reported once more at its target.                         *)
(***************************************************************************)
EXTENDS Requests

VARIABLES
    posted,      \* operations whose call has been accepted
    queued,      \* completions in each completion queue
    consumed     \* completions the client has seen

contractVars == <<posted, queued, consumed>>

Init ==
    /\ posted = {}
    /\ queued = [c \in Comps |-> {}]
    /\ consumed = [c \in Comps |-> {}]

Reports == UNION {queued[c] \cup consumed[c] : c \in Comps}

Sent(o) == [op |-> o.op, user_context |-> o, rank |-> o.rank,
            length |-> o.length, buffer |-> o]
Received(o, s) == [op |-> "RECV", user_context |-> o, rank |-> s.proc,
                   length |-> s.length, buffer |-> s]
Arrived(s) == [op |-> "PUT_SIGNAL", user_context |-> NULL, rank |-> s.proc,
               length |-> s.length, buffer |-> s]

(* The completions that may be reported to c at this point.                *)
Due(c) ==
    {r \in {Sent(o) : o \in {p \in posted : Counted(p) /\ p.comp = c}}
           \cup {Received(m[1], m[2]) : m \in {n \in posted \X posted :
                    /\ Matches(n[2], n[1]) /\ n[1].comp = c
                    /\ \A q \in Reports : q.op = "RECV" => q.buffer # n[2]}}
           \cup {Arrived(s) : s \in {p \in posted :
                    IsPut(p) /\ PutComp[<<p.rank, p.dev>>] = c}} :
        \A q \in Reports : Key(q) # Key(r)}

(* send, recv or put is accepted.                                          *)
Accept(o) ==
    /\ o \notin posted
    /\ posted' = posted \cup {o}
    /\ UNCHANGED <<queued, consumed>>

(* do_progress reports to a queue, or runs a handler.                      *)
Report(c) ==
    /\ \E r \in Due(c) :
          IF c \in Handlers
            THEN consumed' = [consumed EXCEPT ![c] = @ \cup {r}] /\ UNCHANGED queued
            ELSE queued' = [queued EXCEPT ![c] = @ \cup {r}] /\ UNCHANGED consumed
    /\ UNCHANGED posted

(* poll_cq.                                                                *)
Take(c) ==
    /\ \E r \in queued[c] :
          /\ queued' = [queued EXCEPT ![c] = @ \ {r}]
          /\ consumed' = [consumed EXCEPT ![c] = @ \cup {r}]
    /\ UNCHANGED posted

Next ==
    \/ \E o \in Ops : Accept(o)
    \/ \E c \in Comps : Report(c) \/ Take(c)

Spec == Init /\ [][Next]_contractVars
=============================================================================
