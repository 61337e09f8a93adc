---------------------------- MODULE ReportProofs ----------------------------
(***************************************************************************)
(* What the MPI backend owes its client: every operation is in one place   *)
(* at a time and reported once, every report is true, every step is a step *)
(* of the contract of lcw.hpp, and the pending messages are counted        *)
(* exactly and stay within their bound.                                    *)
(***************************************************************************)
EXTENDS LockProofs, FiniteSetTheorems

(* How far MPI has come with an operation, by the place it is in: nothing  *)
(* was started before isend or irecv, the request of an entry that is or   *)
(* goes to the deque is live, and that of a finished entry is freed.  Only *)
(* a send or a put takes the steps that count messages.                    *)
Fresh == {"fetch_add", "post"}
Live == {"add_lock", "add_push", "mgr_push_back"}

StageOf(t) ==
    /\ pc[t] \in Fresh => mpi_req[entry[t]] = "none"
    /\ pc[t] \in Live => mpi_req[entry[t]] \in {"active", "done"}
    /\ pc[t] \in Finished => mpi_req[entry[t]] = "freed"
    /\ pc[t] \in {"fetch_add", "fetch_sub"} => Counted(entry[t])

StageOK ==
    /\ \A o \in todo : mpi_req[o] = "none"
    /\ \A t \in Threads : StageOf(t)
    /\ \A m \in Managers : \A i \in DOMAIN entries[m] :
          mpi_req[entries[m][i]] \in {"active", "done"}

(* What MPI and the threads know of a message.  A receive that has not     *)
(* completed has no message; the one it completed with matches it, was     *)
(* taken off the network and is no other receive's.                        *)
Target(s) == <<s.rank, s.dev>>

MatchedOK ==
    /\ \A r \in Ops : mpi_req[r] \in {"none", "active"} => matched[r] = NULL
    /\ \A r \in Ops : matched[r] # NULL =>
          Matches(matched[r], r) /\ mpi_req[matched[r]] # "none" /\ matched[r] \notin net
    /\ \A q, r \in Ops : matched[q] = matched[r] /\ matched[q] # NULL => q = r

RbufOK ==
    \A d \in Devices : put_req[d] = "done" =>
       IsPut(put_rbuf[d]) /\ Target(put_rbuf[d]) = d

(* The status of a put that arrived tells of the message in put_rbuf until *)
(* that is copied, and of the copy from then on.                           *)
StatusOf(t) ==
    /\ pc[t] \in PutSteps /\ status[t] # NULL =>
          IsPut(status[t]) /\ Target(status[t]) = dev[t]
    /\ pc[t] = "put_copy" => put_rbuf[dev[t]] = status[t]
    /\ pc[t] \in {"put_repost", "put_unlock", "put_signal"} /\ status[t] # NULL =>
          buffer[t] = status[t]
    /\ pc[t] \in Finished => status[t] = matched[entry[t]]

StatusOK == \A t \in Threads : StatusOf(t)

(* A report names an operation or a put, and a receive's message is the    *)
(* one MPI matched with it.                                                *)
GoodReport(c, r) ==
    /\ TrueReport(c, r)
    /\ r.op # "PUT_SIGNAL" => r.user_context \in Ops
    /\ r.op = "RECV" => r.buffer = matched[r.user_context]

ReportsGood ==
    \A c \in Comps : /\ \A i \in DOMAIN cq[c] : GoodReport(c, cq[c][i])
                     /\ \A r \in polled[c] : GoodReport(c, r)

(* A message that was not sent is nowhere.                                 *)
NothingUnsent ==
    \A s \in Ops : mpi_req[s] = "none" =>
       /\ s \notin net /\ ~InRbuf(s) /\ ~CopiedOut(s) /\ ~Reported(<<"arrival", s>>)

-----------------------------------------------------------------------------
(* What a signal and a poll do to the reports.                             *)

(* comp_cq_t::signal puts one completion at the end of one queue.          *)
LEMMA CqElements ==
    ASSUME SignalTypeOK, NEW c \in Comps, NEW r \in Completion, CqSignal(c, r)
    PROVE  /\ polled' = polled
           /\ Len(cq[c]) + 1 \in DOMAIN cq'[c] /\ Len(cq[c]) + 1 \notin DOMAIN cq[c]
           /\ cq'[c][Len(cq[c]) + 1] = r
           /\ \A e \in Comps : \A i \in DOMAIN cq[e] :
                 i \in DOMAIN cq'[e] /\ cq'[e][i] = cq[e][i]
           /\ \A e \in Comps : \A i \in DOMAIN cq'[e] :
                 i \in DOMAIN cq[e] \/ (e = c /\ i = Len(cq[c]) + 1)
  <1>1. cq[c] \in Seq(Completion) /\ cq'[c] = Append(cq[c], r)
    BY DEF SignalTypeOK, CqSignal
  <1>2. ASSUME NEW e \in Comps, e # c PROVE cq'[e] = cq[e]
    BY <1>2 DEF SignalTypeOK, CqSignal
  <1>3. DOMAIN cq[c] = 1 .. Len(cq[c]) /\ DOMAIN cq'[c] = 1 .. Len(cq[c]) + 1 /\ Len(cq[c]) \in Nat
    BY <1>1
  <1>4. cq'[c][Len(cq[c]) + 1] = r /\ \A i \in 1 .. Len(cq[c]) : cq'[c][i] = cq[c][i]
    BY <1>1, AppendElements
  <1>5. polled' = polled
    BY DEF CqSignal
  <1> QED  BY <1>2, <1>3, <1>4, <1>5

(* A signal adds one report: to what was reported before, and no second    *)
(* one unless the same thing had been reported.                            *)
LEMMA SignalReports ==
    ASSUME SignalTypeOK, NEW c \in Comps, NEW r \in Completion, SignalComp(c, r), NEW k
    PROVE  /\ Reported(k)' <=> (Reported(k) \/ Key(r) = k)
           /\ ~ReportedTwice(k) /\ ~(Reported(k) /\ Key(r) = k) => ~ReportedTwice(k)'
  <1>1. CASE c \in Handlers
    <2>1. /\ cq' = cq /\ polled'[c] = polled[c] \cup {r}
          /\ \A e \in Comps : e # c => polled'[e] = polled[e]
      BY <1>1 DEF SignalComp, HandlerSignal, SignalTypeOK
    <2>2. Reported(k)' <=> (Reported(k) \/ Key(r) = k)
      BY <2>1 DEF Reported
    <2>3. ASSUME ~ReportedTwice(k), ~(Reported(k) /\ Key(r) = k) PROVE ~ReportedTwice(k)'
      BY <2>1, <2>3 DEF Reported, ReportedTwice
    <2> QED  BY <2>2, <2>3
  <1>2. CASE c \notin Handlers
    <2>1. CqSignal(c, r)
      BY <1>2 DEF SignalComp
    <2> DEFINE n == Len(cq[c]) + 1
    <2>2. /\ polled' = polled
          /\ n \in DOMAIN cq'[c] /\ n \notin DOMAIN cq[c] /\ cq'[c][n] = r
          /\ \A e \in Comps : \A i \in DOMAIN cq[e] :
                i \in DOMAIN cq'[e] /\ cq'[e][i] = cq[e][i]
          /\ \A e \in Comps : \A i \in DOMAIN cq'[e] :
                i \in DOMAIN cq[e] \/ (e = c /\ i = n)
      BY <2>1, CqElements
    <2> HIDE DEF n
    <2>3. Reported(k)' <=> (Reported(k) \/ Key(r) = k)
      BY <2>2 DEF Reported
    <2>4. ASSUME ~ReportedTwice(k), ~(Reported(k) /\ Key(r) = k) PROVE ~ReportedTwice(k)'
      BY <2>2, <2>4 DEF Reported, ReportedTwice
    <2> QED  BY <2>3, <2>4
  <1> QED  BY <1>1, <1>2

(* comp_cq_t::poll moves the head of the queue to the client; the others   *)
(* move up.                                                                *)
LEMMA PollElements ==
    ASSUME SignalTypeOK, NEW c \in Comps, Poll(c)
    PROVE  /\ 1 \in DOMAIN cq[c] /\ Head(cq[c]) = cq[c][1]
           /\ polled'[c] = polled[c] \cup {cq[c][1]}
           /\ \A e \in Comps : e # c => cq'[e] = cq[e] /\ polled'[e] = polled[e]
           /\ \A i \in DOMAIN cq'[c] : /\ i + 1 \in DOMAIN cq[c] /\ i + 1 # 1
                                       /\ cq'[c][i] = cq[c][i + 1]
           /\ \A i \in DOMAIN cq[c] : i # 1 =>
                 \E j \in DOMAIN cq'[c] : i = j + 1 /\ cq'[c][j] = cq[c][i]
           /\ \A i, j \in DOMAIN cq'[c] : i + 1 = j + 1 => i = j
  <1>1. cq[c] \in Seq(Completion) /\ cq[c] # <<>> /\ cq'[c] = Tail(cq[c])
    BY DEF SignalTypeOK, Poll
  <1>2. /\ Head(cq[c]) = cq[c][1] /\ polled'[c] = polled[c] \cup {cq[c][1]}
        /\ \A e \in Comps : e # c => cq'[e] = cq[e] /\ polled'[e] = polled[e]
    BY <1>1, TailElements DEF SignalTypeOK, Poll
  <1>3. DOMAIN cq[c] = 1 .. Len(cq[c]) /\ DOMAIN cq'[c] = 1 .. (Len(cq[c]) - 1) /\ Len(cq[c]) \in Nat \ {0}
    BY <1>1
  <1>4. \A i \in 1 .. (Len(cq[c]) - 1) : cq'[c][i] = cq[c][i + 1]
    BY <1>1, TailElements
  <1>5. ASSUME NEW i \in DOMAIN cq[c], i # 1
        PROVE  \E j \in DOMAIN cq'[c] : i = j + 1 /\ cq'[c][j] = cq[c][i]
    <2>1. i - 1 \in DOMAIN cq'[c] /\ i = (i - 1) + 1
      BY <1>3, <1>5
    <2> QED  BY <1>3, <1>4, <2>1
  <1>6. /\ \A i \in DOMAIN cq'[c] : i + 1 \in DOMAIN cq[c] /\ i + 1 # 1 /\ i \in Int
        /\ 1 \in DOMAIN cq[c]
    BY <1>3
  <1>7. \A i, j \in DOMAIN cq'[c] : i + 1 = j + 1 => i = j
    BY <1>6
  <1> QED  BY <1>2, <1>3, <1>4, <1>5, <1>6, <1>7

(* A poll changes neither what is reported nor how often.                  *)
LEMMA PollReports ==
    ASSUME SignalTypeOK, NEW c \in Comps, Poll(c), NEW k
    PROVE  /\ Reported(k)' <=> Reported(k)
           /\ ~ReportedTwice(k) => ~ReportedTwice(k)'
  <1>1. /\ 1 \in DOMAIN cq[c]
        /\ polled'[c] = polled[c] \cup {cq[c][1]}
        /\ \A e \in Comps : e # c => cq'[e] = cq[e] /\ polled'[e] = polled[e]
        /\ \A i \in DOMAIN cq'[c] : /\ i + 1 \in DOMAIN cq[c] /\ i + 1 # 1
                                    /\ cq'[c][i] = cq[c][i + 1]
        /\ \A i \in DOMAIN cq[c] : i # 1 =>
              \E j \in DOMAIN cq'[c] : i = j + 1 /\ cq'[c][j] = cq[c][i]
        /\ \A i, j \in DOMAIN cq'[c] : i + 1 = j + 1 => i = j
    BY PollElements
  <1>2. Reported(k)' <=> Reported(k)
    BY <1>1 DEF Reported
  <1>3. ASSUME ~ReportedTwice(k) PROVE ~ReportedTwice(k)'
    BY <1>1, <1>3 DEF ReportedTwice
  <1> QED  BY <1>2, <1>3

-----------------------------------------------------------------------------
(* What the operations of the backend do to the places of an operation.    *)

HandOnce(o) == \A t1, t2 \in Threads : entry[t1] = o /\ entry[t2] = o => t1 = t2
EntryOnce(o) ==
    \A m1, m2 \in Managers :
       \A i \in DOMAIN entries[m1], j \in DOMAIN entries[m2] :
          entries[m1][i] = o /\ entries[m2][j] = o => m1 = m2 /\ i = j

AtMostOneOf(a, b, c, d) ==
    ~(a /\ b) /\ ~(a /\ c) /\ ~(a /\ d) /\ ~(b /\ c) /\ ~(b /\ d) /\ ~(c /\ d)

PlacedOnce(o) ==
    /\ AtMostOneOf(o \in todo, InHand(o), Queued(o), Reported(<<"operation", o>>))
    /\ HandOnce(o) /\ EntryOnce(o) /\ ~ReportedTwice(<<"operation", o>>)

Somewhere(o) == o \in todo \/ InHand(o) \/ Queued(o) \/ Reported(<<"operation", o>>)

(* No operation is in two places, and a step takes none away from all of   *)
(* them and brings none back.                                              *)
MostOnce == \A o \in Ops : PlacedOnce(o)
PlacesKept == MostOnce' /\ \A o \in Ops : Somewhere(o)' <=> Somewhere(o)

(* ExactlyOnce adds that every operation is in one of the places.          *)
LEMMA PlacedEach ==
    /\ ExactlyOnce <=> MostOnce /\ \A o \in Ops : Somewhere(o)
    /\ ExactlyOnce' <=> MostOnce' /\ \A o \in Ops : Somewhere(o)'
  BY DEF ExactlyOnce, ExactlyOneOf, AtMostOneOf, MostOnce, PlacedOnce, Somewhere, HandOnce, EntryOnce

(* push_back adds one element to one deque.                                *)
LEMMA DequePush ==
    ASSUME ManagerTypeOK, NEW m \in Managers, NEW e \in Ops,
           entries' = [entries EXCEPT ![m] = Append(@, e)], NEW o
    PROVE  /\ Queued(o)' <=> (Queued(o) \/ o = e)
           /\ EntryOnce(o) /\ ~(Queued(o) /\ o = e) => EntryOnce(o)'
  <1> DEFINE n == Len(entries[m]) + 1
  <1>1. entries[m] \in Seq(Ops) /\ entries'[m] = Append(entries[m], e)
    BY DEF ManagerTypeOK
  <1>2. \A k \in Managers : k # m => entries'[k] = entries[k]
    BY DEF ManagerTypeOK
  <1>3. DOMAIN entries[m] = 1 .. Len(entries[m]) /\ DOMAIN entries'[m] = 1 .. n /\ Len(entries[m]) \in Nat
    BY <1>1
  <1>4. entries'[m][n] = e /\ \A i \in 1 .. Len(entries[m]) : entries'[m][i] = entries[m][i]
    BY <1>1, AppendElements
  <1>5. /\ n \in DOMAIN entries'[m] /\ n \notin DOMAIN entries[m] /\ entries'[m][n] = e
        /\ \A k \in Managers : \A i \in DOMAIN entries[k] :
              i \in DOMAIN entries'[k] /\ entries'[k][i] = entries[k][i]
        /\ \A k \in Managers : \A i \in DOMAIN entries'[k] :
              i \in DOMAIN entries[k] \/ (k = m /\ i = n)
    BY <1>2, <1>3, <1>4
  <1> HIDE DEF n
  <1>6. Queued(o)' <=> (Queued(o) \/ o = e)
    BY <1>5 DEF Queued
  <1>7. ASSUME EntryOnce(o), ~(Queued(o) /\ o = e) PROVE EntryOnce(o)'
    BY <1>5, <1>7 DEF Queued, EntryOnce
  <1> QED  BY <1>6, <1>7

(* The indices left after pop_front.                                       *)
LEMMA TailDomain ==
    ASSUME NEW S, NEW q \in Seq(S), q # <<>>
    PROVE  DOMAIN Tail(q) = 1 .. (Len(q) - 1)
  OBVIOUS

(* front and pop_front take an element out of the deque.                   *)
LEMMA DequePop ==
    ASSUME ManagerTypeOK, NEW m \in Managers, entries[m] # <<>>,
           entries' = [entries EXCEPT ![m] = Tail(@)], NEW o, EntryOnce(o)
    PROVE  /\ Queued(o)' <=> (Queued(o) /\ o # Head(entries[m]))
           /\ Queued(Head(entries[m]))
           /\ EntryOnce(o)'
  <1>1. entries[m] \in Seq(Ops) /\ entries[m] # <<>> /\ entries'[m] = Tail(entries[m])
    BY DEF ManagerTypeOK
  <1>2. \A k \in Managers : k # m => entries'[k] = entries[k]
    BY DEF ManagerTypeOK
  <1>3. /\ DOMAIN entries[m] = 1 .. Len(entries[m]) /\ Len(entries[m]) \in Nat \ {0}
        /\ DOMAIN entries'[m] = 1 .. (Len(entries[m]) - 1)
    <2>1. DOMAIN entries[m] = 1 .. Len(entries[m]) /\ Len(entries[m]) \in Nat \ {0}
      BY <1>1
    <2>2. DOMAIN entries'[m] = 1 .. (Len(entries[m]) - 1)
      BY <1>1, TailDomain
    <2> QED  BY <2>1, <2>2
  <1>4. /\ Head(entries[m]) = entries[m][1]
        /\ \A i \in 1 .. (Len(entries[m]) - 1) : entries'[m][i] = entries[m][i + 1]
    BY <1>1, TailElements
  <1>5. ASSUME NEW i \in DOMAIN entries[m], i # 1
        PROVE  \E j \in DOMAIN entries'[m] : i = j + 1 /\ entries'[m][j] = entries[m][i]
    <2>1. i - 1 \in DOMAIN entries'[m] /\ i = (i - 1) + 1
      BY <1>3, <1>5
    <2> QED  BY <1>3, <1>4, <2>1
  <1>6. /\ 1 \in DOMAIN entries[m]
        /\ \A i \in DOMAIN entries'[m] : /\ i + 1 \in DOMAIN entries[m] /\ i + 1 # 1
                                         /\ entries'[m][i] = entries[m][i + 1]
        /\ \A i, j \in DOMAIN entries'[m] : i + 1 = j + 1 => i = j
    BY <1>3, <1>4
  <1>7. Queued(Head(entries[m]))
    BY <1>4, <1>6 DEF Queued
  <1>8. Queued(o)' <=> (Queued(o) /\ o # Head(entries[m]))
    <2>1. ASSUME Queued(o)' PROVE Queued(o) /\ o # Head(entries[m])
      BY <1>2, <1>4, <1>6, <2>1 DEF Queued, EntryOnce
    <2>2. ASSUME Queued(o), o # Head(entries[m]) PROVE Queued(o)'
      BY <1>2, <1>4, <1>5, <2>2 DEF Queued
    <2> QED  BY <2>1, <2>2
  <1>9. EntryOnce(o)'
    BY <1>2, <1>6 DEF EntryOnce
  <1> QED  BY <1>7, <1>8, <1>9

(* A thread takes an entry into its hands ...                              *)
LEMMA HandTake ==
    ASSUME FramesTypeOK, NEW t \in Threads, entry[t] = NULL, NEW e \in Ops,
           entry' = [entry EXCEPT ![t] = e], NEW o \in Ops
    PROVE  /\ InHand(o)' <=> (InHand(o) \/ o = e)
           /\ HandOnce(o) /\ ~(InHand(o) /\ o = e) => HandOnce(o)'
  <1>1. o # NULL
    BY OpsAssumption
  <1>2. entry'[t] = e /\ \A u \in Threads : u # t => entry'[u] = entry[u]
    BY DEF FramesTypeOK
  <1> QED  BY <1>1, <1>2 DEF InHand, HandOnce

(* ... and gives it away.                                                  *)
LEMMA HandGive ==
    ASSUME FramesTypeOK, NEW t \in Threads,
           entry' = [entry EXCEPT ![t] = NULL], NEW o \in Ops, HandOnce(o)
    PROVE  /\ InHand(o)' <=> (InHand(o) /\ o # entry[t])
           /\ HandOnce(o)'
  <1>1. o # NULL
    BY OpsAssumption
  <1>2. entry'[t] = NULL /\ \A u \in Threads : u # t => entry'[u] = entry[u]
    BY DEF FramesTypeOK
  <1> QED  BY <1>1, <1>2 DEF InHand, HandOnce

(* An operation that no step touches stays where it is.                    *)
LEMMA PlaceSame ==
    ASSUME NEW o, UNCHANGED <<todo, entry, entries, cq, polled>>
    PROVE  (PlacedOnce(o)' <=> PlacedOnce(o)) /\ (Somewhere(o)' <=> Somewhere(o))
  BY DEF PlacedOnce, AtMostOneOf, Somewhere, HandOnce, EntryOnce, InHand, Queued, Reported,
         ReportedTwice

(* Without reports, or with polled ones, the reports are the same.         *)
LEMMA ReportsSame ==
    ASSUME UNCHANGED <<cq, polled>>, NEW k
    PROVE  /\ Reported(k)' <=> Reported(k)
           /\ ReportedTwice(k)' <=> ReportedTwice(k)
  BY DEF Reported, ReportedTwice

(* Without a change of entry no hand changes.                              *)
LEMMA HandsSame ==
    ASSUME UNCHANGED entry, NEW o
    PROVE  (InHand(o)' <=> InHand(o)) /\ (HandOnce(o)' <=> HandOnce(o))
  BY DEF InHand, HandOnce

(* Without a change of entries no deque changes.                           *)
LEMMA DequesSame ==
    ASSUME UNCHANGED entries, NEW o
    PROVE  (Queued(o)' <=> Queued(o)) /\ (EntryOnce(o)' <=> EntryOnce(o))
  BY DEF Queued, EntryOnce

(* A thread that returns with empty hands changes no entry.                *)
LEMMA ReturnEmpty ==
    ASSUME FramesTypeOK, NEW t \in Threads, Return(t), entry[t] = NULL
    PROVE  entry' = entry
  BY DEF FramesTypeOK, Return

(* send, recv and put take an operation of the client.                     *)
LEMMA PlaceIssue ==
    ASSUME TypeInv, MostOnce, NEW t \in Threads, NEW e \in Ops,
           SendOrPut(t, e) \/ Recv(t, e)
    PROVE  PlacesKept
  <1> SUFFICES ASSUME NEW o \in Ops PROVE PlacedOnce(o)' /\ (Somewhere(o)' <=> Somewhere(o))
    BY DEF PlacesKept, MostOnce
  <1>1. PlacedOnce(o) /\ PlacedOnce(e)
    BY DEF MostOnce
  <1>2. /\ e \in todo /\ todo' = todo \ {e} /\ entry' = [entry EXCEPT ![t] = e]
        /\ UNCHANGED <<entries, cq, polled>> /\ pc[t] = "idle"
    BY DEF SendOrPut, Recv, MayIssue, managerVars, signalVars
  <1>3. entry[t] = NULL
    BY <1>2 DEF TypeInv, FrameOK, FrameOf, WithEntry, PostSteps, SignalSteps
  <1>4. /\ InHand(o)' <=> (InHand(o) \/ o = e)
        /\ HandOnce(o) /\ ~(InHand(o) /\ o = e) => HandOnce(o)'
    BY <1>2, <1>3, HandTake DEF TypeInv, TypeOK
  <1> QED
    BY <1>1, <1>2, <1>4, DequesSame, ReportsSame DEF PlacedOnce, AtMostOneOf, Somewhere

(* push_back, by add_entry or do_progress, puts the thread's entry into a  *)
(* deque.                                                                  *)
LEMMA PlacePush ==
    ASSUME TypeInv, MostOnce, NEW t \in Threads, AddEntryPush(t) \/ PushBack(t),
           UNCHANGED <<todo, cq, polled>>
    PROVE  PlacesKept
  <1> SUFFICES ASSUME NEW o \in Ops PROVE PlacedOnce(o)' /\ (Somewhere(o)' <=> Somewhere(o))
    BY DEF PlacesKept, MostOnce
  <1> DEFINE e == entry[t]
  <1>1. e \in Ops /\ ManagerOf(DeviceOf(e)) \in Managers
    BY FrameFacts, OpsAssumption
    DEF TypeInv, AddEntryPush, PushBack, WithEntry, PostSteps, Managers, DeviceOf, Devices
  <1>2. pc[t] = "mgr_push_back" => ManagerOf(dev[t]) \in Managers
    BY FrameFacts DEF TypeInv, ProgressSteps, ManagerSteps, ManagerLocked, Managers
  <1>3. PICK m \in Managers : entries' = [entries EXCEPT ![m] = Append(@, e)]
    BY <1>1, <1>2 DEF AddEntryPush, PushBack
  <1>4. entry' = [entry EXCEPT ![t] = NULL]
    BY DEF AddEntryPush, PushBack, Return
  <1>5. PlacedOnce(o) /\ InHand(e)
    BY DEF MostOnce, InHand
  <1>6. (InHand(o)' <=> (InHand(o) /\ o # e)) /\ HandOnce(o)'
    BY <1>4, <1>5, HandGive DEF TypeInv, TypeOK, PlacedOnce
  <1>7. /\ Queued(o)' <=> (Queued(o) \/ o = e)
        /\ EntryOnce(o) /\ ~(Queued(o) /\ o = e) => EntryOnce(o)'
    BY <1>1, <1>3, DequePush DEF TypeInv, TypeOK
  <1> HIDE DEF e
  <1> QED
    BY <1>5, <1>6, <1>7, ReportsSame DEF PlacedOnce, AtMostOneOf, Somewhere

(* pop_front takes an entry out of its deque.                              *)
LEMMA PlacePop ==
    ASSUME TypeInv, MostOnce, NEW t \in Threads, TestFront(t),
           UNCHANGED <<todo, cq, polled>>
    PROVE  PlacesKept
  <1> SUFFICES ASSUME NEW o \in Ops PROVE PlacedOnce(o)' /\ (Somewhere(o)' <=> Somewhere(o))
    BY DEF PlacesKept, MostOnce
  <1> DEFINE m == ManagerOf(dev[t])
             e == Head(entries[m])
  <1>1. m \in Managers /\ entry[t] = NULL
    BY FrameFacts
    DEF TypeInv, TestFront, Managers, ProgressSteps, ManagerSteps, ManagerLocked, FrameOK,
        FrameOf, WithEntry, PostSteps, SignalSteps
  <1>2. entries[m] # <<>> /\ e \in Ops
    BY <1>1 DEF TestFront, TypeInv, TypeOK, ManagerTypeOK
  <1>3. entries' = [entries EXCEPT ![m] = Tail(@)] /\ entry' = [entry EXCEPT ![t] = e]
    BY DEF TestFront
  <1>4. PlacedOnce(o)
    BY DEF MostOnce
  <1>5. (Queued(o)' <=> (Queued(o) /\ o # e)) /\ Queued(e) /\ EntryOnce(o)'
    BY <1>1, <1>2, <1>3, <1>4, DequePop DEF TypeInv, TypeOK, PlacedOnce
  <1>6. /\ InHand(o)' <=> (InHand(o) \/ o = e)
        /\ HandOnce(o) /\ ~(InHand(o) /\ o = e) => HandOnce(o)'
    BY <1>1, <1>2, <1>3, HandTake DEF TypeInv, TypeOK
  <1> HIDE DEF m, e
  <1> QED
    BY <1>4, <1>5, <1>6, ReportsSame DEF PlacedOnce, AtMostOneOf, Somewhere

(* signal_comp reports the entry the thread holds.                         *)
LEMMA PlaceSignal ==
    ASSUME TypeInv, MostOnce, NEW t \in Threads, SignalEntry(t),
           UNCHANGED <<todo, entries>>
    PROVE  PlacesKept
  <1> SUFFICES ASSUME NEW o \in Ops PROVE PlacedOnce(o)' /\ (Somewhere(o)' <=> Somewhere(o))
    BY DEF PlacesKept, MostOnce
  <1> DEFINE e == entry[t]
             r == FinishedRequest(e, status[t])
  <1>1. e \in Ops /\ (IsRecv(e) => status[t] \in Ops)
    BY FrameFacts DEF TypeInv, SignalEntry, WithEntry, Finished, SignalSteps
  <1>2. e.comp \in Comps /\ r \in Completion
    BY <1>1, OpsAssumption DEF FinishedRequest, Completion
  <1>3. Key(r) = <<"operation", e>>
    BY <1>1, OpsAssumption DEF FinishedRequest, Key, OpTypes
  <1>4. entry' = [entry EXCEPT ![t] = NULL]
    BY DEF SignalEntry, Return
  <1>5. PlacedOnce(o) /\ InHand(e)
    BY DEF MostOnce, InHand
  <1>6. (InHand(o)' <=> (InHand(o) /\ o # e)) /\ HandOnce(o)'
    BY <1>4, <1>5, HandGive DEF TypeInv, TypeOK, PlacedOnce
  <1> DEFINE k == <<"operation", o>>
  <1>7. /\ Reported(k)' <=> (Reported(k) \/ Key(r) = k)
        /\ ~ReportedTwice(k) /\ ~(Reported(k) /\ Key(r) = k) => ~ReportedTwice(k)'
    BY <1>2, SignalReports DEF SignalEntry, TypeInv, TypeOK
  <1>8. Key(r) = k <=> o = e
    BY <1>3
  <1> HIDE DEF e, r
  <1> QED
    BY <1>5, <1>6, <1>7, <1>8, DequesSame DEF PlacedOnce, AtMostOneOf, Somewhere

(* The signal of a put that arrived, and poll_cq, report no operation.     *)
LEMMA PlaceOther ==
    ASSUME TypeInv, MostOnce, NEW t \in Threads,
           SignalPut(t) \/ \E c \in Comps : PollCq(t, c),
           UNCHANGED <<todo, entry, entries>>
    PROVE  PlacesKept
  <1> SUFFICES ASSUME NEW o \in Ops PROVE PlacedOnce(o)' /\ (Somewhere(o)' <=> Somewhere(o))
    BY DEF PlacesKept, MostOnce
  <1> DEFINE k == <<"operation", o>>
  <1>1. PlacedOnce(o)
    BY DEF MostOnce
  <1>2. (Reported(k)' <=> Reported(k)) /\ (~ReportedTwice(k) => ~ReportedTwice(k)')
    <2>1. CASE SignalPut(t)
      <3> DEFINE r == ArrivedRequest(status[t], buffer[t])
      <3>1. status[t] \in Ops /\ buffer[t] \in Ops /\ dev[t] \in Devices
        BY <2>1, FrameFacts DEF TypeInv, SignalPut, ProgressSteps, PutSteps
      <3>2. r \in Completion /\ PutComp[dev[t]] \in Comps
        BY <3>1, OpsAssumption, ProcsAssumption DEF ArrivedRequest, Completion
      <3>3. Key(r) # k
        BY DEF ArrivedRequest, Key
      <3> HIDE DEF r
      <3> QED  BY <2>1, <3>2, <3>3, SignalReports DEF r, SignalPut, TypeInv, TypeOK
    <2>2. ASSUME NEW c \in Comps, PollCq(t, c)
          PROVE  (Reported(k)' <=> Reported(k)) /\ (~ReportedTwice(k) => ~ReportedTwice(k)')
      BY <2>2, PollReports DEF PollCq, TypeInv, TypeOK
    <2> QED  BY <2>1, <2>2
  <1> QED
    BY <1>1, <1>2, DequesSame, HandsSame DEF PlacedOnce, AtMostOneOf, Somewhere

(* Every step keeps every operation in one place.                          *)
LEMMA PlaceNext ==
    ASSUME TypeInv, MostOnce, Next
    PROVE  PlacesKept
  <1>1. ASSUME UNCHANGED <<todo, entry, entries, cq, polled>> PROVE PlacesKept
    BY <1>1, PlaceSame DEF PlacesKept, MostOnce
  <1>2. ASSUME NEW t \in Threads, CallStep(t) PROVE PlacesKept
    BY <1>2, PlaceIssue DEF CallStep
  <1>3. ASSUME NEW t \in Threads, FetchAdd(t) \/ Post(t) PROVE PlacesKept
    BY <1>1, <1>3 DEF FetchAdd, Post, managerVars, signalVars
  <1>4. ASSUME NEW t \in Threads, NEW d \in Devices, ReadPutReq(t, d) PROVE PlacesKept
    BY <1>1, <1>4 DEF ReadPutReq, managerVars, signalVars
  <1>5. ASSUME NEW t \in Threads, PutStep(t) PROVE PlacesKept
    <2>1. CASE SignalPut(t)
      BY <2>1, PlaceOther DEF SignalPut, managerVars
    <2>2. CASE ~SignalPut(t)
      BY <1>1, <1>5, <2>2
      DEF PutStep, TryLockPut, TestPut, CopyPut, PostPutRecv, UnlockPut, managerVars, signalVars
    <2> QED  BY <2>1, <2>2
  <1>6. ASSUME NEW t \in Threads, ManagerStep(t), UNCHANGED <<signalVars, todo>>
        PROVE  PlacesKept
    <2>1. CASE AddEntryPush(t) \/ PushBack(t)
      BY <1>6, <2>1, PlacePush DEF signalVars
    <2>2. CASE TestFront(t)
      BY <1>6, <2>2, PlacePop DEF signalVars
    <2>3. CASE ReadEmpty(t) \/ TryLockManager(t) \/ FoundEmpty(t)
      <3>1. entry[t] = NULL
        BY <2>3
        DEF TypeInv, FrameOK, FrameOf, ReadEmpty, TryLockManager, FoundEmpty, WithEntry,
            PostSteps, SignalSteps
      <3>2. entry' = entry
        BY <2>3, <3>1, ReturnEmpty
        DEF ReadEmpty, TryLockManager, FoundEmpty, TypeInv, TypeOK
      <3> QED
        BY <1>1, <1>6, <2>3, <3>2
        DEF ReadEmpty, TryLockManager, FoundEmpty, managerVars, signalVars
    <2>4. CASE AddEntryLock(t) \/ UnlockManager(t)
      BY <1>1, <1>6, <2>4 DEF AddEntryLock, UnlockManager, signalVars
    <2> QED  BY <1>6, <2>1, <2>2, <2>3, <2>4 DEF ManagerStep
  <1>7. ASSUME NEW t \in Threads, SignalStep(t), UNCHANGED <<managerVars, todo>>
        PROVE  PlacesKept
    <2>1. CASE FetchSub(t)
      BY <1>1, <1>7, <2>1 DEF FetchSub, managerVars
    <2>2. CASE SignalEntry(t)
      BY <1>7, <2>2, PlaceSignal DEF managerVars
    <2>3. CASE \E c \in Comps : PollCq(t, c)
      BY <1>7, <2>3, PlaceOther DEF PollCq, frameVars, managerVars
    <2> QED  BY <1>7, <2>1, <2>2, <2>3 DEF SignalStep
  <1>8. ASSUME UNCHANGED <<frameVars, signalVars, managerVars, todo>> PROVE PlacesKept
    BY <1>1, <1>8 DEF frameVars, signalVars, managerVars
  <1> QED
    BY <1>2, <1>3, <1>4, <1>5, <1>6, <1>7, <1>8 DEF Next

(* At first an operation is with the client or nowhere.                    *)
LEMMA PlaceInit == Start => MostOnce /\ \A o \in Ops : Somewhere(o) <=> o \in todo
  <1> SUFFICES ASSUME Start, NEW o \in Ops
               PROVE  PlacedOnce(o) /\ (Somewhere(o) <=> o \in todo)
    BY DEF MostOnce
  <1>1. /\ \A t \in Threads : entry[t] = NULL
        /\ \A m \in Managers : entries[m] = <<>>
        /\ \A c \in Comps : cq[c] = <<>> /\ polled[c] = {}
    BY DEF Start, FramesInit, ManagerInit, SignalInit
  <1>2. o # NULL
    BY OpsAssumption
  <1>3. ~InHand(o) /\ HandOnce(o)
    BY <1>1, <1>2 DEF InHand, HandOnce
  <1>4. ~Queued(o) /\ EntryOnce(o)
    BY <1>1 DEF Queued, EntryOnce
  <1>5. ASSUME NEW k PROVE ~Reported(k) /\ ~ReportedTwice(k)
    BY <1>1 DEF Reported, ReportedTwice
  <1> QED  BY <1>1, <1>3, <1>4, <1>5 DEF PlacedOnce, AtMostOneOf, Somewhere

-----------------------------------------------------------------------------
(* How far MPI has come with an operation.                                 *)

(* A thread at a step that needs an entry has one.                         *)
LEMMA StageEntry ==
    ASSUME TypeInv, NEW t \in Threads,
           pc[t] \in Fresh \cup Live \cup Finished \cup {"fetch_add", "fetch_sub"}
    PROVE  entry[t] \in Ops
  BY FrameFacts DEF TypeInv, Fresh, Live, Finished, WithEntry, PostSteps, SignalSteps

(* A step that starts and frees no request, and leaves todo alone.         *)
LEMMA StageQuiet ==
    ASSUME TypeInv, StageOK, todo' \subseteq todo, UNCHANGED entries,
           \A o \in Ops : mpi_req'[o] = mpi_req[o] \/
                          (mpi_req[o] = "active" /\ mpi_req'[o] = "done"),
           NEW t \in Threads, StageOf(t)',
           \A u \in Threads : u # t => pc'[u] = pc[u] /\ entry'[u] = entry[u]
    PROVE  StageOK'
  <1>1. \A o \in todo' : o \in Ops /\ mpi_req'[o] = "none"
    BY DEF StageOK, TypeInv, TypeOK
  <1>2. ASSUME NEW u \in Threads, u # t PROVE StageOf(u)'
    BY <1>2, StageEntry DEF StageOK, StageOf
  <1>3. ASSUME NEW m \in Managers, NEW i \in DOMAIN entries[m]
        PROVE  mpi_req'[entries[m][i]] \in {"active", "done"}
    <2>1. entries[m][i] \in Ops
      BY DEF TypeInv, TypeOK, ManagerTypeOK
    <2> QED  BY <2>1 DEF StageOK
  <1> QED  BY <1>1, <1>2, <1>3 DEF StageOK

(* isend and irecv start the request of the operation in hand, which is    *)
(* nowhere else.                                                           *)
LEMMA StagePost ==
    ASSUME TypeInv, MostOnce, StageOK, NEW t \in Threads, Post(t)
    PROVE  StageOK'
  <1> DEFINE e == entry[t]
  <1>1. e \in Ops /\ pc[t] = "post"
    BY StageEntry DEF Post, Fresh
  <1>2. PlacedOnce(e) /\ InHand(e)
    BY <1>1 DEF MostOnce, InHand
  <1>3. /\ mpi_req'[e] = "active" /\ \A o \in Ops : o # e => mpi_req'[o] = mpi_req[o]
        /\ entry' = entry /\ entries' = entries /\ todo' = todo
    BY <1>1 DEF Post, StartRequest, TypeInv, TypeOK, MpiTypeOK, managerVars
  <1>4. pc'[t] = "add_lock" /\ \A u \in Threads : u # t => pc'[u] = pc[u]
    BY DEF Post, Goto, TypeInv, TypeOK, FramesTypeOK
  <1>5. \A o \in todo' : mpi_req'[o] = "none"
    BY <1>2, <1>3 DEF StageOK, PlacedOnce, AtMostOneOf, TypeInv, TypeOK
  <1>6. StageOf(t)'
    BY <1>3, <1>4 DEF StageOf, Fresh, Live, Finished, SignalSteps
  <1>7. ASSUME NEW u \in Threads, u # t PROVE StageOf(u)'
    <2>1. entry[u] # e
      BY <1>2, <1>7 DEF PlacedOnce, HandOnce
    <2> HIDE DEF e
    <2> QED  BY <1>3, <1>4, <1>7, <2>1, StageEntry DEF StageOK, StageOf
  <1>8. ASSUME NEW m \in Managers, NEW i \in DOMAIN entries'[m]
        PROVE  mpi_req'[entries'[m][i]] \in {"active", "done"}
    <2>1. entries[m][i] \in Ops /\ entries[m][i] # e
      BY <1>2, <1>3 DEF TypeInv, TypeOK, ManagerTypeOK, PlacedOnce, AtMostOneOf, Queued
    <2> HIDE DEF e
    <2> QED  BY <1>3, <2>1 DEF StageOK
  <1> QED  BY <1>5, <1>6, <1>7, <1>8 DEF StageOK

(* MPI_Test frees the request of the entry that was just popped, or leaves *)
(* it live.                                                                *)
LEMMA StagePop ==
    ASSUME TypeInv, MostOnce, StageOK, NEW t \in Threads, TestFront(t), UNCHANGED todo
    PROVE  StageOK'
  <1> DEFINE m == ManagerOf(dev[t])
  <1>1. m \in Managers
    BY FrameFacts
    DEF TypeInv, TestFront, Managers, ProgressSteps, ManagerSteps, ManagerLocked
  <1>2. PICK e \in Ops : /\ e = Head(entries[m]) /\ entries[m] # <<>>
                         /\ 1 \in DOMAIN entries[m] /\ e = entries[m][1]
    BY <1>1 DEF TestFront, TypeInv, TypeOK, ManagerTypeOK
  <1>3. entries' = [entries EXCEPT ![m] = Tail(@)] /\ entry'[t] = e
    BY <1>2 DEF TestFront, TypeInv, TypeOK, FramesTypeOK
  <1>4. PlacedOnce(e)
    BY DEF MostOnce
  <1>5. ~Queued(e)' /\ Queued(e)
    BY <1>1, <1>2, <1>3, <1>4, DequePop DEF TypeInv, TypeOK, PlacedOnce
  <1>6. mpi_req[e] \in {"active", "done"}
    BY <1>1, <1>2 DEF StageOK
  <1>7. /\ \A o \in Ops : o # e => mpi_req'[o] = mpi_req[o]
        /\ \/ pc'[t] = "mgr_unlock" /\ mpi_req'[e] = "freed"
           \/ pc'[t] = "mgr_push_back" /\ mpi_req'[e] = mpi_req[e]
    BY <1>2 DEF TestFront, FreeRequest, Goto, TypeInv, TypeOK, MpiTypeOK, FramesTypeOK, mpiVars
  <1>8. \A u \in Threads : u # t => pc'[u] = pc[u] /\ entry'[u] = entry[u]
    BY DEF TestFront, Goto, TypeInv, TypeOK, FramesTypeOK
  <1>9. \A o \in todo' : mpi_req'[o] = "none"
    BY <1>4, <1>5, <1>7 DEF StageOK, PlacedOnce, AtMostOneOf, TypeInv, TypeOK
  <1>10. StageOf(t)'
    BY <1>3, <1>6, <1>7 DEF StageOf, Fresh, Live, Finished, SignalSteps
  <1>11. ASSUME NEW u \in Threads, u # t PROVE StageOf(u)'
    <2>1. entry[u] # e
      BY <1>4, <1>5 DEF PlacedOnce, AtMostOneOf, InHand
    <2> QED  BY <1>7, <1>8, <1>11, <2>1, StageEntry DEF StageOK, StageOf
  <1>12. ASSUME NEW n \in Managers, NEW i \in DOMAIN entries'[n]
         PROVE  mpi_req'[entries'[n][i]] \in {"active", "done"}
    <2>1. entries'[n][i] # e
      BY <1>5 DEF Queued
    <2>2. \E j \in DOMAIN entries[n] : entries'[n][i] = entries[n][j]
      <3>1. CASE n = m
        <4>1. entries[m] \in Seq(Ops) /\ entries'[m] = Tail(entries[m])
          BY <1>1, <1>3 DEF TypeInv, TypeOK, ManagerTypeOK
        <4>2. i \in 1 .. Len(Tail(entries[m]))
          BY <1>2, <3>1, <4>1
        <4> QED  BY <1>2, <3>1, <4>1, <4>2, TailElements
      <3>2. CASE n # m
        BY <1>3, <3>2 DEF TypeInv, TypeOK, ManagerTypeOK
      <3> QED  BY <3>1, <3>2
    <2>3. entries'[n][i] \in Ops /\ mpi_req[entries'[n][i]] \in {"active", "done"}
      BY <2>2 DEF StageOK, TypeInv, TypeOK, ManagerTypeOK
    <2> QED  BY <1>7, <2>1, <2>3
  <1> QED  BY <1>9, <1>10, <1>11, <1>12 DEF StageOK

(* An entry that goes into a deque has a live request.                     *)
LEMMA StagePush ==
    ASSUME TypeInv, StageOK, NEW t \in Threads, AddEntryPush(t) \/ PushBack(t),
           UNCHANGED <<todo, mpi_req>>
    PROVE  StageOK'
  <1> DEFINE e == entry[t]
  <1>1. e \in Ops /\ mpi_req[e] \in {"active", "done"}
    BY StageEntry DEF AddEntryPush, PushBack, StageOK, StageOf, Live
  <1>2. ManagerOf(DeviceOf(e)) \in Managers
    BY <1>1, OpsAssumption DEF Managers, DeviceOf, Devices
  <1>3. pc[t] = "mgr_push_back" => ManagerOf(dev[t]) \in Managers
    BY FrameFacts DEF TypeInv, ProgressSteps, ManagerSteps, ManagerLocked, Managers
  <1>4. PICK m \in Managers : entries' = [entries EXCEPT ![m] = Append(@, e)]
    BY <1>2, <1>3 DEF AddEntryPush, PushBack
  <1>5. pc'[t] = "idle" /\ \A u \in Threads : u # t => pc'[u] = pc[u] /\ entry'[u] = entry[u]
    BY DEF AddEntryPush, PushBack, Return, Goto, TypeInv, TypeOK, FramesTypeOK
  <1>6. \A u \in Threads : StageOf(u)'
    BY <1>5 DEF StageOK, StageOf, Fresh, Live, Finished, SignalSteps
  <1>7. ASSUME NEW n \in Managers, NEW i \in DOMAIN entries'[n]
        PROVE  mpi_req'[entries'[n][i]] \in {"active", "done"}
    <2>1. CASE n = m
      <3>1. entries[m] \in Seq(Ops) /\ entries'[m] = Append(entries[m], e)
        BY <1>4 DEF TypeInv, TypeOK, ManagerTypeOK
      <3>2. DOMAIN entries'[m] = 1 .. Len(entries[m]) + 1 /\ DOMAIN entries[m] = 1 .. Len(entries[m])
        BY <1>1, <3>1
      <3>3. i \in DOMAIN entries[m] \/ i = Len(entries[m]) + 1
        BY <2>1, <3>1, <3>2
      <3> QED  BY <1>1, <2>1, <3>1, <3>2, <3>3, AppendElements DEF StageOK
    <2>2. CASE n # m
      BY <1>4, <2>2 DEF TypeInv, TypeOK, ManagerTypeOK, StageOK
    <2> QED  BY <2>1, <2>2
  <1> QED  BY <1>6, <1>7 DEF StageOK

(* Every step keeps an operation's request in step with its place.         *)
LEMMA StageNext ==
    ASSUME TypeInv, MostOnce, StageOK, Next
    PROVE  StageOK'
  <1> DEFINE Quiet(t) == /\ todo' \subseteq todo /\ entries' = entries /\ mpi_req' = mpi_req
                         /\ \A u \in Threads : u # t => pc'[u] = pc[u] /\ entry'[u] = entry[u]
                         /\ StageOf(t)'
  <1>1. ASSUME NEW t \in Threads, Quiet(t) PROVE StageOK'
    BY <1>1, StageQuiet
  <1> USE DEF Goto, managerVars, mpiVars
  <1>2. ASSUME NEW t \in Threads, NEW o \in Ops, SendOrPut(t, o) \/ Recv(t, o)
        PROVE  StageOK'
    <2>1. mpi_req[o] = "none"
      BY <1>2 DEF SendOrPut, Recv, MayIssue, StageOK
    <2>2. /\ pc'[t] \in Fresh /\ (pc'[t] = "fetch_add" => Counted(o)) /\ entry'[t] = o
          /\ mpi_req' = mpi_req
      BY <1>2 DEF SendOrPut, Recv, Fresh, TypeInv, TypeOK, FramesTypeOK
    <2>3. StageOf(t)'
      BY <2>1, <2>2 DEF StageOf, Fresh, Live, Finished, SignalSteps
    <2>4. Quiet(t)
      BY <1>2, <2>3 DEF SendOrPut, Recv, TypeInv, TypeOK, FramesTypeOK
    <2> QED  BY <1>1, <2>4
  <1>3. ASSUME NEW t \in Threads, FetchAdd(t) PROVE StageOK'
    <2>1. StageOf(t)'
      BY <1>3
      DEF FetchAdd, StageOK, StageOf, Fresh, Live, Finished, SignalSteps, TypeInv, TypeOK,
          FramesTypeOK
    <2> QED  BY <1>1, <1>3, <2>1 DEF FetchAdd, TypeInv, TypeOK, FramesTypeOK
  <1>4. ASSUME NEW t \in Threads, NEW d \in Devices, ReadPutReq(t, d) PROVE StageOK'
    <2>1. StageOf(t)'
      BY <1>4
      DEF ReadPutReq, StageOf, Fresh, Live, Finished, SignalSteps, TypeInv, TypeOK, FramesTypeOK
    <2> QED  BY <1>1, <1>4, <2>1 DEF ReadPutReq, TypeInv, TypeOK, FramesTypeOK
  <1>5. ASSUME NEW t \in Threads, PutStep(t) PROVE StageOK'
    <2>1. pc'[t] \in PutSteps \cup {"mgr_empty"}
      BY <1>5
      DEF PutStep, TryLockPut, TestPut, CopyPut, PostPutRecv, UnlockPut, SignalPut,
          PutSteps, PutLocked, TypeInv, TypeOK, FramesTypeOK
    <2>2. StageOf(t)'
      BY <2>1 DEF StageOf, Fresh, Live, Finished, SignalSteps, PutSteps, PutLocked
    <2> QED
      BY <1>1, <1>5, <2>2
      DEF PutStep, TryLockPut, TestPut, CopyPut, PostPutRecv, UnlockPut, SignalPut,
          TypeInv, TypeOK, FramesTypeOK
  <1>6. ASSUME NEW t \in Threads, ManagerStep(t), UNCHANGED todo PROVE StageOK'
    <2>1. CASE AddEntryPush(t) \/ PushBack(t)
      BY <1>6, <2>1, StagePush
      DEF ManagerStep, AddEntryPush, PushBack, FoundEmpty, TestFront
    <2>2. CASE TestFront(t)
      BY <1>6, <2>2, StagePop
    <2>3. CASE (AddEntryLock(t) \/ UnlockManager(t)) /\ mpi_req' = mpi_req
      <3>1. StageOf(t)'
        BY <2>3
        DEF AddEntryLock, UnlockManager, StageOK, StageOf, Fresh, Live, Finished, SignalSteps,
            TypeInv, TypeOK, FramesTypeOK
      <3> QED
        BY <1>1, <1>6, <2>3, <3>1
        DEF AddEntryLock, UnlockManager, TypeInv, TypeOK, FramesTypeOK
    <2>4. CASE (ReadEmpty(t) \/ TryLockManager(t) \/ FoundEmpty(t)) /\ mpi_req' = mpi_req
      <3>1. pc'[t] \in {"idle", "mgr_try", "mgr_test"}
        BY <2>4 DEF ReadEmpty, TryLockManager, FoundEmpty, Return, TypeInv, TypeOK, FramesTypeOK
      <3>2. StageOf(t)'
        BY <3>1 DEF StageOf, Fresh, Live, Finished, SignalSteps
      <3> QED
        BY <1>1, <1>6, <2>4, <3>2
        DEF ReadEmpty, TryLockManager, FoundEmpty, Return, TypeInv, TypeOK, FramesTypeOK
    <2> QED  BY <1>6, <2>1, <2>2, <2>3, <2>4 DEF ManagerStep, FoundEmpty
  <1>7. ASSUME NEW t \in Threads, SignalStep(t), UNCHANGED <<mpiVars, managerVars, todo>>
        PROVE  StageOK'
    <2>1. StageOf(t)'
      BY <1>7
      DEF SignalStep, FetchSub, SignalEntry, PollCq, Return, frameVars, StageOK, StageOf,
          Fresh, Live, Finished, SignalSteps, TypeInv, TypeOK, FramesTypeOK
    <2> QED
      BY <1>1, <1>7, <2>1
      DEF SignalStep, FetchSub, SignalEntry, PollCq, Return, frameVars, TypeInv, TypeOK,
          FramesTypeOK
  <1>8. ASSUME MpiStep, UNCHANGED <<frameVars, managerVars, todo>> PROVE StageOK'
    <2>1. \A o \in Ops : mpi_req'[o] = mpi_req[o] \/
                         (mpi_req[o] = "active" /\ mpi_req'[o] = "done")
      BY <1>8 DEF MpiStep, MpiMatch, MpiPutArrive, MpiSendComplete, TypeInv, TypeOK, MpiTypeOK
    <2>2. \A u \in Threads : StageOf(u)'
      BY <1>8, <2>1, StageEntry DEF StageOK, StageOf, frameVars
    <2>3. \A o \in todo' : mpi_req'[o] = "none"
      BY <1>8, <2>1 DEF StageOK, TypeInv, TypeOK
    <2>4. ASSUME NEW m \in Managers, NEW i \in DOMAIN entries[m]
          PROVE  mpi_req'[entries[m][i]] \in {"active", "done"}
      <3>1. entries[m][i] \in Ops
        BY DEF TypeInv, TypeOK, ManagerTypeOK
      <3> QED  BY <2>1, <3>1 DEF StageOK
    <2> QED  BY <1>8, <2>2, <2>3, <2>4 DEF StageOK
  <1> QED
    BY <1>2, <1>3, <1>4, <1>5, <1>6, <1>7, <1>8, StagePost DEF Next, CallStep

(* The inductive invariant: no operation is in two places, and MPI is as   *)
(* far with it as the one it is in says.                                   *)
PlaceInv == LockInv /\ MostOnce /\ StageOK

(* It holds before the first call.                                         *)
LEMMA PlaceInvInit == Start => PlaceInv
  <1>1. Start => StageOK
    BY DEF Start, MpiInit, FramesInit, ManagerInit, StageOK, StageOf, Fresh, Live, Finished,
           SignalSteps
  <1> QED  BY <1>1, LockInit, PlaceInit DEF PlaceInv

(* Every step keeps it, and loses no operation.                            *)
LEMMA PlaceStep ==
    ASSUME PlaceInv, [Next]_vars
    PROVE  PlaceInv' /\ PlacesKept
  <1> USE DEF PlaceInv
  <1>1. CASE UNCHANGED vars
    <2>1. PlacesKept
      BY <1>1, PlaceSame DEF PlacesKept, MostOnce, vars, frameVars, managerVars, signalVars
    <2>2. StageOK'
      BY <1>1 DEF vars, frameVars, managerVars, mpiVars, StageOK, StageOf
    <2> QED  BY <2>1, <2>2, LockStep DEF PlacesKept
  <1>2. CASE Next
    BY <1>2, LockStep, PlaceNext, StageNext DEF LockInv, PlacesKept
  <1> QED  BY <1>1, <1>2

(* The invariant holds in every behaviour, and every operation is in one   *)
(* of the places.                                                          *)
THEOREM PlaceCorrect == Spec => [](PlaceInv /\ \A o \in Ops : Somewhere(o))
  <1>1. Init => PlaceInv /\ \A o \in Ops : Somewhere(o)
    BY InitStarts, PlaceInvInit, PlaceInit DEF Init
  <1>2. /\ PlaceInv /\ (\A o \in Ops : Somewhere(o)) /\ [Next]_vars
        => PlaceInv' /\ (\A o \in Ops : Somewhere(o))'
    BY PlaceStep DEF PlacesKept
  <1> QED  BY <1>1, <1>2, PTL DEF Spec

(* No operation is lost between pop_front and push_back, none is in two    *)
(* threads' hands or twice in a deque, and none is reported twice, however *)
(* the calls of any number of threads interleave.                          *)
THEOREM OperationsOnce == Spec => []ExactlyOnce
  <1>1. PlaceInv /\ (\A o \in Ops : Somewhere(o)) => ExactlyOnce
    BY PlacedEach DEF PlaceInv
  <1> QED  BY <1>1, PlaceCorrect, PTL

-----------------------------------------------------------------------------
(* What MPI and the threads know of a message.                             *)

(* A step of MPI's or of a thread's keeps what is known of matches: MPI    *)
(* gives a message it has on the network to one receive that has none.     *)
LEMMA MatchedNext ==
    ASSUME TypeInv, StageOK, NothingUnsent, MatchedOK, Next
    PROVE  MatchedOK'
  <1> USE DEF TypeInv, TypeOK, MpiTypeOK
  <1>1. ASSUME NEW t \in Threads, Post(t) PROVE MatchedOK'
    <2>1. PICK e \in Ops : e = entry[t] /\ mpi_req[e] = "none"
      BY <1>1, StageEntry DEF Post, StageOK, StageOf, Fresh
    <2>2. /\ mpi_req' = [mpi_req EXCEPT ![e] = "active"] /\ matched' = matched
          /\ net' \subseteq net \cup {e}
      BY <1>1, <2>1 DEF Post, StartRequest
    <2>3. \A r \in Ops : matched[r] # NULL => matched[r] # e
      BY <2>1 DEF MatchedOK
    <2> QED  BY <2>1, <2>2, <2>3 DEF MatchedOK
  <1>2. ASSUME NEW t \in Threads, TestPut(t) \/ PostPutRecv(t) PROVE MatchedOK'
    BY <1>2 DEF TestPut, PostPutRecv, MatchedOK
  <1>3. ASSUME NEW e \in Ops, FreeRequest(e) PROVE MatchedOK'
    BY <1>3 DEF FreeRequest, MatchedOK
  <1>4. ASSUME NEW s \in Ops, NEW r \in Ops, MpiMatch(s, r) PROVE MatchedOK'
    <2>1. s \in net /\ Matches(s, r) /\ mpi_req[r] = "active" /\ mpi_req[s] # "none"
      BY <1>4 DEF MpiMatch, NothingUnsent
    <2>2. /\ net' = net \ {s} /\ matched' = [matched EXCEPT ![r] = s]
          /\ mpi_req' = [mpi_req EXCEPT ![r] = "done"]
      BY <1>4 DEF MpiMatch
    <2>3. s # NULL /\ \A q \in Ops : matched[q] # s
      BY <2>1, OpsAssumption DEF MatchedOK
    <2> QED  BY <2>1, <2>2, <2>3 DEF MatchedOK
  <1>5. ASSUME NEW s \in Ops, MpiPutArrive(s) PROVE MatchedOK'
    BY <1>5 DEF MpiPutArrive, MatchedOK
  <1>6. ASSUME NEW s \in Ops, MpiSendComplete(s) PROVE MatchedOK'
    BY <1>6 DEF MpiSendComplete, MatchedOK
  <1>7. CASE UNCHANGED mpiVars
    BY <1>7 DEF mpiVars, MatchedOK
  <1>8. ASSUME NEW t \in Threads, TestFront(t) PROVE MatchedOK'
    <2>1. Head(entries[ManagerOf(dev[t])]) \in Ops
      BY <1>8, FrameFacts
      DEF TestFront, ManagerTypeOK, Managers, ProgressSteps, ManagerSteps, ManagerLocked
    <2> QED  BY <1>3, <1>7, <1>8, <2>1 DEF TestFront
  <1> QED
    BY <1>1, <1>2, <1>4, <1>5, <1>6, <1>7, <1>8
    DEF Next, CallStep, SendOrPut, Recv, FetchAdd, ReadPutReq, PutStep, TryLockPut,
        CopyPut, UnlockPut, SignalPut, ManagerStep, FoundEmpty, MpiStep

(* A put that has completed a put receive was sent to that device.         *)
LEMMA RbufNext ==
    ASSUME TypeInv, RbufOK, Next
    PROVE  RbufOK'
  <1> USE DEF TypeInv, TypeOK, MpiTypeOK
  <1>1. ASSUME NEW t \in Threads, TestPut(t) \/ PostPutRecv(t) PROVE RbufOK'
    BY <1>1 DEF TestPut, PostPutRecv, RbufOK
  <1>2. ASSUME NEW s \in Ops, MpiPutArrive(s) PROVE RbufOK'
    BY <1>2 DEF MpiPutArrive, RbufOK, Target
  <1>3. CASE UNCHANGED <<put_req, put_rbuf>>
    BY <1>3 DEF RbufOK
  <1> QED
    BY <1>1, <1>2, <1>3
    DEF Next, CallStep, SendOrPut, Recv, FetchAdd, Post, StartRequest, ReadPutReq, PutStep,
        TryLockPut, CopyPut, UnlockPut, SignalPut, ManagerStep, FoundEmpty, TestFront,
        FreeRequest, MpiStep, MpiMatch, MpiSendComplete, mpiVars

(* The message a thread is about to copy stays in put_rbuf, and the one a  *)
(* finished receive got stays that.                                        *)
LEMMA MessageKept ==
    ASSUME LockInv, StageOK, Next, NEW t \in Threads
    PROVE  /\ pc[t] = "put_copy" => put_rbuf'[dev[t]] = put_rbuf[dev[t]]
           /\ pc[t] \in Finished => matched'[entry[t]] = matched[entry[t]]
  <1> USE DEF LockInv, TypeInv, TypeOK, MpiTypeOK
  <1>1. pc[t] = "put_copy" => dev[t] \in Devices /\ put_req[dev[t]] = "null"
    BY FrameFacts DEF NullExact, Reposting, ProgressSteps, PutSteps, PutLocked
  <1>2. pc[t] \in Finished => entry[t] \in Ops /\ mpi_req[entry[t]] = "freed"
    BY StageEntry DEF StageOK, StageOf
  <1>3. ASSUME NEW s \in Ops, MpiPutArrive(s)
        PROVE  /\ matched' = matched
               /\ pc[t] = "put_copy" => put_rbuf'[dev[t]] = put_rbuf[dev[t]]
    BY <1>1, <1>3 DEF MpiPutArrive
  <1>4. ASSUME NEW s \in Ops, NEW r \in Ops, MpiMatch(s, r)
        PROVE  /\ put_rbuf' = put_rbuf
               /\ pc[t] \in Finished => matched'[entry[t]] = matched[entry[t]]
    BY <1>2, <1>4 DEF MpiMatch
  <1>5. CASE UNCHANGED <<put_rbuf, matched>>
    BY <1>5
  <1> QED
    BY <1>3, <1>4, <1>5
    DEF Next, CallStep, SendOrPut, Recv, FetchAdd, Post, StartRequest, ReadPutReq, PutStep,
        TryLockPut, TestPut, CopyPut, PostPutRecv, UnlockPut, SignalPut, ManagerStep,
        FoundEmpty, TestFront, FreeRequest, MpiStep, MpiSendComplete, mpiVars

(* A thread whose frame a step leaves alone keeps its message.             *)
LEMMA StatusOther ==
    ASSUME LockInv, StageOK, Next, NEW t \in Threads, StatusOf(t),
           pc'[t] = pc[t], dev'[t] = dev[t], entry'[t] = entry[t],
           status'[t] = status[t], buffer'[t] = buffer[t]
    PROVE  StatusOf(t)'
  BY MessageKept DEF StatusOf

(* A step of a thread changes no other thread's locals.                    *)
LEMMA OneStatus ==
    ASSUME TypeOK, NEW t \in Threads, NEW u \in Threads, u # t,
           \/ CallStep(t) \/ FetchAdd(t) \/ Post(t)
           \/ \E d \in Devices : ReadPutReq(t, d)
           \/ PutStep(t) \/ ManagerStep(t) \/ SignalStep(t)
    PROVE  status'[u] = status[u] /\ buffer'[u] = buffer[u]
  <1> USE DEF TypeOK, FramesTypeOK, Return, frameVars
  <1>1. CASE CallStep(t) \/ FetchAdd(t) \/ Post(t) \/ \E d \in Devices : ReadPutReq(t, d)
    BY <1>1 DEF CallStep, SendOrPut, Recv, FetchAdd, Post, ReadPutReq
  <1>2. CASE PutStep(t)
    BY <1>2
    DEF PutStep, TryLockPut, TestPut, CopyPut, PostPutRecv, UnlockPut, SignalPut
  <1>3. CASE ManagerStep(t)
    BY <1>3
    DEF ManagerStep, AddEntryLock, AddEntryPush, ReadEmpty, TryLockManager, FoundEmpty,
        TestFront, PushBack, UnlockManager
  <1>4. CASE SignalStep(t)
    BY <1>4 DEF SignalStep, FetchSub, SignalEntry, PollCq
  <1> QED  BY <1>1, <1>2, <1>3, <1>4

(* Every step keeps the status of a thread that of the message it works    *)
(* on: from put_rbuf until the copy, of the copy from then on, and of the  *)
(* message MPI matched for a finished receive.                             *)
LEMMA StatusNext ==
    ASSUME LockInv, StageOK, RbufOK, StatusOK, Next
    PROVE  StatusOK'
  <1> USE DEF LockInv, TypeInv, TypeOK, FramesTypeOK, Goto
  <1>1. ASSUME NEW t \in Threads, StatusOf(t)',
               \/ CallStep(t) \/ FetchAdd(t) \/ Post(t)
               \/ \E d \in Devices : ReadPutReq(t, d)
               \/ PutStep(t) \/ ManagerStep(t) \/ SignalStep(t)
        PROVE  StatusOK'
    <2>1. ASSUME NEW u \in Threads, u # t PROVE StatusOf(u)'
      <3>1. /\ pc'[u] = pc[u] /\ dev'[u] = dev[u] /\ entry'[u] = entry[u]
            /\ status'[u] = status[u] /\ buffer'[u] = buffer[u]
        BY <1>1, <2>1, OneFrame, OneStatus
      <3> QED  BY <3>1, StatusOther DEF StatusOK
    <2> QED  BY <1>1, <2>1 DEF StatusOK
  <1>2. ASSUME NEW t \in Threads,
               pc'[t] \notin Finished, status'[t] = NULL, pc'[t] # "put_copy"
        PROVE  StatusOf(t)'
    BY <1>2 DEF StatusOf
  <1>3. \A t \in Threads : /\ pc[t] \notin WithStatus => status[t] = NULL
                           /\ StatusOf(t)
    BY DEF FrameOK, FrameOf, StatusOK
  <1>4. ASSUME NEW t \in Threads,
               CallStep(t) \/ FetchAdd(t) \/ Post(t) \/ \E d \in Devices : ReadPutReq(t, d)
        PROVE  StatusOf(t)'
    <2>1. pc[t] \notin WithStatus /\ pc'[t] \notin Finished \cup {"put_copy"} /\ status'[t] = status[t]
      BY <1>4
      DEF CallStep, SendOrPut, Recv, FetchAdd, Post, ReadPutReq, MayIssue, WithStatus, Finished,
          SignalSteps
    <2> QED  BY <1>2, <1>3, <2>1
  <1>5. ASSUME NEW t \in Threads, PutStep(t) PROVE StatusOf(t)'
    <2>1. dev[t] \in Devices
      BY <1>5, FrameFacts
      DEF PutStep, TryLockPut, TestPut, CopyPut, PostPutRecv, UnlockPut, SignalPut,
          ProgressSteps, PutSteps, PutLocked
    <2>2. CASE TryLockPut(t)
      <3>1. pc[t] \notin WithStatus /\ pc'[t] \notin Finished \cup {"put_copy"} /\ status'[t] = status[t]
        BY <2>2 DEF TryLockPut, WithStatus, Finished, SignalSteps
      <3> QED  BY <1>2, <1>3, <3>1
    <2>3. CASE TestPut(t) /\ put_req[dev[t]] = "done"
      <3>1. /\ pc'[t] = "put_copy" /\ dev'[t] = dev[t] /\ put_rbuf' = put_rbuf
            /\ status'[t] = put_rbuf[dev[t]]
        BY <2>3 DEF TestPut
      <3> QED  BY <2>1, <2>3, <3>1 DEF RbufOK, StatusOf, Finished, SignalSteps
    <2>4. CASE TestPut(t) /\ put_req[dev[t]] # "done"
      <3>1. pc[t] \notin WithStatus /\ pc'[t] \notin Finished \cup {"put_copy"} /\ status'[t] = status[t]
        BY <2>4 DEF TestPut, WithStatus, Finished, SignalSteps
      <3> QED  BY <1>2, <1>3, <3>1
    <2>5. CASE CopyPut(t)
      <3>1. /\ pc[t] = "put_copy" /\ pc'[t] = "put_repost" /\ dev'[t] = dev[t]
            /\ status'[t] = status[t] /\ buffer'[t] = put_rbuf[dev[t]]
        BY <2>5 DEF CopyPut
      <3> QED  BY <1>3, <3>1 DEF StatusOf, Finished, SignalSteps, PutSteps, PutLocked
    <2>6. CASE PostPutRecv(t) \/ UnlockPut(t)
      <3>1. /\ pc[t] \in {"put_repost", "put_unlock"}
            /\ pc'[t] \in {"put_unlock", "put_signal", "mgr_empty"}
            /\ dev'[t] = dev[t] /\ status'[t] = status[t] /\ buffer'[t] = buffer[t]
        BY <2>6 DEF PostPutRecv, UnlockPut
      <3> QED  BY <1>3, <3>1 DEF StatusOf, Finished, SignalSteps, PutSteps, PutLocked
    <2>7. CASE SignalPut(t)
      BY <1>2, <2>7 DEF SignalPut, Finished, SignalSteps
    <2> QED  BY <1>5, <2>2, <2>3, <2>4, <2>5, <2>6, <2>7 DEF PutStep
  <1>6. ASSUME NEW t \in Threads, ManagerStep(t) PROVE StatusOf(t)'
    <2>1. CASE AddEntryLock(t) \/ AddEntryPush(t) \/ ReadEmpty(t) \/ TryLockManager(t)
               \/ FoundEmpty(t) \/ PushBack(t)
      <3>1. pc[t] \notin WithStatus /\ pc'[t] \notin Finished \cup {"put_copy"}
        BY <2>1
        DEF AddEntryLock, AddEntryPush, ReadEmpty, TryLockManager, FoundEmpty, PushBack, Return,
            WithStatus, Finished, SignalSteps
      <3>2. status'[t] = status[t] \/ status'[t] = NULL
        BY <2>1
        DEF AddEntryLock, AddEntryPush, ReadEmpty, TryLockManager, FoundEmpty, PushBack, Return
      <3> QED  BY <1>2, <1>3, <3>1, <3>2
    <2>2. CASE TestFront(t)
      <3> DEFINE o == Head(entries[ManagerOf(dev[t])])
      <3>1. entry'[t] = o /\ matched' = matched
        BY <2>2 DEF TestFront, FreeRequest, mpiVars
      <3>2. CASE pc'[t] = "mgr_unlock"
        <4>1. status'[t] = matched[o]
          BY <2>2, <3>2 DEF TestFront
        <4> QED  BY <3>1, <3>2, <4>1 DEF StatusOf, PutSteps, PutLocked
      <3>3. CASE pc'[t] # "mgr_unlock"
        <4>1. pc[t] \notin WithStatus /\ pc'[t] = "mgr_push_back" /\ status'[t] = status[t]
          BY <2>2, <3>3 DEF TestFront, WithStatus, Finished, SignalSteps
        <4> QED  BY <1>2, <1>3, <4>1 DEF Finished, SignalSteps
      <3> QED  BY <3>2, <3>3
    <2>3. CASE UnlockManager(t) /\ UNCHANGED mpiVars
      <3>1. /\ pc[t] = "mgr_unlock" /\ pc'[t] \in SignalSteps
            /\ entry'[t] = entry[t] /\ status'[t] = status[t] /\ matched' = matched
        BY <2>3 DEF UnlockManager, SignalSteps, mpiVars
      <3> QED  BY <1>3, <3>1 DEF StatusOf, Finished, SignalSteps, PutSteps, PutLocked
    <2> QED  BY <1>6, <2>1, <2>2, <2>3 DEF ManagerStep
  <1>7. ASSUME NEW t \in Threads, SignalStep(t), UNCHANGED mpiVars PROVE StatusOf(t)'
    <2>1. CASE FetchSub(t)
      <3>1. /\ pc[t] = "fetch_sub" /\ pc'[t] = "signal"
            /\ entry'[t] = entry[t] /\ status'[t] = status[t] /\ matched' = matched
        BY <1>7, <2>1 DEF FetchSub, mpiVars
      <3> QED  BY <1>3, <3>1 DEF StatusOf, Finished, SignalSteps, PutSteps, PutLocked
    <2>2. CASE SignalEntry(t)
      BY <1>2, <2>2 DEF SignalEntry, Return, Finished, SignalSteps
    <2>3. CASE \E c \in Comps : PollCq(t, c)
      BY <1>3, <2>3, StatusOther DEF PollCq, frameVars
    <2> QED  BY <1>7, <2>1, <2>2, <2>3 DEF SignalStep
  <1>8. ASSUME UNCHANGED frameVars PROVE StatusOK'
    BY <1>8, StatusOther DEF StatusOK, frameVars
  <1> QED
    BY <1>1, <1>4, <1>5, <1>6, <1>7, <1>8 DEF Next

(* The request a thread signals for a finished operation is true.          *)
LEMMA FinishedGood ==
    ASSUME TypeInv, MatchedOK, StatusOK, NEW t \in Threads, pc[t] = "signal"
    PROVE  /\ entry[t] \in Ops /\ entry[t].comp \in Comps
           /\ FinishedRequest(entry[t], status[t]) \in Completion
           /\ GoodReport(entry[t].comp, FinishedRequest(entry[t], status[t]))
  <1> DEFINE e == entry[t]
             r == FinishedRequest(e, status[t])
  <1>1. e \in Ops /\ (IsRecv(e) => status[t] \in Ops)
    BY FrameFacts DEF TypeInv, WithEntry, Finished, SignalSteps
  <1>2. e.comp \in Comps /\ r \in Completion
    BY <1>1, OpsAssumption DEF FinishedRequest, Completion
  <1>3. e.op \in OpTypes /\ r.op = e.op /\ r.user_context = e
    BY <1>1, OpsAssumption DEF FinishedRequest
  <1>4. CASE IsRecv(e)
    <2>1. status[t] = matched[e] /\ Matches(status[t], e)
      BY <1>1, <1>4, OpsAssumption DEF StatusOK, StatusOf, Finished, SignalSteps, MatchedOK
    <2>2. r.buffer = status[t] /\ r.rank = status[t].proc /\ r.length = status[t].length
      BY <1>4 DEF FinishedRequest
    <2> HIDE DEF e, r
    <2> QED  BY <1>1, <1>2, <1>3, <1>4, <2>1, <2>2 DEF e, r, GoodReport, TrueReport, IsRecv
  <1>5. CASE ~IsRecv(e)
    <2> HIDE DEF e, r
    <2> QED  BY <1>1, <1>2, <1>3, <1>5 DEF e, r, GoodReport, TrueReport, IsRecv, OpTypes
  <1> QED  BY <1>4, <1>5

(* So is the one for a put that arrived.                                   *)
LEMMA ArrivedGood ==
    ASSUME TypeInv, StatusOK, NEW t \in Threads, pc[t] = "put_signal"
    PROVE  /\ status[t] \in Ops /\ buffer[t] = status[t] /\ IsPut(status[t])
           /\ Target(status[t]) = dev[t] /\ PutComp[dev[t]] \in Comps
           /\ ArrivedRequest(status[t], buffer[t]) \in Completion
           /\ GoodReport(PutComp[dev[t]], ArrivedRequest(status[t], buffer[t]))
  <1>1. status[t] \in Ops /\ dev[t] \in Devices /\ status[t] # NULL
    BY FrameFacts, OpsAssumption DEF TypeInv, ProgressSteps, PutSteps
  <1>2. buffer[t] = status[t] /\ IsPut(status[t]) /\ Target(status[t]) = dev[t]
    BY <1>1 DEF StatusOK, StatusOf, PutSteps
  <1>3. PutComp[dev[t]] \in Comps /\ ArrivedRequest(status[t], buffer[t]) \in Completion
    BY <1>1, <1>2, OpsAssumption, ProcsAssumption DEF ArrivedRequest, Completion
  <1>4. GoodReport(PutComp[dev[t]], ArrivedRequest(status[t], buffer[t]))
    BY <1>1, <1>2 DEF GoodReport, TrueReport, ArrivedRequest, Target
  <1> QED  BY <1>1, <1>2, <1>3, <1>4

(* A report that was true stays true: the receive it is about has its      *)
(* message for good.                                                       *)
LEMMA GoodStays ==
    ASSUME TypeInv, MatchedOK, Next, NEW c \in Comps, NEW r \in Completion, GoodReport(c, r)
    PROVE  GoodReport(c, r)'
  <1>1. ASSUME r.op = "RECV" PROVE r.buffer = matched'[r.user_context]
    <2> DEFINE o == r.user_context
    <2>1. o \in Ops /\ matched[o] = r.buffer /\ r.buffer \in Ops
      BY <1>1 DEF GoodReport, Completion
    <2>2. mpi_req[o] \notin {"none", "active"}
      BY <2>1, OpsAssumption DEF MatchedOK
    <2>3. ASSUME NEW s \in Ops, NEW q \in Ops, MpiMatch(s, q) PROVE matched'[o] = matched[o]
      BY <2>1, <2>2, <2>3 DEF MpiMatch, TypeInv, TypeOK, MpiTypeOK
    <2>4. CASE UNCHANGED matched
      BY <2>1, <2>4
    <2> QED
      BY <2>1, <2>3, <2>4
      DEF Next, CallStep, SendOrPut, Recv, FetchAdd, Post, StartRequest, ReadPutReq, PutStep,
          TryLockPut, TestPut, CopyPut, PostPutRecv, UnlockPut, SignalPut, ManagerStep,
          FoundEmpty, TestFront, FreeRequest, MpiStep, MpiPutArrive, MpiSendComplete, mpiVars
  <1> QED  BY <1>1 DEF GoodReport, TrueReport

(* The reports of a completion object, taken or not.                       *)
ReportsAt(c) == {cq[c][i] : i \in DOMAIN cq[c]} \cup polled[c]

(* What a signal adds to them; a poll adds nothing.                        *)
LEMMA ReportsAdded ==
    ASSUME SignalTypeOK, NEW e \in Comps, NEW x \in ReportsAt(e)'
    PROVE  /\ \A c \in Comps, r \in Completion :
                 SignalComp(c, r) => x \in ReportsAt(e) \/ (e = c /\ x = r)
           /\ (\E c \in Comps : Poll(c)) => x \in ReportsAt(e)
           /\ UNCHANGED <<cq, polled>> => x \in ReportsAt(e)
  <1>1. ASSUME NEW c \in Comps, NEW r \in Completion, SignalComp(c, r)
        PROVE  x \in ReportsAt(e) \/ (e = c /\ x = r)
    <2>1. CASE c \in Handlers
      BY <1>1, <2>1 DEF SignalComp, HandlerSignal, SignalTypeOK, ReportsAt
    <2>2. CASE c \notin Handlers
      <3>1. CqSignal(c, r)
        BY <1>1, <2>2 DEF SignalComp
      <3>2. CASE x \in polled'[e]
        BY <3>1, <3>2, CqElements DEF ReportsAt
      <3>3. ASSUME NEW i \in DOMAIN cq'[e], x = cq'[e][i]
            PROVE  x \in ReportsAt(e) \/ (e = c /\ x = r)
        BY <3>1, <3>3, CqElements DEF ReportsAt
      <3> QED  BY <3>2, <3>3 DEF ReportsAt
    <2> QED  BY <2>1, <2>2
  <1>2. ASSUME NEW c \in Comps, Poll(c) PROVE x \in ReportsAt(e)
    <2>1. CASE e = c /\ x \in polled'[e]
      BY <1>2, <2>1, PollElements DEF ReportsAt
    <2>2. ASSUME e = c, NEW i \in DOMAIN cq'[e], x = cq'[e][i] PROVE x \in ReportsAt(e)
      BY <1>2, <2>2, PollElements DEF ReportsAt
    <2>3. CASE e # c
      BY <1>2, <2>3, PollElements DEF ReportsAt
    <2> QED  BY <2>1, <2>2, <2>3 DEF ReportsAt
  <1>3. ASSUME UNCHANGED <<cq, polled>> PROVE x \in ReportsAt(e)
    BY <1>3 DEF ReportsAt
  <1> QED  BY <1>1, <1>2, <1>3

(* Reports are true as long as every one that is added is.                 *)
LEMMA ReportsKept ==
    ASSUME TypeInv, MatchedOK, ReportsGood, Next,
           \A e \in Comps : \A x \in ReportsAt(e)' :
              x \in ReportsAt(e) \/ (x \in Completion /\ GoodReport(e, x))
    PROVE  ReportsGood'
  <1>1. ASSUME NEW e \in Comps, NEW x \in ReportsAt(e)' PROVE GoodReport(e, x)'
    <2>1. CASE x \in ReportsAt(e)
      <3>1. x \in Completion
        BY <2>1 DEF ReportsAt, TypeInv, TypeOK, SignalTypeOK
      <3>2. GoodReport(e, x)
        BY <2>1 DEF ReportsAt, ReportsGood
      <3> QED  BY <3>1, <3>2, GoodStays
    <2>2. CASE x \notin ReportsAt(e)
      BY <1>1, <2>2, GoodStays
    <2> QED  BY <2>1, <2>2
  <1>2. ASSUME NEW e \in Comps, NEW i \in DOMAIN cq'[e] PROVE GoodReport(e, cq[e][i])'
    <2>1. PICK x : x = cq'[e][i]
      OBVIOUS
    <2>2. x \in ReportsAt(e)'
      BY <2>1 DEF ReportsAt
    <2>3. GoodReport(e, x)'
      BY <1>1, <2>2
    <2> QED  BY <2>1, <2>3 DEF GoodReport, TrueReport
  <1>3. ASSUME NEW e \in Comps, NEW x \in polled'[e] PROVE GoodReport(e, x)'
    BY <1>1 DEF ReportsAt
  <1> QED  BY <1>2, <1>3 DEF ReportsGood

(* Every step keeps the reports true.                                      *)
LEMMA ReportsNext ==
    ASSUME TypeInv, MatchedOK, StatusOK, ReportsGood, Next
    PROVE  ReportsGood'
  <1> USE DEF TypeInv, TypeOK
  <1>1. ASSUME UNCHANGED <<cq, polled>> PROVE ReportsGood'
    BY <1>1, ReportsAdded, ReportsKept
  <1>2. ASSUME NEW t \in Threads, SignalPut(t) PROVE ReportsGood'
    <2>1. PICK c \in Comps, r \in Completion : SignalComp(c, r) /\ GoodReport(c, r)
      BY <1>2, ArrivedGood DEF SignalPut
    <2> QED  BY <2>1, ReportsAdded, ReportsKept
  <1>3. ASSUME NEW t \in Threads, SignalEntry(t) PROVE ReportsGood'
    <2>1. PICK c \in Comps, r \in Completion : SignalComp(c, r) /\ GoodReport(c, r)
      BY <1>3, FinishedGood DEF SignalEntry
    <2> QED  BY <2>1, ReportsAdded, ReportsKept
  <1>4. ASSUME NEW t \in Threads, NEW c \in Comps, PollCq(t, c) PROVE ReportsGood'
    BY <1>4, ReportsAdded, ReportsKept DEF PollCq
  <1> QED
    BY <1>1, <1>2, <1>3, <1>4
    DEF Next, CallStep, SendOrPut, Recv, FetchAdd, Post, ReadPutReq, PutStep, TryLockPut,
        TestPut, CopyPut, PostPutRecv, UnlockPut, SignalStep, FetchSub, signalVars

-----------------------------------------------------------------------------
(* Where the message of a put is.                                          *)

StatusOnce(s) == \A t1, t2 \in Threads : status[t1] = s /\ status[t2] = s => t1 = t2

PutPlaced(s) ==
    /\ mpi_req[s] = "none" =>
          s \notin net /\ ~InRbuf(s) /\ ~CopiedOut(s) /\ ~Reported(<<"arrival", s>>)
    /\ mpi_req[s] # "none" /\ IsPut(s) =>
          /\ ExactlyOneOf(s \in net, InRbuf(s), CopiedOut(s), Reported(<<"arrival", s>>))
          /\ StatusOnce(s) /\ ~ReportedTwice(<<"arrival", s>>)
    /\ mpi_req[s] = "none" => ~ReportedTwice(<<"arrival", s>>)

PutsPlaced == \A s \in Ops : PutPlaced(s)

(* The two statements about puts are one, message by message.              *)
LEMMA PutsEach == PutsPlaced => NothingUnsent /\ PutExactlyOnce
  BY DEF PutsPlaced, PutPlaced, NothingUnsent, PutExactlyOnce, StatusOnce

(* A thread has the status of a put only while it handles its arrival.     *)
LEMMA StatusOfPut ==
    ASSUME TypeInv, MatchedOK, StatusOK, NEW s \in Ops, NEW t \in Threads, status[t] = s,
           IsPut(s) \/ mpi_req[s] = "none"
    PROVE  pc[t] \in PutSteps
  <1>1. s # NULL
    BY OpsAssumption
  <1>2. pc[t] \in WithStatus
    BY <1>1 DEF TypeInv, FrameOK, FrameOf
  <1>3. CASE pc[t] \in Finished
    <2>1. entry[t] \in Ops /\ status[t] = matched[entry[t]]
      BY <1>3, StageEntry DEF StatusOK, StatusOf
    <2> QED  BY <1>1, <2>1 DEF MatchedOK, Matches, IsPut
  <1> QED  BY <1>2, <1>3 DEF WithStatus, PutSteps, PutLocked

(* A step that does not touch the message.                                 *)
LEMMA PutQuiet ==
    ASSUME NEW s, PutPlaced(s),
           mpi_req'[s] = "none" <=> mpi_req[s] = "none",
           s \in net' <=> s \in net, InRbuf(s)' <=> InRbuf(s),
           CopiedOut(s)' <=> CopiedOut(s),
           Reported(<<"arrival", s>>)' <=> Reported(<<"arrival", s>>),
           ~ReportedTwice(<<"arrival", s>>) => ~ReportedTwice(<<"arrival", s>>)',
           IsPut(s) => \A u \in Threads : status'[u] = s => status[u] = s
    PROVE  PutPlaced(s)'
  BY DEF PutPlaced, ExactlyOneOf, StatusOnce

(* A step of a thread that is not, before or after it, handling a put of   *)
(* MPI_Test's.                                                             *)
LEMMA CopiedQuiet ==
    ASSUME NEW s, NEW t \in Threads,
           \A u \in Threads : u # t => pc'[u] = pc[u] /\ status'[u] = status[u],
           (pc'[t] \in PutSteps /\ status'[t] = s) <=> (pc[t] \in PutSteps /\ status[t] = s)
    PROVE  CopiedOut(s)' <=> CopiedOut(s)
  BY DEF CopiedOut

(* isend of a put brings its message onto the network.                     *)
LEMMA PutPost ==
    ASSUME TypeInv, StageOK, MatchedOK, StatusOK, PutsPlaced, NEW t \in Threads, Post(t)
    PROVE  PutsPlaced'
  <1> SUFFICES ASSUME NEW s \in Ops PROVE PutPlaced(s)'
    BY DEF PutsPlaced
  <1>1. PICK e \in Ops : e = entry[t] /\ mpi_req[e] = "none"
    BY StageEntry DEF Post, StageOK, StageOf, Fresh
  <1>2. /\ mpi_req' = [mpi_req EXCEPT ![e] = "active"]
        /\ net' = IF IsRecv(e) THEN net ELSE net \cup {e}
        /\ UNCHANGED <<put_req, put_rbuf, status, cq, polled>>
    BY <1>1 DEF Post, StartRequest, signalVars
  <1>3. pc[t] = "post" /\ pc'[t] = "add_lock" /\ \A u \in Threads : u # t => pc'[u] = pc[u]
    BY DEF Post, Goto, TypeInv, TypeOK, FramesTypeOK
  <1>4. CopiedOut(s)' <=> CopiedOut(s)
    BY <1>2, <1>3, CopiedQuiet DEF PutSteps, PutLocked
  <1>5. InRbuf(s)' <=> InRbuf(s)
    BY <1>2 DEF InRbuf
  <1>6. PutPlaced(s) /\ PutPlaced(e)
    BY DEF PutsPlaced
  <1>7. CASE s = e
    <2>1. StatusOnce(s)'
      BY <1>1, <1>2, <1>6, <1>7, StatusOfPut DEF StatusOnce, PutPlaced, CopiedOut
    <2>2. mpi_req'[s] = "active"
      BY <1>2, <1>7 DEF TypeInv, TypeOK, MpiTypeOK
    <2>3. IsPut(s) => s \in net'
      BY <1>2, <1>7 DEF IsPut, IsRecv
    <2> QED
      BY <1>1, <1>4, <1>5, <1>6, <1>7, <1>2, <2>1, <2>2, <2>3, ReportsSame
      DEF PutPlaced, ExactlyOneOf
  <1>8. CASE s # e
    <2>1. mpi_req'[s] = mpi_req[s] /\ (s \in net' <=> s \in net)
      BY <1>2, <1>8 DEF TypeInv, TypeOK, MpiTypeOK
    <2> QED  BY <1>2, <1>4, <1>5, <1>6, <2>1, ReportsSame, PutQuiet
  <1> QED  BY <1>7, <1>8

(* MPI puts a message that was on the network into an empty put_rbuf.      *)
LEMMA PutArrive ==
    ASSUME TypeInv, PutsPlaced, NEW e \in Ops, MpiPutArrive(e),
           UNCHANGED <<frameVars, signalVars>>
    PROVE  PutsPlaced'
  <1> SUFFICES ASSUME NEW s \in Ops PROVE PutPlaced(s)'
    BY DEF PutsPlaced
  <1> DEFINE d == Target(e)
  <1>1. d \in Devices
    BY OpsAssumption DEF Target, Devices
  <1>2. /\ e \in net /\ IsPut(e) /\ put_req[d] = "active" /\ net' = net \ {e}
        /\ put_req'[d] = "done" /\ put_rbuf'[d] = e /\ mpi_req' = mpi_req
        /\ \A c \in Devices : c # d => put_req'[c] = put_req[c] /\ put_rbuf'[c] = put_rbuf[c]
    BY <1>1 DEF MpiPutArrive, Target, TypeInv, TypeOK, MpiTypeOK
  <1>3. InRbuf(s)' <=> (InRbuf(s) \/ s = e)
    <2> HIDE DEF d
    <2> QED  BY <1>1, <1>2 DEF InRbuf
  <1>4. /\ CopiedOut(s)' <=> CopiedOut(s)
        /\ StatusOnce(s)' <=> StatusOnce(s)
    BY DEF CopiedOut, StatusOnce, frameVars
  <1>5. /\ Reported(<<"arrival", s>>)' <=> Reported(<<"arrival", s>>)
        /\ ReportedTwice(<<"arrival", s>>)' <=> ReportedTwice(<<"arrival", s>>)
    BY ReportsSame DEF signalVars
  <1>6. PutPlaced(s)
    BY DEF PutsPlaced
  <1> HIDE DEF d
  <1> QED  BY <1>2, <1>3, <1>4, <1>5, <1>6 DEF PutPlaced, ExactlyOneOf

(* MPI_Test on the put receive hands the message to the thread.            *)
LEMMA PutTest ==
    ASSUME TypeInv, MatchedOK, RbufOK, StatusOK, PutsPlaced, NEW t \in Threads, TestPut(t)
    PROVE  PutsPlaced'
  <1> SUFFICES ASSUME NEW s \in Ops PROVE PutPlaced(s)'
    BY DEF PutsPlaced
  <1> DEFINE d == dev[t]
  <1>1. d \in Devices /\ status[t] = NULL /\ s # NULL
    BY FrameFacts, OpsAssumption
    DEF TestPut, TypeInv, ProgressSteps, PutSteps, PutLocked, FrameOK, FrameOf, WithStatus,
        Finished, SignalSteps
  <1>2. UNCHANGED <<mpi_req, net, put_rbuf, cq, polled>>
    BY DEF TestPut, signalVars
  <1>3. pc[t] = "put_test" /\ \A u \in Threads : u # t => pc'[u] = pc[u] /\ status'[u] = status[u]
    BY DEF TestPut, Goto, TypeInv, TypeOK, FramesTypeOK
  <1>4. PutPlaced(s)
    BY DEF PutsPlaced
  <1>5. CASE put_req[d] = "done"
    <2>1. /\ put_req'[d] = "null" /\ \A c \in Devices : c # d => put_req'[c] = put_req[c]
          /\ status'[t] = put_rbuf[d] /\ pc'[t] = "put_copy"
      BY <1>1, <1>5 DEF TestPut, Goto, TypeInv, TypeOK, FramesTypeOK, MpiTypeOK
    <2>2. (InRbuf(s) /\ s = put_rbuf[d]) \/ s # put_rbuf[d]
      BY <1>1, <1>5 DEF InRbuf
    <2>3. InRbuf(s)' <=> (InRbuf(s) /\ s # put_rbuf[d])
      <3>1. ASSUME NEW c \in Devices, put_req[c] = "done", put_rbuf[c] = put_rbuf[d]
            PROVE  c = d
        BY <1>1, <1>5, <3>1 DEF RbufOK
      <3> QED  BY <1>1, <1>2, <2>1, <3>1 DEF InRbuf
    <2>4. CopiedOut(s)' <=> (CopiedOut(s) \/ s = put_rbuf[d])
      BY <1>1, <1>3, <2>1 DEF CopiedOut, PutSteps, PutLocked
    <2>5. IsPut(s) => (StatusOnce(s) /\ ~CopiedOut(s) /\ s = put_rbuf[d] => StatusOnce(s)')
                      /\ (StatusOnce(s) /\ s # put_rbuf[d] => StatusOnce(s)')
      BY <1>1, <1>3, <2>1, StatusOfPut DEF StatusOnce, CopiedOut
    <2> HIDE DEF d
    <2> QED
      BY <1>2, <1>4, <2>2, <2>3, <2>4, <2>5, ReportsSame DEF PutPlaced, ExactlyOneOf
  <1>6. CASE put_req[d] # "done"
    <2>1. put_req' = put_req /\ status' = status /\ pc'[t] = "put_unlock"
      BY <1>6 DEF TestPut, Goto, TypeInv, TypeOK, FramesTypeOK
    <2>2. CopiedOut(s)' <=> CopiedOut(s)
      BY <1>3, <2>1, CopiedQuiet DEF PutSteps, PutLocked
    <2>3. InRbuf(s)' <=> InRbuf(s)
      BY <1>2, <2>1 DEF InRbuf
    <2> QED  BY <1>2, <1>4, <2>1, <2>2, <2>3, ReportsSame, PutQuiet
  <1> QED  BY <1>5, <1>6

(* signal_comp reports the put the thread has copied out.                  *)
LEMMA PutSignal ==
    ASSUME TypeInv, MatchedOK, StatusOK, PutsPlaced, NEW t \in Threads, SignalPut(t)
    PROVE  PutsPlaced'
  <1> SUFFICES ASSUME NEW s \in Ops PROVE PutPlaced(s)'
    BY DEF PutsPlaced
  <1>1. PICK e \in Ops : e = status[t]
    BY ArrivedGood DEF SignalPut
  <1>2. pc[t] = "put_signal" /\ buffer[t] = e /\ IsPut(e)
    BY <1>1, ArrivedGood DEF SignalPut
  <1> DEFINE r == ArrivedRequest(status[t], buffer[t])
             k == <<"arrival", s>>
  <1>3. /\ Reported(k)' <=> (Reported(k) \/ Key(r) = k)
        /\ ~ReportedTwice(k) /\ ~(Reported(k) /\ Key(r) = k) => ~ReportedTwice(k)'
    BY <1>2, ArrivedGood, SignalReports DEF SignalPut, TypeInv, TypeOK
  <1>4. Key(r) = k <=> s = e
    BY <1>2 DEF ArrivedRequest, Key
  <1>5. /\ UNCHANGED mpiVars /\ status'[t] = NULL /\ pc'[t] = "mgr_empty"
        /\ \A u \in Threads : u # t => pc'[u] = pc[u] /\ status'[u] = status[u]
    BY DEF SignalPut, Goto, TypeInv, TypeOK, FramesTypeOK
  <1>6. PutPlaced(s) /\ PutPlaced(e) /\ CopiedOut(e) /\ s # NULL
    BY <1>1, <1>2, OpsAssumption DEF PutsPlaced, CopiedOut, PutSteps
  <1>7. mpi_req[e] # "none" /\ StatusOnce(e)
    BY <1>2, <1>6 DEF PutPlaced
  <1>8. CopiedOut(s)' <=> (CopiedOut(s) /\ s # e)
    BY <1>1, <1>2, <1>5, <1>6, <1>7 DEF CopiedOut, StatusOnce, PutSteps, PutLocked
  <1>9. InRbuf(s)' <=> InRbuf(s)
    BY <1>5 DEF InRbuf, mpiVars
  <1>10. StatusOnce(s) => StatusOnce(s)'
    BY <1>5, <1>6 DEF StatusOnce
  <1> HIDE DEF r
  <1> QED
    BY <1>3, <1>4, <1>5, <1>6, <1>7, <1>8, <1>9, <1>10 DEF PutPlaced, ExactlyOneOf, mpiVars

(* A step of a thread that leaves MPI's messages alone, handles no put and *)
(* reports none.                                                           *)
LEMMA PutThread ==
    ASSUME TypeInv, PutsPlaced, NEW t \in Threads,
           \A s \in Ops : mpi_req'[s] = "none" <=> mpi_req[s] = "none",
           UNCHANGED <<net, put_rbuf>>,
           \A d \in Devices : put_req'[d] = "done" <=> put_req[d] = "done",
           \A u \in Threads : u # t => pc'[u] = pc[u] /\ status'[u] = status[u],
           status'[t] \in {NULL, status[t]},
           status[t] # NULL => /\ pc[t] \in PutSteps <=> pc'[t] \in PutSteps
                               /\ pc[t] \in PutSteps => status'[t] = status[t],
           \A s \in Ops :
              /\ Reported(<<"arrival", s>>)' <=> Reported(<<"arrival", s>>)
              /\ ~ReportedTwice(<<"arrival", s>>) => ~ReportedTwice(<<"arrival", s>>)'
    PROVE  PutsPlaced'
  <1> SUFFICES ASSUME NEW s \in Ops PROVE PutPlaced(s)'
    BY DEF PutsPlaced
  <1>1. s # NULL
    BY OpsAssumption
  <1>2. CopiedOut(s)' <=> CopiedOut(s)
    BY <1>1, CopiedQuiet
  <1>3. InRbuf(s)' <=> InRbuf(s)
    BY DEF InRbuf
  <1>4. \A u \in Threads : status'[u] = s => status[u] = s
    BY <1>1
  <1> QED  BY <1>2, <1>3, <1>4, PutQuiet DEF PutsPlaced

(* MPI_Test of a deque's entry tells of no put.                            *)
LEMMA PutPop ==
    ASSUME TypeInv, StageOK, MatchedOK, PutsPlaced, NEW t \in Threads, TestFront(t),
           UNCHANGED <<cq, polled>>
    PROVE  PutsPlaced'
  <1> SUFFICES ASSUME NEW s \in Ops PROVE PutPlaced(s)'
    BY DEF PutsPlaced
  <1> DEFINE m == ManagerOf(dev[t])
  <1>1. m \in Managers /\ status[t] = NULL /\ s # NULL
    BY FrameFacts, OpsAssumption
    DEF TypeInv, TestFront, Managers, ProgressSteps, ManagerSteps, ManagerLocked, FrameOK,
        FrameOf, WithStatus, Finished, SignalSteps
  <1>2. PICK e \in Ops : e = Head(entries[m])
    BY <1>1 DEF TestFront, TypeInv, TypeOK, ManagerTypeOK
  <1>3. UNCHANGED <<net, put_req, put_rbuf>>
    BY DEF TestFront, FreeRequest, mpiVars
  <1>4. mpi_req'[s] = "none" <=> mpi_req[s] = "none"
    BY <1>2 DEF TestFront, FreeRequest, mpiVars, TypeInv, TypeOK, MpiTypeOK
  <1>5. /\ \A u \in Threads : u # t => pc'[u] = pc[u] /\ status'[u] = status[u]
        /\ pc[t] \notin PutSteps /\ pc'[t] \notin PutSteps
        /\ status'[t] \in {status[t], matched[e]}
    BY <1>2 DEF TestFront, Goto, TypeInv, TypeOK, FramesTypeOK, PutSteps, PutLocked
  <1>6. CopiedOut(s)' <=> CopiedOut(s)
    BY <1>5, CopiedQuiet
  <1>7. InRbuf(s)' <=> InRbuf(s)
    BY <1>3 DEF InRbuf
  <1>8. IsPut(s) => \A u \in Threads : status'[u] = s => status[u] = s
    BY <1>1, <1>5 DEF MatchedOK, Matches, IsPut
  <1> QED  BY <1>3, <1>4, <1>6, <1>7, <1>8, ReportsSame, PutQuiet DEF PutsPlaced

(* A step of MPI that is not the arrival of a put.                         *)
LEMMA PutMpi ==
    ASSUME TypeInv, PutsPlaced, UNCHANGED <<frameVars, signalVars>>,
           \/ \E s, r \in Ops : MpiMatch(s, r)
           \/ \E s \in Ops : MpiSendComplete(s)
    PROVE  PutsPlaced'
  <1> SUFFICES ASSUME NEW s \in Ops PROVE PutPlaced(s)'
    BY DEF PutsPlaced
  <1>1. /\ mpi_req'[s] = "none" <=> mpi_req[s] = "none"
        /\ UNCHANGED <<put_req, put_rbuf>> /\ net' \subseteq net
        /\ IsPut(s) => (s \in net' <=> s \in net)
    BY DEF MpiMatch, MpiSendComplete, Matches, IsPut, TypeInv, TypeOK, MpiTypeOK
  <1>2. InRbuf(s)' <=> InRbuf(s)
    BY <1>1 DEF InRbuf
  <1>3. (CopiedOut(s)' <=> CopiedOut(s)) /\ (StatusOnce(s)' <=> StatusOnce(s))
    BY DEF CopiedOut, StatusOnce, frameVars
  <1>4. /\ Reported(<<"arrival", s>>)' <=> Reported(<<"arrival", s>>)
        /\ ReportedTwice(<<"arrival", s>>)' <=> ReportedTwice(<<"arrival", s>>)
    BY ReportsSame DEF signalVars
  <1>5. PutPlaced(s)
    BY DEF PutsPlaced
  <1> QED  BY <1>1, <1>2, <1>3, <1>4, <1>5 DEF PutPlaced, ExactlyOneOf

(* Every step keeps the message of every put in one place.                 *)
LEMMA PutsNext ==
    ASSUME LockInv, StageOK, MatchedOK, RbufOK, StatusOK, PutsPlaced, Next
    PROVE  PutsPlaced'
  <1> USE DEF LockInv, TypeInv, TypeOK, FramesTypeOK, Goto
  <1>1. ASSUME NEW t \in Threads, UNCHANGED <<mpi_req, net, put_rbuf, cq, polled>>,
               \A d \in Devices : put_req'[d] = "done" <=> put_req[d] = "done",
               \A u \in Threads : u # t => pc'[u] = pc[u] /\ status'[u] = status[u],
               status'[t] \in {NULL, status[t]},
               status[t] # NULL => /\ pc[t] \in PutSteps <=> pc'[t] \in PutSteps
                                   /\ pc[t] \in PutSteps => status'[t] = status[t]
        PROVE  PutsPlaced'
    BY <1>1, ReportsSame, PutThread
  <1>2. ASSUME NEW t \in Threads PROVE pc[t] \notin WithStatus => status[t] = NULL
    BY DEF FrameOK, FrameOf
  <1>3. ASSUME NEW t \in Threads,
               CallStep(t) \/ FetchAdd(t) \/ \E d \in Devices : ReadPutReq(t, d)
        PROVE  PutsPlaced'
    <2>1. status[t] = NULL
      BY <1>2, <1>3
      DEF CallStep, SendOrPut, Recv, MayIssue, FetchAdd, ReadPutReq, WithStatus, Finished,
          SignalSteps
    <2> QED
      BY <1>1, <1>3, <2>1
      DEF CallStep, SendOrPut, Recv, FetchAdd, ReadPutReq, mpiVars, signalVars
  <1>4. ASSUME NEW t \in Threads, TryLockPut(t) PROVE PutsPlaced'
    <2>1. status[t] = NULL
      BY <1>2, <1>4 DEF TryLockPut, WithStatus, Finished, SignalSteps
    <2> QED  BY <1>1, <1>4, <2>1 DEF TryLockPut, mpiVars, signalVars
  <1>5. ASSUME NEW t \in Threads, CopyPut(t) \/ UnlockPut(t) PROVE PutsPlaced'
    BY <1>1, <1>5 DEF CopyPut, UnlockPut, mpiVars, signalVars, PutSteps, PutLocked
  <1>6. ASSUME NEW t \in Threads, PostPutRecv(t) PROVE PutsPlaced'
    <2>1. dev[t] \in Devices /\ put_req[dev[t]] = "null"
      BY <1>6, FrameFacts
      DEF PostPutRecv, ProgressSteps, PutSteps, PutLocked, NullExact, Reposting
    <2>2. \A d \in Devices : put_req'[d] = "done" <=> put_req[d] = "done"
      BY <1>6, <2>1 DEF PostPutRecv, MpiTypeOK
    <2> QED  BY <1>1, <1>6, <2>2 DEF PostPutRecv, signalVars, PutSteps, PutLocked
  <1>7. ASSUME NEW t \in Threads, ManagerStep(t), UNCHANGED signalVars PROVE PutsPlaced'
    <2>1. CASE TestFront(t)
      BY <1>7, <2>1, PutPop DEF signalVars
    <2>2. CASE ~TestFront(t)
      <3>1. pc[t] \notin PutSteps /\ pc'[t] \notin PutSteps
        BY <1>7, <2>2
        DEF ManagerStep, AddEntryLock, AddEntryPush, ReadEmpty, TryLockManager, FoundEmpty,
            PushBack, UnlockManager, Return, PutSteps, PutLocked
      <3>2. /\ UNCHANGED mpiVars /\ status'[t] \in {NULL, status[t]}
            /\ \A u \in Threads : u # t => pc'[u] = pc[u] /\ status'[u] = status[u]
        BY <1>7, <2>2
        DEF ManagerStep, AddEntryLock, AddEntryPush, ReadEmpty, TryLockManager, FoundEmpty,
            PushBack, UnlockManager, Return
      <3> QED  BY <1>1, <1>7, <3>1, <3>2 DEF mpiVars, signalVars
    <2> QED  BY <2>1, <2>2
  <1>8. ASSUME NEW t \in Threads, FetchSub(t), UNCHANGED mpiVars PROVE PutsPlaced'
    BY <1>1, <1>8 DEF FetchSub, mpiVars, PutSteps, PutLocked
  <1>9. ASSUME NEW t \in Threads, SignalEntry(t), UNCHANGED mpiVars PROVE PutsPlaced'
    <2> DEFINE r == FinishedRequest(entry[t], status[t])
    <2>1. /\ entry[t] \in Ops /\ entry[t].comp \in Comps /\ r \in Completion
          /\ SignalComp(entry[t].comp, r)
      BY <1>9, FinishedGood DEF SignalEntry
    <2>2. \A s \in Ops : Key(r) # <<"arrival", s>>
      BY <2>1, OpsAssumption DEF FinishedRequest, Key, OpTypes
    <2>3. pc[t] \notin PutSteps /\ pc'[t] \notin PutSteps /\ status'[t] = NULL
      BY <1>9 DEF SignalEntry, Return, PutSteps, PutLocked
    <2>4. \A u \in Threads : u # t => pc'[u] = pc[u] /\ status'[u] = status[u]
      BY <1>9 DEF SignalEntry, Return
    <2>5. \A s \in Ops :
             /\ Reported(<<"arrival", s>>)' <=> Reported(<<"arrival", s>>)
             /\ ~ReportedTwice(<<"arrival", s>>) => ~ReportedTwice(<<"arrival", s>>)'
      BY <2>1, <2>2, SignalReports
    <2> QED  BY <1>9, <2>3, <2>4, <2>5, PutThread DEF mpiVars
  <1>10. ASSUME NEW t \in Threads, NEW c \in Comps, PollCq(t, c), UNCHANGED mpiVars
         PROVE  PutsPlaced'
    <2>1. \A s \in Ops :
             /\ Reported(<<"arrival", s>>)' <=> Reported(<<"arrival", s>>)
             /\ ~ReportedTwice(<<"arrival", s>>) => ~ReportedTwice(<<"arrival", s>>)'
      BY <1>10, PollReports DEF PollCq
    <2> QED  BY <1>10, <2>1, PutThread DEF PollCq, mpiVars, frameVars
  <1> QED
    BY <1>3, <1>4, <1>5, <1>6, <1>7, <1>8, <1>9, <1>10, PutPost, PutTest, PutSignal, PutArrive,
       PutMpi
    DEF Next, PutStep, SignalStep, MpiStep

(* The inductive invariant about messages.                                 *)
MessageInv ==
    PlaceInv /\ MatchedOK /\ RbufOK /\ StatusOK /\ ReportsGood /\ PutsPlaced

(* What the threads and MPI know of messages at first: nothing.            *)
LEMMA MessageInit == Start => MessageInv
  <1> SUFFICES ASSUME Start PROVE MatchedOK /\ RbufOK /\ StatusOK /\ ReportsGood /\ PutsPlaced
    BY PlaceInvInit DEF MessageInv
  <1>1. MatchedOK /\ RbufOK
    BY DEF Start, MpiInit, MatchedOK, RbufOK
  <1>2. StatusOK
    BY DEF Start, FramesInit, StatusOK, StatusOf, PutSteps, PutLocked, Finished, SignalSteps
  <1>3. \A c \in Comps : cq[c] = <<>> /\ polled[c] = {}
    BY DEF Start, SignalInit
  <1>4. ReportsGood
    BY <1>3 DEF ReportsGood
  <1>5. ASSUME NEW k PROVE ~Reported(k) /\ ~ReportedTwice(k)
    BY <1>3 DEF Reported, ReportedTwice
  <1>6. ASSUME NEW s \in Ops PROVE PutPlaced(s)
    <2>1. mpi_req[s] = "none" /\ s \notin net /\ ~InRbuf(s)
      BY DEF Start, MpiInit, InRbuf
    <2>2. ~CopiedOut(s)
      BY DEF Start, FramesInit, CopiedOut, PutSteps, PutLocked
    <2> QED  BY <1>5, <2>1, <2>2 DEF PutPlaced
  <1> QED  BY <1>1, <1>2, <1>4, <1>6 DEF PutsPlaced

(* Every step keeps it.                                                    *)
LEMMA MessageStep ==
    ASSUME MessageInv, [Next]_vars
    PROVE  MessageInv'
  <1> USE DEF MessageInv
  <1>1. CASE Next
    <2>1. NothingUnsent
      BY PutsEach
    <2> QED
      BY <1>1, <2>1, PlaceStep, MatchedNext, RbufNext, StatusNext, ReportsNext, PutsNext
      DEF PlaceInv, LockInv
  <1>2. CASE UNCHANGED vars
    <2> USE <1>2 DEF vars, mpiVars, frameVars, signalVars
    <2>1. MatchedOK' /\ RbufOK'
      BY DEF MatchedOK, RbufOK
    <2>2. StatusOK'
      BY DEF StatusOK, StatusOf
    <2>3. ReportsGood'
      BY DEF ReportsGood, GoodReport, TrueReport
    <2>4. PutsPlaced'
      BY DEF PutsPlaced, PutPlaced, ExactlyOneOf, StatusOnce, InRbuf, CopiedOut, Reported,
             ReportedTwice
    <2> QED  BY <2>1, <2>2, <2>3, <2>4, PlaceStep
  <1> QED  BY <1>1, <1>2

(* Every behaviour keeps it: a message is in one place from isend to the   *)
(* report, and whoever works on it has the right one.                      *)
THEOREM MessageCorrect == Spec => []MessageInv
  BY InitStarts, MessageInit, MessageStep, PTL DEF Spec

(* A completion tells of the message it came with: a receive reports a     *)
(* message that was sent to it, with that message's length, PUT_SIGNAL     *)
(* carries the bytes of the put its status describes, and each goes to the *)
(* completion object it is for.                                            *)
THEOREM ReportsHold == Spec => []ReportsTrue
  <1>1. MessageInv => ReportsTrue
    BY DEF MessageInv, ReportsGood, GoodReport, ReportsTrue
  <1> QED  BY <1>1, MessageCorrect, PTL

(* The single put_rbuf of a device neither loses a put nor delivers one    *)
(* twice, whatever the number of threads in do_progress and of puts on     *)
(* their way.                                                              *)
THEOREM PutsOnce == Spec => []PutExactlyOnce
  <1>1. MessageInv => PutExactlyOnce
    BY PutsEach DEF MessageInv
  <1> QED  BY <1>1, MessageCorrect, PTL

-----------------------------------------------------------------------------
(* The contract of lcw.hpp.                                                *)

Posted == {o \in Ops : mpi_req[o] # "none"}
InQueue(c) == {cq[c][i] : i \in DOMAIN cq[c]}

(* No report of the contract has a key that is not reported.               *)
LEMMA ContractReports ==
    ASSUME NEW q \in Contract!Reports
    PROVE  \E c \in Comps : q \in ReportsAt(c) /\ Reported(Key(q))
  BY DEF Contract!Reports, ReportsAt, Reported

(* A signal of a report that is due is a step of the contract.             *)
LEMMA SignalIsReport ==
    ASSUME SignalTypeOK, NEW c \in Comps, NEW r \in Completion, SignalComp(c, r),
           r \in Contract!Due(c), UNCHANGED mpi_req
    PROVE  Contract!Next
  <1>1. CASE c \in Handlers
    <2>1. Contract!Report(c)
      BY <1>1 DEF SignalComp, HandlerSignal, Contract!Report
    <2> QED  BY <2>1 DEF Contract!Next
  <1>2. CASE c \notin Handlers
    <2>1. CqSignal(c, r)
      BY <1>2 DEF SignalComp
    <2>2. ASSUME NEW e \in Comps, e # c PROVE InQueue(e)' = InQueue(e)
      BY <2>1, <2>2 DEF CqSignal, SignalTypeOK, InQueue
    <2>3. InQueue(c)' = InQueue(c) \cup {r}
      BY <2>1, CqElements DEF InQueue
    <2>4. [e \in Comps |-> InQueue(e)]' = [[e \in Comps |-> InQueue(e)] EXCEPT ![c] = @ \cup {r}]
      BY <2>2, <2>3
    <2>5. Contract!Report(c)
      BY <1>2, <2>1, <2>4 DEF CqSignal, InQueue, Contract!Report
    <2> QED  BY <2>5 DEF Contract!Next
  <1> QED  BY <1>1, <1>2

(* The contract speaks of operations in the words of the backend.          *)
LEMMA ContractNames ==
    /\ \A o : Contract!Counted(o) = Counted(o) /\ Contract!IsPut(o) = IsPut(o)
    /\ \A s, o : Contract!Matches(s, o) = Matches(s, o)
    /\ \A q : Contract!Key(q) = Key(q)
  BY DEF Contract!Counted, Counted, Contract!IsPut, IsPut, Contract!Matches, Matches,
         Contract!Key, Key

(* A send or put that was posted is due until it is reported.              *)
LEMMA SentDue ==
    ASSUME NEW o \in Posted, Counted(o), NEW r, r = Contract!Sent(o),
           \A q \in Contract!Reports : Key(q) # Key(r)
    PROVE  r \in Contract!Due(o.comp)
  BY ContractNames DEF Posted, Contract!Due

(* A receive is due with a message that matches it and that no receive     *)
(* reported.                                                               *)
LEMMA ReceivedDue ==
    ASSUME NEW o \in Posted, NEW s \in Posted, Matches(s, o),
           \A q \in Contract!Reports : q.op = "RECV" => q.buffer # s,
           NEW r, r = Contract!Received(o, s),
           \A q \in Contract!Reports : Key(q) # Key(r)
    PROVE  r \in Contract!Due(o.comp)
  <1>1. <<o, s>> \in {n \in Posted \X Posted :
                         /\ Matches(n[2], n[1]) /\ n[1].comp = o.comp
                         /\ \A q \in Contract!Reports : q.op = "RECV" => q.buffer # n[2]}
    OBVIOUS
  <1>2. Contract!Received(<<o, s>>[1], <<o, s>>[2]) = r
    OBVIOUS
  <1> QED  BY <1>1, <1>2, ContractNames DEF Posted, Contract!Due

(* The arrival of a put is due at the device it is for.                    *)
LEMMA ArrivalDue ==
    ASSUME NEW s \in Posted, IsPut(s), NEW r, r = Contract!Arrived(s),
           \A q \in Contract!Reports : Key(q) # Key(r)
    PROVE  r \in Contract!Due(PutComp[<<s.rank, s.dev>>])
  BY ContractNames DEF Posted, Contract!Due

(* What a thread signals for a finished operation is due: the operation    *)
(* was posted and not reported, and a receive has a message that no other  *)
(* receive reported.                                                       *)
LEMMA FinishedDue ==
    ASSUME MessageInv, NEW t \in Threads, pc[t] = "signal"
    PROVE  FinishedRequest(entry[t], status[t]) \in Contract!Due(entry[t].comp)
  <1> USE DEF MessageInv, PlaceInv, LockInv
  <1> DEFINE e == entry[t]
             st == status[t]
             r == FinishedRequest(e, st)
             c == e.comp
  <1>1. e \in Ops /\ r \in Completion /\ GoodReport(c, r) /\ c \in Comps
    BY FinishedGood
  <1>2. e \in Posted
    BY <1>1 DEF Posted, StageOK, StageOf, Finished, SignalSteps
  <1>3. Key(r) = <<"operation", e>> /\ r.op = e.op /\ r.user_context = e
    BY <1>1, OpsAssumption DEF FinishedRequest, Key, OpTypes
  <1>4. ~Reported(Key(r))
    <2>1. PlacedOnce(e) /\ InHand(e)
      BY <1>1 DEF MostOnce, InHand
    <2> QED  BY <1>3, <2>1 DEF PlacedOnce, AtMostOneOf
  <1>5. \A q \in Contract!Reports : Key(q) # Key(r)
    BY <1>4, ContractReports
  <1>6. CASE Counted(e)
    <2>1. r = Contract!Sent(e)
      BY <1>6 DEF FinishedRequest, Contract!Sent, Counted, IsRecv
    <2> QED  BY <1>2, <1>5, <1>6, <2>1, SentDue
  <1>7. CASE IsRecv(e)
    <2>1. st \in Ops /\ st # NULL /\ st = matched[e]
      BY <1>7, FrameFacts, OpsAssumption
      DEF TypeInv, Finished, SignalSteps, StatusOK, StatusOf
    <2>2. Matches(st, e) /\ st \in Posted
      BY <1>1, <2>1 DEF MatchedOK, Posted
    <2>3. r = Contract!Received(e, st)
      BY <1>7 DEF FinishedRequest, Contract!Received, IsRecv
    <2>4. ASSUME NEW q \in Contract!Reports, q.op = "RECV" PROVE q.buffer # st
      <3>1. PICK b \in Comps : q \in ReportsAt(b) /\ Reported(Key(q))
        BY ContractReports
      <3>2. GoodReport(b, q)
        BY <3>1 DEF ReportsGood, ReportsAt
      <3>3. q.user_context \in Ops /\ q.buffer = matched[q.user_context]
        BY <2>4, <3>2 DEF GoodReport
      <3>4. q.user_context # e
        BY <1>3, <1>5, <2>4 DEF Key
      <3> QED  BY <1>1, <2>1, <3>3, <3>4 DEF MatchedOK
    <2> QED  BY <1>2, <1>5, <2>2, <2>3, <2>4, ReceivedDue
  <1>8. Counted(e) \/ IsRecv(e)
    BY <1>1, OpsAssumption DEF Counted, IsRecv, OpTypes
  <1> QED  BY <1>6, <1>7, <1>8

(* So is what it signals for a put that arrived.                           *)
LEMMA ArrivedDue ==
    ASSUME MessageInv, NEW t \in Threads, pc[t] = "put_signal"
    PROVE  ArrivedRequest(status[t], buffer[t]) \in Contract!Due(PutComp[dev[t]])
  <1> USE DEF MessageInv, PlaceInv, LockInv
  <1> DEFINE s == status[t]
             r == ArrivedRequest(s, buffer[t])
  <1>1. s \in Ops /\ buffer[t] = s /\ IsPut(s) /\ Target(s) = dev[t]
    BY ArrivedGood
  <1>2. CopiedOut(s) /\ PutPlaced(s)
    BY <1>1 DEF CopiedOut, PutSteps, PutsPlaced
  <1>3. s \in Posted /\ ~Reported(<<"arrival", s>>)
    BY <1>1, <1>2 DEF Posted, PutPlaced, ExactlyOneOf
  <1>4. Key(r) = <<"arrival", s>>
    BY <1>1 DEF ArrivedRequest, Key
  <1>5. \A q \in Contract!Reports : Key(q) # Key(r)
    BY <1>3, <1>4, ContractReports
  <1>6. r = Contract!Arrived(s)
    BY <1>1 DEF ArrivedRequest, Contract!Arrived
  <1>7. PutComp[<<s.rank, s.dev>>] = PutComp[dev[t]]
    BY <1>1 DEF Target
  <1> QED  BY <1>1, <1>3, <1>5, <1>6, <1>7, ArrivalDue

(* No completion is twice in a queue.                                      *)
LEMMA CqOnce ==
    ASSUME MessageInv, NEW c \in Comps, NEW i \in DOMAIN cq[c], NEW j \in DOMAIN cq[c],
           cq[c][i] = cq[c][j]
    PROVE  i = j
  <1> USE DEF MessageInv, PlaceInv, LockInv
  <1> DEFINE r == cq[c][i]
             k == Key(r)
  <1>1. r \in Completion /\ GoodReport(c, r) /\ Reported(k)
    BY DEF TypeInv, TypeOK, SignalTypeOK, ReportsGood, Reported
  <1>2. ~ReportedTwice(k)
    <2>1. CASE r.op = "PUT_SIGNAL"
      <3>1. r.buffer \in Ops /\ IsPut(r.buffer) /\ k = <<"arrival", r.buffer>>
        BY <1>1, <2>1 DEF Completion, GoodReport, TrueReport, Key
      <3> QED  BY <3>1, <1>1 DEF PutsPlaced, PutPlaced
    <2>2. CASE r.op # "PUT_SIGNAL"
      <3>1. r.user_context \in Ops /\ k = <<"operation", r.user_context>>
        BY <1>1, <2>2 DEF GoodReport, Key
      <3> QED  BY <3>1 DEF MostOnce, PlacedOnce
    <2> QED  BY <2>1, <2>2
  <1> QED  BY <1>2 DEF ReportedTwice

(* poll_cq is a step of the contract.                                      *)
LEMMA PollIsTake ==
    ASSUME MessageInv, NEW c \in Comps, Poll(c), UNCHANGED mpi_req
    PROVE  Contract!Next
  <1> USE DEF MessageInv, PlaceInv, LockInv, TypeInv, TypeOK
  <1> DEFINE r == cq[c][1]
  <1>1. /\ 1 \in DOMAIN cq[c]
        /\ polled'[c] = polled[c] \cup {r}
        /\ \A e \in Comps : e # c => cq'[e] = cq[e] /\ polled'[e] = polled[e]
        /\ \A i \in DOMAIN cq'[c] : /\ i + 1 \in DOMAIN cq[c] /\ i + 1 # 1
                                    /\ cq'[c][i] = cq[c][i + 1]
        /\ \A i \in DOMAIN cq[c] : i # 1 =>
              \E j \in DOMAIN cq'[c] : i = j + 1 /\ cq'[c][j] = cq[c][i]
    BY PollElements
  <1>2. \A i \in DOMAIN cq[c] : i # 1 => cq[c][i] # r
    BY <1>1, CqOnce
  <1>3. InQueue(c)' = InQueue(c) \ {r}
    <2>1. ASSUME NEW x \in InQueue(c)' PROVE x \in InQueue(c) \ {r}
      BY <1>1, <1>2, <2>1 DEF InQueue
    <2>2. ASSUME NEW x \in InQueue(c), x # r PROVE x \in InQueue(c)'
      BY <1>1, <2>2 DEF InQueue
    <2> QED  BY <2>1, <2>2
  <1>4. \A e \in Comps : e # c => InQueue(e)' = InQueue(e)
    BY <1>1 DEF InQueue
  <1>5. PICK x : x = r
    OBVIOUS
  <1>6. x \in InQueue(c)
    BY <1>1, <1>5 DEF InQueue
  <1>7. [e \in Comps |-> InQueue(e)]' = [[e \in Comps |-> InQueue(e)] EXCEPT ![c] = @ \ {x}]
    BY <1>3, <1>4, <1>5
  <1>8. polled' = [polled EXCEPT ![c] = @ \cup {x}]
    BY <1>1, <1>5, PollElements DEF Poll
  <1>9. Contract!Take(c)
    BY <1>6, <1>7, <1>8 DEF Contract!Take, InQueue
  <1> QED  BY <1>9 DEF Contract!Next

(* A step that neither starts a request nor touches a completion object is *)
(* none of the contract's business.                                        *)
LEMMA ContractQuiet ==
    ASSUME UNCHANGED <<cq, polled>>,
           \A o \in Ops : mpi_req'[o] = "none" <=> mpi_req[o] = "none"
    PROVE  UNCHANGED Contract!contractVars
  BY DEF Contract!contractVars

(* isend or irecv accepts the operation in the thread's hands.             *)
LEMMA PostAccepts ==
    ASSUME MessageInv, NEW t \in Threads, Post(t)
    PROVE  Contract!Next
  <1> USE DEF MessageInv, PlaceInv, LockInv, TypeInv, TypeOK, MpiTypeOK
  <1>1. PICK e \in Ops : e = entry[t]
    BY FrameFacts DEF Post, WithEntry, PostSteps
  <1>2. mpi_req[e] = "none"
    BY <1>1 DEF Post, StageOK, StageOf, Fresh
  <1>3. mpi_req' = [mpi_req EXCEPT ![e] = "active"] /\ UNCHANGED <<cq, polled>>
    BY <1>1 DEF Post, StartRequest, signalVars
  <1>4. {o \in Ops : mpi_req[o] # "none"}' = {o \in Ops : mpi_req[o] # "none"} \cup {e}
    BY <1>3
  <1>5. Contract!Accept(e)
    BY <1>2, <1>3, <1>4 DEF Contract!Accept
  <1> QED  BY <1>5 DEF Contract!Next

(* Every step of a thread is a step of the contract or leaves it alone.    *)
LEMMA ContractStep ==
    ASSUME MessageInv, Next
    PROVE  Contract!Next \/ UNCHANGED Contract!contractVars
  <1> USE DEF MessageInv, PlaceInv, LockInv, TypeInv, TypeOK
  <1>1. ASSUME NEW t \in Threads, Post(t) PROVE Contract!Next
    BY <1>1, PostAccepts
  <1>2. ASSUME NEW t \in Threads, SignalPut(t) PROVE Contract!Next
    <2>1. PICK r, c : r = ArrivedRequest(status[t], buffer[t]) /\ c = PutComp[dev[t]]
      OBVIOUS
    <2>2. r \in Completion /\ c \in Comps
      BY <1>2, <2>1, ArrivedGood DEF SignalPut
    <2>3. r \in Contract!Due(c)
      BY <1>2, <2>1, ArrivedDue DEF SignalPut
    <2> QED  BY <1>2, <2>1, <2>2, <2>3, SignalIsReport DEF SignalPut, mpiVars
  <1>3. ASSUME NEW t \in Threads, SignalEntry(t), UNCHANGED mpiVars PROVE Contract!Next
    <2>1. PICK r, c : r = FinishedRequest(entry[t], status[t]) /\ c = entry[t].comp
      OBVIOUS
    <2>2. r \in Completion /\ c \in Comps
      BY <1>3, <2>1, FinishedGood DEF SignalEntry
    <2>3. r \in Contract!Due(c)
      BY <1>3, <2>1, FinishedDue DEF SignalEntry
    <2> QED  BY <1>3, <2>1, <2>2, <2>3, SignalIsReport DEF SignalEntry, mpiVars
  <1>4. ASSUME NEW t \in Threads, NEW c \in Comps, PollCq(t, c), UNCHANGED mpiVars
        PROVE  Contract!Next
    BY <1>4, PollIsTake DEF PollCq, mpiVars
  <1>5. ASSUME NEW t \in Threads, TestFront(t), UNCHANGED signalVars
        PROVE  UNCHANGED Contract!contractVars
    <2>1. \A o \in Ops : mpi_req'[o] = "none" <=> mpi_req[o] = "none"
      BY <1>5 DEF TestFront, FreeRequest, mpiVars, MpiTypeOK
    <2> QED  BY <1>5, <2>1, ContractQuiet DEF signalVars
  <1>6. ASSUME MpiStep, UNCHANGED signalVars PROVE UNCHANGED Contract!contractVars
    <2>1. \A o \in Ops : mpi_req'[o] = "none" <=> mpi_req[o] = "none"
      BY <1>6 DEF MpiStep, MpiMatch, MpiPutArrive, MpiSendComplete, MpiTypeOK
    <2> QED  BY <1>6, <2>1, ContractQuiet DEF signalVars
  <1>7. ASSUME UNCHANGED <<mpi_req, cq, polled>> PROVE UNCHANGED Contract!contractVars
    BY <1>7, ContractQuiet
  <1>8. ASSUME NEW t \in Threads, CallStep(t) \/ FetchAdd(t) \/ \E d \in Devices : ReadPutReq(t, d)
        PROVE  UNCHANGED <<mpi_req, cq, polled>>
    BY <1>8 DEF CallStep, SendOrPut, Recv, FetchAdd, ReadPutReq, mpiVars, signalVars
  <1>9. ASSUME NEW t \in Threads, PutStep(t), ~SignalPut(t)
        PROVE  UNCHANGED <<mpi_req, cq, polled>>
    BY <1>9 DEF PutStep, TryLockPut, TestPut, CopyPut, PostPutRecv, UnlockPut, mpiVars, signalVars
  <1>10. ASSUME NEW t \in Threads, ManagerStep(t), ~TestFront(t), UNCHANGED signalVars
         PROVE  UNCHANGED <<mpi_req, cq, polled>>
    BY <1>10 DEF ManagerStep, FoundEmpty, mpiVars, signalVars
  <1>11. ASSUME NEW t \in Threads, FetchSub(t), UNCHANGED mpiVars
         PROVE  UNCHANGED <<mpi_req, cq, polled>>
    BY <1>11 DEF FetchSub, mpiVars
  <1> QED  BY <1>1, <1>2, <1>3, <1>4, <1>5, <1>6, <1>7, <1>8, <1>9, <1>10, <1>11
           DEF Next, SignalStep

(* The MPI backend implements the contract of lcw.hpp: whatever its        *)
(* threads and MPI do, the client sees an operation accepted, a completion *)
(* that is due reported, a completion taken, or nothing.                   *)
THEOREM ContractHolds == Spec => ContractSpec
  <1>1. Init => Contract!Init
    BY DEF Init, MpiInit, SignalInit, Contract!Init
  <1>2. MessageInv /\ [Next]_vars => [Contract!Next]_(Contract!contractVars)
    <2>1. ASSUME MessageInv, Next PROVE [Contract!Next]_(Contract!contractVars)
      BY <2>1, ContractStep
    <2>2. ASSUME UNCHANGED vars PROVE UNCHANGED Contract!contractVars
      BY <2>2, ContractQuiet DEF vars, mpiVars, signalVars
    <2> QED  BY <2>1, <2>2
  <1> QED  BY <1>1, <1>2, MessageCorrect, PTL DEF Spec, ContractSpec, Contract!Spec

-----------------------------------------------------------------------------
(* The bound on the pending messages of a process, for any number of       *)
(* threads.  The counter alone is not inductive: between the load of       *)
(* g_pending_msg and the fetch_add a thread is committed to one message    *)
(* more, so the threads in that window are counted with it.  That the      *)
(* counter is also exact rests on where the operations are: a slot belongs *)
(* to a message from its fetch_add until the fetch_sub that follows its    *)
(* completion.                                                             *)
InWindow(p) == {t \in ThreadsOf(p) : pc[t] = "fetch_add"}

PendingInv ==
    \A p \in Procs :
       g_pending_msg[p] + Cardinality(InWindow(p))
          <= g_pending_msg_max + Cardinality(ThreadsOf(p))

(* The threads of a process, and those of them in the window, are finitely *)
(* many.                                                                   *)
LEMMA WindowFinite ==
    ASSUME NEW p \in Procs
    PROVE  /\ IsFiniteSet(ThreadsOf(p)) /\ Cardinality(ThreadsOf(p)) \in Nat
           /\ IsFiniteSet(InWindow(p)) /\ Cardinality(InWindow(p)) \in Nat
           /\ Cardinality(InWindow(p)) <= Cardinality(ThreadsOf(p))
  <1>1. ThreadsOf(p) \subseteq Threads /\ InWindow(p) \subseteq ThreadsOf(p)
    BY DEF ThreadsOf, InWindow
  <1>2. IsFiniteSet(ThreadsOf(p))
    BY <1>1, FS_Subset, ProcsAssumption
  <1>3. IsFiniteSet(InWindow(p)) /\ Cardinality(InWindow(p)) <= Cardinality(ThreadsOf(p))
    BY <1>1, <1>2, FS_Subset
  <1> QED  BY <1>2, <1>3, FS_CardinalityType

(* The same after a step.                                                  *)
LEMMA WindowFiniteNext ==
    ASSUME NEW p \in Procs
    PROVE  /\ IsFiniteSet(InWindow(p)') /\ Cardinality(InWindow(p)') \in Nat
           /\ Cardinality(InWindow(p)') <= Cardinality(ThreadsOf(p))
  <1>1. ThreadsOf(p) \subseteq Threads /\ InWindow(p)' \subseteq ThreadsOf(p)
    BY DEF ThreadsOf, InWindow
  <1>2. IsFiniteSet(ThreadsOf(p))
    BY <1>1, FS_Subset, ProcsAssumption
  <1>3. IsFiniteSet(InWindow(p)') /\ Cardinality(InWindow(p)') <= Cardinality(ThreadsOf(p))
    BY <1>1, <1>2, FS_Subset
  <1> QED  BY <1>2, <1>3, FS_CardinalityType

(* A step that lets no thread into the window and counts no message.       *)
LEMMA PendingQuiet ==
    ASSUME TypeInv, PendingInv,
           g_pending_msg' \in [Procs -> Int],
           \A p \in Procs : g_pending_msg'[p] <= g_pending_msg[p],
           \A u \in Threads : pc'[u] = "fetch_add" => pc[u] = "fetch_add"
    PROVE  PendingInv'
  <1> SUFFICES ASSUME NEW p \in Procs
               PROVE  g_pending_msg'[p] + Cardinality(InWindow(p)')
                         <= g_pending_msg_max + Cardinality(ThreadsOf(p))
    BY DEF PendingInv, ThreadsOf
  <1>1. InWindow(p)' \subseteq InWindow(p)
    BY DEF InWindow, ThreadsOf
  <1>2. Cardinality(InWindow(p)') <= Cardinality(InWindow(p))
    BY <1>1, WindowFinite, FS_Subset
  <1>3. g_pending_msg[p] \in Int /\ g_pending_msg'[p] \in Int /\ g_pending_msg_max \in Nat
    BY ConfigAssumption DEF TypeInv, TypeOK, SignalTypeOK
  <1>4. g_pending_msg[p] + Cardinality(InWindow(p))
           <= g_pending_msg_max + Cardinality(ThreadsOf(p))
    BY DEF PendingInv
  <1>5. /\ g_pending_msg'[p] <= g_pending_msg[p]
        /\ Cardinality(InWindow(p)) \in Nat /\ Cardinality(InWindow(p)') \in Nat
        /\ Cardinality(ThreadsOf(p)) \in Nat
    BY WindowFinite, WindowFiniteNext
  <1> HIDE DEF InWindow, ThreadsOf
  <1> QED  BY <1>2, <1>3, <1>4, <1>5

(* send and put: a thread enters the window only when the counter is not   *)
(* above the limit.                                                        *)
LEMMA PendingSendOrPut ==
    ASSUME TypeInv, PendingInv, NEW t \in Threads, NEW o \in Ops, SendOrPut(t, o)
    PROVE  PendingInv'
  <1>1. g_pending_msg' = g_pending_msg
    BY DEF SendOrPut, signalVars
  <1>2. g_pending_msg \in [Procs -> Int] /\ g_pending_msg_max \in Nat
    BY ConfigAssumption DEF TypeInv, TypeOK, SignalTypeOK
  <1>3. pc \in [Threads -> Steps]
    BY DEF TypeInv, TypeOK, FramesTypeOK
  <1>4. CASE g_pending_msg_max = 0
    <2>1. \A u \in Threads : pc'[u] = "fetch_add" => pc[u] = "fetch_add"
      BY <1>3, <1>4 DEF SendOrPut, Goto
    <2> QED  BY <1>1, <1>2, <2>1, PendingQuiet
  <1>5. CASE g_pending_msg_max > 0
    <2> SUFFICES ASSUME NEW p \in Procs
                 PROVE  g_pending_msg[p] + Cardinality(InWindow(p)')
                           <= g_pending_msg_max + Cardinality(ThreadsOf(p))
      BY <1>1 DEF PendingInv, ThreadsOf
    <2>1. CASE p = o.proc
      <3>1. g_pending_msg[p] <= g_pending_msg_max
        BY <1>5, <2>1, <1>2 DEF SendOrPut, Admits
      <3>2. /\ Cardinality(InWindow(p)') \in Nat /\ Cardinality(ThreadsOf(p)) \in Nat
            /\ Cardinality(InWindow(p)') <= Cardinality(ThreadsOf(p))
        BY WindowFinite, WindowFiniteNext
      <3>3. g_pending_msg[p] \in Int
        BY <1>2
      <3> HIDE DEF InWindow, ThreadsOf
      <3> QED  BY <1>2, <3>1, <3>2, <3>3
    <2>2. CASE p # o.proc
      <3>1. InWindow(p)' = InWindow(p)
        BY <1>3, <2>2 DEF SendOrPut, MayIssue, Goto, InWindow, ThreadsOf
      <3> QED  BY <3>1 DEF PendingInv
    <2> QED  BY <2>1, <2>2
  <1> QED  BY <1>2, <1>4, <1>5

(* fetch_add: the thread leaves the window as its message is counted.      *)
LEMMA PendingFetchAdd ==
    ASSUME TypeInv, PendingInv, NEW t \in Threads, FetchAdd(t)
    PROVE  PendingInv'
  <1> DEFINE q == ThreadProc[t]
  <1>1. pc \in [Threads -> Steps] /\ g_pending_msg \in [Procs -> Int] /\ q \in Procs
    BY ProcsAssumption DEF TypeInv, TypeOK, FramesTypeOK, SignalTypeOK
  <1> SUFFICES ASSUME NEW p \in Procs
               PROVE  g_pending_msg'[p] + Cardinality(InWindow(p)')
                         <= g_pending_msg_max + Cardinality(ThreadsOf(p))
    BY DEF PendingInv, ThreadsOf
  <1>2. CASE p = q
    <2>1. InWindow(p)' = InWindow(p) \ {t} /\ t \in InWindow(p)
      BY <1>1, <1>2 DEF FetchAdd, Goto, InWindow, ThreadsOf
    <2>2. Cardinality(InWindow(p)') = Cardinality(InWindow(p)) - 1
      BY <2>1, WindowFinite, FS_RemoveElement
    <2>3. g_pending_msg'[p] = g_pending_msg[p] + 1 /\ g_pending_msg[p] \in Int
      BY <1>1, <1>2 DEF FetchAdd
    <2>4. Cardinality(InWindow(p)) \in Nat
      BY WindowFinite
    <2>5. g_pending_msg[p] + Cardinality(InWindow(p))
             <= g_pending_msg_max + Cardinality(ThreadsOf(p))
      BY DEF PendingInv
    <2> HIDE DEF InWindow, ThreadsOf, q
    <2> QED  BY <2>2, <2>3, <2>4, <2>5
  <1>3. CASE p # q
    <2>1. InWindow(p)' = InWindow(p)
      BY <1>1, <1>3 DEF FetchAdd, Goto, InWindow, ThreadsOf
    <2>2. g_pending_msg'[p] = g_pending_msg[p]
      BY <1>1, <1>3 DEF FetchAdd
    <2> QED  BY <2>1, <2>2 DEF PendingInv
  <1> QED  BY <1>2, <1>3

(* Every other step leaves the counter alone or lowers it, and lets nobody *)
(* into the window.                                                        *)
LEMMA PendingNext ==
    ASSUME TypeInv, PendingInv, Next
    PROVE  PendingInv'
  <1>1. pc \in [Threads -> Steps] /\ g_pending_msg \in [Procs -> Int]
    BY DEF TypeInv, TypeOK, FramesTypeOK, SignalTypeOK
  <1>2. ASSUME UNCHANGED g_pending_msg,
               \A u \in Threads : pc'[u] = "fetch_add" => pc[u] = "fetch_add"
        PROVE  PendingInv'
    BY <1>1, <1>2, PendingQuiet
  <1>3. ASSUME NEW t \in Threads, NEW o \in Ops, Recv(t, o)
        PROVE  PendingInv'
    BY <1>1, <1>2, <1>3 DEF Recv, Goto, signalVars
  <1>4. ASSUME NEW t \in Threads, Post(t)
        PROVE  PendingInv'
    BY <1>1, <1>2, <1>4 DEF Post, Goto, signalVars
  <1>5. ASSUME NEW t \in Threads, NEW d \in Devices, ReadPutReq(t, d)
        PROVE  PendingInv'
    BY <1>1, <1>2, <1>5 DEF ReadPutReq, Goto, signalVars
  <1>6. ASSUME NEW t \in Threads, PutStep(t)
        PROVE  PendingInv'
    <2>1. UNCHANGED g_pending_msg
      BY <1>6 DEF PutStep, TryLockPut, TestPut, CopyPut, PostPutRecv, UnlockPut,
                  SignalPut, signalVars
    <2>2. \A u \in Threads : pc'[u] = "fetch_add" => pc[u] = "fetch_add"
      BY <1>1, <1>6 DEF PutStep, TryLockPut, TestPut, CopyPut, PostPutRecv, UnlockPut,
                        SignalPut, Goto
    <2> QED  BY <1>2, <2>1, <2>2
  <1>7. ASSUME NEW t \in Threads, ManagerStep(t), UNCHANGED signalVars
        PROVE  PendingInv'
    <2>1. \A u \in Threads : pc'[u] = "fetch_add" => pc[u] = "fetch_add"
      BY <1>1, <1>7 DEF ManagerStep, AddEntryLock, AddEntryPush, ReadEmpty, TryLockManager,
                        FoundEmpty, TestFront, PushBack, UnlockManager, Goto, Return
    <2> QED  BY <1>2, <1>7, <2>1 DEF signalVars
  <1>8. ASSUME NEW t \in Threads, SignalStep(t)
        PROVE  PendingInv'
    <2>1. \A u \in Threads : pc'[u] = "fetch_add" => pc[u] = "fetch_add"
      BY <1>1, <1>8 DEF SignalStep, FetchSub, SignalEntry, PollCq, Goto, Return, frameVars
    <2>2. CASE FetchSub(t)
      <3>1. ThreadProc[t] \in Procs
        BY ProcsAssumption
      <3>2. g_pending_msg' \in [Procs -> Int]
        BY <1>1, <2>2, <3>1 DEF FetchSub
      <3>3. \A p \in Procs : g_pending_msg'[p] <= g_pending_msg[p]
        BY <1>1, <2>2, <3>1 DEF FetchSub
      <3> QED  BY <2>1, <3>2, <3>3, PendingQuiet
    <2>3. CASE SignalEntry(t) \/ \E c \in Comps : PollCq(t, c)
      BY <1>2, <2>1, <2>3 DEF SignalEntry, PollCq
    <2> QED  BY <1>8, <2>2, <2>3 DEF SignalStep
  <1>9. ASSUME UNCHANGED <<frameVars, signalVars>>
        PROVE  PendingInv'
    BY <1>2, <1>9 DEF frameVars, signalVars
  <1> QED
    BY <1>3, <1>4, <1>5, <1>6, <1>7, <1>8, <1>9, PendingSendOrPut, PendingFetchAdd
    DEF Next, CallStep

(* The counter never passes the limit by more than one message per thread  *)
(* of the process: the overshoot that the load and the fetch_add of send   *)
(* and put allow, being two steps, is bounded.                             *)
THEOREM PendingHolds == Spec => []PendingBound
  <1>1. Init => PendingInv
    <2> SUFFICES ASSUME Init, NEW p \in Procs
                 PROVE  g_pending_msg[p] + Cardinality(InWindow(p))
                           <= g_pending_msg_max + Cardinality(ThreadsOf(p))
      BY DEF PendingInv
    <2>1. g_pending_msg[p] = 0
      BY DEF Init, SignalInit
    <2>2. /\ Cardinality(InWindow(p)) \in Nat /\ Cardinality(ThreadsOf(p)) \in Nat
          /\ Cardinality(InWindow(p)) <= Cardinality(ThreadsOf(p))
      BY WindowFinite
    <2> HIDE DEF InWindow, ThreadsOf
    <2> QED  BY <2>1, <2>2, ConfigAssumption
  <1>2. TypeInv /\ PendingInv /\ [Next]_vars => PendingInv'
    <2> SUFFICES ASSUME TypeInv, PendingInv, [Next]_vars
                 PROVE  PendingInv'
      OBVIOUS
    <2>1. CASE UNCHANGED vars
      BY <2>1 DEF PendingInv, InWindow, ThreadsOf, vars, frameVars, signalVars
    <2> QED  BY <2>1, PendingNext
  <1>3. TypeInv /\ PendingInv => PendingBound
    <2> SUFFICES ASSUME TypeInv, PendingInv, NEW p \in Procs
                 PROVE  g_pending_msg[p] <= g_pending_msg_max + Cardinality(ThreadsOf(p))
      BY DEF PendingBound
    <2>1. g_pending_msg[p] \in Int /\ g_pending_msg_max \in Nat
      BY ConfigAssumption DEF TypeInv, TypeOK, SignalTypeOK
    <2>2. Cardinality(InWindow(p)) \in Nat /\ Cardinality(ThreadsOf(p)) \in Nat
      BY WindowFinite
    <2>3. g_pending_msg[p] + Cardinality(InWindow(p))
             <= g_pending_msg_max + Cardinality(ThreadsOf(p))
      BY DEF PendingInv
    <2> HIDE DEF InWindow, ThreadsOf
    <2> QED  BY <2>1, <2>2, <2>3
  <1> QED  BY <1>1, <1>2, <1>3, TypeCorrect, PTL DEF Spec

-----------------------------------------------------------------------------
(* The counter is exact.                                                   *)

(* A send or put holds its slot while MPI works on it, and before and      *)
(* after that while a thread takes one of these steps with it.             *)
Busy(o) == mpi_req[o] \in {"active", "done"}
AtSlotStep(t, o) == entry[t] = o /\ pc[t] \in {"post", "mgr_unlock", "fetch_sub"}

Slots(p) == {o \in Ops : o.proc = p /\ HoldsSlot(o)}

(* Only the thread that takes a step can change who holds a slot.          *)
LEMMA SlotKept ==
    ASSUME NEW o, NEW t \in Threads,
           \A u \in Threads : u # t => pc'[u] = pc[u] /\ entry'[u] = entry[u],
           Counted(o) => ((Busy(o) \/ AtSlotStep(t, o))' <=> (Busy(o) \/ AtSlotStep(t, o)))
    PROVE  HoldsSlot(o)' <=> HoldsSlot(o)
  BY DEF HoldsSlot, Busy, AtSlotStep

(* What a step may do to the slots and the counter of a process: nothing,  *)
(* or one message takes or gives back one slot, and is counted.            *)
SlotMove(p) ==
    \/ Slots(p)' = Slots(p) /\ g_pending_msg'[p] = g_pending_msg[p]
    \/ \E e \in Ops : /\ e \notin Slots(p) /\ mpi_req[e] = "none"
                     /\ Slots(p)' = Slots(p) \cup {e}
                     /\ g_pending_msg'[p] = g_pending_msg[p] + 1
    \/ \E e \in Slots(p) : /\ Slots(p)' = Slots(p) \ {e}
                           /\ g_pending_msg'[p] = g_pending_msg[p] - 1

(* A step after which the same operations hold a slot.                     *)
LEMMA SlotsKept ==
    ASSUME UNCHANGED g_pending_msg, \A o \in Ops : HoldsSlot(o)' <=> HoldsSlot(o)
    PROVE  \A p \in Procs : SlotMove(p)
  BY DEF Slots, SlotMove

(* fetch_add: the message a thread is about to post takes a slot it did    *)
(* not hold.                                                               *)
LEMMA SlotTaken ==
    ASSUME PlaceInv, g_pending_msg_max > 0, NEW t \in Threads, FetchAdd(t)
    PROVE  \A p \in Procs : SlotMove(p)
  <1> USE DEF PlaceInv, LockInv, TypeInv, TypeOK, FramesTypeOK, SignalTypeOK
  <1>1. PICK e \in Ops : e = entry[t] /\ e.proc = ThreadProc[t]
    BY FrameFacts DEF FetchAdd, WithEntry, PostSteps
  <1>2. Counted(e) /\ mpi_req[e] = "none"
    BY <1>1 DEF FetchAdd, StageOK, StageOf, Fresh
  <1>3. HandOnce(e)
    BY <1>1 DEF MostOnce, PlacedOnce
  <1>4. ~HoldsSlot(e)
    BY <1>1, <1>2, <1>3 DEF HoldsSlot, HandOnce, FetchAdd
  <1>5. HoldsSlot(e)'
    BY <1>1, <1>2 DEF HoldsSlot, FetchAdd, Goto
  <1>6. ASSUME NEW o \in Ops, o # e PROVE HoldsSlot(o)' <=> HoldsSlot(o)
    BY <1>1, <1>6, SlotKept DEF FetchAdd, Goto, Busy, AtSlotStep, mpiVars
  <1>7. ASSUME NEW p \in Procs PROVE SlotMove(p)
    <2>1. CASE p = ThreadProc[t]
      <3>1. Slots(p)' = Slots(p) \cup {e} /\ e \notin Slots(p)
        BY <1>1, <1>4, <1>5, <1>6, <2>1 DEF Slots
      <3>2. g_pending_msg'[p] = g_pending_msg[p] + 1
        BY <2>1 DEF FetchAdd
      <3> QED  BY <1>2, <3>1, <3>2 DEF SlotMove
    <2>2. CASE p # ThreadProc[t]
      <3>1. Slots(p)' = Slots(p)
        BY <1>1, <1>6, <2>2 DEF Slots
      <3>2. g_pending_msg'[p] = g_pending_msg[p]
        BY <2>2 DEF FetchAdd
      <3> QED  BY <3>1, <3>2 DEF SlotMove
    <2> QED  BY <2>1, <2>2
  <1> QED  BY <1>7

(* fetch_sub: the slot that is given back is the finished message's, and   *)
(* it holds it no longer.                                                  *)
LEMMA SlotGiven ==
    ASSUME PlaceInv, g_pending_msg_max > 0, NEW t \in Threads, FetchSub(t),
           UNCHANGED mpiVars
    PROVE  \A p \in Procs : SlotMove(p)
  <1> USE DEF PlaceInv, LockInv, TypeInv, TypeOK, FramesTypeOK, SignalTypeOK
  <1>1. PICK e \in Ops : e = entry[t] /\ e.proc = ThreadProc[t]
    BY FrameFacts DEF FetchSub, WithEntry, SignalSteps
  <1>2. Counted(e) /\ mpi_req[e] = "freed"
    BY <1>1 DEF FetchSub, StageOK, StageOf, Finished, SignalSteps
  <1>3. HandOnce(e)
    BY <1>1 DEF MostOnce, PlacedOnce
  <1>4. HoldsSlot(e)
    BY <1>1, <1>2 DEF HoldsSlot, FetchSub
  <1>5. ~HoldsSlot(e)'
    BY <1>1, <1>2, <1>3 DEF HoldsSlot, HandOnce, FetchSub, Goto, mpiVars
  <1>6. ASSUME NEW o \in Ops, o # e PROVE HoldsSlot(o)' <=> HoldsSlot(o)
    BY <1>1, <1>6, SlotKept DEF FetchSub, Goto, Busy, AtSlotStep, mpiVars
  <1>7. ASSUME NEW p \in Procs PROVE SlotMove(p)
    <2>1. CASE p = ThreadProc[t]
      <3>1. Slots(p)' = Slots(p) \ {e} /\ e \in Slots(p)
        BY <1>1, <1>4, <1>5, <1>6, <2>1 DEF Slots
      <3>2. g_pending_msg'[p] = g_pending_msg[p] - 1
        BY <2>1 DEF FetchSub
      <3> QED  BY <1>2, <3>1, <3>2 DEF SlotMove
    <2>2. CASE p # ThreadProc[t]
      <3>1. Slots(p)' = Slots(p)
        BY <1>1, <1>6, <2>2 DEF Slots
      <3>2. g_pending_msg'[p] = g_pending_msg[p]
        BY <2>2 DEF FetchSub
      <3> QED  BY <3>1, <3>2 DEF SlotMove
    <2> QED  BY <2>1, <2>2
  <1> QED  BY <1>7

(* The entry that do_progress pops is one MPI works on.                    *)
LEMMA FrontLive ==
    ASSUME PlaceInv, NEW t \in Threads, TestFront(t)
    PROVE  \E x \in Ops : /\ x = Head(entries[ManagerOf(dev[t])])
                         /\ mpi_req[x] \in {"active", "done"}
  <1> USE DEF PlaceInv, LockInv, TypeInv, TypeOK, ManagerTypeOK
  <1>1. dev[t] \in Devices
    BY FrameFacts DEF TestFront, ProgressSteps, ManagerSteps, ManagerLocked
  <1>2. PICK m \in Managers : m = ManagerOf(dev[t])
    BY <1>1 DEF Managers
  <1>3. entries[m] \in Seq(Ops) /\ entries[m] # <<>>
    BY <1>2 DEF TestFront
  <1>4. Head(entries[m]) = entries[m][1] /\ 1 \in DOMAIN entries[m] /\ entries[m][1] \in Ops
    BY <1>3
  <1> QED  BY <1>2, <1>4 DEF StageOK

(* Every other step leaves the slots with those who hold them: a finished  *)
(* send or put goes on to fetch_sub, a finished receive does not.          *)
LEMMA SlotsNext ==
    ASSUME PlaceInv, g_pending_msg_max > 0, Next
    PROVE  \A p \in Procs : SlotMove(p)
  <1> USE DEF PlaceInv, LockInv, TypeInv, TypeOK, FramesTypeOK, MpiTypeOK
  <1> DEFINE Same(t, o) == Counted(o) =>
                ((Busy(o) \/ AtSlotStep(t, o))' <=> (Busy(o) \/ AtSlotStep(t, o)))
  <1>1. ASSUME NEW t \in Threads, UNCHANGED g_pending_msg, \A o \in Ops : Same(t, o),
               \/ CallStep(t) \/ FetchAdd(t) \/ Post(t)
               \/ \E d \in Devices : ReadPutReq(t, d)
               \/ PutStep(t) \/ ManagerStep(t) \/ SignalStep(t)
        PROVE  \A p \in Procs : SlotMove(p)
    <2>1. \A u \in Threads : u # t => pc'[u] = pc[u] /\ entry'[u] = entry[u]
      BY <1>1, OneFrame
    <2>2. \A o \in Ops : HoldsSlot(o)' <=> HoldsSlot(o)
      BY <1>1, <2>1, SlotKept
    <2> QED  BY <1>1, <2>2, SlotsKept
  <1>2. ASSUME NEW t \in Threads, CallStep(t) PROVE \A p \in Procs : SlotMove(p)
    <2>1. PICK x \in Ops : SendOrPut(t, x) \/ Recv(t, x)
      BY <1>2 DEF CallStep
    <2>2. \A o \in Ops : Same(t, o)
      BY <2>1 DEF SendOrPut, Recv, MayIssue, Goto, Busy, AtSlotStep, mpiVars, IsRecv, Counted
    <2>3. UNCHANGED g_pending_msg
      BY <2>1 DEF SendOrPut, Recv, signalVars
    <2> QED  BY <1>1, <1>2, <2>2, <2>3
  <1>3. ASSUME NEW t \in Threads, Post(t) PROVE \A p \in Procs : SlotMove(p)
    <2>1. entry[t] \in Ops
      BY <1>3, FrameFacts DEF Post, WithEntry, PostSteps
    <2>2. \A o \in Ops : Same(t, o)
      BY <1>3, <2>1 DEF Post, StartRequest, Goto, Busy, AtSlotStep
    <2> QED  BY <1>1, <1>3, <2>2 DEF Post, signalVars
  <1>4. ASSUME NEW t \in Threads, NEW d \in Devices, ReadPutReq(t, d) PROVE \A p \in Procs : SlotMove(p)
    <2>1. \A o \in Ops : Same(t, o)
      BY <1>4 DEF ReadPutReq, Goto, Busy, AtSlotStep, mpiVars
    <2> QED  BY <1>1, <1>4, <2>1 DEF ReadPutReq, signalVars
  <1>5. ASSUME NEW t \in Threads, PutStep(t) PROVE \A p \in Procs : SlotMove(p)
    <2>1. \A o \in Ops : Same(t, o)
      BY <1>5 DEF PutStep, TryLockPut, TestPut, CopyPut, PostPutRecv, UnlockPut, SignalPut,
                  Goto, Busy, AtSlotStep, mpiVars
    <2>2. UNCHANGED g_pending_msg
      BY <1>5 DEF PutStep, TryLockPut, TestPut, CopyPut, PostPutRecv, UnlockPut, SignalPut,
                  signalVars
    <2> QED  BY <1>1, <1>5, <2>1, <2>2
  <1>6. ASSUME NEW t \in Threads, ManagerStep(t), UNCHANGED signalVars PROVE \A p \in Procs : SlotMove(p)
    <2>1. CASE TestFront(t)
      <3>1. PICK x \in Ops : x = Head(entries[ManagerOf(dev[t])]) /\ mpi_req[x] \in {"active", "done"}
        BY <2>1, FrontLive
      <3>2. \A o \in Ops : Same(t, o)
        BY <2>1, <3>1 DEF TestFront, FreeRequest, Goto, Busy, AtSlotStep, mpiVars
      <3> QED  BY <1>1, <1>6, <3>2 DEF signalVars
    <2>2. CASE UnlockManager(t) /\ UNCHANGED mpiVars
      <3>1. \A o \in Ops : Same(t, o)
        BY <2>2 DEF UnlockManager, Goto, Busy, AtSlotStep, mpiVars
      <3> QED  BY <1>1, <1>6, <3>1 DEF signalVars
    <2>3. CASE AddEntryLock(t) \/ AddEntryPush(t) \/ ReadEmpty(t) \/ TryLockManager(t)
               \/ PushBack(t) \/ FoundEmpty(t)
      <3>1. UNCHANGED mpi_req
        BY <1>6, <2>3 DEF ManagerStep, FoundEmpty, TestFront, UnlockManager, AddEntryLock,
                          AddEntryPush, ReadEmpty, TryLockManager, PushBack, mpiVars
      <3>2. \A o \in Ops : Same(t, o)
        BY <2>3, <3>1 DEF AddEntryLock, AddEntryPush, ReadEmpty, TryLockManager, PushBack,
                          FoundEmpty, Goto, Return, Busy, AtSlotStep
      <3> QED  BY <1>1, <1>6, <3>2 DEF signalVars
    <2> QED  BY <1>6, <2>1, <2>2, <2>3 DEF ManagerStep
  <1>7. ASSUME NEW t \in Threads, SignalEntry(t) \/ \E c \in Comps : PollCq(t, c),
               UNCHANGED mpiVars
        PROVE  \A p \in Procs : SlotMove(p)
    <2>1. \A o \in Ops : Same(t, o)
      BY <1>7 DEF SignalEntry, PollCq, Goto, Return, Busy, AtSlotStep, mpiVars, frameVars
    <2>2. UNCHANGED g_pending_msg
      BY <1>7 DEF SignalEntry, PollCq
    <2> QED  BY <1>1, <1>7, <2>1, <2>2 DEF SignalStep
  <1>8. ASSUME MpiStep, UNCHANGED <<frameVars, signalVars>> PROVE \A p \in Procs : SlotMove(p)
    <2>1. \A o \in Ops : Busy(o)' <=> Busy(o)
      BY <1>8 DEF MpiStep, MpiMatch, MpiPutArrive, MpiSendComplete, Busy
    <2>2. \A o \in Ops : HoldsSlot(o)' <=> HoldsSlot(o)
      BY <1>8, <2>1 DEF HoldsSlot, Busy, frameVars
    <2> QED  BY <1>8, <2>2, SlotsKept DEF signalVars
  <1> QED  BY <1>2, <1>3, <1>4, <1>5, <1>6, <1>7, <1>8, SlotTaken, SlotGiven
           DEF Next, SignalStep

(* So every step moves a slot and the counter together.                    *)
LEMMA SlotsStep ==
    ASSUME PlaceInv, g_pending_msg_max > 0, [Next]_vars
    PROVE  \A p \in Procs : SlotMove(p)
  <1>1. CASE UNCHANGED vars
    <2>1. \A o \in Ops : HoldsSlot(o)' <=> HoldsSlot(o)
      BY <1>1 DEF HoldsSlot, vars, mpiVars, frameVars
    <2> QED  BY <1>1, <2>1, SlotsKept DEF vars, signalVars
  <1> QED  BY <1>1, SlotsNext

(* g_pending_msg is exactly the number of sends and puts between their     *)
(* fetch_add and their fetch_sub: no slot leaks, and none is given back    *)
(* twice, so no send or put is refused for a slot that nobody holds.       *)
THEOREM PendingCounted == Spec => []PendingExact
  <1>1. Init => PendingExact
    <2> SUFFICES ASSUME Init, NEW p \in Procs
                 PROVE  g_pending_msg[p] = Cardinality(Slots(p))
      BY DEF PendingExact, Slots
    <2>1. Slots(p) = {}
      BY DEF Init, MpiInit, FramesInit, Slots, HoldsSlot
    <2> QED  BY <2>1, FS_EmptySet DEF Init, SignalInit
  <1>2. PlaceInv /\ PendingExact /\ [Next]_vars => PendingExact'
    <2> SUFFICES ASSUME PlaceInv, PendingExact, [Next]_vars, g_pending_msg_max > 0
                 PROVE  PendingExact'
      BY DEF PendingExact
    <2>1. \A p \in Procs : SlotMove(p)
      BY SlotsStep
    <2>2. ASSUME NEW p \in Procs PROVE g_pending_msg'[p] = Cardinality(Slots(p)')
      <3>1. IsFiniteSet(Slots(p)) /\ g_pending_msg[p] = Cardinality(Slots(p))
        BY OpsAssumption, FS_Subset DEF Slots, PendingExact
      <3>2. SlotMove(p)
        BY <2>1
      <3> QED  BY <3>1, <3>2, FS_AddElement, FS_RemoveElement, FS_CardinalityType DEF SlotMove
    <2> QED  BY <2>2 DEF PendingExact, Slots
  <1> QED  BY <1>1, <1>2, PlaceCorrect, PTL DEF Spec
=============================================================================
