----------------------------- MODULE LciProofs ------------------------------
(***************************************************************************)
(* The LCI backends, for any number of processes, devices and threads: a   *)
(* request_t lives exactly as long as somebody will still use it, and the  *)
(* client sees what lcw.hpp promises.  What makes it hold is that every    *)
(* operation is in one place at a time: with the client, with the call     *)
(* that posts it, with LCI, in a queue, or reported.                       *)
(***************************************************************************)
EXTENDS BackendLci, FiniteSetTheorems, TLAPS

NumDevices == Cardinality(DeviceIds)

(* TypeOK, with the registered objects as a function.                      *)
Types == TypeOK /\ rcomps \in [Procs -> Seq(Comps)]

(* A thread that posts has an operation of the program, of its process.    *)
FrameOK ==
    \A t \in Threads :
       IF pc[t] \in {"post", "return"}
       THEN entry[t] \in program /\ entry[t].proc = ThreadProc[t]
       ELSE entry[t] = NULL

(* The handles of a process's devices are their places in its table, and   *)
(* every device that got its id is registered before the next one.         *)
Registering(t, p) == ThreadProc[t] = p /\ pc[t] = "register"
TableOf(p) ==
    /\ \A t \in Threads : Registering(t, p) => dev[t] = <<p, g_ndevices[p] - 1>>
    /\ Len(rcomps[p]) = IF \E t \in Threads : Registering(t, p)
                        THEN g_ndevices[p] - 1 ELSE g_ndevices[p]
    /\ \A k \in DeviceIds :
          IF k < Len(rcomps[p])
          THEN rcomp[<<p, k>>] = k + 1 /\ rcomps[p][k + 1] = PutComp[<<p, k>>]
          ELSE rcomp[<<p, k>>] = 0
TableOK ==
    /\ \A p \in Procs : TableOf(p)
    /\ \A p \in Procs, t, u \in Threads : Registering(t, p) /\ Registering(u, p) => t = u

(* Nothing is posted before all devices are there.                         *)
Ready ==
    posted # {} \/ net # {} \/ (\E t \in Threads : pc[t] \in {"post", "return"}) => Allocated

(* What is in the network is the program's, and where there are devices,   *)
(* alloc_device found the puts short enough.                               *)
PutsOK ==
    /\ net \subseteq program
    /\ \A p \in Procs : g_ndevices[p] # 0 => PutLengthFits

(* What a status will be reported as, and what it can be.                  *)
StatusKey(st) ==
    IF st.user_context = NULL THEN <<"arrival", st.msg>> ELSE <<"operation", st.user_context>>
GoodStatus(st) ==
    /\ st \in Statuses /\ st.msg \in Ops
    /\ \/ /\ st.user_context = NULL /\ IsPut(st.msg)
          /\ lib = "LCI" => st.type = "LCI_MEDIUM"
       \/ /\ st.user_context \in Ops
          /\ IF IsRecv(st.user_context) THEN Matches(st.msg, st.user_context)
                                        ELSE st.msg = st.user_context
StatusesOK == \A c \in Comps : \A i \in DOMAIN cq[c] : GoodStatus(cq[c][i])

(* Nothing is reported twice.                                              *)
Waits(k) == \E c \in Comps : \E i \in DOMAIN cq[c] : StatusKey(cq[c][i]) = k
Seen(k) == \E c \in Comps : \E r \in polled[c] : Key(r) = k
Reported(k) == Waits(k) \/ Seen(k)
QueueOnce ==
    /\ \A c, d \in Comps : \A i \in DOMAIN cq[c], j \in DOMAIN cq[d] :
          StatusKey(cq[c][i]) = StatusKey(cq[d][j]) => c = d /\ i = j
    /\ \A k : ~(Waits(k) /\ Seen(k))

(* An operation is in one place, and has its request_t in three of them.   *)
Held(o) == \E t \in Threads : HeldByCall(t, o)
Accepted(o) == o \in posted \/ Reported(<<"operation", o>>)
PlaceOf(o) ==
    /\ ~(o \in todo /\ Held(o)) /\ ~(o \in todo /\ Accepted(o)) /\ ~(Held(o) /\ Accepted(o))
    /\ ~(o \in posted /\ Reported(<<"operation", o>>))
    /\ \A t, u \in Threads : HeldByCall(t, o) /\ HeldByCall(u, o) => t = u
    /\ ctxs[o] = IF Held(o) \/ o \in posted \/ Waits(<<"operation", o>>) THEN 1 ELSE 0
PlacesOK == \A o \in Ops : PlaceOf(o)

(* A message is taken by one receive or arrives once.                      *)
Takes(st) == IF st.user_context = NULL THEN TRUE ELSE IsRecv(st.user_context)
Taken(s) ==
    \E c \in Comps :
       \/ \E i \in DOMAIN cq[c] : cq[c][i].msg = s /\ Takes(cq[c][i])
       \/ \E r \in polled[c] : r.buffer = s /\ r.op \in {"RECV", "PUT_SIGNAL"}
NetOK ==
    \A s \in Ops : /\ s \in net => Accepted(s) /\ ~Taken(s)
                   /\ Taken(s) => Accepted(s)

LciInv ==
    /\ Types /\ FrameOK /\ TableOK /\ Ready /\ PutsOK
    /\ StatusesOK /\ QueueOnce /\ PlacesOK /\ NetOK

-----------------------------------------------------------------------------
(* What the constants are.                                                 *)
LEMMA Constants ==
    /\ NumDevices \in Nat /\ DeviceIds = 0 .. NumDevices - 1
    /\ \A p \in Procs, i \in DeviceIds : <<p, i>> \in Devices /\ PutComp[<<p, i>>] \in Comps
    /\ \A t \in Threads : ThreadProc[t] \in Procs
    /\ \A o \in Ops : /\ o # NULL /\ o.op \in OpTypes /\ o.comp \in Comps /\ o.length \in Nat
                      /\ o.proc \in Procs /\ o.rank \in Procs /\ o.dev \in DeviceIds
                      /\ DeviceOf(o) = <<o.proc, o.dev>>
  <1>1. NumDevices \in Nat
    BY FS_CardinalityType, LciAssumption DEF NumDevices
  <1>2. DeviceIds = 0 .. NumDevices - 1
    BY LciAssumption DEF NumDevices
  <1> QED  BY <1>1, <1>2, ProcsAssumption, OpsAssumption DEF Devices, DeviceOf

(* get_request_from_status makes a completion of a status, and reads the   *)
(* length of a message from the right member of the union.                 *)
LEMMA RequestGood ==
    ASSUME lib \in {"LCI", "LCI2"}, NEW st, GoodStatus(st)
    PROVE  /\ RequestFromStatus(st) \in Completion
           /\ Key(RequestFromStatus(st)) = StatusKey(st)
           /\ RequestFromStatus(st).buffer = st.msg
           /\ RequestFromStatus(st).op \in {"RECV", "PUT_SIGNAL"} <=> Takes(st)
           /\ Takes(st) => RequestFromStatus(st).length = st.msg.length
           /\ RequestFromStatus(st).user_context = st.user_context
  <1> DEFINE o == st.user_context
             s == st.msg
  <1>1. s \in Ops /\ s.length \in Nat /\ s.proc \in Procs
    BY Constants DEF GoodStatus
  <1>2. st.type \in {"LCI_MEDIUM", "LCI_LONG"}
    BY DEF GoodStatus, Statuses
  <1>3. StatusLength(st) = s.length /\ (st.type = "LCI_MEDIUM" => MbufferLength(st) = s.length)
    BY <1>2 DEF StatusLength, MbufferLength, LbufferLength
  <1>4. CASE o = NULL
    <2>1. (lib = "LCI" => st.type = "LCI_MEDIUM") /\ o \notin Ops
      BY <1>1, <1>4, Constants DEF GoodStatus
    <2>2. RequestFromStatus(st) = [op |-> "PUT_SIGNAL", user_context |-> NULL,
                                   rank |-> s.proc, length |-> s.length, buffer |-> s]
      BY <1>3, <1>4, <2>1 DEF RequestFromStatus
    <2> QED  BY <1>1, <1>4, <2>2 DEF Completion, Key, StatusKey, Takes
  <1>5. CASE o # NULL
    <2>1. o \in Ops /\ o.op \in {"SEND", "RECV", "PUT"} /\ o.rank \in Procs /\ o.length \in Nat
      BY <1>5, Constants DEF GoodStatus, OpTypes
    <2>2. RequestFromStatus(st) = [op |-> o.op, user_context |-> o, rank |-> o.rank,
                                   length |-> IF IsRecv(o) THEN s.length ELSE o.length,
                                   buffer |-> s]
      BY <1>3, <1>5 DEF RequestFromStatus
    <2> QED  BY <1>1, <1>5, <2>1, <2>2 DEF Completion, OpTypes, Key, StatusKey, Takes, IsRecv
  <1> QED  BY <1>4, <1>5

(* The library in use does not change, nor what a status is converted to.  *)
LEMMA LibFixed ==
    ASSUME Types, [Next]_vars
    PROVE  /\ lib \in {"LCI", "LCI2"} /\ lib' = lib /\ program' = program
           /\ program \subseteq Ops
           /\ \A st : RequestFromStatus(st)' = RequestFromStatus(st)
  <1>1. lib \in {"LCI", "LCI2"} /\ program \subseteq Ops
    BY LciAssumption DEF Types, TypeOK
  <1>2. lib' = lib /\ program' = program
    BY DEF Next, AllocDevice, RegisterComp, NewRequest, LciPost, LciRetry, Return, Progress,
           SendDone, RecvDone, PutArrives, PollCq, FreeDevice, vars
  <1>3. \A st : RequestFromStatus(st)' = RequestFromStatus(st)
    BY <1>2 DEF RequestFromStatus, StatusLength, MbufferLength, LbufferLength
  <1> QED  BY <1>1, <1>2, <1>3

-----------------------------------------------------------------------------
(* Reports.                                                                *)

(* What a new element does to a queue.                                     *)
LEMMA Queued ==
    ASSUME Types, NEW c \in Comps, NEW st, st \in Statuses,
           cq' = [cq EXCEPT ![c] = Append(@, st)]
    PROVE  /\ cq' \in [Comps -> Seq(Statuses)]
           /\ \A e \in Comps : e # c => cq'[e] = cq[e]
           /\ \E n : /\ DOMAIN cq'[c] = DOMAIN cq[c] \cup {n} /\ n \notin DOMAIN cq[c]
                     /\ cq'[c][n] = st
                     /\ \A i \in DOMAIN cq[c] : cq'[c][i] = cq[c][i]
  <1>1. cq \in [Comps -> Seq(Statuses)] /\ cq[c] \in Seq(Statuses)
    BY DEF Types, TypeOK
  <1>2. cq'[c] = Append(cq[c], st) /\ Append(cq[c], st) \in Seq(Statuses)
    BY <1>1
  <1>3. PICK n \in Nat : n = Len(cq[c]) + 1
    BY <1>1
  <1>4. /\ DOMAIN cq'[c] = DOMAIN cq[c] \cup {n} /\ n \notin DOMAIN cq[c]
        /\ cq'[c][n] = st /\ \A i \in DOMAIN cq[c] : cq'[c][i] = cq[c][i]
    BY <1>1, <1>2, <1>3
  <1> QED  BY <1>1, <1>2, <1>4

(* A signal makes one report, in a queue or by a handler.                  *)
LEMMA SignalEffect ==
    ASSUME Types, StatusesOK, QueueOnce, lib \in {"LCI", "LCI2"}, lib' = lib,
           NEW c \in Comps, NEW st \in Statuses, GoodStatus(st), LciSignal(c, st),
           ~Reported(StatusKey(st))
    PROVE  /\ cq' \in [Comps -> Seq(Statuses)] /\ polled' \in [Comps -> SUBSET Completion]
           /\ StatusesOK' /\ QueueOnce'
           /\ \A k : Waits(k)' <=> (Waits(k) \/ (c \notin Handlers /\ k = StatusKey(st)))
           /\ \A k : Seen(k)' <=> (Seen(k) \/ (c \in Handlers /\ k = StatusKey(st)))
           /\ \A s : Taken(s)' <=> (Taken(s) \/ (s = st.msg /\ Takes(st)))
  <1>1. cq \in [Comps -> Seq(Statuses)] /\ polled \in [Comps -> SUBSET Completion]
    BY DEF Types, TypeOK
  <1>2. PICK r \in Completion : /\ r = RequestFromStatus(st) /\ Key(r) = StatusKey(st)
                                /\ r.buffer = st.msg
                                /\ r.op \in {"RECV", "PUT_SIGNAL"} <=> Takes(st)
    BY RequestGood
  <1>3. CASE c \in Handlers
    <2>1. /\ cq' = cq /\ polled' = [polled EXCEPT ![c] = @ \cup {r}]
          /\ polled'[c] = polled[c] \cup {r}
          /\ \A e \in Comps : e # c => polled'[e] = polled[e]
      BY <1>1, <1>2, <1>3 DEF LciSignal
    <2>2. \A k : Waits(k)' <=> Waits(k)
      BY <2>1 DEF Waits
    <2>3. \A k : Seen(k)' <=> (Seen(k) \/ k = StatusKey(st))
      BY <1>2, <2>1 DEF Seen
    <2>4. \A s : Taken(s)' <=> (Taken(s) \/ (s = st.msg /\ Takes(st)))
      BY <1>2, <2>1 DEF Taken
    <2>5. StatusesOK'
      BY <2>1 DEF StatusesOK, GoodStatus
    <2>6. QueueOnce'
      BY <2>1, <2>2, <2>3 DEF QueueOnce, Reported
    <2>7. polled' \in [Comps -> SUBSET Completion]
      BY <1>1, <2>1
    <2> QED  BY <1>1, <1>3, <2>1, <2>2, <2>3, <2>4, <2>5, <2>6, <2>7
  <1>4. CASE c \notin Handlers
    <2>1. cq' = [cq EXCEPT ![c] = Append(@, st)] /\ polled' = polled
      BY <1>4 DEF LciSignal
    <2>2. /\ cq' \in [Comps -> Seq(Statuses)]
          /\ \A e \in Comps : e # c => cq'[e] = cq[e]
      BY <2>1, Queued
    <2>3. PICK n : /\ DOMAIN cq'[c] = DOMAIN cq[c] \cup {n} /\ n \notin DOMAIN cq[c]
                   /\ cq'[c][n] = st
                   /\ \A i \in DOMAIN cq[c] : cq'[c][i] = cq[c][i]
      BY <2>1, Queued
    <2>4. \A k : Waits(k)' <=> (Waits(k) \/ k = StatusKey(st))
      BY <2>2, <2>3 DEF Waits
    <2>5. \A k : Seen(k)' <=> Seen(k)
      BY <2>1 DEF Seen
    <2>6. ASSUME NEW s PROVE Taken(s)' <=> (Taken(s) \/ (s = st.msg /\ Takes(st)))
      <3> DEFINE InQueue(e) == \E i \in DOMAIN cq[e] : cq[e][i].msg = s /\ Takes(cq[e][i])
                 InQueueNext(e) == \E i \in DOMAIN cq'[e] : cq'[e][i].msg = s /\ Takes(cq'[e][i])
                 Given(e) == \E r1 \in polled[e] : r1.buffer = s /\ r1.op \in {"RECV", "PUT_SIGNAL"}
      <3>1. InQueueNext(c) <=> (InQueue(c) \/ (s = st.msg /\ Takes(st)))
        BY <2>3
      <3>2. \A e \in Comps : e # c => (InQueueNext(e) <=> InQueue(e))
        BY <2>2
      <3>3. Taken(s) <=> \E e \in Comps : InQueue(e) \/ Given(e)
        BY DEF Taken
      <3>4. Taken(s)' <=> \E e \in Comps : InQueueNext(e) \/ Given(e)
        BY <2>1 DEF Taken, Takes, IsRecv
      <3> HIDE DEF InQueue, InQueueNext, Given
      <3> QED  BY <3>1, <3>2, <3>3, <3>4
    <2>7. StatusesOK'
      <3>1. ASSUME NEW e \in Comps, NEW i \in DOMAIN cq'[e] PROVE GoodStatus(cq'[e][i])
        BY <2>2, <2>3, <3>1 DEF StatusesOK
      <3> QED  BY <3>1 DEF StatusesOK, GoodStatus
    <2>8. QueueOnce'
      <3>1. ASSUME NEW d \in Comps, NEW e \in Comps, NEW i \in DOMAIN cq'[d], NEW j \in DOMAIN cq'[e],
                   StatusKey(cq'[d][i]) = StatusKey(cq'[e][j])
            PROVE  d = e /\ i = j
        <4>1. \A a \in Comps : \A m \in DOMAIN cq'[a] :
                 \/ a = c /\ m = n /\ cq'[a][m] = st
                 \/ m \in DOMAIN cq[a] /\ cq'[a][m] = cq[a][m]
          BY <2>2, <2>3
        <4>2. \A a \in Comps : \A m \in DOMAIN cq[a] : StatusKey(cq[a][m]) # StatusKey(st)
          BY DEF Reported, Waits
        <4>3. CASE i \in DOMAIN cq[d] /\ cq'[d][i] = cq[d][i]
                   /\ j \in DOMAIN cq[e] /\ cq'[e][j] = cq[e][j]
          BY <3>1, <4>3 DEF QueueOnce
        <4>4. CASE d = c /\ i = n /\ e = c /\ j = n
          BY <4>4
        <4> QED  BY <3>1, <4>1, <4>2, <4>3, <4>4
      <3>2. \A k : ~(Waits(k)' /\ Seen(k)')
        BY <2>4, <2>5 DEF QueueOnce, Reported
      <3> QED  BY <3>1, <3>2 DEF QueueOnce
    <2> QED  BY <1>1, <1>4, <2>1, <2>2, <2>4, <2>5, <2>6, <2>7, <2>8
  <1> QED  BY <1>3, <1>4

(* poll_cq moves one report from its queue to the client.                  *)
LEMMA PollEffect ==
    ASSUME Types, StatusesOK, QueueOnce, lib \in {"LCI", "LCI2"},
           NEW t \in Threads, NEW c \in Comps, PollCq(t, c)
    PROVE  LET st == Head(cq[c])
           IN  /\ GoodStatus(st) /\ Waits(StatusKey(st))
               /\ cq' \in [Comps -> Seq(Statuses)] /\ polled' \in [Comps -> SUBSET Completion]
               /\ StatusesOK' /\ QueueOnce'
               /\ \A k : Waits(k)' <=> (Waits(k) /\ k # StatusKey(st))
               /\ \A k : Seen(k)' <=> (Seen(k) \/ k = StatusKey(st))
               /\ \A s : Taken(s)' <=> Taken(s)
  <1>1. /\ cq \in [Comps -> Seq(Statuses)] /\ polled \in [Comps -> SUBSET Completion]
        /\ cq[c] \in Seq(Statuses) /\ cq[c] # <<>>
    BY DEF Types, TypeOK, PollCq
  <1>2. PICK st : st = Head(cq[c]) /\ st = cq[c][1] /\ 1 \in DOMAIN cq[c]
    BY <1>1
  <1>3. GoodStatus(st) /\ Waits(StatusKey(st))
    BY <1>2 DEF StatusesOK, Waits
  <1>4. PICK r \in Completion : /\ r = RequestFromStatus(st) /\ Key(r) = StatusKey(st)
                                /\ r.buffer = st.msg
                                /\ r.op \in {"RECV", "PUT_SIGNAL"} <=> Takes(st)
    BY <1>3, RequestGood
  <1>5. /\ cq' = [cq EXCEPT ![c] = Tail(@)] /\ polled' = [polled EXCEPT ![c] = @ \cup {r}]
        /\ cq'[c] = Tail(cq[c]) /\ polled'[c] = polled[c] \cup {r}
        /\ \A e \in Comps : e # c => cq'[e] = cq[e] /\ polled'[e] = polled[e]
    BY <1>1, <1>2, <1>4 DEF PollCq
  <1>6. cq' \in [Comps -> Seq(Statuses)] /\ polled' \in [Comps -> SUBSET Completion]
    <2>1. Tail(cq[c]) \in Seq(Statuses)
      BY <1>1
    <2> QED  BY <1>1, <1>5, <2>1
  <1>7. /\ DOMAIN cq[c] = 1 .. Len(cq[c]) /\ DOMAIN cq'[c] = 1 .. (Len(cq[c]) - 1)
        /\ Len(cq[c]) \in Nat
        /\ \A i \in 1 .. (Len(cq[c]) - 1) : cq'[c][i] = cq[c][i + 1]
    BY <1>1, <1>5
  <1>8. \A i \in DOMAIN cq'[c] : /\ i \in Int /\ i + 1 \in DOMAIN cq[c] /\ i + 1 # 1
                                 /\ cq'[c][i] = cq[c][i + 1]
    BY <1>7
  <1>9. ASSUME NEW i \in DOMAIN cq[c], i # 1
        PROVE  \E m \in DOMAIN cq'[c] : cq'[c][m] = cq[c][i]
    <2>1. i - 1 \in DOMAIN cq'[c] /\ (i - 1) + 1 = i
      BY <1>7, <1>9
    <2> QED  BY <1>8, <2>1
  <1>10. ASSUME NEW i \in DOMAIN cq'[c]
         PROVE  \E m \in DOMAIN cq[c] : m # 1 /\ cq'[c][i] = cq[c][m]
    BY <1>8, <1>10
  <1>11. ASSUME NEW k PROVE Waits(k)' <=> (Waits(k) /\ k # StatusKey(st))
    <2>1. ASSUME Waits(k)' PROVE Waits(k) /\ k # StatusKey(st)
      <3>0. PICK e \in Comps : \E i \in DOMAIN cq'[e] : StatusKey(cq'[e][i]) = k
        BY <2>1 DEF Waits, StatusKey
      <3>1. PICK i \in DOMAIN cq'[e] : StatusKey(cq'[e][i]) = k
        BY <3>0
      <3>2. PICK m \in DOMAIN cq[e] : cq'[e][i] = cq[e][m] /\ ~(e = c /\ m = 1)
        BY <1>5, <1>10, <3>1
      <3> QED  BY <1>2, <3>1, <3>2 DEF Waits, QueueOnce
    <2>2. ASSUME Waits(k), k # StatusKey(st) PROVE Waits(k)'
      <3>0. PICK e \in Comps : \E i \in DOMAIN cq[e] : StatusKey(cq[e][i]) = k
        BY <2>2 DEF Waits
      <3>1. PICK i \in DOMAIN cq[e] : StatusKey(cq[e][i]) = k
        BY <3>0
      <3>2. PICK m \in DOMAIN cq'[e] : cq'[e][m] = cq[e][i]
        BY <1>2, <1>5, <1>9, <2>2, <3>1
      <3> QED  BY <3>1, <3>2 DEF Waits
    <2> QED  BY <2>1, <2>2
  <1>12. \A k : Seen(k)' <=> (Seen(k) \/ k = StatusKey(st))
    BY <1>4, <1>5 DEF Seen
  <1>13. ASSUME NEW s PROVE Taken(s)' <=> Taken(s)
    <2>1. ASSUME Taken(s)' PROVE Taken(s)
      <3>1. PICK e \in Comps :
               \/ \E i \in DOMAIN cq'[e] : cq'[e][i].msg = s /\ Takes(cq'[e][i])
               \/ \E q \in polled'[e] : q.buffer = s /\ q.op \in {"RECV", "PUT_SIGNAL"}
        BY <2>1 DEF Taken, Takes, IsRecv
      <3>2. CASE e = c
        <4>1. CASE \E i \in DOMAIN cq'[c] : cq'[c][i].msg = s /\ Takes(cq'[c][i])
          BY <1>10, <4>1 DEF Taken
        <4>2. CASE \E q \in polled'[c] : q.buffer = s /\ q.op \in {"RECV", "PUT_SIGNAL"}
          BY <1>2, <1>4, <1>5, <4>2 DEF Taken
        <4> QED  BY <3>1, <3>2, <4>1, <4>2
      <3>3. CASE e # c
        BY <1>5, <3>1, <3>3 DEF Taken
      <3> QED  BY <3>2, <3>3
    <2>2. ASSUME Taken(s) PROVE Taken(s)'
      <3>1. PICK e \in Comps :
               \/ \E i \in DOMAIN cq[e] : cq[e][i].msg = s /\ Takes(cq[e][i])
               \/ \E q \in polled[e] : q.buffer = s /\ q.op \in {"RECV", "PUT_SIGNAL"}
        BY <2>2 DEF Taken
      <3>2. CASE e = c
        <4>1. ASSUME NEW i \in DOMAIN cq[c], cq[c][i].msg = s, Takes(cq[c][i]) PROVE Taken(s)'
          <5>1. CASE i = 1
            BY <1>2, <1>4, <1>5, <4>1, <5>1 DEF Taken
          <5>2. CASE i # 1
            BY <1>9, <4>1, <5>2 DEF Taken
          <5> QED  BY <5>1, <5>2
        <4>2. CASE \E q \in polled[c] : q.buffer = s /\ q.op \in {"RECV", "PUT_SIGNAL"}
          BY <1>5, <4>2 DEF Taken
        <4> QED  BY <3>1, <3>2, <4>1, <4>2
      <3>3. CASE e # c
        BY <1>5, <3>1, <3>3 DEF Taken
      <3> QED  BY <3>2, <3>3
    <2> QED  BY <2>1, <2>2
  <1>14. StatusesOK'
    <2>2. lib' = lib
      BY DEF PollCq
    <2>1. ASSUME NEW e \in Comps, NEW i \in DOMAIN cq'[e] PROVE GoodStatus(cq'[e][i])
      BY <1>5, <1>10, <2>1 DEF StatusesOK
    <2> QED  BY <2>1, <2>2 DEF StatusesOK, GoodStatus
  <1>15. QueueOnce'
    <2>1. ASSUME NEW d \in Comps, NEW e \in Comps, NEW i \in DOMAIN cq'[d], NEW j \in DOMAIN cq'[e],
                 StatusKey(cq'[d][i]) = StatusKey(cq'[e][j])
          PROVE  d = e /\ i = j
      <3>1. CASE d = c /\ e = c
        <4>1. i + 1 = j + 1 /\ i \in Int /\ j \in Int
          BY <1>8, <2>1, <3>1 DEF QueueOnce
        <4> QED  BY <3>1, <4>1
      <3>2. CASE ~(d = c /\ e = c)
        <4>1. PICK m \in DOMAIN cq[d], n \in DOMAIN cq[e] :
                 /\ cq'[d][i] = cq[d][m] /\ cq'[e][j] = cq[e][n]
                 /\ d # c => m = i
                 /\ e # c => n = j
          BY <1>5, <1>10, <2>1
        <4>2. d = e /\ m = n
          BY <2>1, <4>1 DEF QueueOnce
        <4> QED  BY <3>2, <4>1, <4>2
      <3> QED  BY <3>1, <3>2
    <2>2. \A k : ~(Waits(k)' /\ Seen(k)')
      BY <1>11, <1>12 DEF QueueOnce
    <2> QED  BY <2>1, <2>2 DEF QueueOnce
  <1> QED  BY <1>2, <1>3, <1>6, <1>11, <1>12, <1>13, <1>14, <1>15

(* Steps that touch no completion object report nothing.                   *)
LEMMA NoReport ==
    ASSUME UNCHANGED compVars
    PROVE  /\ StatusesOK /\ lib' = lib => StatusesOK'
           /\ QueueOnce => QueueOnce'
           /\ \A k : (Waits(k)' <=> Waits(k)) /\ (Seen(k)' <=> Seen(k))
           /\ \A s : Taken(s)' <=> Taken(s)
  <1>1. \A k : (Waits(k)' <=> Waits(k)) /\ (Seen(k)' <=> Seen(k))
    BY DEF compVars, Waits, Seen
  <1>2. \A s : Taken(s)' <=> Taken(s)
    BY DEF compVars, Taken
  <1>3. StatusesOK /\ lib' = lib => StatusesOK'
    BY DEF compVars, StatusesOK, GoodStatus
  <1>4. QueueOnce => QueueOnce'
    BY <1>1 DEF compVars, QueueOnce
  <1> QED  BY <1>1, <1>2, <1>3, <1>4

(* Once all devices are there, the handle of a device leads, in every      *)
(* process, to the completion object of its peer.                          *)
LEMMA PeerComp ==
    ASSUME Types, TableOK, Allocated, NEW p \in Procs, NEW q \in Procs, NEW k \in DeviceIds
    PROVE  rcomps[p][rcomp[<<q, k>>]] = PutComp[<<p, k>>]
  <1>1. rcomp[<<p, k>>] # 0 /\ rcomp[<<q, k>>] # 0
    BY Constants DEF Allocated
  <1>2. TableOf(p) /\ TableOf(q)
    BY DEF TableOK
  <1> QED  BY <1>1, <1>2 DEF TableOf

(* The arrival of a put that is still in the network is not reported.      *)
LEMMA ArrivalTaken ==
    ASSUME NEW s, Reported(<<"arrival", s>>)
    PROVE  Taken(s)
  <1>1. CASE Waits(<<"arrival", s>>)
    BY <1>1 DEF Waits, StatusKey, Taken, Takes
  <1>2. CASE Seen(<<"arrival", s>>)
    BY <1>2 DEF Seen, Key, Taken
  <1> QED  BY <1>1, <1>2 DEF Reported

(* What do_progress does: one status is signalled, to the completion       *)
(* object of its operation or of the device a put is for, and it is new.   *)
LEMMA ProgressSignals ==
    ASSUME LciInv, NEW t \in Threads, Progress(t)
    PROVE  \E c \in Comps, st \in Statuses :
              /\ GoodStatus(st) /\ LciSignal(c, st) /\ ~Reported(StatusKey(st))
              /\ UNCHANGED <<lib, program, todo, callVars, deviceVars>>
              /\ \/ /\ st.user_context = NULL /\ posted' = posted
                    /\ c = PutComp[<<st.msg.rank, st.msg.dev>>]
                 \/ /\ st.user_context \in posted /\ posted' = posted \ {st.user_context}
                    /\ c = st.user_context.comp
              /\ IF Takes(st) THEN st.msg \in net /\ net' = net \ {st.msg} ELSE net' = net
  <1> USE DEF LciInv
  <1>1. \A o \in Ops \cup {NULL}, s \in Ops, y \in {"LCI_MEDIUM", "LCI_LONG"} :
           /\ Status(o, s, y) \in Statuses /\ Status(o, s, y).type = y
           /\ Status(o, s, y).user_context = o /\ Status(o, s, y).msg = s
    BY DEF Status, Statuses
  <1>2. posted \subseteq Ops /\ net \subseteq Ops
    BY DEF Types, TypeOK
  <1>3. ASSUME NEW o \in Ops, SendDone(t, o)
        PROVE  \E c \in Comps, st \in Statuses :
                  /\ GoodStatus(st) /\ LciSignal(c, st) /\ ~Reported(StatusKey(st))
                  /\ UNCHANGED <<lib, program, todo, callVars, deviceVars>>
                  /\ st.user_context \in posted /\ posted' = posted \ {st.user_context}
                  /\ c = st.user_context.comp /\ ~Takes(st) /\ net' = net
    <2>1. PICK st \in Statuses :
             st = Status(o, o, SizeClass(o)) /\ st.user_context = o /\ st.msg = o
      BY <1>1 DEF SizeClass
    <2>2. o # NULL /\ ~IsRecv(o) /\ o.comp \in Comps
      BY <1>3, Constants DEF SendDone, Counted, IsRecv
    <2>3. GoodStatus(st) /\ StatusKey(st) = <<"operation", o>> /\ ~Takes(st)
      BY <2>1, <2>2 DEF GoodStatus, StatusKey, Takes
    <2>4. ~Reported(<<"operation", o>>)
      BY <1>3 DEF SendDone, PlacesOK, PlaceOf
    <2> QED  BY <1>3, <2>1, <2>2, <2>3, <2>4 DEF SendDone
  <1>4. ASSUME NEW s \in Ops, NEW r \in Ops, RecvDone(t, s, r)
        PROVE  \E c \in Comps, st \in Statuses :
                  /\ GoodStatus(st) /\ LciSignal(c, st) /\ ~Reported(StatusKey(st))
                  /\ UNCHANGED <<lib, program, todo, callVars, deviceVars>>
                  /\ st.user_context \in posted /\ posted' = posted \ {st.user_context}
                  /\ c = st.user_context.comp
                  /\ Takes(st) /\ st.msg \in net /\ net' = net \ {st.msg}
    <2>5. PICK y \in {SizeClass(s), SizeClass(r)} : LciSignal(r.comp, Status(r, s, y))
      BY <1>4 DEF RecvDone
    <2>1. PICK st \in Statuses : st = Status(r, s, y) /\ st.user_context = r /\ st.msg = s
      BY <1>1 DEF SizeClass
    <2>2. r # NULL /\ IsRecv(r) /\ r.comp \in Comps
      BY <1>4, Constants DEF RecvDone, Matches, IsRecv
    <2>3. GoodStatus(st) /\ StatusKey(st) = <<"operation", r>> /\ Takes(st)
      BY <1>4, <2>1, <2>2 DEF GoodStatus, StatusKey, Takes, RecvDone
    <2>4. ~Reported(<<"operation", r>>)
      BY <1>4 DEF RecvDone, PlacesOK, PlaceOf
    <2> QED  BY <1>4, <2>1, <2>2, <2>3, <2>4, <2>5 DEF RecvDone
  <1>5. ASSUME NEW s \in Ops, PutArrives(t, s)
        PROVE  \E c \in Comps, st \in Statuses :
                  /\ GoodStatus(st) /\ LciSignal(c, st) /\ ~Reported(StatusKey(st))
                  /\ UNCHANGED <<lib, program, todo, callVars, deviceVars>>
                  /\ st.user_context = NULL /\ posted' = posted
                  /\ c = PutComp[<<st.msg.rank, st.msg.dev>>]
                  /\ Takes(st) /\ st.msg \in net /\ net' = net \ {st.msg}
    <2>1. PICK st \in Statuses : /\ st = Status(NULL, s, SizeClass(s)) /\ st.type = SizeClass(s)
                                 /\ st.user_context = NULL /\ st.msg = s
      BY <1>1 DEF SizeClass
    <2>3. s \in net /\ IsPut(s)
      BY <1>5 DEF PutArrives
    <2>6. PutLengthFits /\ s \in program
      <3>1. s.proc \in Procs /\ s.dev \in DeviceIds /\ rcomp[<<s.proc, s.dev>>] # 0
        BY <2>3, Constants DEF Ready, Allocated
      <3>2. s.dev \in Nat /\ s.dev < Len(rcomps[s.proc]) /\ TableOf(s.proc)
        BY <3>1, Constants DEF TableOK, TableOf
      <3>3. g_ndevices[s.proc] # 0
        BY <3>1, <3>2 DEF TableOf, Types, TypeOK
      <3> QED  BY <2>3, <3>1, <3>3 DEF PutsOK
    <2>2. GoodStatus(st) /\ StatusKey(st) = <<"arrival", s>> /\ Takes(st)
      BY <2>1, <2>3, <2>6 DEF GoodStatus, StatusKey, Takes, PutLengthFits, SizeClass
    <2>4. ~Reported(<<"arrival", s>>)
      BY <2>3, ArrivalTaken DEF NetOK
    <2>5. rcomps[s.rank][rcomp[DeviceOf(s)]] = PutComp[<<s.rank, s.dev>>]
          /\ PutComp[<<s.rank, s.dev>>] \in Comps
      <3>1. Allocated
        BY <2>3 DEF Ready
      <3>2. DeviceOf(s) = <<s.proc, s.dev>> /\ s.rank \in Procs /\ s.proc \in Procs /\ s.dev \in DeviceIds
        BY Constants
      <3> QED  BY <3>1, <3>2, PeerComp, Constants
    <2> QED  BY <1>5, <2>1, <2>2, <2>3, <2>4, <2>5 DEF PutArrives
  <1>6. CASE \E o \in Ops : SendDone(t, o)
    BY <1>3, <1>6
  <1>7. CASE \E s, r \in Ops : RecvDone(t, s, r)
    BY <1>4, <1>7
  <1>8. CASE \E s \in Ops : PutArrives(t, s)
    BY <1>5, <1>8
  <1> QED  BY <1>6, <1>7, <1>8 DEF Progress

-----------------------------------------------------------------------------
(* Threads and devices.                                                    *)

(* A thread gets its operation in send, recv or put and returns without.   *)
LEMMA FrameNext ==
    ASSUME Types, FrameOK, [Next]_vars
    PROVE  FrameOK'
  <1>1. /\ pc \in [Threads -> {"idle", "register", "post", "return"}]
        /\ entry \in [Threads -> Ops \cup {NULL}] /\ program' = program /\ todo \subseteq program
    BY LibFixed DEF Types, TypeOK
  <1>2. ASSUME NEW t \in Threads, AllocDevice(t) \/ RegisterComp(t) PROVE FrameOK'
    <2>1. /\ pc[t] \in {"idle", "register"} /\ entry' = entry
          /\ pc' = [pc EXCEPT ![t] = pc'[t]] /\ pc'[t] \in {"idle", "register"}
      BY <1>1, <1>2 DEF AllocDevice, RegisterComp, Goto
    <2> QED  BY <1>1, <2>1 DEF FrameOK
  <1>3. ASSUME NEW t \in Threads, NEW o \in Ops, NewRequest(t, o) PROVE FrameOK'
    <2>1. /\ pc' = [pc EXCEPT ![t] = "post"] /\ entry' = [entry EXCEPT ![t] = o]
          /\ o \in program /\ o.proc = ThreadProc[t]
      BY <1>1, <1>3 DEF NewRequest, Goto
    <2> QED  BY <1>1, <2>1 DEF FrameOK
  <1>4. ASSUME NEW t \in Threads, LciPost(t) \/ LciRetry(t) PROVE FrameOK'
    <2>1. /\ pc[t] = "post" /\ pc' = [pc EXCEPT ![t] = "return"] /\ entry' = entry
      BY <1>4 DEF LciPost, LciRetry, Goto
    <2> QED  BY <1>1, <2>1 DEF FrameOK
  <1>5. ASSUME NEW t \in Threads, Return(t) PROVE FrameOK'
    <2>1. pc' = [pc EXCEPT ![t] = "idle"] /\ entry' = [entry EXCEPT ![t] = NULL]
      BY <1>5 DEF Return, Goto
    <2> QED  BY <1>1, <2>1 DEF FrameOK
  <1>6. ASSUME UNCHANGED callVars PROVE FrameOK'
    BY <1>1, <1>6 DEF FrameOK, callVars
  <1> QED  BY <1>2, <1>3, <1>4, <1>5, <1>6
           DEF Next, Progress, SendDone, RecvDone, PutArrives, PollCq, FreeDevice, vars

(* A step that leaves the devices of a process alone keeps its table.      *)
LEMMA TableKept ==
    ASSUME NEW q \in Procs, TableOf(q), g_ndevices'[q] = g_ndevices[q], rcomps'[q] = rcomps[q],
           \A t \in Threads : ThreadProc[t] = q =>
              (pc'[t] = "register" <=> pc[t] = "register") /\ dev'[t] = dev[t],
           \A k \in DeviceIds : rcomp'[<<q, k>>] = rcomp[<<q, k>>]
    PROVE  TableOf(q)'
  <1>1. \A t \in Threads : Registering(t, q)' <=> Registering(t, q)
    BY DEF Registering
  <1>2. \A t \in Threads : Registering(t, q) => dev'[t] = dev[t]
    BY DEF Registering
  <1> QED  BY <1>1, <1>2 DEF TableOf

(* alloc_device, first half: an id.                                        *)
LEMMA TableAlloc ==
    ASSUME Types, TableOK, NEW t \in Threads, AllocDevice(t)
    PROVE  TableOK' /\ dev'[t] \in Devices
  <1>1. PICK p \in Procs : p = ThreadProc[t]
    BY Constants
  <1>2. /\ g_ndevices \in [Procs -> 0 .. NumDevices] /\ dev \in [Threads -> Devices \cup {NULL}]
        /\ pc \in [Threads -> {"idle", "register", "post", "return"}]
        /\ g_ndevices[p] \in Nat /\ TableOf(p)
    BY Constants DEF Types, TypeOK, NumDevices, TableOK
  <1>3. /\ \A u \in Threads : ThreadProc[u] = p => pc[u] = "idle"
        /\ g_ndevices[p] < NumDevices
        /\ dev' = [dev EXCEPT ![t] = <<p, g_ndevices[p]>>]
        /\ g_ndevices' = [g_ndevices EXCEPT ![p] = @ + 1]
        /\ pc' = [pc EXCEPT ![t] = "register"] /\ UNCHANGED <<rcomp, rcomps>>
    BY <1>1 DEF AllocDevice, MayAlloc, ThreadsOf, Goto, NumDevices
  <1>4. ASSUME NEW q \in Procs, q # p PROVE TableOf(q)'
    <2>1. /\ g_ndevices'[q] = g_ndevices[q]
          /\ \A u \in Threads : ThreadProc[u] = q => pc'[u] = pc[u] /\ dev'[u] = dev[u]
      BY <1>1, <1>2, <1>3, <1>4
    <2> QED  BY <1>3, <2>1, TableKept DEF TableOK
  <1>5. /\ dev'[t] = <<p, g_ndevices[p]>> /\ g_ndevices'[p] = g_ndevices[p] + 1
        /\ dev'[t] \in Devices
    BY <1>2, <1>3, Constants
  <1>6. \A u \in Threads : ~Registering(u, p) /\ (Registering(u, p)' <=> u = t)
    BY <1>1, <1>2, <1>3 DEF Registering
  <1>7. TableOf(p)'
    <2>1. (g_ndevices[p] + 1) - 1 = g_ndevices[p]
      BY <1>2
    <2>2. Len(rcomps[p]) = g_ndevices[p]
      BY <1>2, <1>6 DEF TableOf
    <2>3. \A u \in Threads : Registering(u, p)' => dev'[u] = <<p, g_ndevices'[p] - 1>>
      BY <1>5, <1>6, <2>1
    <2>4. Len(rcomps'[p]) = IF \E u \in Threads : Registering(u, p)'
                            THEN g_ndevices'[p] - 1 ELSE g_ndevices'[p]
      BY <1>3, <1>5, <1>6, <2>1, <2>2
    <2> QED  BY <1>2, <1>3, <2>3, <2>4 DEF TableOf
  <1>8. ASSUME NEW q \in Procs, NEW u \in Threads, NEW v \in Threads,
               Registering(u, q)', Registering(v, q)'
        PROVE  u = v
    <2>1. CASE q = p
      BY <1>6, <1>8, <2>1
    <2>2. CASE q # p
      <3>1. Registering(u, q) /\ Registering(v, q)
        BY <1>1, <1>2, <1>3, <1>8, <2>2 DEF Registering
      <3> QED  BY <3>1 DEF TableOK
    <2> QED  BY <2>1, <2>2
  <1> QED  BY <1>4, <1>5, <1>7, <1>8 DEF TableOK

(* alloc_device, second half: a handle.                                    *)
LEMMA TableRegister ==
    ASSUME Types, TableOK, NEW t \in Threads, RegisterComp(t)
    PROVE  /\ TableOK'
           /\ rcomps' \in [Procs -> Seq(Comps)] /\ rcomp' \in [Devices -> Nat]
           /\ \A d \in Devices : rcomp[d] # 0 => rcomp'[d] # 0
  <1>1. PICK p \in Procs : p = ThreadProc[t]
    BY Constants
  <1>2. /\ g_ndevices \in [Procs -> 0 .. NumDevices] /\ dev \in [Threads -> Devices \cup {NULL}]
        /\ pc \in [Threads -> {"idle", "register", "post", "return"}]
        /\ g_ndevices[p] \in 0 .. NumDevices /\ TableOf(p)
        /\ rcomps \in [Procs -> Seq(Comps)] /\ rcomps[p] \in Seq(Comps)
        /\ rcomp \in [Devices -> Nat] /\ NumDevices \in Nat
    BY Constants DEF Types, TypeOK, NumDevices, TableOK
  <1>3. Registering(t, p) /\ \A u \in Threads : Registering(u, p) => u = t
    BY <1>1 DEF RegisterComp, Registering, TableOK
  <1>4. PICK n \in Nat : n = g_ndevices[p] - 1 /\ n = Len(rcomps[p])
    BY <1>2, <1>3 DEF TableOf
  <1>5. dev[t] = <<p, n>> /\ n \in DeviceIds /\ n + 1 = g_ndevices[p]
    BY <1>2, <1>3, <1>4, Constants DEF TableOf
  <1>6. PICK x \in Comps : x = PutComp[<<p, n>>]
    BY <1>5, Constants
  <1>7. /\ rcomps' = [rcomps EXCEPT ![p] = Append(@, x)]
        /\ rcomp' = [rcomp EXCEPT ![<<p, n>>] = n + 1]
        /\ dev' = [dev EXCEPT ![t] = NULL] /\ pc' = [pc EXCEPT ![t] = "idle"]
        /\ UNCHANGED g_ndevices
    BY <1>1, <1>4, <1>5, <1>6 DEF RegisterComp, Goto
  <1>8. <<p, n>> \in Devices
    BY <1>5, Constants
  <1>9. rcomp' \in [Devices -> Nat] /\ \A d \in Devices : rcomp[d] # 0 => rcomp'[d] # 0
    <2>1. n + 1 \in Nat /\ n + 1 # 0
      OBVIOUS
    <2> QED  BY <1>2, <1>7, <2>1
  <1>10. rcomps' \in [Procs -> Seq(Comps)]
    <2>1. Append(rcomps[p], x) \in Seq(Comps)
      BY <1>2
    <2> QED  BY <1>2, <1>7, <2>1
  <1>11. ASSUME NEW q \in Procs, q # p PROVE TableOf(q)'
    <2>1. /\ rcomps'[q] = rcomps[q]
          /\ \A u \in Threads : ThreadProc[u] = q => pc'[u] = pc[u] /\ dev'[u] = dev[u]
      BY <1>1, <1>2, <1>7, <1>11
    <2>2. ASSUME NEW k \in DeviceIds PROVE rcomp'[<<q, k>>] = rcomp[<<q, k>>]
      <3>1. <<q, k>> # <<p, n>> /\ <<q, k>> \in Devices
        BY <1>11, Constants
      <3> QED  BY <1>2, <1>7, <3>1
    <2> QED  BY <1>7, <2>1, <2>2, TableKept DEF TableOK
  <1>12. \A u \in Threads : ~Registering(u, p)'
    BY <1>1, <1>2, <1>3, <1>7 DEF Registering
  <1>13. TableOf(p)'
    <2>1. /\ Len(rcomps'[p]) = n + 1 /\ rcomps'[p][n + 1] = x
          /\ \A i \in 1 .. n : rcomps'[p][i] = rcomps[p][i]
      BY <1>2, <1>4, <1>7
    <2>2. ASSUME NEW k \in DeviceIds
          PROVE  IF k < n + 1
                 THEN rcomp'[<<p, k>>] = k + 1 /\ rcomps'[p][k + 1] = PutComp[<<p, k>>]
                 ELSE rcomp'[<<p, k>>] = 0
      <3>1. k \in Nat /\ <<p, k>> \in Devices
        BY Constants
      <3>2. CASE k = n
        BY <1>2, <1>4, <1>6, <1>7, <2>1, <3>1, <3>2
      <3>3. CASE k # n
        <4>1. <<p, k>> # <<p, n>>
          BY <3>3
        <4>2. rcomp'[<<p, k>>] = rcomp[<<p, k>>]
          BY <1>2, <1>7, <3>1, <4>1
        <4>3. IF k < n
              THEN rcomp[<<p, k>>] = k + 1 /\ rcomps[p][k + 1] = PutComp[<<p, k>>]
              ELSE rcomp[<<p, k>>] = 0
          BY <1>2, <1>4 DEF TableOf
        <4>4. ASSUME k < n PROVE rcomps'[p][k + 1] = rcomps[p][k + 1]
          <5>1. k + 1 \in 1 .. n
            BY <3>1, <4>4
          <5> QED  BY <2>1, <5>1
        <4> QED  BY <1>4, <3>1, <3>3, <4>2, <4>3, <4>4
      <3> QED  BY <3>2, <3>3
    <2> QED  BY <1>5, <1>7, <1>12, <2>1, <2>2 DEF TableOf
  <1>14. ASSUME NEW q \in Procs, NEW u \in Threads, NEW v \in Threads,
                Registering(u, q)', Registering(v, q)'
         PROVE  u = v
    <2>1. Registering(u, q) /\ Registering(v, q)
      BY <1>2, <1>7, <1>14 DEF Registering
    <2> QED  BY <2>1 DEF TableOK
  <1> QED  BY <1>9, <1>10, <1>11, <1>13, <1>14 DEF TableOK

(* Every step keeps the device tables right.                               *)
LEMMA TableNext ==
    ASSUME Types, TableOK, [Next]_vars
    PROVE  TableOK'
  <1>1. ASSUME UNCHANGED <<g_ndevices, rcomp, rcomps, dev>>,
               \A t \in Threads : pc'[t] = "register" <=> pc[t] = "register"
        PROVE  TableOK'
    <2>1. \A q \in Procs : TableOf(q)'
      BY <1>1, TableKept DEF TableOK
    <2> QED  BY <1>1, <2>1 DEF TableOK, Registering
  <1>2. ASSUME NEW t \in Threads,
               LciPost(t) \/ LciRetry(t) \/ Return(t) \/ \E o \in Ops : NewRequest(t, o)
        PROVE  TableOK'
    <2>1. \A u \in Threads : pc'[u] = "register" <=> pc[u] = "register"
      BY <1>2 DEF Types, TypeOK, LciPost, LciRetry, Return, NewRequest, Goto
    <2> QED  BY <1>1, <1>2, <2>1 DEF LciPost, LciRetry, Return, NewRequest, deviceVars
  <1>3. ASSUME UNCHANGED <<g_ndevices, rcomp, rcomps, callVars>> PROVE TableOK'
    BY <1>1, <1>3 DEF callVars
  <1>4. ASSUME NEW t \in Threads,
               Progress(t) \/ (\E c \in Comps : PollCq(t, c)) \/ \E d \in Devices : FreeDevice(t, d)
        PROVE  TableOK'
    BY <1>3, <1>4 DEF Progress, SendDone, RecvDone, PutArrives, PollCq, FreeDevice, deviceVars
  <1>5. CASE UNCHANGED vars
    BY <1>3, <1>5 DEF vars, deviceVars
  <1> QED  BY <1>2, <1>4, <1>5, TableAlloc, TableRegister DEF Next

(* Devices that are there stay.                                            *)
LEMMA AllocatedStays ==
    ASSUME Types, TableOK, [Next]_vars, Allocated
    PROVE  Allocated'
  <1>1. ASSUME NEW t \in Threads, RegisterComp(t) PROVE Allocated'
    BY <1>1, TableRegister DEF Allocated
  <1>2. ASSUME UNCHANGED rcomp PROVE Allocated'
    BY <1>2 DEF Allocated
  <1> QED  BY <1>1, <1>2
           DEF Next, AllocDevice, NewRequest, LciPost, LciRetry, Return, Progress, SendDone,
               RecvDone, PutArrives, PollCq, FreeDevice, deviceVars, vars

(* Nothing is posted too early.                                            *)
LEMMA ReadyNext ==
    ASSUME LciInv, [Next]_vars
    PROVE  Ready'
  <1>1. /\ Types /\ TableOK /\ Ready
        /\ pc \in [Threads -> {"idle", "register", "post", "return"}]
    BY DEF LciInv, Types, TypeOK
  <1> DEFINE Busy(t) == pc[t] \in {"post", "return"}
             Active == posted # {} \/ net # {} \/ \E t \in Threads : Busy(t)
  <1>2. Active => Allocated
    BY <1>1 DEF Ready
  <1>3. ASSUME Active' PROVE Active \/ Allocated
    <2>1. ASSUME NEW t \in Threads, Progress(t) PROVE Active
      <3>1. UNCHANGED callVars /\ (posted # {} \/ net # {})
        BY <2>1 DEF Progress, SendDone, RecvDone, PutArrives
      <3> QED  BY <3>1
    <2>2. ASSUME NEW t \in Threads, AllocDevice(t) \/ RegisterComp(t) PROVE Active
      <3>1. UNCHANGED <<posted, net>> /\ \A u \in Threads : Busy(u)' => Busy(u)
        BY <1>1, <2>2 DEF AllocDevice, RegisterComp, Goto, lciVars
      <3> QED  BY <1>3, <3>1
    <2>3. ASSUME NEW t \in Threads, NEW o \in Ops, NewRequest(t, o) PROVE Allocated
      BY <2>3 DEF NewRequest
    <2>4. ASSUME NEW t \in Threads, LciPost(t) \/ LciRetry(t) \/ Return(t) PROVE Active
      <3>1. Busy(t)
        BY <2>4 DEF LciPost, LciRetry, Return
      <3> QED  BY <3>1
    <2>5. ASSUME UNCHANGED <<callVars, lciVars>> PROVE Active
      BY <1>3, <2>5 DEF callVars, lciVars
    <2>6. ASSUME NEW t \in Threads,
                 (\E c \in Comps : PollCq(t, c)) \/ \E d \in Devices : FreeDevice(t, d)
          PROVE  Active
      BY <2>5, <2>6 DEF PollCq, FreeDevice
    <2>7. CASE UNCHANGED vars
      BY <2>5, <2>7 DEF vars
    <2> HIDE DEF Active
    <2> QED  BY <2>1, <2>2, <2>3, <2>4, <2>6, <2>7 DEF Next
  <1>4. Active' => Allocated'
    BY <1>1, <1>2, <1>3, AllocatedStays
  <1> QED  BY <1>4 DEF Ready

(* No step finds a put that is too long.                                   *)
LEMMA PutsNext ==
    ASSUME LciInv, [Next]_vars
    PROVE  PutsOK'
  <1>1. /\ Types /\ FrameOK /\ PutsOK /\ lib' = lib /\ program' = program
        /\ g_ndevices \in [Procs -> 0 .. Cardinality(DeviceIds)]
    BY LibFixed DEF LciInv, Types, TypeOK
  <1>2. PutLengthFits' <=> PutLengthFits
    BY <1>1 DEF PutLengthFits
  <1>3. ASSUME NEW t \in Threads, AllocDevice(t) PROVE PutsOK'
    <2>1. PutLengthFits /\ net' = net
      BY <1>3 DEF AllocDevice, lciVars
    <2> QED  BY <1>1, <1>2, <2>1 DEF PutsOK
  <1>4. ASSUME NEW t \in Threads, LciPost(t) PROVE PutsOK'
    <2>1. /\ net' \subseteq net \cup {entry[t]} /\ entry[t] \in program
          /\ g_ndevices' = g_ndevices
      BY <1>1, <1>4 DEF LciPost, FrameOK, deviceVars
    <2> QED  BY <1>1, <1>2, <2>1 DEF PutsOK
  <1>5. ASSUME net' \subseteq net, g_ndevices' = g_ndevices PROVE PutsOK'
    BY <1>1, <1>2, <1>5 DEF PutsOK
  <1>6. ASSUME NEW t \in Threads,
               \/ RegisterComp(t) \/ LciRetry(t) \/ Return(t) \/ (\E o \in Ops : NewRequest(t, o))
               \/ Progress(t) \/ (\E c \in Comps : PollCq(t, c)) \/ \E d \in Devices : FreeDevice(t, d)
        PROVE  PutsOK'
    <2>1. net' \subseteq net /\ g_ndevices' = g_ndevices
      BY <1>6 DEF RegisterComp, LciRetry, Return, NewRequest, Progress, SendDone, RecvDone,
                  PutArrives, PollCq, FreeDevice, deviceVars, lciVars
    <2> QED  BY <1>5, <2>1
  <1>7. CASE UNCHANGED vars
    BY <1>5, <1>7 DEF vars, deviceVars, lciVars
  <1> QED  BY <1>3, <1>4, <1>6, <1>7 DEF Next

-----------------------------------------------------------------------------
(* Reports, as the steps make them.                                        *)

(* Every status is good, and nothing is reported twice.                    *)
LEMMA ReportsNext ==
    ASSUME LciInv, [Next]_vars
    PROVE  /\ StatusesOK' /\ QueueOnce'
           /\ cq' \in [Comps -> Seq(Statuses)] /\ polled' \in [Comps -> SUBSET Completion]
           /\ \A k : Reported(k) => Reported(k)'
  <1>1. /\ Types /\ StatusesOK /\ QueueOnce /\ lib \in {"LCI", "LCI2"} /\ lib' = lib
        /\ cq \in [Comps -> Seq(Statuses)] /\ polled \in [Comps -> SUBSET Completion]
    BY LibFixed DEF LciInv, Types, TypeOK
  <1> DEFINE Goal == /\ StatusesOK' /\ QueueOnce'
                     /\ cq' \in [Comps -> Seq(Statuses)] /\ polled' \in [Comps -> SUBSET Completion]
                     /\ \A k : Reported(k) => Reported(k)'
  <1>2. ASSUME UNCHANGED compVars PROVE Goal
    <2>1. cq' = cq /\ polled' = polled
      BY <1>2 DEF compVars
    <2> QED  BY <1>1, <1>2, <2>1, NoReport DEF Reported
  <1>3. ASSUME NEW t \in Threads, Progress(t) PROVE Goal
    <2>1. PICK c \in Comps, st \in Statuses :
             GoodStatus(st) /\ LciSignal(c, st) /\ ~Reported(StatusKey(st))
      BY <1>3, ProgressSignals
    <2> QED  BY <1>1, <2>1, SignalEffect DEF Reported
  <1>4. ASSUME NEW t \in Threads, NEW c \in Comps, PollCq(t, c) PROVE Goal
    BY <1>1, <1>4, PollEffect DEF Reported
  <1>5. ASSUME NEW t \in Threads,
               \/ AllocDevice(t) \/ RegisterComp(t) \/ LciPost(t) \/ LciRetry(t) \/ Return(t)
               \/ (\E o \in Ops : NewRequest(t, o)) \/ \E d \in Devices : FreeDevice(t, d)
        PROVE  UNCHANGED compVars
    BY <1>5 DEF AllocDevice, RegisterComp, LciPost, LciRetry, Return, NewRequest, FreeDevice
  <1>6. Goal
    <2> HIDE DEF Goal
    <2>1. UNCHANGED vars => Goal
      BY <1>2 DEF vars
    <2> QED  BY <1>2, <1>3, <1>4, <1>5, <2>1 DEF Next
  <1> QED  BY <1>6

-----------------------------------------------------------------------------
(* Where the operations are.                                               *)

(* An operation that a step leaves where it is.                            *)
LEMMA PlaceKept ==
    ASSUME NEW o, PlaceOf(o), o \in todo' <=> o \in todo, o \in posted' <=> o \in posted,
           \A t \in Threads : HeldByCall(t, o)' <=> HeldByCall(t, o),
           LET k == <<"operation", o>> IN (Waits(k)' <=> Waits(k)) /\ (Seen(k)' <=> Seen(k)),
           ctxs'[o] = ctxs[o]
    PROVE  PlaceOf(o)'
  <1>1. Held(o)' <=> Held(o)
    BY DEF Held
  <1>2. Accepted(o)' <=> Accepted(o)
    BY DEF Accepted, Reported
  <1> QED  BY <1>1, <1>2 DEF PlaceOf, Reported

(* The thread that posts an operation is the only one that holds it.       *)
LEMMA PostHolds ==
    ASSUME Types, FrameOK, PlacesOK, NEW t \in Threads,
           pc[t] = "post" \/ (pc[t] = "return" /\ ret[t] = "RETRY")
    PROVE  /\ entry[t] \in Ops /\ HeldByCall(t, entry[t]) /\ Held(entry[t])
           /\ entry[t] \notin todo /\ entry[t] \notin posted
           /\ ~Waits(<<"operation", entry[t]>>) /\ ~Seen(<<"operation", entry[t]>>)
           /\ \A u \in Threads : u # t => ~HeldByCall(u, entry[t])
           /\ ctxs[entry[t]] = 1
  <1>1. entry[t] \in Ops /\ HeldByCall(t, entry[t])
    BY LciAssumption DEF Types, TypeOK, FrameOK, HeldByCall
  <1>2. PlaceOf(entry[t]) /\ Held(entry[t])
    BY <1>1 DEF PlacesOK, Held
  <1> QED  BY <1>1, <1>2 DEF PlaceOf, Accepted, Reported

(* send, recv or put takes an operation from the client.                   *)
LEMMA PlacesNew ==
    ASSUME Types, FrameOK, PlacesOK, NEW t \in Threads, NEW e \in Ops, NewRequest(t, e)
    PROVE  PlacesOK'
  <1>1. /\ pc \in [Threads -> {"idle", "register", "post", "return"}]
        /\ entry \in [Threads -> Ops \cup {NULL}] /\ ctxs \in [Ops -> Nat]
    BY DEF Types, TypeOK
  <1>2. /\ pc[t] = "idle" /\ e \in todo /\ todo' = todo \ {e}
        /\ entry' = [entry EXCEPT ![t] = e] /\ ctxs' = [ctxs EXCEPT ![e] = @ + 1]
        /\ pc' = [pc EXCEPT ![t] = "post"] /\ UNCHANGED <<ret, posted, compVars>>
    BY DEF NewRequest, Goto, lciVars
  <1>3. entry[t] = NULL /\ \A o \in Ops : o # NULL
    BY <1>2, Constants DEF FrameOK
  <1>4. \A o \in Ops, u \in Threads : HeldByCall(u, o)' <=> (HeldByCall(u, o) \/ (u = t /\ o = e))
    BY <1>1, <1>2, <1>3 DEF HeldByCall
  <1>5. \A k : (Waits(k)' <=> Waits(k)) /\ (Seen(k)' <=> Seen(k))
    BY <1>2, NoReport
  <1>6. ASSUME NEW o \in Ops, o # e PROVE PlaceOf(o)'
    <2>1. ctxs'[o] = ctxs[o]
      BY <1>1, <1>2, <1>6
    <2> QED  BY <1>2, <1>4, <1>5, <1>6, <2>1, PlaceKept DEF PlacesOK
  <1>7. PlaceOf(e)'
    <2>1. /\ PlaceOf(e) /\ ~Held(e) /\ ~Accepted(e)
      BY <1>2 DEF PlacesOK, PlaceOf
    <2>2. /\ ctxs[e] = 0 /\ e \notin posted /\ ~Waits(<<"operation", e>>)
          /\ ~Seen(<<"operation", e>>)
      BY <2>1 DEF PlaceOf, Accepted, Reported
    <2>3. ctxs'[e] = 1 /\ e \notin todo' /\ Held(e)' /\ ~Accepted(e)'
      BY <1>1, <1>2, <1>4, <1>5, <2>2 DEF Held, Accepted, Reported
    <2>4. \A u, v \in Threads : HeldByCall(u, e)' /\ HeldByCall(v, e)' => u = v
      BY <1>4, <2>1 DEF Held
    <2> QED  BY <2>3, <2>4 DEF PlaceOf, Accepted
  <1> QED  BY <1>6, <1>7 DEF PlacesOK

(* LCI takes it, ...                                                       *)
LEMMA PlacesPost ==
    ASSUME Types, FrameOK, PlacesOK, NEW t \in Threads, LciPost(t)
    PROVE  PlacesOK'
  <1>1. /\ pc \in [Threads -> {"idle", "register", "post", "return"}]
        /\ ret \in [Threads -> {"OK", "RETRY"}]
    BY DEF Types, TypeOK
  <1>2. PICK e : /\ e = entry[t] /\ e \in Ops /\ e \notin todo /\ e \notin posted /\ HeldByCall(t, e)
                 /\ ~Waits(<<"operation", e>>) /\ ~Seen(<<"operation", e>>) /\ ctxs[e] = 1
                 /\ \A u \in Threads : u # t => ~HeldByCall(u, e)
    BY PostHolds DEF LciPost
  <1>3. /\ ret' = [ret EXCEPT ![t] = "OK"] /\ posted' = posted \cup {e}
        /\ pc' = [pc EXCEPT ![t] = "return"] /\ UNCHANGED <<todo, entry, ctxs, compVars>>
    BY <1>2 DEF LciPost, Goto
  <1>4. \A o \in Ops, u \in Threads : HeldByCall(u, o)' <=> (HeldByCall(u, o) /\ u # t)
    BY <1>1, <1>3 DEF HeldByCall
  <1>5. \A k : (Waits(k)' <=> Waits(k)) /\ (Seen(k)' <=> Seen(k))
    BY <1>3, NoReport
  <1>6. ASSUME NEW o \in Ops, o # e PROVE PlaceOf(o)'
    <2>1. ~HeldByCall(t, o)
      BY <1>2, <1>6 DEF HeldByCall
    <2> QED  BY <1>3, <1>4, <1>5, <1>6, <2>1, PlaceKept DEF PlacesOK
  <1>7. PlaceOf(e)'
    <2>1. \A u \in Threads : ~HeldByCall(u, e)'
      BY <1>2, <1>4
    <2>2. ~Held(e)' /\ ctxs'[e] = 1 /\ e \in posted' /\ e \notin todo'
      BY <1>2, <1>3, <2>1 DEF Held
    <2> QED  BY <1>2, <1>5, <2>1, <2>2 DEF PlaceOf, Reported
  <1> QED  BY <1>6, <1>7 DEF PlacesOK

(* ... or refuses it, ...                                                  *)
LEMMA PlacesRetry ==
    ASSUME Types, FrameOK, PlacesOK, NEW t \in Threads, LciRetry(t)
    PROVE  PlacesOK'
  <1>1. /\ pc \in [Threads -> {"idle", "register", "post", "return"}]
        /\ ret \in [Threads -> {"OK", "RETRY"}]
    BY DEF Types, TypeOK
  <1>2. /\ pc[t] = "post" /\ ret' = [ret EXCEPT ![t] = "RETRY"]
        /\ pc' = [pc EXCEPT ![t] = "return"] /\ UNCHANGED <<todo, entry, ctxs, posted, compVars>>
    BY DEF LciRetry, Goto, lciVars
  <1>3. \A o \in Ops, u \in Threads : HeldByCall(u, o)' <=> HeldByCall(u, o)
    BY <1>1, <1>2 DEF HeldByCall
  <1>4. \A k : (Waits(k)' <=> Waits(k)) /\ (Seen(k)' <=> Seen(k))
    BY <1>2, NoReport
  <1> QED  BY <1>2, <1>3, <1>4, PlaceKept DEF PlacesOK

(* ... and then it goes back to the client when the call returns.          *)
LEMMA PlacesReturn ==
    ASSUME Types, FrameOK, PlacesOK, NEW t \in Threads, Return(t)
    PROVE  PlacesOK'
  <1>1. /\ pc \in [Threads -> {"idle", "register", "post", "return"}]
        /\ ret \in [Threads -> {"OK", "RETRY"}] /\ ctxs \in [Ops -> Nat]
        /\ entry \in [Threads -> Ops \cup {NULL}]
    BY DEF Types, TypeOK
  <1>2. /\ pc[t] = "return" /\ pc' = [pc EXCEPT ![t] = "idle"]
        /\ entry' = [entry EXCEPT ![t] = NULL] /\ UNCHANGED <<ret, posted, compVars>>
    BY DEF Return, Goto, lciVars
  <1>3. \A o \in Ops, u \in Threads : HeldByCall(u, o)' <=> (HeldByCall(u, o) /\ u # t)
    BY <1>1, <1>2, Constants DEF HeldByCall
  <1>4. \A k : (Waits(k)' <=> Waits(k)) /\ (Seen(k)' <=> Seen(k))
    BY <1>2, NoReport
  <1>5. CASE ret[t] = "RETRY"
    <2>1. PICK e : /\ e = entry[t] /\ e \in Ops /\ e \notin todo /\ e \notin posted
                   /\ HeldByCall(t, e) /\ ctxs[e] = 1
                   /\ ~Waits(<<"operation", e>>) /\ ~Seen(<<"operation", e>>)
                   /\ \A u \in Threads : u # t => ~HeldByCall(u, e)
      BY <1>2, <1>5, PostHolds
    <2>2. ctxs' = [ctxs EXCEPT ![e] = @ - 1] /\ todo' = todo \cup {e}
      BY <1>5, <2>1, Constants DEF Return, DeleteCtx
    <2>3. ASSUME NEW o \in Ops, o # e PROVE PlaceOf(o)'
      <3>1. ~HeldByCall(t, o) /\ ctxs'[o] = ctxs[o]
        BY <1>1, <2>1, <2>2, <2>3 DEF HeldByCall
      <3> QED  BY <1>2, <1>3, <1>4, <2>2, <2>3, <3>1, PlaceKept DEF PlacesOK
    <2>4. PlaceOf(e)'
      <3>1. \A u \in Threads : ~HeldByCall(u, e)'
        BY <1>3, <2>1
      <3>2. ~Held(e)' /\ ctxs'[e] = 0 /\ e \notin posted' /\ ~Accepted(e)'
        BY <1>1, <1>2, <1>4, <2>1, <2>2, <3>1 DEF Held, Accepted, Reported
      <3> QED  BY <3>1, <3>2 DEF PlaceOf, Accepted, Reported
    <2> QED  BY <2>3, <2>4 DEF PlacesOK
  <1>6. CASE ret[t] # "RETRY"
    <2>1. UNCHANGED <<ctxs, todo>> /\ \A o \in Ops : ~HeldByCall(t, o)
      BY <1>2, <1>6 DEF Return, HeldByCall
    <2> QED  BY <1>2, <1>3, <1>4, <2>1, PlaceKept DEF PlacesOK
  <1> QED  BY <1>5, <1>6

(* do_progress hands it from LCI to a queue, or a handler deletes it.      *)
LEMMA PlacesProgress ==
    ASSUME LciInv, NEW t \in Threads, Progress(t)
    PROVE  PlacesOK' /\ ctxs' \in [Ops -> Nat]
  <1>1. /\ Types /\ StatusesOK /\ QueueOnce /\ PlacesOK /\ ctxs \in [Ops -> Nat]
        /\ lib \in {"LCI", "LCI2"} /\ posted \subseteq Ops
    BY LciAssumption DEF LciInv, Types, TypeOK
  <1>2. PICK c \in Comps, st \in Statuses :
           /\ GoodStatus(st) /\ LciSignal(c, st) /\ ~Reported(StatusKey(st))
           /\ UNCHANGED <<lib, program, todo, callVars, deviceVars>>
           /\ \/ st.user_context = NULL /\ posted' = posted
              \/ st.user_context \in posted /\ posted' = posted \ {st.user_context}
    BY ProgressSignals
  <1>3. /\ \A k : Waits(k)' <=> (Waits(k) \/ (c \notin Handlers /\ k = StatusKey(st)))
        /\ \A k : Seen(k)' <=> (Seen(k) \/ (c \in Handlers /\ k = StatusKey(st)))
    BY <1>1, <1>2, SignalEffect
  <1>4. \A o \in Ops, u \in Threads : HeldByCall(u, o)' <=> HeldByCall(u, o)
    BY <1>2 DEF HeldByCall, callVars
  <1>5. CASE st.user_context = NULL
    <2>1. ctxs' = ctxs /\ posted' = posted
      BY <1>1, <1>2, <1>5, Constants DEF LciSignal, DeleteCtx
    <2>2. StatusKey(st) = <<"arrival", st.msg>>
      BY <1>5 DEF StatusKey
    <2>3. \A o \in Ops : LET k == <<"operation", o>>
                         IN  (Waits(k)' <=> Waits(k)) /\ (Seen(k)' <=> Seen(k))
      BY <1>3, <2>2
    <2>4. PlacesOK'
      BY <1>1, <1>2, <1>4, <2>1, <2>3, PlaceKept DEF PlacesOK
    <2> QED  BY <1>1, <2>1, <2>4
  <1>6. CASE st.user_context # NULL
    <2>1. PICK e \in Ops : /\ e = st.user_context /\ e \in posted /\ posted' = posted \ {e}
                           /\ StatusKey(st) = <<"operation", e>>
      BY <1>1, <1>2, <1>6 DEF StatusKey
    <2>2. ctxs' = IF c \in Handlers THEN [ctxs EXCEPT ![e] = @ - 1] ELSE ctxs
      BY <1>2, <1>6, <2>1 DEF LciSignal, DeleteCtx
    <2>3. /\ PlaceOf(e) /\ ~Held(e) /\ e \notin todo /\ ctxs[e] = 1
          /\ ~Waits(<<"operation", e>>) /\ ~Seen(<<"operation", e>>)
      BY <1>1, <2>1 DEF PlacesOK, PlaceOf, Accepted, Reported
    <2>4. ctxs' \in [Ops -> Nat]
      BY <1>1, <2>2, <2>3
    <2>5. ASSUME NEW o \in Ops, o # e PROVE PlaceOf(o)'
      <3>1. ctxs'[o] = ctxs[o]
        BY <1>1, <2>2, <2>5
      <3>2. LET k == <<"operation", o>> IN (Waits(k)' <=> Waits(k)) /\ (Seen(k)' <=> Seen(k))
        BY <1>3, <2>1, <2>5
      <3> QED  BY <1>1, <1>2, <1>4, <2>1, <2>5, <3>1, <3>2, PlaceKept DEF PlacesOK
    <2>6. PlaceOf(e)'
      <3>1. ~Held(e)' /\ e \notin todo' /\ e \notin posted' /\ \A u \in Threads : ~HeldByCall(u, e)'
        BY <1>2, <1>4, <2>1, <2>3 DEF Held
      <3>2. CASE c \in Handlers
        <4>1. ~Waits(<<"operation", e>>)' /\ ctxs'[e] = 0
          BY <1>1, <1>3, <2>2, <2>3, <3>2
        <4> QED  BY <3>1, <4>1 DEF PlaceOf, Reported
      <3>3. CASE c \notin Handlers
        <4>1. Waits(<<"operation", e>>)' /\ ctxs'[e] = 1
          BY <1>1, <1>3, <2>1, <2>2, <2>3, <3>3
        <4> QED  BY <3>1, <4>1 DEF PlaceOf, Reported
      <3> QED  BY <3>2, <3>3
    <2> QED  BY <2>4, <2>5, <2>6 DEF PlacesOK
  <1> QED  BY <1>5, <1>6

(* poll_cq hands it to the client and deletes its request_t.               *)
LEMMA PlacesPoll ==
    ASSUME LciInv, NEW t \in Threads, NEW c \in Comps, PollCq(t, c)
    PROVE  PlacesOK' /\ ctxs' \in [Ops -> Nat]
  <1>1. /\ Types /\ StatusesOK /\ QueueOnce /\ PlacesOK /\ ctxs \in [Ops -> Nat]
        /\ lib \in {"LCI", "LCI2"}
    BY LciAssumption DEF LciInv, Types, TypeOK
  <1>2. PICK st : /\ st = Head(cq[c]) /\ GoodStatus(st) /\ Waits(StatusKey(st))
                  /\ \A k : Waits(k)' <=> (Waits(k) /\ k # StatusKey(st))
                  /\ \A k : Seen(k)' <=> (Seen(k) \/ k = StatusKey(st))
    BY <1>1, PollEffect
  <1>3. UNCHANGED <<todo, callVars, posted>> /\ DeleteCtx(st.user_context)
    BY <1>2 DEF PollCq, lciVars
  <1>4. \A o \in Ops, u \in Threads : HeldByCall(u, o)' <=> HeldByCall(u, o)
    BY <1>3 DEF HeldByCall, callVars
  <1>5. CASE st.user_context = NULL
    <2>1. ctxs' = ctxs /\ StatusKey(st) = <<"arrival", st.msg>>
      BY <1>3, <1>5 DEF DeleteCtx, StatusKey
    <2>2. \A o \in Ops : LET k == <<"operation", o>>
                         IN  (Waits(k)' <=> Waits(k)) /\ (Seen(k)' <=> Seen(k))
      BY <1>2, <2>1
    <2>3. PlacesOK'
      BY <1>1, <1>3, <1>4, <2>1, <2>2, PlaceKept DEF PlacesOK
    <2> QED  BY <1>1, <2>1, <2>3
  <1>6. CASE st.user_context # NULL
    <2>1. PICK e \in Ops : e = st.user_context /\ StatusKey(st) = <<"operation", e>>
      BY <1>2, <1>6 DEF StatusKey, GoodStatus
    <2>2. ctxs' = [ctxs EXCEPT ![e] = @ - 1]
      BY <1>3, <1>6, <2>1 DEF DeleteCtx
    <2>3. PlaceOf(e) /\ ~Held(e) /\ e \notin todo /\ e \notin posted /\ ctxs[e] = 1
      BY <1>1, <1>2, <2>1 DEF PlacesOK, PlaceOf, Accepted, Reported
    <2>4. ctxs' \in [Ops -> Nat]
      BY <1>1, <2>2, <2>3
    <2>5. ASSUME NEW o \in Ops, o # e PROVE PlaceOf(o)'
      <3>1. ctxs'[o] = ctxs[o]
        BY <1>1, <2>2, <2>5
      <3>2. LET k == <<"operation", o>> IN (Waits(k)' <=> Waits(k)) /\ (Seen(k)' <=> Seen(k))
        BY <1>2, <2>1, <2>5
      <3> QED  BY <1>1, <1>3, <1>4, <2>5, <3>1, <3>2, PlaceKept DEF PlacesOK
    <2>6. PlaceOf(e)'
      <3>1. ~Held(e)' /\ e \notin todo' /\ e \notin posted' /\ \A u \in Threads : ~HeldByCall(u, e)'
        BY <1>3, <1>4, <2>3 DEF Held
      <3>2. ~Waits(<<"operation", e>>)' /\ ctxs'[e] = 0
        BY <1>1, <1>2, <2>1, <2>2, <2>3
      <3> QED  BY <3>1, <3>2 DEF PlaceOf
    <2> QED  BY <2>4, <2>5, <2>6 DEF PlacesOK
  <1> QED  BY <1>5, <1>6

(* Every step keeps every operation in one place.                          *)
LEMMA PlacesNext ==
    ASSUME LciInv, [Next]_vars
    PROVE  PlacesOK'
  <1>1. Types /\ FrameOK /\ PlacesOK
    BY DEF LciInv
  <1>2. ASSUME UNCHANGED <<todo, ctxs, posted, compVars>>,
               \A o \in Ops, u \in Threads : HeldByCall(u, o)' <=> HeldByCall(u, o)
        PROVE  PlacesOK'
    BY <1>1, <1>2, NoReport, PlaceKept DEF PlacesOK
  <1>3. ASSUME NEW t \in Threads, AllocDevice(t) \/ RegisterComp(t) PROVE PlacesOK'
    <2>1. /\ pc \in [Threads -> {"idle", "register", "post", "return"}]
          /\ pc[t] \in {"idle", "register"} /\ UNCHANGED <<entry, ret>>
          /\ pc' = [pc EXCEPT ![t] = pc'[t]] /\ pc'[t] \in {"idle", "register"}
      BY <1>1, <1>3 DEF Types, TypeOK, AllocDevice, RegisterComp, Goto
    <2>2. \A o \in Ops, u \in Threads : HeldByCall(u, o)' <=> HeldByCall(u, o)
      BY <2>1 DEF HeldByCall
    <2> QED  BY <1>2, <1>3, <2>2 DEF AllocDevice, RegisterComp, lciVars
  <1>4. ASSUME UNCHANGED <<todo, ctxs, posted, compVars, callVars>> PROVE PlacesOK'
    BY <1>2, <1>4 DEF HeldByCall, callVars
  <1>5. ASSUME NEW t \in Threads, NEW d \in Devices, FreeDevice(t, d) PROVE PlacesOK'
    BY <1>4, <1>5 DEF FreeDevice, lciVars
  <1>6. CASE UNCHANGED vars
    BY <1>4, <1>6 DEF vars, lciVars
  <1> QED  BY <1>1, <1>3, <1>5, <1>6, PlacesNew, PlacesPost, PlacesRetry, PlacesReturn,
              PlacesProgress, PlacesPoll DEF Next

(* What was accepted stays accepted: from LCI it only goes to a report.    *)
LEMMA AcceptedStays ==
    ASSUME LciInv, [Next]_vars, NEW o, Accepted(o)
    PROVE  Accepted(o)'
  <1>1. \A k : Reported(k) => Reported(k)'
    BY ReportsNext
  <1>2. ASSUME NEW t \in Threads, Progress(t), o \in posted, o \notin posted'
        PROVE  Reported(<<"operation", o>>)'
    <2>1. /\ Types /\ StatusesOK /\ QueueOnce /\ lib \in {"LCI", "LCI2"} /\ lib' = lib
          /\ NULL \notin posted
      BY LibFixed, Constants DEF LciInv, Types, TypeOK
    <2>2. PICK c \in Comps, st \in Statuses :
             /\ GoodStatus(st) /\ LciSignal(c, st) /\ ~Reported(StatusKey(st))
             /\ \/ posted' = posted
                \/ st.user_context \in posted /\ posted' = posted \ {st.user_context}
      BY <1>2, ProgressSignals
    <2>3. StatusKey(st) = <<"operation", o>>
      BY <1>2, <2>1, <2>2 DEF StatusKey
    <2> QED  BY <2>1, <2>2, <2>3, SignalEffect DEF Reported
  <1>3. CASE o \in posted /\ o \notin posted'
    <2>1. \E t \in Threads : Progress(t)
      BY <1>3 DEF Next, AllocDevice, RegisterComp, NewRequest, LciPost, LciRetry, Return, PollCq,
                  FreeDevice, lciVars, vars
    <2> QED  BY <1>2, <1>3, <2>1 DEF Accepted
  <1> QED  BY <1>1, <1>3 DEF Accepted

(* A message leaves the network when it is taken.                          *)
LEMMA NetNext ==
    ASSUME LciInv, [Next]_vars
    PROVE  NetOK'
  <1>1. /\ Types /\ FrameOK /\ StatusesOK /\ QueueOnce /\ PlacesOK /\ NetOK
        /\ lib \in {"LCI", "LCI2"} /\ lib' = lib
        /\ \A o : Accepted(o) => Accepted(o)'
    BY LibFixed, AcceptedStays DEF LciInv, Types, TypeOK
  <1>2. ASSUME \A s : Taken(s)' <=> Taken(s), net' \subseteq net PROVE NetOK'
    BY <1>1, <1>2 DEF NetOK
  <1>3. ASSUME UNCHANGED <<compVars, net>> PROVE NetOK'
    BY <1>2, <1>3, NoReport
  <1>4. ASSUME NEW t \in Threads, LciPost(t) PROVE NetOK'
    <2>1. PICK e : e = entry[t] /\ e \in Ops /\ ~Accepted(e)
      BY <1>1, <1>4, PostHolds DEF LciPost, Accepted, Reported
    <2>2. /\ net' \subseteq net \cup {e} /\ e \in posted' /\ UNCHANGED compVars
      BY <1>4, <2>1 DEF LciPost
    <2>3. Accepted(e)' /\ ~Taken(e)
      BY <1>1, <2>1, <2>2 DEF Accepted, NetOK
    <2>4. \A s : Taken(s)' <=> Taken(s)
      BY <2>2, NoReport
    <2> QED  BY <1>1, <2>2, <2>3, <2>4 DEF NetOK
  <1>5. ASSUME NEW t \in Threads, Progress(t) PROVE NetOK'
    <2>1. PICK c \in Comps, st \in Statuses :
             /\ GoodStatus(st) /\ LciSignal(c, st) /\ ~Reported(StatusKey(st))
             /\ IF Takes(st) THEN st.msg \in net /\ net' = net \ {st.msg} ELSE net' = net
      BY <1>5, ProgressSignals
    <2>2. \A s : Taken(s)' <=> (Taken(s) \/ (s = st.msg /\ Takes(st)))
      BY <1>1, <2>1, SignalEffect
    <2>3. st.msg \in Ops
      BY <2>1 DEF GoodStatus
    <2> QED  BY <1>1, <2>1, <2>2, <2>3 DEF NetOK
  <1>6. ASSUME NEW t \in Threads, NEW c \in Comps, PollCq(t, c) PROVE NetOK'
    BY <1>1, <1>2, <1>6, PollEffect DEF PollCq, lciVars
  <1>7. ASSUME NEW t \in Threads,
               \/ AllocDevice(t) \/ RegisterComp(t) \/ LciRetry(t) \/ Return(t)
               \/ (\E o \in Ops : NewRequest(t, o)) \/ \E d \in Devices : FreeDevice(t, d)
        PROVE  NetOK'
    BY <1>3, <1>7 DEF AllocDevice, RegisterComp, LciRetry, Return, NewRequest, FreeDevice, lciVars
  <1>8. CASE UNCHANGED vars
    BY <1>3, <1>8 DEF vars, lciVars
  <1> QED  BY <1>4, <1>5, <1>6, <1>7, <1>8 DEF Next

-----------------------------------------------------------------------------
(* Every step keeps the types.                                             *)
LEMMA TypesNext ==
    ASSUME LciInv, [Next]_vars
    PROVE  Types'
  <1>1. /\ Types /\ TypeOK /\ FrameOK /\ TableOK /\ PlacesOK /\ program \subseteq Ops
        /\ lib' = lib /\ program' = program
        /\ cq' \in [Comps -> Seq(Statuses)] /\ polled' \in [Comps -> SUBSET Completion]
    BY LibFixed, ReportsNext DEF LciInv, Types
  <1> DEFINE Calls == /\ todo' \subseteq program
                      /\ pc' \in [Threads -> {"idle", "register", "post", "return"}]
                      /\ entry' \in [Threads -> Ops \cup {NULL}]
                      /\ dev' \in [Threads -> Devices \cup {NULL}]
                      /\ ret' \in [Threads -> {"OK", "RETRY"}]
             Tables == /\ g_ndevices' \in [Procs -> 0 .. Cardinality(DeviceIds)]
                       /\ rcomp' \in [Devices -> Nat] /\ rcomps' \in [Procs -> Seq(Comps)]
                       /\ freed' \subseteq Devices
             Lci == posted' \subseteq Ops /\ net' \subseteq Ops
             Ctxs == ctxs' \in [Ops -> Nat]
  <1>2. ASSUME Calls, Tables, Lci, Ctxs PROVE Types'
    BY <1>1, <1>2 DEF Types, TypeOK
  <1>3. /\ UNCHANGED <<todo, callVars>> => Calls
        /\ UNCHANGED deviceVars => Tables
        /\ UNCHANGED lciVars => Lci
        /\ UNCHANGED ctxs => Ctxs
    BY <1>1 DEF Types, TypeOK, callVars, deviceVars, lciVars
  <1>4. ASSUME NEW t \in Threads, AllocDevice(t) PROVE Types'
    <2>1. dev'[t] \in Devices /\ ThreadProc[t] \in Procs
      BY <1>1, <1>4, TableAlloc, Constants
    <2>2. Calls
      BY <1>1, <1>4, <2>1 DEF TypeOK, AllocDevice, Goto
    <2>3. g_ndevices' \in [Procs -> 0 .. Cardinality(DeviceIds)]
      BY <1>1, <1>4, <2>1, Constants DEF TypeOK, AllocDevice, NumDevices
    <2>4. Tables
      BY <1>1, <1>4, <2>3 DEF Types, TypeOK, AllocDevice
    <2> QED  BY <1>2, <1>3, <1>4, <2>2, <2>4 DEF AllocDevice
  <1>5. ASSUME NEW t \in Threads, RegisterComp(t) PROVE Types'
    <2>1. rcomps' \in [Procs -> Seq(Comps)] /\ rcomp' \in [Devices -> Nat]
      BY <1>1, <1>5, TableRegister
    <2>2. Tables
      BY <1>1, <1>5, <2>1 DEF TypeOK, RegisterComp
    <2>3. Calls
      BY <1>1, <1>5 DEF TypeOK, RegisterComp, Goto
    <2> QED  BY <1>2, <1>3, <1>5, <2>2, <2>3 DEF RegisterComp
  <1>6. ASSUME NEW t \in Threads, NEW o \in Ops, NewRequest(t, o) PROVE Types'
    <2>1. Calls
      BY <1>1, <1>6 DEF TypeOK, NewRequest, Goto
    <2>2. Ctxs
      BY <1>1, <1>6 DEF TypeOK, NewRequest
    <2> QED  BY <1>2, <1>3, <1>6, <2>1, <2>2 DEF NewRequest
  <1>7. ASSUME NEW t \in Threads, LciPost(t) \/ LciRetry(t) PROVE Types'
    <2>1. Calls
      BY <1>1, <1>7 DEF TypeOK, LciPost, LciRetry, Goto
    <2>2. entry[t] \in Ops
      BY <1>1, <1>7, PostHolds DEF LciPost, LciRetry
    <2>3. Lci
      BY <1>1, <1>7, <2>2 DEF TypeOK, LciPost, LciRetry, lciVars
    <2> QED  BY <1>2, <1>3, <1>7, <2>1, <2>3 DEF LciPost, LciRetry
  <1>8. ASSUME NEW t \in Threads, Return(t) PROVE Types'
    <2>1. entry[t] \in program /\ (ret[t] = "RETRY" => ctxs[entry[t]] = 1)
      BY <1>1, <1>8, PostHolds DEF Return, FrameOK
    <2>2. Calls
      BY <1>1, <1>8, <2>1 DEF TypeOK, Return, Goto
    <2>3. Ctxs
      BY <1>1, <1>8, <2>1, Constants DEF TypeOK, Return, DeleteCtx
    <2> QED  BY <1>2, <1>3, <1>8, <2>2, <2>3 DEF Return
  <1>9. ASSUME NEW t \in Threads, Progress(t) PROVE Types'
    <2>1. UNCHANGED <<todo, callVars, deviceVars>> /\ posted' \subseteq posted /\ net' \subseteq net
      BY <1>9 DEF Progress, SendDone, RecvDone, PutArrives
    <2>2. Lci
      BY <1>1, <2>1 DEF TypeOK
    <2> QED  BY <1>2, <1>3, <1>9, <2>1, <2>2, PlacesProgress
  <1>10. ASSUME NEW t \in Threads, NEW c \in Comps, PollCq(t, c) PROVE Types'
    BY <1>2, <1>3, <1>10, PlacesPoll DEF PollCq
  <1>11. ASSUME NEW t \in Threads, NEW d \in Devices, FreeDevice(t, d) PROVE Types'
    <2>1. Tables
      BY <1>1, <1>11 DEF Types, TypeOK, FreeDevice
    <2> QED  BY <1>2, <1>3, <1>11, <2>1 DEF FreeDevice
  <1>12. ASSUME UNCHANGED vars PROVE Types'
    BY <1>2, <1>3, <1>12 DEF vars
  <1> QED  BY <1>4, <1>5, <1>6, <1>7, <1>8, <1>9, <1>10, <1>11, <1>12 DEF Next

(* At the start there are no devices, and every operation is the client's. *)
LEMMA LciInit == Init => LciInv
  <1> SUFFICES ASSUME Init PROVE LciInv
    OBVIOUS
  <1> USE DEF Init
  <1>1. Types
    <2>1. /\ rcomps \in [Procs -> Seq(Comps)] /\ cq \in [Comps -> Seq(Statuses)]
          /\ \A p \in Procs : rcomps[p] \in Seq(Comps)
      OBVIOUS
    <2>2. 0 \in 0 .. Cardinality(DeviceIds)
      BY Constants DEF NumDevices
    <2> QED  BY <2>1, <2>2 DEF Types, TypeOK
  <1>2. FrameOK /\ Ready
    BY DEF FrameOK, Ready
  <1>3. TableOK
    <2>1. ASSUME NEW p \in Procs PROVE TableOf(p)
      <3>1. Len(rcomps[p]) = 0 /\ g_ndevices[p] = 0 /\ \A t \in Threads : ~Registering(t, p)
        BY DEF Registering
      <3>2. \A k \in DeviceIds : ~(k < 0) /\ rcomp[<<p, k>>] = 0
        BY Constants
      <3> QED  BY <3>1, <3>2 DEF TableOf
    <2> QED  BY <2>1 DEF TableOK, Registering
  <1>4. /\ \A k : ~Waits(k) /\ ~Seen(k)
        /\ \A s : ~Taken(s)
    BY DEF Waits, Seen, Taken
  <1>5. StatusesOK /\ QueueOnce
    BY <1>4 DEF StatusesOK, QueueOnce
  <1>6. \A o \in Ops, t \in Threads : ~HeldByCall(t, o)
    BY Constants DEF HeldByCall
  <1>7. PlacesOK
    BY <1>4, <1>6 DEF PlacesOK, PlaceOf, Held, Accepted, Reported
  <1>8. NetOK /\ PutsOK
    BY <1>4 DEF NetOK, PutsOK
  <1> QED  BY <1>1, <1>2, <1>3, <1>5, <1>7, <1>8 DEF LciInv

(* The inductive invariant holds.                                          *)
THEOREM LciCorrect == Spec => []LciInv
  <1>1. LciInv /\ [Next]_vars => LciInv'
    <2> SUFFICES ASSUME LciInv, [Next]_vars PROVE LciInv'
      OBVIOUS
    <2>1. Types' /\ Ready' /\ PutsOK' /\ StatusesOK' /\ QueueOnce' /\ PlacesOK' /\ NetOK'
      BY TypesNext, ReadyNext, PutsNext, ReportsNext, PlacesNext, NetNext
    <2>2. FrameOK' /\ TableOK'
      BY FrameNext, TableNext DEF LciInv
    <2> QED  BY <2>1, <2>2 DEF LciInv
  <1> QED  BY LciInit, <1>1, PTL DEF Spec

(* The variables of the LCI backends keep their types.  In particular      *)
(* every length a completion carries is a number: poll_cq never reads the  *)
(* length of a message from the wrong member of the union.                 *)
THEOREM LciTypes == Spec => []TypeOK
  <1>1. LciInv => TypeOK
    BY DEF LciInv, Types
  <1> QED  BY <1>1, LciCorrect, PTL

(* Of the sets that Holders counts, one has one member at most.            *)
LEMMA HoldersCounted ==
    ASSUME LciInv, NEW o \in Ops
    PROVE  Holders(o) = ctxs[o]
  <1> DEFINE H == {t \in Threads : HeldByCall(t, o)}
             W == UNION {{<<c, i>> : i \in {j \in DOMAIN cq[c] : cq[c][j].user_context = o}} :
                         c \in Comps}
             k == <<"operation", o>>
  <1>1. PlaceOf(o) /\ QueueOnce /\ o # NULL
    BY Constants DEF LciInv, PlacesOK
  <1>2. \A c \in Comps : \A i \in DOMAIN cq[c] :
           cq[c][i].user_context = o <=> StatusKey(cq[c][i]) = k
    BY <1>1 DEF StatusKey
  <1>3. Cardinality(H) = IF Held(o) THEN 1 ELSE 0
    <2>1. CASE Held(o)
      <3>1. PICK t \in Threads : HeldByCall(t, o)
        BY <2>1 DEF Held
      <3>2. H = {t}
        BY <1>1, <3>1 DEF PlaceOf
      <3> QED  BY <2>1, <3>2, FS_Singleton
    <2>2. CASE ~Held(o)
      <3>1. H = {}
        BY <2>2 DEF Held
      <3> QED  BY <2>2, <3>1, FS_EmptySet
    <2> QED  BY <2>1, <2>2
  <1>4. Cardinality(W) = IF Waits(k) THEN 1 ELSE 0
    <2>1. CASE Waits(k)
      <3>1. PICK c \in Comps : \E i \in DOMAIN cq[c] : StatusKey(cq[c][i]) = k
        BY <2>1 DEF Waits
      <3>2. PICK i \in DOMAIN cq[c] : StatusKey(cq[c][i]) = k
        BY <3>1
      <3>3. <<c, i>> \in W
        BY <1>2, <3>2
      <3>4. \A w \in W : w = <<c, i>>
        <4>1. ASSUME NEW d \in Comps, NEW j \in DOMAIN cq[d], cq[d][j].user_context = o
              PROVE  <<d, j>> = <<c, i>>
          BY <1>1, <1>2, <3>2, <4>1 DEF QueueOnce
        <4> QED  BY <4>1
      <3>5. W = {<<c, i>>}
        BY <3>3, <3>4
      <3> HIDE DEF W
      <3> QED  BY <2>1, <3>5, FS_Singleton
    <2>2. CASE ~Waits(k)
      <3>1. W = {}
        BY <1>2, <2>2 DEF Waits
      <3> HIDE DEF W
      <3> QED  BY <2>2, <3>1, FS_EmptySet
    <2> QED  BY <2>1, <2>2
  <1>5. Holders(o) = Cardinality(H) + (IF o \in posted THEN 1 ELSE 0) + Cardinality(W)
    BY DEF Holders
  <1> HIDE DEF H, W
  <1>6. PICK h, w : h = Cardinality(H) /\ w = Cardinality(W)
    OBVIOUS
  <1> QED  BY <1>1, <1>3, <1>4, <1>5, <1>6 DEF PlaceOf, Accepted, Reported

(* The request_t of an operation lives from the call until its status is   *)
(* converted, or the call returns false: none leaks, none is deleted while *)
(* LCI or a queue still has its address, for any number of threads.        *)
THEOREM ContextsKept == Spec => []ContextsExact
  <1>1. LciInv => ContextsExact
    BY HoldersCounted DEF ContextsExact
  <1> QED  BY <1>1, LciCorrect, PTL

-----------------------------------------------------------------------------
(* The contract of lcw.hpp.                                                *)

(* What the contract calls posted and queued.                              *)
Posted ==
    posted \cup {o \in Ops : \E c \in Comps :
                    \/ \E r \in polled[c] : Key(r) = <<"operation", o>>
                    \/ \E i \in DOMAIN cq[c] : cq[c][i].user_context = o}
QueuedAt(c) == {RequestFromStatus(cq[c][i]) : i \in DOMAIN cq[c]}

(* An operation is posted, for the contract, once LCI has taken it.        *)
LEMMA PostedIsAccepted ==
    ASSUME posted \subseteq Ops
    PROVE  Posted = {o \in Ops : Accepted(o)}
  <1>1. ASSUME NEW o \in Ops
        PROVE  Waits(<<"operation", o>>) <=>
                  \E c \in Comps : \E i \in DOMAIN cq[c] : cq[c][i].user_context = o
    <2>1. o # NULL
      BY Constants
    <2> QED  BY <2>1 DEF Waits, StatusKey
  <1>2. ASSUME NEW o \in Ops PROVE o \in Posted <=> Accepted(o)
    BY <1>1 DEF Posted, Accepted, Reported, Seen
  <1>3. Posted \subseteq Ops
    BY DEF Posted
  <1> QED  BY <1>2, <1>3

(* The contract speaks of operations in the words of the backend.          *)
LEMMA ContractNames ==
    /\ \A o : Contract!Counted(o) = Counted(o) /\ Contract!IsPut(o) = IsPut(o)
    /\ \A s, o : Contract!Matches(s, o) = Matches(s, o)
    /\ \A q : Contract!Key(q) = Key(q)
  BY DEF Contract!Counted, Counted, Contract!IsPut, IsPut, Contract!Matches, Matches,
         Contract!Key, Key

(* What it calls a report is one, and a receive's report takes a message.  *)
LEMMA ContractReports ==
    ASSUME LciInv, NEW q \in Contract!Reports
    PROVE  Reported(Key(q)) /\ (q.op = "RECV" => Taken(q.buffer))
  <1>1. PICK c \in Comps : q \in QueuedAt(c) \/ q \in polled[c]
    BY DEF Contract!Reports, QueuedAt
  <1>2. CASE q \in QueuedAt(c)
    <2>1. PICK i \in DOMAIN cq[c] : q = RequestFromStatus(cq[c][i])
      BY <1>2 DEF QueuedAt
    <2>2. GoodStatus(cq[c][i]) /\ lib \in {"LCI", "LCI2"}
      BY LciAssumption DEF LciInv, StatusesOK, Types, TypeOK
    <2>3. /\ Key(q) = StatusKey(cq[c][i]) /\ q.buffer = cq[c][i].msg
          /\ q.op = "RECV" => Takes(cq[c][i])
      BY <2>1, <2>2, RequestGood
    <2> QED  BY <2>3 DEF Reported, Waits, Taken
  <1>3. CASE q \in polled[c]
    BY <1>3 DEF Reported, Seen, Taken
  <1> QED  BY <1>1, <1>2, <1>3

(* What do_progress signals is due.                                        *)
LEMMA SignalDue ==
    ASSUME LciInv, NEW c \in Comps, NEW st \in Statuses, GoodStatus(st),
           ~Reported(StatusKey(st)),
           \/ st.user_context = NULL /\ c = PutComp[<<st.msg.rank, st.msg.dev>>]
           \/ st.user_context \in posted /\ c = st.user_context.comp,
           Takes(st) => st.msg \in net
    PROVE  RequestFromStatus(st) \in Contract!Due(c)
  <1>1. /\ lib \in {"LCI", "LCI2"} /\ posted \subseteq Ops /\ NetOK /\ NULL \notin posted
        /\ st.msg \in Ops
    BY LciAssumption, Constants DEF LciInv, Types, TypeOK, GoodStatus
  <1>2. PICK r : /\ r = RequestFromStatus(st) /\ Key(r) = StatusKey(st) /\ r.buffer = st.msg
                 /\ Takes(st) => r.length = st.msg.length
    BY <1>1, RequestGood
  <1>3. \A q \in Contract!Reports : Key(q) # Key(r)
    BY <1>2, ContractReports
  <1>4. Posted = {o \in Ops : Accepted(o)}
    BY <1>1, PostedIsAccepted
  <1>5. CASE st.user_context = NULL
    <2>1. PICK s : s = st.msg /\ IsPut(s) /\ s \in Posted
      BY <1>1, <1>4, <1>5, Constants DEF GoodStatus, Takes, NetOK
    <2>2. r = [op |-> "PUT_SIGNAL", user_context |-> NULL, rank |-> s.proc,
               length |-> r.length, buffer |-> s]
      BY <1>2, <1>5, <2>1 DEF RequestFromStatus
    <2>3. r = Contract!Arrived(s)
      BY <1>2, <1>5, <2>1, <2>2 DEF Contract!Arrived, Takes
    <2>4. c = PutComp[<<s.rank, s.dev>>]
      BY <1>1, <1>5, <2>1
    <2> QED  BY <1>2, <1>3, <2>1, <2>3, <2>4, ContractNames DEF Posted, Contract!Due
  <1>6. CASE st.user_context # NULL
    <2>1. PICK o \in Ops : o = st.user_context /\ o \in posted /\ c = o.comp
      BY <1>1, <1>6
    <2>2. o \in Posted
      BY <2>1 DEF Posted
    <2>3. CASE IsRecv(o)
      <3>1. PICK s \in Ops : s = st.msg /\ Matches(s, o) /\ s \in net
        BY <1>1, <1>6, <2>1, <2>3 DEF GoodStatus, Takes
      <3>2. s \in Posted /\ ~Taken(s)
        BY <1>1, <1>4, <3>1 DEF NetOK
      <3>3. r = [op |-> o.op, user_context |-> o, rank |-> o.rank,
                 length |-> r.length, buffer |-> s]
        BY <1>2, <1>6, <2>1, <3>1 DEF RequestFromStatus
      <3>4. r = Contract!Received(o, s)
        BY <1>2, <1>6, <2>1, <2>3, <3>1, <3>3 DEF Contract!Received, Takes, Matches
      <3>5. \A q \in Contract!Reports : q.op = "RECV" => q.buffer # s
        BY <3>2, ContractReports
      <3>6. <<o, s>> \in {n \in Posted \X Posted :
                            /\ Matches(n[2], n[1]) /\ n[1].comp = c
                            /\ \A q \in Contract!Reports : q.op = "RECV" => q.buffer # n[2]}
        BY <2>1, <2>2, <3>1, <3>2, <3>5
      <3>7. Contract!Received(<<o, s>>[1], <<o, s>>[2]) = r
        BY <3>4
      <3> QED  BY <1>2, <1>3, <3>6, <3>7, ContractNames DEF Posted, Contract!Due
    <2>4. CASE ~IsRecv(o)
      <3>1. Counted(o) /\ st.msg = o
        BY <1>6, <2>1, <2>4, Constants DEF GoodStatus, Counted, IsRecv, OpTypes
      <3>2. r = Contract!Sent(o)
        BY <1>2, <1>6, <2>1, <2>4, <3>1 DEF RequestFromStatus, Contract!Sent
      <3> QED  BY <1>2, <1>3, <2>1, <2>2, <3>1, <3>2, ContractNames DEF Posted, Contract!Due
    <2> QED  BY <2>3, <2>4
  <1> QED  BY <1>5, <1>6

(* The same after a step.                                                  *)
LEMMA PostedNext ==
    ASSUME posted' \subseteq Ops
    PROVE  Posted' = {o \in Ops : Accepted(o)'}
  <1>1. (posted \subseteq Ops)' => (Posted = {o \in Ops : Accepted(o)})'
    BY PostedIsAccepted, PTL
  <1> QED  BY <1>1

(* do_progress is a step of the contract.                                  *)
LEMMA ProgressIsReport ==
    ASSUME LciInv, LciInv', [Next]_vars, NEW t \in Threads, Progress(t)
    PROVE  Contract!Next
  <1>1. /\ Types /\ StatusesOK /\ QueueOnce /\ lib \in {"LCI", "LCI2"} /\ posted \subseteq Ops
        /\ lib' = lib /\ posted' \subseteq Ops /\ \A x : RequestFromStatus(x)' = RequestFromStatus(x)
    BY LibFixed DEF LciInv, Types, TypeOK
  <1>2. PICK c \in Comps, st \in Statuses :
           /\ GoodStatus(st) /\ LciSignal(c, st) /\ ~Reported(StatusKey(st))
           /\ \/ /\ st.user_context = NULL /\ posted' = posted
                 /\ c = PutComp[<<st.msg.rank, st.msg.dev>>]
              \/ /\ st.user_context \in posted /\ posted' = posted \ {st.user_context}
                 /\ c = st.user_context.comp
           /\ Takes(st) => st.msg \in net
    BY ProgressSignals
  <1>3. PICK r : r = RequestFromStatus(st) /\ r \in Contract!Due(c)
    BY <1>2, SignalDue
  <1>4. Posted' = Posted
    <2>1. \A k : Reported(k)' <=> (Reported(k) \/ k = StatusKey(st))
      BY <1>1, <1>2, SignalEffect DEF Reported
    <2>2. ASSUME NEW o \in Ops PROVE Accepted(o)' <=> Accepted(o)
      <3>1. o # NULL
        BY Constants
      <3>2. StatusKey(st) = <<"operation", o>> <=> st.user_context = o
        BY <3>1 DEF StatusKey
      <3> QED  BY <1>2, <2>1, <3>1, <3>2 DEF Accepted
    <2>3. Posted' = {o \in Ops : Accepted(o)'}
      BY <1>1, PostedNext
    <2> QED  BY <1>1, <2>2, <2>3, PostedIsAccepted
  <1>5. CASE c \in Handlers
    <2>1. cq' = cq /\ polled' = [polled EXCEPT ![c] = @ \cup {r}]
      BY <1>2, <1>3, <1>5 DEF LciSignal
    <2>2. [e \in Comps |-> QueuedAt(e)]' = [e \in Comps |-> QueuedAt(e)]
      BY <1>1, <2>1 DEF QueuedAt
    <2>3. Contract!Report(c)
      BY <1>3, <1>4, <1>5, <2>1, <2>2 DEF Contract!Report, QueuedAt, Posted
    <2> QED  BY <2>3 DEF Contract!Next
  <1>6. CASE c \notin Handlers
    <2>1. cq' = [cq EXCEPT ![c] = Append(@, st)] /\ polled' = polled
      BY <1>2, <1>6 DEF LciSignal
    <2>2. PICK n : /\ DOMAIN cq'[c] = DOMAIN cq[c] \cup {n} /\ n \notin DOMAIN cq[c]
                   /\ cq'[c][n] = st
                   /\ \A i \in DOMAIN cq[c] : cq'[c][i] = cq[c][i]
      BY <1>1, <2>1, Queued
    <2>3. \A e \in Comps : e # c => cq'[e] = cq[e]
      BY <1>1, <2>1, Queued
    <2>4. QueuedAt(c)' = QueuedAt(c) \cup {r}
      BY <1>1, <1>3, <2>2 DEF QueuedAt
    <2>5. \A e \in Comps : e # c => QueuedAt(e)' = QueuedAt(e)
      BY <1>1, <2>3 DEF QueuedAt
    <2>6. [e \in Comps |-> QueuedAt(e)]' =
             [[e \in Comps |-> QueuedAt(e)] EXCEPT ![c] = @ \cup {r}]
      BY <2>4, <2>5
    <2>7. Contract!Report(c)
      BY <1>3, <1>4, <1>6, <2>1, <2>6 DEF Contract!Report, QueuedAt, Posted
    <2> QED  BY <2>7 DEF Contract!Next
  <1> QED  BY <1>5, <1>6

(* So is poll_cq.                                                          *)
LEMMA PollIsTake ==
    ASSUME LciInv, [Next]_vars, NEW t \in Threads, NEW c \in Comps, PollCq(t, c)
    PROVE  Contract!Next
  <1>1. /\ Types /\ StatusesOK /\ QueueOnce /\ lib \in {"LCI", "LCI2"} /\ posted \subseteq Ops
        /\ \A x : RequestFromStatus(x)' = RequestFromStatus(x)
        /\ cq \in [Comps -> Seq(Statuses)] /\ cq[c] \in Seq(Statuses) /\ cq[c] # <<>>
    BY LibFixed DEF LciInv, Types, TypeOK, PollCq
  <1>2. PICK st : st = Head(cq[c]) /\ st = cq[c][1] /\ 1 \in DOMAIN cq[c]
    BY <1>1
  <1>3. PICK r : r = RequestFromStatus(st)
    OBVIOUS
  <1>4. /\ cq'[c] = Tail(cq[c]) /\ polled' = [polled EXCEPT ![c] = @ \cup {r}]
        /\ \A e \in Comps : e # c => cq'[e] = cq[e]
        /\ posted' = posted
    BY <1>1, <1>2, <1>3 DEF PollCq, lciVars
  <1>5. /\ DOMAIN cq[c] = 1 .. Len(cq[c]) /\ DOMAIN cq'[c] = 1 .. (Len(cq[c]) - 1)
        /\ Len(cq[c]) \in Nat
        /\ \A i \in 1 .. (Len(cq[c]) - 1) : cq'[c][i] = cq[c][i + 1]
    BY <1>1, <1>4
  <1>6. ASSUME NEW i \in DOMAIN cq[c], i # 1
        PROVE  RequestFromStatus(cq[c][i]) # r
    <2>1. GoodStatus(cq[c][i]) /\ GoodStatus(st)
      BY <1>1, <1>2, <1>6 DEF StatusesOK
    <2>2. StatusKey(cq[c][i]) # StatusKey(st)
      BY <1>1, <1>2, <1>6 DEF QueueOnce
    <2>3. Key(RequestFromStatus(cq[c][i])) = StatusKey(cq[c][i]) /\ Key(r) = StatusKey(st)
      BY <1>1, <1>3, <2>1, RequestGood
    <2> QED  BY <2>2, <2>3
  <1>7. QueuedAt(c)' = QueuedAt(c) \ {r} /\ r \in QueuedAt(c)
    <2>1. ASSUME NEW i \in DOMAIN cq'[c] PROVE RequestFromStatus(cq'[c][i]) \in QueuedAt(c) \ {r}
      <3>1. i + 1 \in DOMAIN cq[c] /\ i + 1 # 1 /\ cq'[c][i] = cq[c][i + 1]
        BY <1>5, <2>1
      <3> QED  BY <1>6, <3>1 DEF QueuedAt
    <2>2. ASSUME NEW i \in DOMAIN cq[c], i # 1
          PROVE  \E m \in DOMAIN cq'[c] : cq'[c][m] = cq[c][i]
      <3>1. i - 1 \in 1 .. (Len(cq[c]) - 1) /\ (i - 1) + 1 = i
        BY <1>5, <2>2
      <3> QED  BY <1>5, <3>1
    <2>3. QueuedAt(c)' = {RequestFromStatus(cq'[c][i]) : i \in DOMAIN cq'[c]}
      BY <1>1 DEF QueuedAt
    <2>4. QueuedAt(c)' \subseteq QueuedAt(c) \ {r}
      BY <2>1, <2>3
    <2>5. QueuedAt(c) \ {r} \subseteq QueuedAt(c)'
      BY <1>2, <1>3, <2>2, <2>3 DEF QueuedAt
    <2> QED  BY <1>2, <1>3, <2>4, <2>5 DEF QueuedAt
  <1>8. \A e \in Comps : e # c => QueuedAt(e)' = QueuedAt(e)
    BY <1>1, <1>4 DEF QueuedAt
  <1>9. [e \in Comps |-> QueuedAt(e)]' = [[e \in Comps |-> QueuedAt(e)] EXCEPT ![c] = @ \ {r}]
    BY <1>7, <1>8
  <1>10. Posted' = Posted
    <2>1. \A k : Reported(k)' <=> Reported(k)
      BY <1>1, PollEffect DEF Reported
    <2>2. \A o \in Ops : Accepted(o)' <=> Accepted(o)
      BY <1>4, <2>1 DEF Accepted
    <2> QED  BY <1>1, <1>4, <2>2, PostedIsAccepted, PostedNext
  <1>11. Contract!Take(c)
    BY <1>4, <1>7, <1>9, <1>10 DEF Contract!Take, QueuedAt, Posted
  <1> QED  BY <1>11 DEF Contract!Next

(* LCI taking an operation is what makes its call succeed.                 *)
LEMMA PostAccepts ==
    ASSUME LciInv, [Next]_vars, NEW t \in Threads, LciPost(t)
    PROVE  Contract!Next
  <1>1. /\ Types /\ FrameOK /\ PlacesOK /\ posted \subseteq Ops
        /\ \A x : RequestFromStatus(x)' = RequestFromStatus(x)
    BY LibFixed DEF LciInv, Types, TypeOK
  <1>2. PICK e \in Ops : e = entry[t] /\ ~Accepted(e)
    BY <1>1, PostHolds DEF LciPost, Accepted, Reported
  <1>3. posted' = posted \cup {e} /\ UNCHANGED compVars
    BY <1>2 DEF LciPost
  <1>4. \A k : Reported(k)' <=> Reported(k)
    BY <1>3, NoReport DEF Reported
  <1>5. \A o \in Ops : Accepted(o)' <=> (Accepted(o) \/ o = e)
    BY <1>3, <1>4 DEF Accepted
  <1>6. Posted' = Posted \cup {e} /\ e \notin Posted
    BY <1>1, <1>2, <1>3, <1>5, PostedIsAccepted, PostedNext
  <1>7. [c \in Comps |-> QueuedAt(c)]' = [c \in Comps |-> QueuedAt(c)] /\ polled' = polled
    BY <1>1, <1>3 DEF QueuedAt, compVars
  <1>8. Contract!Accept(e)
    BY <1>6, <1>7 DEF Contract!Accept, QueuedAt, Posted
  <1> QED  BY <1>8 DEF Contract!Next

(* Every step is a step of the contract or leaves it alone.                *)
LEMMA ContractStep ==
    ASSUME LciInv, LciInv', [Next]_vars
    PROVE  Contract!Next \/ UNCHANGED Contract!contractVars
  <1>1. \A x : RequestFromStatus(x)' = RequestFromStatus(x)
    BY LibFixed DEF LciInv
  <1>2. ASSUME UNCHANGED <<posted, compVars>> PROVE UNCHANGED Contract!contractVars
    <2>1. [c \in Comps |-> QueuedAt(c)]' = [c \in Comps |-> QueuedAt(c)]
      BY <1>1, <1>2 DEF QueuedAt, compVars
    <2>2. Posted' = Posted
      BY <1>2 DEF Posted, compVars
    <2> QED  BY <1>2, <2>1, <2>2 DEF Contract!contractVars, Posted, QueuedAt, compVars
  <1>3. ASSUME NEW t \in Threads,
               \/ AllocDevice(t) \/ RegisterComp(t) \/ LciRetry(t) \/ Return(t)
               \/ (\E o \in Ops : NewRequest(t, o)) \/ \E d \in Devices : FreeDevice(t, d)
        PROVE  UNCHANGED <<posted, compVars>>
    BY <1>3 DEF AllocDevice, RegisterComp, LciRetry, Return, NewRequest, FreeDevice, lciVars
  <1>4. UNCHANGED vars => UNCHANGED <<posted, compVars>>
    BY DEF vars, lciVars
  <1>5. ASSUME NEW t \in Threads, Progress(t) PROVE Contract!Next
    BY <1>5, ProgressIsReport
  <1>6. ASSUME NEW t \in Threads, NEW c \in Comps, PollCq(t, c) PROVE Contract!Next
    BY <1>6, PollIsTake
  <1>7. ASSUME NEW t \in Threads, LciPost(t) PROVE Contract!Next
    BY <1>7, PostAccepts
  <1> QED  BY <1>2, <1>3, <1>4, <1>5, <1>6, <1>7 DEF Next

(* Both LCI backends implement the contract of lcw.hpp: whatever LCI       *)
(* refuses, and however early it signals a status, the client sees an      *)
(* operation accepted, a completion that is due reported, or one taken.    *)
THEOREM LciContract == Spec => ContractSpec
  <1>1. Init => Contract!Init
    BY DEF Init, Contract!Init
  <1>2. LciInv /\ LciInv' /\ [Next]_vars => [Contract!Next]_(Contract!contractVars)
    BY ContractStep
  <1> QED  BY <1>1, <1>2, LciCorrect, PTL DEF Spec, ContractSpec, Contract!Spec
=============================================================================
