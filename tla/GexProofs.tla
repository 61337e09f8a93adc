----------------------------- MODULE GexProofs ------------------------------
(***************************************************************************)
(* put over GASNet-EX, for any number of processes, devices and threads:   *)
(* an active message always finds the device it is for, the handler can    *)
(* still use it when it signals, and the backend keeps the contract of     *)
(* lcw.hpp.  What ties them together is how far the processes can be apart *)
(* (Barriers) and where each put is.                                       *)
(***************************************************************************)
EXTENDS BackendGex, FiniteSetTheorems, TLAPS

Device == [comp : Comps \cup {NULL}, alive : BOOLEAN]

(* TypeOK, with the queues and the tables as sequences.                    *)
Types ==
    /\ TypeOK
    /\ g_devices \in [Procs -> Seq(Device)]
    /\ cq \in [Comps -> Seq(Completion)]

(* Nobody is past a barrier that somebody has not reached.                 *)
Barriers ==
    \A p, q \in Procs : /\ phase[p] >= Comm => phase[q] > Alloc
                        /\ phase[p] >= Free => phase[q] > Comm

(* A thread in put holds a put of its own process.                         *)
FrameOK ==
    \A t \in Threads :
       /\ pc[t] = "put_signal" => entry[t] \in Puts /\ entry[t].proc = ThreadProc[t]
       /\ pc[t] # "put_signal" => entry[t] = NULL

(* The device table: only the thread that allocates has a device whose     *)
(* fields are not set, the last one, and the ids are the places.           *)
Allocating(p) == \E t \in Threads : ThreadProc[t] = p /\ pc[t] = "alloc"
Filled(p, i) ==
    g_devices[p][i].comp = PutComp[<<p, i - 1>>] /\ id[<<p, i - 1>>] = i - 1

TableOf(p) ==
    /\ Len(g_devices[p]) <= NumDevices
    /\ Allocating(p) => phase[p] = Alloc /\ Len(g_devices[p]) > 0
    /\ phase[p] > Alloc => Len(g_devices[p]) = NumDevices
    /\ \A i \in 1 .. Len(g_devices[p]) :
          /\ Filled(p, i) \/ (Allocating(p) /\ i = Len(g_devices[p]))
          /\ phase[p] < Free => g_devices[p][i].alive
TableOK ==
    /\ \A p \in Procs : TableOf(p)
    /\ \A t, u \in Threads :
          pc[t] = "alloc" /\ pc[u] = "alloc" /\ ThreadProc[t] = ThreadProc[u] => t = u

(* Where a put is, at its source and on its way.                           *)
InHand(o) == \E t \in Threads : entry[t] = o
InFlight(o) == \E am \in ams : am.op = o
Handled(o) == \E h \in running : h.op = o
Reported(k) ==
    \E c \in Comps : \/ \E i \in DOMAIN cq[c] : Key(cq[c][i]) = k
                     \/ \E r \in polled[c] : Key(r) = k

SourceOK ==
    \A o \in Puts :
       /\ o \in todo \/ InHand(o) \/ Reported(<<"operation", o>>)
       /\ ~(o \in todo /\ InHand(o))
       /\ ~Reported(<<"operation", o>>) \/ ~(o \in todo \/ InHand(o))
       /\ \A t, u \in Threads : entry[t] = o /\ entry[u] = o => t = u
TargetOK ==
    \A o \in Puts :
       /\ o \in todo \/ InFlight(o) \/ Handled(o) \/ Reported(<<"arrival", o>>)
       /\ ~(o \in todo /\ (InFlight(o) \/ Handled(o))) /\ ~(InFlight(o) /\ Handled(o))
       /\ ~Reported(<<"arrival", o>>) \/ ~(o \in todo \/ InFlight(o) \/ Handled(o))
QueueOnce ==
    \A c \in Comps : \A i, j \in DOMAIN cq[c] : Key(cq[c][i]) = Key(cq[c][j]) => i = j

(* An active message names the device by the number it has at its source,  *)
(* a handler has found the device of that number at its target.            *)
MessagesOK ==
    /\ \A o \in Puts : o \notin todo => phase[o.proc] >= Comm
    /\ \A am \in ams : am.device_idx = am.op.dev
    /\ \A h \in running : h.device = h.op.dev

(* A process past the second barrier has seen all the puts it waits for.   *)
AllSeen ==
    \A p \in Procs : phase[p] > Comm =>
       \A o \in Puts : o.rank = p => Consumed(<<"arrival", o>>)

GexInv ==
    /\ Types /\ Barriers /\ FrameOK /\ TableOK /\ SourceOK /\ TargetOK /\ QueueOnce
    /\ MessagesOK /\ AllSeen

-----------------------------------------------------------------------------
(* Devices are numbered from 0.                                            *)
LEMMA DeviceNumbers ==
    /\ NumDevices \in Nat /\ DeviceIds = 0 .. NumDevices - 1
    /\ \A p \in Procs, i \in DeviceIds : <<p, i>> \in Devices /\ PutComp[<<p, i>>] \in Comps
    /\ \A o \in Ops : DeviceOf(o) \in Devices /\ <<o.rank, o.dev>> \in Devices
    /\ NULL \notin Comps
  <1>1. NumDevices \in Nat
    BY FS_CardinalityType, GexAssumption DEF NumDevices
  <1> QED  BY <1>1, GexAssumption, ProcsAssumption, OpsAssumption DEF NumDevices, Devices, DeviceOf

(* What TypeOK says of the phases.                                         *)
LEMMA PhaseType ==
    ASSUME TypeOK
    PROVE  phase \in [Procs -> 0 .. 6] /\ \A p \in Procs : phase[p] \in 0 .. 6 /\ phase[p] \in Int
  <1>1. phase \in [Procs -> 0 .. 6]
    BY DEF TypeOK, Alloc, Exited
  <1> QED  BY <1>1

(* Past the first barrier every device is in its place, filled in.         *)
LEMMA DeviceReady ==
    ASSUME Types, TableOK, NEW p \in Procs, phase[p] > Alloc, NEW k \in DeviceIds
    PROVE  k + 1 \in DOMAIN g_devices[p] /\ Filled(p, k + 1)
  <1>1. TableOf(p) /\ phase[p] \in Int /\ g_devices[p] \in Seq(Device)
    BY PhaseType DEF TableOK, Types
  <1>2. ~Allocating(p) /\ Len(g_devices[p]) = NumDevices
    BY <1>1 DEF TableOf, Alloc
  <1>3. k + 1 \in 1 .. Len(g_devices[p]) /\ DOMAIN g_devices[p] = 1 .. Len(g_devices[p])
    BY <1>1, <1>2, DeviceNumbers
  <1> QED  BY <1>1, <1>2, <1>3 DEF TableOf

(* The device a put is for is in the table since the first barrier, and is *)
(* not freed before the put has been reported there.                       *)
LEMMA DeviceThere ==
    ASSUME GexInv, NEW o \in Puts, o \notin todo, ~Reported(<<"arrival", o>>)
    PROVE  /\ HasDevice(o.rank, o.dev) /\ o.dev + 1 \in DOMAIN g_devices[o.rank]
           /\ g_devices[o.rank][o.dev + 1].comp = PutComp[<<o.rank, o.dev>>]
  <1> USE DEF GexInv
  <1>2. PICK p \in Procs : p = o.rank
    BY OpsAssumption DEF Puts
  <1>3. PICK k \in DeviceIds : k = o.dev
    BY OpsAssumption DEF Puts
  <1>4. phase[p] \in Int /\ phase[o.proc] \in Int /\ o.proc \in Procs
    BY OpsAssumption, PhaseType DEF Types, Puts
  <1>5. phase[o.proc] >= Comm
    BY DEF MessagesOK
  <1>6. phase[p] > Alloc
    BY <1>4, <1>5 DEF Barriers
  <1>7. ~(phase[p] > Comm)
    <2>1. ~Consumed(<<"arrival", o>>)
      BY DEF Reported, Consumed
    <2> QED  BY <1>2, <2>1 DEF AllSeen
  <1>8. k + 1 \in DOMAIN g_devices[p] /\ Filled(p, k + 1) /\ k \in Int
    BY <1>6, DeviceReady, DeviceNumbers
  <1>9. g_devices[p][k + 1].alive
    <2>1. k + 1 \in 1 .. Len(g_devices[p]) /\ phase[p] < Free
      BY <1>4, <1>7, <1>8 DEF Types, Comm, Free
    <2> QED  BY <2>1 DEF TableOK, TableOf
  <1>10. g_devices[p][k + 1].comp = PutComp[<<p, k>>] /\ PutComp[<<p, k>>] \in Comps
    BY <1>8, DeviceNumbers DEF Filled
  <1>11. k # NULL
    BY GexAssumption
  <1> QED  BY <1>2, <1>3, <1>8, <1>9, <1>10, <1>11, DeviceNumbers DEF HasDevice

(* So the handler of an active message in flight finds it.                 *)
LEMMA HandlerFinds == GexInv => HandlerFindsDevice
  <1> SUFFICES ASSUME GexInv, NEW am \in ams
               PROVE  /\ HasDevice(am.op.rank, am.device_idx)
                      /\ g_devices[am.op.rank][am.device_idx + 1].comp =
                            PutComp[<<am.op.rank, am.op.dev>>]
    BY DEF HandlerFindsDevice
  <1>1. am.op \in Puts /\ am.device_idx = am.op.dev
    BY DEF GexInv, Types, TypeOK, MessagesOK
  <1>2. am.op \notin todo /\ ~Reported(<<"arrival", am.op>>)
    BY <1>1 DEF GexInv, TargetOK, InFlight
  <1> QED  BY <1>1, <1>2, DeviceThere

(* And the handler that has found it can still signal it.                  *)
LEMMA HandlerKeeps == GexInv => HandlerKeepsDevice
  <1> SUFFICES ASSUME GexInv, NEW h \in running
               PROVE  /\ HasDevice(h.op.rank, h.device)
                      /\ g_devices[h.op.rank][h.device + 1].comp =
                            PutComp[<<h.op.rank, h.op.dev>>]
    BY DEF HandlerKeepsDevice
  <1>1. h.op \in Puts /\ h.device = h.op.dev
    BY DEF GexInv, Types, TypeOK, MessagesOK
  <1>2. h.op \notin todo /\ ~Reported(<<"arrival", h.op>>)
    BY <1>1 DEF GexInv, TargetOK, Handled
  <1> QED  BY <1>1, <1>2, DeviceThere

(* What a handler signals is a completion object, whatever it finds.       *)
LEMMA CompFoundType ==
    ASSUME Types, NEW p \in Procs, NEW d
    PROVE  CompFound(p, d) \subseteq Comps
  <1>1. ASSUME HasDevice(p, d) PROVE g_devices[p][d + 1].comp \in Comps
    <2>1. d + 1 \in DOMAIN g_devices[p] /\ g_devices[p][d + 1].comp # NULL
      BY <1>1 DEF HasDevice
    <2>2. g_devices[p][d + 1] \in [comp : Comps \cup {NULL}, alive : BOOLEAN]
      BY <2>1 DEF Types, TypeOK
    <2> QED  BY <2>1, <2>2
  <1> QED  BY <1>1 DEF CompFound

-----------------------------------------------------------------------------
(* Types.                                                                  *)

(* What the backend reports is a completion.                               *)
LEMMA RequestType ==
    ASSUME NEW o \in Puts
    PROVE  /\ PutRequest(o) \in Completion /\ Key(PutRequest(o)) = <<"operation", o>>
           /\ ArrivedRequest(o) \in Completion /\ Key(ArrivedRequest(o)) = <<"arrival", o>>
  <1>1. o \in Ops /\ o.rank \in Procs /\ o.proc \in Procs /\ o.length \in Nat
    BY OpsAssumption DEF Puts
  <1> QED  BY <1>1 DEF PutRequest, ArrivedRequest, Completion, OpTypes, Key

(* A signal keeps the types of the completion objects.                     *)
LEMMA SignalType ==
    ASSUME Types, NEW c \in Comps, NEW r \in Completion, SignalComp(c, r)
    PROVE  cq' \in [Comps -> Seq(Completion)] /\ polled' \in [Comps -> SUBSET Completion]
  <1>1. Append(cq[c], r) \in Seq(Completion) /\ polled[c] \cup {r} \in SUBSET Completion
    BY DEF Types, TypeOK
  <1> QED  BY <1>1 DEF Types, TypeOK, SignalComp, CqSignal, HandlerSignal

(* So does a poll.                                                         *)
LEMMA PollType ==
    ASSUME Types, NEW c \in Comps, Poll(c)
    PROVE  cq' \in [Comps -> Seq(Completion)] /\ polled' \in [Comps -> SUBSET Completion]
  <1>1. cq[c] \in Seq(Completion) /\ cq[c] # <<>>
    BY DEF Types, Poll
  <1>2. Tail(cq[c]) \in Seq(Completion) /\ Head(cq[c]) \in Completion
    BY <1>1
  <1> QED  BY <1>2 DEF Types, TypeOK, Poll

(* alloc_device keeps the table a table.                                   *)
LEMMA TableType ==
    ASSUME Types, TableOK, NEW t \in Threads,
           AllocPush(t) \/ AllocFill(t) \/ \E d \in Devices : FreeDevice(t, d)
    PROVE  /\ g_devices' \in [Procs -> Seq(Device)]
           /\ \A p \in Procs : Len(g_devices'[p]) <= NumDevices
           /\ id' \in [Devices -> DeviceIds \cup {NULL}]
  <1>1. PICK p \in Procs : p = ThreadProc[t]
    BY ProcsAssumption
  <1>2. /\ g_devices \in [Procs -> Seq(Device)] /\ id \in [Devices -> DeviceIds \cup {NULL}]
        /\ \A q \in Procs : Len(g_devices[q]) <= NumDevices /\ g_devices[q] \in Seq(Device)
    BY DEF Types, TypeOK
  <1>3. CASE AllocPush(t)
    <2>1. PICK x \in Device : x = [comp |-> NULL, alive |-> TRUE]
      BY DEF Device
    <2>2. Append(g_devices[p], x) \in Seq(Device) /\ Len(Append(g_devices[p], x)) = Len(g_devices[p]) + 1
      BY <1>2
    <2>3. /\ g_devices' = [g_devices EXCEPT ![p] = Append(@, x)] /\ id' = id
          /\ Len(g_devices[p]) < NumDevices
      BY <1>1, <1>3, <2>1 DEF AllocPush
    <2> QED  BY <1>2, <2>2, <2>3, DeviceNumbers
  <1>4. CASE AllocFill(t)
    <2>1. PICK n \in Nat \ {0} : n = Len(g_devices[p])
      <3>1. Allocating(p)
        BY <1>1, <1>4 DEF AllocFill, Allocating
      <3>2. Len(g_devices[p]) > 0
        BY <3>1 DEF TableOK, TableOf
      <3>3. Len(g_devices[p]) \in Nat
        BY <1>2
      <3> QED  BY <3>2, <3>3
    <2>2. n \in 1 .. Len(g_devices[p]) /\ n - 1 \in DeviceIds
      BY <1>2, <2>1, DeviceNumbers
    <2>3. PICK x \in Comps : x = PutComp[<<p, n - 1>>]
      BY <2>2, DeviceNumbers
    <2>4. /\ g_devices' = [g_devices EXCEPT ![p][n].comp = x]
          /\ id' = [id EXCEPT ![<<p, n - 1>>] = n - 1]
      BY <1>1, <1>4, <2>1, <2>3 DEF AllocFill
    <2>5. g_devices[p][n] \in Device
      BY <1>2, <2>2
    <2>6. [g_devices[p] EXCEPT ![n].comp = x] \in Seq(Device)
          /\ Len([g_devices[p] EXCEPT ![n].comp = x]) = Len(g_devices[p])
      <3>1. [g_devices[p][n] EXCEPT !.comp = x] \in Device
        BY <2>5 DEF Device
      <3> QED  BY <1>2, <2>2, <3>1
    <2> QED  BY <1>2, <2>2, <2>4, <2>6
  <1>5. ASSUME NEW d \in Devices, FreeDevice(t, d)
        PROVE  /\ g_devices' \in [Procs -> Seq(Device)]
               /\ \A q \in Procs : Len(g_devices'[q]) <= NumDevices
               /\ id' \in [Devices -> DeviceIds \cup {NULL}]
    <2>1. PICK n \in 1 .. Len(g_devices[p]) : n = id[d] + 1
      <3>1. d[2] \in DeviceIds /\ d = <<p, d[2]>> /\ phase[p] = Free
        BY <1>1, <1>5 DEF FreeDevice, Devices
      <3>2. d[2] + 1 \in DOMAIN g_devices[p] /\ Filled(p, d[2] + 1) /\ d[2] \in Int
        BY <3>1, DeviceReady, DeviceNumbers DEF Free, Alloc
      <3>3. (d[2] + 1) - 1 = d[2] /\ d[2] + 1 \in 1 .. Len(g_devices[p])
        BY <1>2, <3>2
      <3>4. id[d] = d[2]
        BY <3>1, <3>2, <3>3 DEF Filled
      <3> QED  BY <3>3, <3>4
    <2>2. /\ g_devices' = [g_devices EXCEPT ![p][n].alive = FALSE] /\ id' = id
      BY <1>1, <1>5, <2>1 DEF FreeDevice
    <2>3. [g_devices[p] EXCEPT ![n].alive = FALSE] \in Seq(Device)
          /\ Len([g_devices[p] EXCEPT ![n].alive = FALSE]) = Len(g_devices[p])
      <3>1. g_devices[p][n] \in Device
        BY <1>2
      <3>2. [g_devices[p][n] EXCEPT !.alive = FALSE] \in Device
        BY <3>1 DEF Device
      <3> QED  BY <1>2, <3>2
    <2> QED  BY <1>2, <2>2, <2>3
  <1> QED  BY <1>3, <1>4, <1>5

(* Every step keeps the types.                                             *)
LEMMA TypesNext ==
    ASSUME GexInv, [Next]_vars
    PROVE  Types'
  <1> USE DEF GexInv
  <1>1. /\ TypeOK /\ cq \in [Comps -> Seq(Completion)] /\ g_devices \in [Procs -> Seq(Device)]
        /\ \A p \in Procs : Len(g_devices[p]) <= NumDevices
    BY DEF Types, TypeOK
  <1>2. ASSUME g_devices' \in [Procs -> Seq(Device)], cq' \in [Comps -> Seq(Completion)],
               \A p \in Procs : Len(g_devices'[p]) <= NumDevices,
               phase' \in [Procs -> Alloc .. Exited],
               pc' \in [Threads -> {"idle", "alloc", "put_signal"}],
               entry' \in [Threads -> Ops \cup {NULL}], todo' \subseteq Ops,
               id' \in [Devices -> DeviceIds \cup {NULL}],
               ams' \subseteq [op : Puts, device_idx : DeviceIds],
               running' \subseteq [op : Puts, device : DeviceIds \cup {NULL}],
               polled' \in [Comps -> SUBSET Completion]
        PROVE  Types'
    <2>1. ASSUME NEW c \in Comps, NEW i \in DOMAIN cq'[c] PROVE cq'[c][i] \in Completion
      BY <1>2, <2>1
    <2>2. ASSUME NEW p \in Procs, NEW i \in DOMAIN g_devices'[p]
          PROVE  g_devices'[p][i] \in [comp : Comps \cup {NULL}, alive : BOOLEAN]
      <3>1. g_devices'[p] \in Seq(Device)
        BY <1>2, <2>2
      <3>2. g_devices'[p][i] \in Device
        BY <2>2, <3>1
      <3> QED  BY <3>2 DEF Device
    <2> QED  BY <1>2, <2>1, <2>2 DEF Types, TypeOK
  <1> DEFINE Phases == phase' \in [Procs -> Alloc .. Exited]
             Frames == /\ pc' \in [Threads -> {"idle", "alloc", "put_signal"}]
                       /\ entry' \in [Threads -> Ops \cup {NULL}] /\ todo' \subseteq Ops
             Tables == /\ g_devices' \in [Procs -> Seq(Device)]
                       /\ \A p \in Procs : Len(g_devices'[p]) <= NumDevices
                       /\ id' \in [Devices -> DeviceIds \cup {NULL}]
             Messages == /\ ams' \subseteq [op : Puts, device_idx : DeviceIds]
                         /\ running' \subseteq [op : Puts, device : DeviceIds \cup {NULL}]
             Queues == /\ cq' \in [Comps -> Seq(Completion)]
                       /\ polled' \in [Comps -> SUBSET Completion]
  <1>3. ASSUME Phases, Frames, Tables, Messages, Queues PROVE Types'
    BY <1>2, <1>3
  <1>4. /\ UNCHANGED phase => Phases
        /\ UNCHANGED <<threadVars, todo>> => Frames
        /\ UNCHANGED deviceVars => Tables
        /\ UNCHANGED amVars => Messages
        /\ UNCHANGED compVars => Queues
    BY <1>1 DEF TypeOK, threadVars, deviceVars, amVars, compVars
  <1>5. ASSUME UNCHANGED vars PROVE Types'
    BY <1>3, <1>4, <1>5 DEF vars
  <1>6. ASSUME NEW t \in Threads,
               AllocPush(t) \/ AllocFill(t) \/ \E d \in Devices : FreeDevice(t, d)
        PROVE  Types'
    <2>1. Tables
      BY <1>6, TableType
    <2>2. Frames
      BY <1>1, <1>6 DEF TypeOK, AllocPush, AllocFill, FreeDevice, threadVars
    <2>3. UNCHANGED <<phase, amVars, compVars>>
      BY <1>6 DEF AllocPush, AllocFill, FreeDevice
    <2> QED  BY <1>3, <1>4, <2>1, <2>2, <2>3
  <1>8. ASSUME NEW t \in Threads, NEW o \in Ops, Put(t, o) PROVE Types'
    <2>1. Frames
      BY <1>1, <1>8 DEF TypeOK, Put
    <2>2. id[DeviceOf(o)] \in DeviceIds
      <3>1. o.proc \in Procs /\ o.dev \in DeviceIds /\ phase[o.proc] = Comm
        BY <1>8, OpsAssumption DEF Put
      <3>2. Filled(o.proc, o.dev + 1)
        BY <3>1, DeviceReady DEF Comm, Alloc
      <3>3. (o.dev + 1) - 1 = o.dev
        BY <3>1, DeviceNumbers
      <3> QED  BY <3>1, <3>2, <3>3 DEF Filled, DeviceOf
    <2>3. Messages
      BY <1>1, <1>8, <2>2 DEF TypeOK, Put, Puts
    <2> QED  BY <1>3, <1>4, <1>8, <2>1, <2>3 DEF Put
  <1>9. ASSUME NEW t \in Threads, PutSignal(t) PROVE Types'
    <2>1. PICK o \in Puts : o = entry[t] /\ o.comp \in Comps
      BY <1>9, OpsAssumption DEF PutSignal, FrameOK, Puts
    <2>2. Queues
      BY <1>9, <2>1, RequestType, SignalType DEF PutSignal
    <2>3. Frames
      BY <1>1, <1>9 DEF TypeOK, PutSignal
    <2> QED  BY <1>3, <1>4, <1>9, <2>2, <2>3 DEF PutSignal
  <1>10. ASSUME NEW t \in Threads, NEW o \in Ops, SendOrRecv(t, o) PROVE Types'
    <2>1. Frames
      BY <1>1, <1>10 DEF TypeOK, SendOrRecv, threadVars
    <2> QED  BY <1>3, <1>4, <1>10, <2>1 DEF SendOrRecv
  <1>11. ASSUME NEW t \in Threads, NEW c \in Comps, PollCq(t, c) PROVE Types'
    <2>1. Queues
      BY <1>11, PollType DEF PollCq
    <2> QED  BY <1>3, <1>4, <1>11, <2>1 DEF PollCq
  <1>12. ASSUME NEW am \in ams, ReqHandler(am) PROVE Types'
    <2>1. am.op \in Puts /\ am.op.rank \in Procs
      BY <1>1, OpsAssumption DEF TypeOK, Puts
    <2>2. DeviceAt(am.op.rank, am.device_idx) \in DeviceIds \cup {NULL}
      BY <1>1 DEF TypeOK, DeviceAt
    <2>3. Messages
      BY <1>1, <1>12, <2>1, <2>2 DEF TypeOK, ReqHandler
    <2> QED  BY <1>3, <1>4, <1>12, <2>3 DEF ReqHandler
  <1>13. ASSUME NEW h \in running, ReqHandlerSignal(h) PROVE Types'
    <2>1. h.op \in Puts /\ h.op.rank \in Procs
      BY <1>1, OpsAssumption DEF TypeOK, Puts
    <2>4. PICK c \in Comps : SignalComp(c, ArrivedRequest(h.op))
      BY <1>13, <2>1, CompFoundType DEF ReqHandlerSignal
    <2>2. Queues
      BY <2>1, <2>4, RequestType, SignalType
    <2>3. Messages
      BY <1>1, <1>13 DEF TypeOK, ReqHandlerSignal
    <2> QED  BY <1>3, <1>4, <1>13, <2>2, <2>3 DEF ReqHandlerSignal
  <1>14. ASSUME NEW p \in Procs, BarrierArrive(p) \/ BarrierLeave(p) PROVE Types'
    <2>1. phase[p] \in 0 .. 5
      BY <1>1, <1>14, PhaseType
      DEF BarrierArrive, BarrierLeave, ReadyForBarrier, Alloc, Comm, Free
    <2>2. Phases
      BY <1>1, <1>14, <2>1, PhaseType DEF BarrierArrive, BarrierLeave, Alloc, Exited
    <2> QED  BY <1>3, <1>4, <1>14, <2>2 DEF BarrierArrive, BarrierLeave
  <1> HIDE DEF GexInv
  <1> QED  BY <1>5, <1>6, <1>8, <1>9, <1>10, <1>11, <1>12, <1>13, <1>14
           DEF Next, ThreadStep, Progress

-----------------------------------------------------------------------------
(* Reports.                                                                *)

(* A signal adds one report, and a report that is new does not make two in *)
(* one queue.                                                              *)
LEMMA SignalReports ==
    ASSUME Types, NEW c \in Comps, NEW r \in Completion, SignalComp(c, r)
    PROVE  /\ \A k : Reported(k)' <=> (Reported(k) \/ Key(r) = k)
           /\ \A k : Consumed(k) => Consumed(k)'
           /\ QueueOnce /\ ~Reported(Key(r)) => QueueOnce'
  <1>1. cq \in [Comps -> Seq(Completion)] /\ polled \in [Comps -> SUBSET Completion]
    BY DEF Types, TypeOK
  <1>2. CASE c \in Handlers
    <2>1. /\ cq' = cq /\ polled'[c] = polled[c] \cup {r}
          /\ \A e \in Comps : e # c => polled'[e] = polled[e]
      BY <1>1, <1>2 DEF SignalComp, HandlerSignal
    <2>2. \A k : Reported(k)' <=> (Reported(k) \/ Key(r) = k)
      BY <2>1 DEF Reported
    <2>3. \A k : Consumed(k) => Consumed(k)'
      BY <2>1 DEF Consumed
    <2> QED  BY <2>1, <2>2, <2>3 DEF QueueOnce
  <1>3. CASE c \notin Handlers
    <2>1. /\ polled' = polled /\ cq'[c] = Append(cq[c], r) /\ cq[c] \in Seq(Completion)
          /\ \A e \in Comps : e # c => cq'[e] = cq[e]
      BY <1>1, <1>3 DEF SignalComp, CqSignal
    <2>2. PICK n \in Nat : n = Len(cq[c]) + 1
      BY <2>1
    <2>3. /\ DOMAIN cq'[c] = DOMAIN cq[c] \cup {n} /\ n \notin DOMAIN cq[c] /\ cq'[c][n] = r
          /\ \A i \in DOMAIN cq[c] : cq'[c][i] = cq[c][i]
      BY <2>1, <2>2
    <2>4. \A k : Reported(k)' <=> (Reported(k) \/ Key(r) = k)
      BY <2>1, <2>3 DEF Reported
    <2>5. \A k : Consumed(k) => Consumed(k)'
      BY <2>1 DEF Consumed
    <2>6. ASSUME QueueOnce, ~Reported(Key(r)) PROVE QueueOnce'
      BY <2>1, <2>3, <2>6 DEF QueueOnce, Reported
    <2> QED  BY <2>4, <2>5, <2>6
  <1> QED  BY <1>2, <1>3

(* A poll reports nothing new and forgets nothing.                         *)
LEMMA PollReports ==
    ASSUME Types, NEW c \in Comps, Poll(c)
    PROVE  /\ \A k : Reported(k)' <=> Reported(k)
           /\ \A k : Consumed(k) => Consumed(k)'
           /\ QueueOnce => QueueOnce'
  <1>1. /\ cq[c] \in Seq(Completion) /\ cq[c] # <<>> /\ cq'[c] = Tail(cq[c])
        /\ \A e \in Comps : e # c => cq'[e] = cq[e] /\ polled'[e] = polled[e]
        /\ polled'[c] = polled[c] \cup {Head(cq[c])}
    BY DEF Types, TypeOK, Poll
  <1>2. /\ Head(cq[c]) = cq[c][1] /\ 1 \in DOMAIN cq[c]
        /\ DOMAIN cq[c] = 1 .. Len(cq[c]) /\ DOMAIN cq'[c] = 1 .. (Len(cq[c]) - 1)
        /\ Len(cq[c]) \in Nat
        /\ \A i \in 1 .. (Len(cq[c]) - 1) : cq'[c][i] = cq[c][i + 1]
    BY <1>1
  <1>3. \A i \in DOMAIN cq'[c] : /\ i \in Int /\ i + 1 \in DOMAIN cq[c]
                                 /\ cq'[c][i] = cq[c][i + 1]
    BY <1>2
  <1>4. ASSUME NEW i \in DOMAIN cq[c], i # 1
        PROVE  \E m \in DOMAIN cq'[c] : cq'[c][m] = cq[c][i]
    <2>1. i - 1 \in DOMAIN cq'[c] /\ (i - 1) + 1 = i
      BY <1>2, <1>4
    <2> QED  BY <1>3, <2>1
  <1>5. ASSUME NEW k PROVE Reported(k)' <=> Reported(k)
    <2>1. Head(cq[c]) = cq[c][1] /\ 1 \in DOMAIN cq[c]
      BY <1>2
    <2>2. \A i \in DOMAIN cq'[c] : \E m \in DOMAIN cq[c] : cq'[c][i] = cq[c][m]
      BY <1>3
    <2>3. \A i \in DOMAIN cq[c] : \/ cq[c][i] = Head(cq[c])
                                 \/ \E m \in DOMAIN cq'[c] : cq'[c][m] = cq[c][i]
      BY <1>4, <2>1
    <2>4. ASSUME Reported(k) PROVE Reported(k)'
      <3>1. PICK e \in Comps : \/ \E i \in DOMAIN cq[e] : Key(cq[e][i]) = k
                              \/ \E r \in polled[e] : Key(r) = k
        BY <2>4 DEF Reported
      <3>2. CASE e = c
        BY <1>1, <2>3, <3>1, <3>2 DEF Reported
      <3>3. CASE e # c
        BY <1>1, <3>1, <3>3 DEF Reported
      <3> QED  BY <3>2, <3>3
    <2>5. ASSUME Reported(k)' PROVE Reported(k)
      <3>1. PICK e \in Comps : \/ \E i \in DOMAIN cq'[e] : Key(cq'[e][i]) = k
                              \/ \E r \in polled'[e] : Key(r) = k
        BY <2>5 DEF Reported, Key
      <3>2. CASE e = c
        <4>1. CASE \E i \in DOMAIN cq'[c] : Key(cq'[c][i]) = k
          BY <2>2, <4>1 DEF Reported
        <4>2. CASE \E r \in polled'[c] : Key(r) = k
          <5>1. polled'[c] = polled[c] \cup {cq[c][1]}
            BY <1>1, <2>1
          <5> QED  BY <2>1, <4>2, <5>1 DEF Reported
        <4> QED  BY <3>1, <3>2, <4>1, <4>2
      <3>3. CASE e # c
        BY <1>1, <3>1, <3>3 DEF Reported
      <3> QED  BY <3>2, <3>3
    <2> QED  BY <2>4, <2>5
  <1>6. \A k : Consumed(k) => Consumed(k)'
    BY <1>1 DEF Consumed
  <1>7. ASSUME QueueOnce PROVE QueueOnce'
    <2> SUFFICES ASSUME NEW e \in Comps, NEW i \in DOMAIN cq'[e], NEW m \in DOMAIN cq'[e],
                        Key(cq'[e][i]) = Key(cq'[e][m])
                 PROVE  i = m
      BY DEF QueueOnce, Key
    <2>1. CASE e = c
      <3>1. i + 1 = m + 1 /\ i \in Int /\ m \in Int
        BY <1>3, <1>7, <2>1 DEF QueueOnce
      <3> QED  BY <3>1
    <2>2. CASE e # c
      BY <1>1, <1>7, <2>2 DEF QueueOnce
    <2> QED  BY <2>1, <2>2
  <1> QED  BY <1>5, <1>6, <1>7

-----------------------------------------------------------------------------
(* How far apart the processes are.                                        *)

(* A phase only grows, by one, and over a barrier only when everybody has  *)
(* reached it.                                                             *)
LEMMA PhaseGrows ==
    ASSUME Types, [Next]_vars
    PROVE  \A p \in Procs : phase'[p] \in 0 .. 6 /\ phase'[p] >= phase[p]
  <1>1. phase \in [Procs -> 0 .. 6] /\ \A p \in Procs : phase[p] \in 0 .. 6
    BY PhaseType DEF Types
  <1>2. ASSUME NEW p \in Procs, BarrierArrive(p) \/ BarrierLeave(p)
        PROVE  \A q \in Procs : phase'[q] \in 0 .. 6 /\ phase'[q] >= phase[q]
    <2>1. phase[p] \in 0 .. 5
      BY <1>1, <1>2 DEF BarrierArrive, BarrierLeave, ReadyForBarrier, Alloc, Comm, Free
    <2> QED  BY <1>1, <1>2, <2>1 DEF BarrierArrive, BarrierLeave
  <1>3. ASSUME UNCHANGED phase
        PROVE  \A q \in Procs : phase'[q] \in 0 .. 6 /\ phase'[q] >= phase[q]
    BY <1>1, <1>3
  <1> QED  BY <1>2, <1>3
           DEF Next, ThreadStep, Progress, vars, AllocPush, AllocFill, FreeDevice,
               Put, PutSignal, SendOrRecv, PollCq, ReqHandler,
               ReqHandlerSignal

(* No step lets a process past a barrier too early.                        *)
LEMMA BarriersNext ==
    ASSUME Types, Barriers, [Next]_vars
    PROVE  Barriers'
  <1>1. phase \in [Procs -> 0 .. 6] /\ \A p \in Procs : phase[p] \in 0 .. 6
    BY PhaseType DEF Types
  <1>2. ASSUME NEW p \in Procs, BarrierArrive(p) PROVE Barriers'
    <2>1. phase[p] \in {0, 2, 4} /\ phase' = [phase EXCEPT ![p] = @ + 1]
      BY <1>1, <1>2 DEF BarrierArrive, ReadyForBarrier, Alloc, Comm, Free
    <2> QED  BY <1>1, <2>1 DEF Barriers, Alloc, Comm, Free
  <1>3. ASSUME NEW p \in Procs, BarrierLeave(p) PROVE Barriers'
    <2>1. /\ phase[p] \in {1, 3, 5} /\ phase' = [phase EXCEPT ![p] = @ + 1]
          /\ \A q \in Procs : phase[q] >= phase[p]
      BY <1>1, <1>3 DEF BarrierLeave
    <2> QED  BY <1>1, <2>1 DEF Barriers, Alloc, Comm, Free
  <1>4. ASSUME UNCHANGED phase PROVE Barriers'
    BY <1>4 DEF Barriers
  <1> QED  BY <1>2, <1>3, <1>4
           DEF Next, ThreadStep, Progress, vars, AllocPush, AllocFill, FreeDevice,
               Put, PutSignal, SendOrRecv, PollCq, ReqHandler,
               ReqHandlerSignal

-----------------------------------------------------------------------------
(* Threads and devices.                                                    *)

(* A thread gets a put when it calls put and gives it up when it signals.  *)
LEMMA FrameNext ==
    ASSUME Types, FrameOK, [Next]_vars
    PROVE  FrameOK'
  <1>1. /\ pc \in [Threads -> {"idle", "alloc", "put_signal"}]
        /\ entry \in [Threads -> Ops \cup {NULL}]
    BY DEF Types, TypeOK
  <1>2. ASSUME NEW t \in Threads, AllocPush(t) PROVE FrameOK'
    <2>1. pc[t] = "idle" /\ pc' = [pc EXCEPT ![t] = "alloc"] /\ entry' = entry
      BY <1>2 DEF AllocPush, Idle, ThreadsOf
    <2> QED  BY <1>1, <2>1 DEF FrameOK
  <1>3. ASSUME NEW t \in Threads, AllocFill(t) PROVE FrameOK'
    <2>1. pc[t] = "alloc" /\ pc' = [pc EXCEPT ![t] = "idle"] /\ entry' = entry
      BY <1>3 DEF AllocFill
    <2> QED  BY <1>1, <2>1 DEF FrameOK
  <1>4. ASSUME NEW t \in Threads, NEW o \in Ops, Put(t, o) PROVE FrameOK'
    <2>1. /\ pc' = [pc EXCEPT ![t] = "put_signal"] /\ entry' = [entry EXCEPT ![t] = o]
          /\ o \in Puts /\ o.proc = ThreadProc[t]
      BY <1>4 DEF Put, Puts
    <2> QED  BY <1>1, <2>1 DEF FrameOK
  <1>5. ASSUME NEW t \in Threads, PutSignal(t) PROVE FrameOK'
    <2>1. pc' = [pc EXCEPT ![t] = "idle"] /\ entry' = [entry EXCEPT ![t] = NULL]
      BY <1>5 DEF PutSignal
    <2> QED  BY <1>1, <2>1 DEF FrameOK
  <1>6. ASSUME UNCHANGED threadVars PROVE FrameOK'
    BY <1>6 DEF FrameOK, threadVars
  <1> QED  BY <1>2, <1>3, <1>4, <1>5, <1>6
           DEF Next, ThreadStep, Progress, vars, FreeDevice,
               SendOrRecv, PollCq, ReqHandler, ReqHandlerSignal, BarrierArrive, BarrierLeave

(* A step that leaves a process's table alone keeps it right.              *)
LEMMA TableKept ==
    ASSUME NEW q \in Procs, TableOf(q), g_devices'[q] = g_devices[q], phase'[q] = phase[q],
           \A t \in Threads : ThreadProc[t] = q => (pc'[t] = "alloc" <=> pc[t] = "alloc"),
           \A i \in 1 .. Len(g_devices[q]) : id'[<<q, i - 1>>] = id[<<q, i - 1>>]
    PROVE  TableOf(q)'
  <1>1. Allocating(q)' <=> Allocating(q)
    BY DEF Allocating
  <1>2. \A i \in 1 .. Len(g_devices[q]) : Filled(q, i)' <=> Filled(q, i)
    BY DEF Filled
  <1> QED  BY <1>1, <1>2 DEF TableOf

(* alloc_device pushes a device that is not filled in.                     *)
LEMMA TablePush ==
    ASSUME Types, TableOK, NEW t \in Threads, AllocPush(t)
    PROVE  TableOK'
  <1>1. PICK p \in Procs : p = ThreadProc[t]
    BY ProcsAssumption
  <1>2. /\ g_devices \in [Procs -> Seq(Device)] /\ g_devices[p] \in Seq(Device)
        /\ pc \in [Threads -> {"idle", "alloc", "put_signal"}]
    BY DEF Types, TypeOK
  <1>3. PICK n \in Nat : n = Len(g_devices[p])
    BY <1>2
  <1>4. PICK x : x = [comp |-> NULL, alive |-> TRUE]
    OBVIOUS
  <1>5. /\ g_devices' = [g_devices EXCEPT ![p] = Append(@, x)] /\ UNCHANGED <<phase, id>>
        /\ pc' = [pc EXCEPT ![t] = "alloc"] /\ n < NumDevices /\ phase[p] = Alloc
        /\ \A u \in Threads : ThreadProc[u] = p => pc[u] = "idle"
    BY <1>1, <1>3, <1>4 DEF AllocPush, Idle, ThreadsOf
  <1>6. ASSUME NEW q \in Procs, q # p PROVE TableOf(q)'
    <2>1. g_devices'[q] = g_devices[q]
          /\ \A u \in Threads : ThreadProc[u] = q => pc'[u] = pc[u]
      BY <1>1, <1>2, <1>5, <1>6
    <2> QED  BY <1>5, <2>1, TableKept DEF TableOK
  <1>7. TableOf(p)'
    <2>1. /\ g_devices'[p] = Append(g_devices[p], x)
          /\ Len(g_devices'[p]) = n + 1 /\ g_devices'[p][n + 1] = x
          /\ \A i \in 1 .. n : g_devices'[p][i] = g_devices[p][i]
      BY <1>2, <1>3, <1>5
    <2>2. Allocating(p)' /\ ~Allocating(p)
      BY <1>1, <1>2, <1>5 DEF Allocating
    <2>3. phase'[p] = 0 /\ NumDevices \in Nat /\ x.alive
      BY <1>4, <1>5, DeviceNumbers DEF Alloc
    <2>4. ASSUME NEW i \in 1 .. (n + 1)
          PROVE  /\ Filled(p, i)' \/ i = n + 1
                 /\ g_devices'[p][i].alive
      <3>1. CASE i = n + 1
        BY <2>1, <2>3, <3>1
      <3>2. CASE i # n + 1
        <4>1. i \in 1 .. n
          BY <3>2
        <4>2. Filled(p, i) /\ g_devices[p][i].alive
          BY <1>3, <1>5, <2>2, <4>1 DEF TableOK, TableOf, Alloc, Free
        <4> QED  BY <1>5, <2>1, <4>1, <4>2 DEF Filled
      <3> QED  BY <3>1, <3>2
    <2> QED  BY <1>5, <2>1, <2>2, <2>3, <2>4 DEF TableOf, Alloc
  <1>8. ASSUME NEW u \in Threads, NEW v \in Threads, pc'[u] = "alloc", pc'[v] = "alloc",
               ThreadProc[u] = ThreadProc[v]
        PROVE  u = v
    BY <1>1, <1>2, <1>5, <1>8 DEF TableOK
  <1> QED  BY <1>6, <1>7, <1>8 DEF TableOK

(* alloc_device fills in the device it pushed.                             *)
LEMMA TableFill ==
    ASSUME Types, TableOK, NEW t \in Threads, AllocFill(t)
    PROVE  TableOK'
  <1>1. PICK p \in Procs : p = ThreadProc[t]
    BY ProcsAssumption
  <1>2. /\ g_devices \in [Procs -> Seq(Device)] /\ g_devices[p] \in Seq(Device)
        /\ pc \in [Threads -> {"idle", "alloc", "put_signal"}]
        /\ id \in [Devices -> DeviceIds \cup {NULL}]
    BY DEF Types, TypeOK
  <1>3. TableOf(p) /\ Allocating(p) /\ pc[t] = "alloc"
    BY <1>1 DEF AllocFill, TableOK, Allocating
  <1>4. PICK n \in Nat \ {0} : n = Len(g_devices[p])
    BY <1>2, <1>3 DEF TableOf
  <1>5. n \in 1 .. Len(g_devices[p]) /\ <<p, n - 1>> \in Devices /\ n <= NumDevices
    BY <1>3, <1>4, DeviceNumbers DEF TableOf
  <1>6. PICK x : x = PutComp[<<p, n - 1>>]
    OBVIOUS
  <1>7. /\ g_devices' = [g_devices EXCEPT ![p][n].comp = x] /\ UNCHANGED phase
        /\ id' = [id EXCEPT ![<<p, n - 1>>] = n - 1] /\ pc' = [pc EXCEPT ![t] = "idle"]
    BY <1>1, <1>4, <1>6 DEF AllocFill
  <1>8. ASSUME NEW q \in Procs, q # p PROVE TableOf(q)'
    <2>1. g_devices'[q] = g_devices[q]
          /\ \A u \in Threads : ThreadProc[u] = q => pc'[u] = pc[u]
      BY <1>1, <1>2, <1>7, <1>8
    <2>2. \A i \in 1 .. Len(g_devices[q]) : id'[<<q, i - 1>>] = id[<<q, i - 1>>]
      <3>1. ASSUME NEW i \in 1 .. Len(g_devices[q]) PROVE id'[<<q, i - 1>>] = id[<<q, i - 1>>]
        <4>1. <<q, i - 1>> # <<p, n - 1>>
          BY <1>8
        <4>2. Len(g_devices[q]) <= NumDevices /\ Len(g_devices[q]) \in Nat
          BY <1>2 DEF TableOK, TableOf
        <4>3. <<q, i - 1>> \in Devices
          BY <4>2, DeviceNumbers
        <4> QED  BY <1>2, <1>7, <4>1, <4>3
      <3> QED  BY <3>1
    <2> QED  BY <1>7, <2>1, <2>2, TableKept DEF TableOK
  <1>9. TableOf(p)'
    <2>1. /\ g_devices'[p] = [g_devices[p] EXCEPT ![n].comp = x]
          /\ Len(g_devices'[p]) = n
      BY <1>2, <1>4, <1>5, <1>7
    <2>2. g_devices[p][n] \in Device
      BY <1>2, <1>5
    <2>3. /\ g_devices'[p][n].comp = x /\ g_devices'[p][n].alive = g_devices[p][n].alive
          /\ \A i \in 1 .. n : i # n => g_devices'[p][i] = g_devices[p][i]
      BY <1>2, <1>4, <1>5, <2>1, <2>2 DEF Device
    <2>4. ~Allocating(p)'
      BY <1>1, <1>2, <1>3, <1>7 DEF Allocating, TableOK
    <2>5. ASSUME NEW i \in 1 .. n
          PROVE  Filled(p, i)' /\ (phase'[p] < Free => g_devices'[p][i].alive)
      <3>1. CASE i = n
        BY <1>2, <1>3, <1>4, <1>5, <1>6, <1>7, <2>3, <3>1 DEF Filled, TableOf
      <3>2. CASE i # n
        <4>1. Filled(p, i) /\ (phase[p] < Free => g_devices[p][i].alive)
          BY <1>3, <1>4, <3>2 DEF TableOf
        <4>2. <<p, i - 1>> # <<p, n - 1>>
          BY <3>2
        <4>3. <<p, i - 1>> \in Devices
          BY <1>5, DeviceNumbers
        <4>4. id'[<<p, i - 1>>] = id[<<p, i - 1>>]
          BY <1>2, <1>7, <4>2, <4>3
        <4> QED  BY <1>7, <2>3, <3>2, <4>1, <4>4 DEF Filled
      <3> QED  BY <3>1, <3>2
    <2>6. phase'[p] = 0 /\ n <= NumDevices
      BY <1>3, <1>5, <1>7 DEF TableOf, Alloc
    <2> QED  BY <2>1, <2>4, <2>5, <2>6 DEF TableOf, Alloc
  <1>10. ASSUME NEW u \in Threads, NEW v \in Threads, pc'[u] = "alloc", pc'[v] = "alloc",
                ThreadProc[u] = ThreadProc[v]
         PROVE  u = v
    BY <1>2, <1>7, <1>10 DEF TableOK
  <1> QED  BY <1>8, <1>9, <1>10 DEF TableOK

(* free_device leaves a device in its place.                               *)
LEMMA TableFree ==
    ASSUME Types, TableOK, NEW t \in Threads, NEW d \in Devices, FreeDevice(t, d)
    PROVE  TableOK'
  <1>1. PICK p \in Procs, k \in DeviceIds : d = <<p, k>>
    BY DEF Devices
  <1>2. /\ g_devices \in [Procs -> Seq(Device)] /\ g_devices[p] \in Seq(Device)
        /\ k \in Int /\ phase[p] = Free
    BY <1>1, DeviceNumbers DEF Types, TypeOK, FreeDevice
  <1>3. k + 1 \in 1 .. Len(g_devices[p]) /\ Filled(p, k + 1) /\ (k + 1) - 1 = k
    BY <1>2, DeviceReady DEF Free, Alloc
  <1>4. PICK n \in 1 .. Len(g_devices[p]) : n = id[d] + 1
    BY <1>1, <1>3 DEF Filled
  <1>5. /\ g_devices' = [g_devices EXCEPT ![p][n].alive = FALSE]
        /\ UNCHANGED <<phase, pc, id>>
    BY <1>1, <1>4 DEF FreeDevice, threadVars
  <1>6. ASSUME NEW q \in Procs, q # p PROVE TableOf(q)'
    <2>1. g_devices'[q] = g_devices[q]
      BY <1>2, <1>5, <1>6
    <2> QED  BY <1>5, <2>1, TableKept DEF TableOK
  <1>7. TableOf(p)'
    <2>1. /\ g_devices'[p] = [g_devices[p] EXCEPT ![n].alive = FALSE]
          /\ Len(g_devices'[p]) = Len(g_devices[p]) /\ g_devices[p][n] \in Device
      BY <1>2, <1>4, <1>5
    <2>2. \A i \in 1 .. Len(g_devices[p]) : g_devices'[p][i].comp = g_devices[p][i].comp
      BY <1>2, <2>1 DEF Device
    <2>3. TableOf(p) /\ phase'[p] = 4 /\ phase[p] = 4
      BY <1>2, <1>5 DEF TableOK, Free
    <2>4. ~Allocating(p) /\ ~Allocating(p)'
      BY <1>5, <2>3 DEF TableOf, Allocating, Alloc
    <2>5. \A i \in 1 .. Len(g_devices[p]) : Filled(p, i)'
      BY <1>5, <2>2, <2>3, <2>4 DEF TableOf, Filled
    <2> QED  BY <2>1, <2>3, <2>4, <2>5 DEF TableOf, Alloc, Free
  <1>8. \A u, v \in Threads :
           pc'[u] = "alloc" /\ pc'[v] = "alloc" /\ ThreadProc[u] = ThreadProc[v] => u = v
    BY <1>5 DEF TableOK
  <1> QED  BY <1>6, <1>7, <1>8 DEF TableOK

(* A process enters the first barrier with a full table.                   *)
LEMMA TableBarrier ==
    ASSUME Types, TableOK, NEW p \in Procs, BarrierArrive(p) \/ BarrierLeave(p)
    PROVE  TableOK'
  <1>1. phase \in [Procs -> 0 .. 6] /\ \A q \in Procs : phase[q] \in 0 .. 6
    BY PhaseType DEF Types
  <1>2. phase' = [phase EXCEPT ![p] = @ + 1] /\ UNCHANGED <<g_devices, id, pc>>
    BY DEF BarrierArrive, BarrierLeave, deviceVars, threadVars
  <1>3. ASSUME NEW q \in Procs, q # p PROVE TableOf(q)'
    BY <1>1, <1>2, <1>3, TableKept DEF TableOK
  <1>4. TableOf(p)'
    <2>1. TableOf(p) /\ phase'[p] = phase[p] + 1
      BY <1>1, <1>2 DEF TableOK
    <2>2. ~Allocating(p) /\ Len(g_devices[p]) = NumDevices
      <3>1. CASE BarrierArrive(p)
        <4>1. ~Allocating(p)
          BY <3>1 DEF BarrierArrive, Idle, ThreadsOf, Allocating
        <4>2. CASE phase[p] = Alloc
          BY <3>1, <4>1, <4>2 DEF BarrierArrive, ReadyForBarrier, Alloc, Comm, Free
        <4>3. CASE phase[p] # Alloc
          BY <1>1, <2>1, <4>1, <4>3 DEF TableOf, Alloc
        <4> QED  BY <4>2, <4>3
      <3>2. CASE BarrierLeave(p)
        <4>1. phase[p] > Alloc
          BY <1>1, <3>2 DEF BarrierLeave, Alloc
        <4> QED  BY <1>1, <2>1, <4>1 DEF TableOf, Alloc
      <3> QED  BY <3>1, <3>2
    <2>3. ~Allocating(p)' /\ \A i \in 1 .. Len(g_devices[p]) : Filled(p, i)'
      BY <1>2, <2>1, <2>2 DEF TableOf, Allocating, Filled
    <2> QED  BY <1>1, <1>2, <2>1, <2>2, <2>3, DeviceNumbers DEF TableOf, Alloc, Free
  <1> QED  BY <1>2, <1>3, <1>4 DEF TableOK

(* Every step keeps the device tables right.                               *)
LEMMA TableNext ==
    ASSUME Types, TableOK, [Next]_vars
    PROVE  TableOK'
  <1>1. ASSUME UNCHANGED <<phase, deviceVars>>,
               \A t \in Threads : pc'[t] = "alloc" <=> pc[t] = "alloc"
        PROVE  TableOK'
    <2>1. \A q \in Procs : TableOf(q)'
      BY <1>1, TableKept DEF TableOK, deviceVars
    <2> QED  BY <1>1, <2>1 DEF TableOK
  <1>2. ASSUME NEW t \in Threads, PutSignal(t) \/ \E o \in Ops : Put(t, o)
        PROVE  TableOK'
    <2>1. \A u \in Threads : pc'[u] = "alloc" <=> pc[u] = "alloc"
      BY <1>2 DEF Types, TypeOK, PutSignal, Put
    <2> QED  BY <1>1, <1>2, <2>1 DEF PutSignal, Put
  <1>3. ASSUME UNCHANGED <<phase, deviceVars, threadVars>> PROVE TableOK'
    BY <1>1, <1>3 DEF threadVars
  <1>4. ASSUME NEW t \in Threads, ThreadStep(t) PROVE TableOK'
    <2>1. \/ AllocPush(t) \/ AllocFill(t) \/ \E d \in Devices : FreeDevice(t, d)
          \/ PutSignal(t) \/ \E o \in Ops : Put(t, o)
          \/ UNCHANGED <<phase, deviceVars, threadVars>>
      BY <1>4 DEF ThreadStep, SendOrRecv, PollCq
    <2> QED  BY <1>2, <1>3, <2>1, TablePush, TableFill, TableFree
  <1>5. CASE \E p \in Procs : BarrierArrive(p) \/ BarrierLeave(p)
    BY <1>5, TableBarrier
  <1>7. CASE Progress \/ UNCHANGED vars
    BY <1>3, <1>7 DEF Progress, ReqHandler, ReqHandlerSignal, vars
  <1> QED  BY <1>4, <1>5, <1>7 DEF Next

-----------------------------------------------------------------------------
(* Where the puts are.                                                     *)

(* There is one active message, and one handler, for a put.                *)
LEMMA OneMessage ==
    ASSUME Types, MessagesOK
    PROVE  /\ \A am, an \in ams : am.op = an.op => am = an
           /\ \A g, h \in running : g.op = h.op => g = h
  <1>1. ams \subseteq [op : Puts, device_idx : DeviceIds]
        /\ running \subseteq [op : Puts, device : DeviceIds \cup {NULL}]
    BY DEF Types, TypeOK
  <1>2. /\ \A am \in ams : am = [op |-> am.op, device_idx |-> am.op.dev]
        /\ \A h \in running : h = [op |-> h.op, device |-> h.op.dev]
    BY <1>1 DEF MessagesOK
  <1> QED  BY <1>2

(* What a step that signals tells: the report was not made before.         *)
LEMMA PutSignalReport ==
    ASSUME Types, FrameOK, SourceOK, NEW t \in Threads, PutSignal(t)
    PROVE  /\ entry[t] \in Puts /\ ~Reported(<<"operation", entry[t]>>)
           /\ \A k : Reported(k)' <=> (Reported(k) \/ k = <<"operation", entry[t]>>)
           /\ \A k : Consumed(k) => Consumed(k)'
           /\ QueueOnce => QueueOnce'
  <1>1. PICK o \in Puts : o = entry[t] /\ o.comp \in Comps
    BY OpsAssumption DEF PutSignal, FrameOK, Puts
  <1>2. PICK r \in Completion : r = PutRequest(o) /\ Key(r) = <<"operation", o>>
    BY RequestType
  <1>3. ~Reported(<<"operation", o>>)
    BY <1>1 DEF SourceOK, InHand
  <1>4. SignalComp(o.comp, r)
    BY <1>1, <1>2 DEF PutSignal
  <1> QED  BY <1>1, <1>2, <1>3, <1>4, SignalReports

(* gex_reqhandler reports the arrival of its put, which nobody reported.   *)
LEMMA HandlerSignalReport ==
    ASSUME Types, TargetOK, NEW h \in running, ReqHandlerSignal(h)
    PROVE  /\ h.op \in Puts /\ ~Reported(<<"arrival", h.op>>)
           /\ \A k : Reported(k)' <=> (Reported(k) \/ k = <<"arrival", h.op>>)
           /\ \A k : Consumed(k) => Consumed(k)'
           /\ QueueOnce => QueueOnce'
  <1>1. h.op \in Puts /\ h.op.rank \in Procs
    BY OpsAssumption DEF Types, TypeOK, Puts
  <1>2. PICK r \in Completion : r = ArrivedRequest(h.op) /\ Key(r) = <<"arrival", h.op>>
    BY <1>1, RequestType
  <1>3. ~Reported(<<"arrival", h.op>>)
    BY <1>1 DEF TargetOK, Handled
  <1>4. PICK c \in Comps : SignalComp(c, r)
    BY <1>1, <1>2, CompFoundType DEF ReqHandlerSignal
  <1> QED  BY <1>1, <1>2, <1>3, <1>4, SignalReports

(* The other steps report nothing.                                         *)
LEMMA NoReport ==
    ASSUME UNCHANGED compVars
    PROVE  /\ \A k : Reported(k)' <=> Reported(k)
           /\ \A k : Consumed(k) => Consumed(k)'
           /\ QueueOnce => QueueOnce'
  BY DEF compVars, Reported, Consumed, QueueOnce

(* No queue gets a second report of the same thing, and what the client    *)
(* has seen stays seen.                                                    *)
LEMMA QueueNext ==
    ASSUME GexInv, [Next]_vars
    PROVE  QueueOnce' /\ \A k : Consumed(k) => Consumed(k)'
  <1>1. Types /\ FrameOK /\ SourceOK /\ TargetOK /\ QueueOnce
    BY DEF GexInv
  <1> DEFINE Goal == QueueOnce' /\ \A k : Consumed(k) => Consumed(k)'
  <1>2. ASSUME UNCHANGED compVars PROVE Goal
    BY <1>1, <1>2, NoReport
  <1>3. ASSUME NEW t \in Threads, ThreadStep(t) PROVE Goal
    <2>1. CASE PutSignal(t)
      BY <1>1, <2>1, PutSignalReport
    <2>2. ASSUME NEW c \in Comps, PollCq(t, c) PROVE Goal
      BY <1>1, <2>2, PollReports DEF PollCq
    <2>3. \/ PutSignal(t) \/ \E c \in Comps : PollCq(t, c)
          \/ UNCHANGED compVars
      BY <1>3 DEF ThreadStep, AllocPush, AllocFill, FreeDevice, Put, SendOrRecv
    <2> HIDE DEF Goal
    <2> QED  BY <1>2, <2>1, <2>2, <2>3
  <1>4. ASSUME Progress PROVE Goal
    <2>1. ASSUME NEW h \in running, ReqHandlerSignal(h) PROVE Goal
      BY <1>1, <2>1, HandlerSignalReport
    <2>2. ASSUME NEW am \in ams, ReqHandler(am) PROVE Goal
      BY <1>2, <2>2 DEF ReqHandler
    <2> HIDE DEF Goal
    <2> QED  BY <1>4, <2>1, <2>2 DEF Progress
  <1>6. ASSUME NEW p \in Procs, BarrierArrive(p) \/ BarrierLeave(p) PROVE Goal
    BY <1>2, <1>6 DEF BarrierArrive, BarrierLeave
  <1>7. ASSUME UNCHANGED vars PROVE Goal
    BY <1>2, <1>7 DEF vars
  <1> HIDE DEF Goal
  <1>8. Goal
    BY <1>3, <1>4, <1>6, <1>7 DEF Next
  <1> QED  BY <1>8 DEF Goal

(* A put is with its thread until it is reported at its source.            *)
LEMMA SourceNext ==
    ASSUME GexInv, [Next]_vars
    PROVE  SourceOK'
  <1>1. /\ Types /\ FrameOK /\ SourceOK /\ TargetOK
        /\ entry \in [Threads -> Ops \cup {NULL}]
        /\ \A o \in Puts : o \in Ops /\ o # NULL
    BY OpsAssumption DEF GexInv, Types, TypeOK, Puts
  <1>2. ASSUME \A o \in Puts : o \in todo' <=> o \in todo, entry' = entry,
               \A o \in Puts : Reported(<<"operation", o>>)' <=> Reported(<<"operation", o>>)
        PROVE  SourceOK'
    BY <1>1, <1>2 DEF SourceOK, InHand
  <1>3. ASSUME NEW t \in Threads, NEW e \in Ops, Put(t, e) PROVE SourceOK'
    <2>1. /\ e \in Puts /\ todo' = todo \ {e} /\ entry[t] = NULL /\ e \in todo
          /\ entry' = [entry EXCEPT ![t] = e] /\ UNCHANGED compVars
      BY <1>1, <1>3 DEF Put, Puts, FrameOK
    <2>2. \A k : Reported(k)' <=> Reported(k)
      BY <2>1, NoReport
    <2>3. \A u \in Threads : u # t => entry'[u] = entry[u]
      BY <1>1, <2>1
    <2>4. entry'[t] = e /\ \A u \in Threads : entry[u] # e
      BY <1>1, <2>1 DEF SourceOK, InHand
    <2>5. InHand(e)' /\ e \notin todo' /\ ~Reported(<<"operation", e>>)'
      BY <1>1, <2>1, <2>2, <2>4 DEF SourceOK, InHand
    <2>6. \A o \in Puts : o # e => (InHand(o)' <=> InHand(o)) /\ (o \in todo' <=> o \in todo)
      BY <1>1, <2>1, <2>3, <2>4 DEF InHand
    <2>7. \A o \in Puts, u, v \in Threads : entry'[u] = o /\ entry'[v] = o => u = v
      BY <1>1, <2>3, <2>4 DEF SourceOK
    <2> QED  BY <1>1, <2>2, <2>5, <2>6, <2>7 DEF SourceOK
  <1>4. ASSUME NEW t \in Threads, PutSignal(t) PROVE SourceOK'
    <2>1. PICK e \in Puts : e = entry[t]
      BY <1>1, <1>4, PutSignalReport
    <2>2. \A o \in Puts : Reported(<<"operation", o>>)' <=>
                             (Reported(<<"operation", o>>) \/ o = e)
      BY <1>1, <1>4, <2>1, PutSignalReport
    <2>3. /\ todo' = todo /\ entry'[t] = NULL
          /\ \A u \in Threads : u # t => entry'[u] = entry[u]
      BY <1>1, <1>4 DEF PutSignal
    <2>4. ~InHand(e)' /\ e \notin todo
      BY <1>1, <2>1, <2>3 DEF SourceOK, InHand
    <2>5. \A o \in Puts : o # e => (InHand(o)' <=> InHand(o))
      BY <1>1, <2>1, <2>3 DEF InHand
    <2>6. \A o \in Puts, u, v \in Threads : entry'[u] = o /\ entry'[v] = o => u = v
      BY <1>1, <2>3 DEF SourceOK
    <2> QED  BY <1>1, <2>2, <2>3, <2>4, <2>5, <2>6 DEF SourceOK
  <1>5. ASSUME NEW t \in Threads, NEW o \in Ops, SendOrRecv(t, o) PROVE SourceOK'
    <2>1. \A x \in Puts : x \in todo' <=> x \in todo
      BY <1>5 DEF SendOrRecv, Puts
    <2> QED  BY <1>2, <1>5, <2>1, NoReport DEF SendOrRecv, threadVars
  <1>6. ASSUME NEW t \in Threads, NEW c \in Comps, PollCq(t, c) PROVE SourceOK'
    BY <1>1, <1>2, <1>6, PollReports DEF PollCq, threadVars
  <1>7. ASSUME NEW h \in running, ReqHandlerSignal(h) PROVE SourceOK'
    <2>1. \A k : Reported(k)' <=> (Reported(k) \/ k = <<"arrival", h.op>>)
      BY <1>1, <1>7, HandlerSignalReport
    <2>2. \A o \in Puts : Reported(<<"operation", o>>)' <=> Reported(<<"operation", o>>)
      BY <2>1
    <2> QED  BY <1>2, <1>7, <2>2 DEF ReqHandlerSignal, threadVars
  <1>8. ASSUME UNCHANGED <<todo, entry, compVars>> PROVE SourceOK'
    BY <1>2, <1>8, NoReport
  <1>9. ASSUME NEW t \in Threads, ThreadStep(t) PROVE SourceOK'
    <2>1. \/ PutSignal(t) \/ UNCHANGED <<todo, entry, compVars>>
          \/ \E o \in Ops : Put(t, o) \/ SendOrRecv(t, o)
          \/ \E c \in Comps : PollCq(t, c)
      BY <1>9 DEF ThreadStep, AllocPush, AllocFill, FreeDevice, threadVars
    <2> QED  BY <1>3, <1>4, <1>5, <1>6, <1>8, <2>1
  <1>11. ASSUME NEW p \in Procs, BarrierArrive(p) \/ BarrierLeave(p) PROVE SourceOK'
    BY <1>8, <1>11 DEF BarrierArrive, BarrierLeave, threadVars
  <1>12. ASSUME NEW am \in ams, ReqHandler(am) PROVE SourceOK'
    BY <1>8, <1>12 DEF ReqHandler, threadVars
  <1>13. CASE UNCHANGED vars
    BY <1>8, <1>13 DEF vars, threadVars
  <1> QED  BY <1>7, <1>9, <1>11, <1>12, <1>13 DEF Next, Progress

(* A put is in flight, then with a handler, until it is reported at its    *)
(* target.                                                                 *)
LEMMA TargetNext ==
    ASSUME GexInv, [Next]_vars
    PROVE  TargetOK'
  <1>1. /\ Types /\ FrameOK /\ SourceOK /\ TargetOK /\ MessagesOK
        /\ ams \subseteq [op : Puts, device_idx : DeviceIds]
        /\ running \subseteq [op : Puts, device : DeviceIds \cup {NULL}]
    BY DEF GexInv, Types, TypeOK
  <1>2. ASSUME \A o \in Puts : o \in todo' <=> o \in todo, ams' = ams, running' = running,
               \A o \in Puts : Reported(<<"arrival", o>>)' <=> Reported(<<"arrival", o>>)
        PROVE  TargetOK'
    BY <1>1, <1>2 DEF TargetOK, InFlight, Handled
  <1>3. ASSUME NEW t \in Threads, NEW e \in Ops, Put(t, e) PROVE TargetOK'
    <2>1. PICK am : am = [op |-> e, device_idx |-> id[DeviceOf(e)]]
      OBVIOUS
    <2>2. /\ e \in Puts /\ todo' = todo \ {e} /\ e \in todo /\ am.op = e
          /\ ams' = ams \cup {am} /\ running' = running /\ UNCHANGED compVars
      BY <1>3, <2>1 DEF Put, Puts
    <2>3. \A k : Reported(k)' <=> Reported(k)
      BY <2>2, NoReport
    <2>4. \A o \in Puts : InFlight(o)' <=> (InFlight(o) \/ o = e)
      BY <2>2 DEF InFlight
    <2>5. \A o \in Puts : Handled(o)' <=> Handled(o)
      BY <2>2 DEF Handled
    <2> QED  BY <1>1, <2>2, <2>3, <2>4, <2>5 DEF TargetOK
  <1>4. ASSUME NEW am \in ams, ReqHandler(am) PROVE TargetOK'
    <2>1. PICK h : running' = running \cup {h} /\ h.op = am.op
      <3>1. PICK c : running' = running \cup {[op |-> am.op, device |-> c]}
        BY <1>4 DEF ReqHandler
      <3>2. [op |-> am.op, device |-> c].op = am.op
        OBVIOUS
      <3> QED  BY <3>1, <3>2
    <2>2. ams' = ams \ {am} /\ todo' = todo /\ UNCHANGED compVars /\ am.op \in Puts
      BY <1>1, <1>4 DEF ReqHandler
    <2>3. \A k : Reported(k)' <=> Reported(k)
      BY <2>2, NoReport
    <2>4. \A o \in Puts : InFlight(o)' <=> (InFlight(o) /\ o # am.op)
      BY <1>1, <2>2, OneMessage DEF InFlight
    <2>5. \A o \in Puts : Handled(o)' <=> (Handled(o) \/ o = am.op)
      BY <2>1 DEF Handled
    <2>6. InFlight(am.op)
      BY DEF InFlight
    <2> QED  BY <1>1, <2>2, <2>3, <2>4, <2>5, <2>6 DEF TargetOK
  <1>5. ASSUME NEW h \in running, ReqHandlerSignal(h) PROVE TargetOK'
    <2>1. PICK e \in Puts : e = h.op
      BY <1>1
    <2>2. \A o \in Puts : Reported(<<"arrival", o>>)' <=> (Reported(<<"arrival", o>>) \/ o = e)
      BY <1>1, <1>5, <2>1, HandlerSignalReport
    <2>3. running' = running \ {h} /\ todo' = todo /\ ams' = ams
      BY <1>5 DEF ReqHandlerSignal
    <2>4. \A o \in Puts : Handled(o)' <=> (Handled(o) /\ o # e)
      BY <1>1, <2>1, <2>3, OneMessage DEF Handled
    <2>5. \A o \in Puts : InFlight(o)' <=> InFlight(o)
      BY <2>3 DEF InFlight
    <2>6. Handled(e)
      BY <2>1 DEF Handled
    <2> QED  BY <1>1, <2>2, <2>3, <2>4, <2>5, <2>6 DEF TargetOK
  <1>6. ASSUME NEW t \in Threads, PutSignal(t) PROVE TargetOK'
    <2>1. \A k : Reported(k)' <=> (Reported(k) \/ k = <<"operation", entry[t]>>)
      BY <1>1, <1>6, PutSignalReport
    <2>2. \A o \in Puts : Reported(<<"arrival", o>>)' <=> Reported(<<"arrival", o>>)
      BY <2>1
    <2> QED  BY <1>2, <1>6, <2>2 DEF PutSignal, amVars
  <1>7. ASSUME NEW t \in Threads, NEW o \in Ops, SendOrRecv(t, o) PROVE TargetOK'
    <2>1. \A x \in Puts : x \in todo' <=> x \in todo
      BY <1>7 DEF SendOrRecv, Puts
    <2> QED  BY <1>2, <1>7, <2>1, NoReport DEF SendOrRecv, amVars
  <1>8. ASSUME NEW t \in Threads, NEW c \in Comps, PollCq(t, c) PROVE TargetOK'
    BY <1>1, <1>2, <1>8, PollReports DEF PollCq, amVars
  <1>9. ASSUME UNCHANGED <<todo, amVars, compVars>> PROVE TargetOK'
    BY <1>2, <1>9, NoReport DEF amVars
  <1>10. ASSUME NEW t \in Threads, ThreadStep(t) PROVE TargetOK'
    <2>1. \/ PutSignal(t) \/ UNCHANGED <<todo, amVars, compVars>>
          \/ \E o \in Ops : Put(t, o) \/ SendOrRecv(t, o)
          \/ \E c \in Comps : PollCq(t, c)
      BY <1>10 DEF ThreadStep, AllocPush, AllocFill, FreeDevice
    <2> QED  BY <1>3, <1>6, <1>7, <1>8, <1>9, <2>1
  <1>12. ASSUME NEW p \in Procs, BarrierArrive(p) \/ BarrierLeave(p) PROVE TargetOK'
    BY <1>9, <1>12 DEF BarrierArrive, BarrierLeave
  <1>13. CASE UNCHANGED vars
    BY <1>9, <1>13 DEF vars
  <1> QED  BY <1>4, <1>5, <1>10, <1>12, <1>13 DEF Next, Progress

(* An active message carries the right number, and its handler finds the   *)
(* right device.                                                           *)
LEMMA MessagesNext ==
    ASSUME GexInv, [Next]_vars
    PROVE  MessagesOK'
  <1>1. /\ Types /\ TableOK /\ MessagesOK
        /\ ams \subseteq [op : Puts, device_idx : DeviceIds]
        /\ \A p \in Procs : /\ phase[p] \in 0 .. 6 /\ phase'[p] \in 0 .. 6
                            /\ phase'[p] >= phase[p]
        /\ \A o \in Puts : o.proc \in Procs
    BY PhaseType, PhaseGrows, OpsAssumption DEF GexInv, Types, TypeOK, Puts
  <1>2. ASSUME \A o \in Puts : o \notin todo' /\ o \in todo => phase[o.proc] >= Comm
        PROVE  \A o \in Puts : o \notin todo' => phase'[o.proc] >= Comm
    <2>1. ASSUME NEW o \in Puts, o \notin todo' PROVE phase'[o.proc] >= Comm
      <3>1. phase[o.proc] >= Comm
        BY <1>1, <1>2, <2>1 DEF MessagesOK
      <3> QED  BY <1>1, <3>1 DEF Comm
    <2> QED  BY <2>1
  <1>3. ASSUME NEW t \in Threads, NEW e \in Ops, Put(t, e) PROVE MessagesOK'
    <2>1. /\ todo' = todo \ {e} /\ phase[e.proc] = Comm /\ running' = running
          /\ ams' = ams \cup {[op |-> e, device_idx |-> id[DeviceOf(e)]]}
      BY <1>3 DEF Put
    <2>2. id[DeviceOf(e)] = e.dev
      <3>1. e.proc \in Procs /\ e.dev \in DeviceIds
        BY OpsAssumption
      <3>2. Filled(e.proc, e.dev + 1)
        BY <1>1, <2>1, <3>1, DeviceReady DEF Comm, Alloc
      <3>3. (e.dev + 1) - 1 = e.dev
        BY <3>1, DeviceNumbers
      <3> QED  BY <3>1, <3>2, <3>3 DEF Filled, DeviceOf
    <2>3. \A o \in Puts : o \notin todo' /\ o \in todo => phase[o.proc] >= Comm
      BY <2>1 DEF Comm
    <2>4. \A am \in ams' : am.device_idx = am.op.dev
      BY <1>1, <2>1, <2>2 DEF MessagesOK
    <2> QED  BY <1>1, <1>2, <2>1, <2>3, <2>4 DEF MessagesOK
  <1>4. ASSUME NEW am \in ams, ReqHandler(am) PROVE MessagesOK'
    <2>1. DeviceAt(am.op.rank, am.device_idx) = am.op.dev
      <3>1. HasDevice(am.op.rank, am.device_idx)
        BY HandlerFinds DEF HandlerFindsDevice
      <3> QED  BY <1>1, <3>1 DEF HasDevice, DeviceAt, MessagesOK
    <2>2. /\ running' = running \cup {[op |-> am.op, device |-> am.op.dev]}
          /\ ams' = ams \ {am} /\ todo' = todo
      BY <1>4, <2>1 DEF ReqHandler
    <2> QED  BY <1>1, <1>2, <2>2 DEF MessagesOK
  <1>5. ASSUME NEW h \in running, ReqHandlerSignal(h) PROVE MessagesOK'
    <2>1. running' = running \ {h} /\ ams' = ams /\ todo' = todo
      BY <1>5 DEF ReqHandlerSignal
    <2> QED  BY <1>1, <1>2, <2>1 DEF MessagesOK
  <1>6. ASSUME UNCHANGED amVars, \A o \in Puts : o \in todo' <=> o \in todo PROVE MessagesOK'
    BY <1>1, <1>2, <1>6 DEF MessagesOK, amVars
  <1>7. ASSUME NEW t \in Threads, ThreadStep(t) PROVE MessagesOK'
    <2>1. ASSUME NEW o \in Ops, SendOrRecv(t, o) PROVE MessagesOK'
      BY <1>6, <2>1 DEF SendOrRecv, Puts
    <2>2. \/ UNCHANGED <<todo, amVars>> \/ \E o \in Ops : Put(t, o) \/ SendOrRecv(t, o)
      BY <1>7 DEF ThreadStep, AllocPush, AllocFill, FreeDevice, PollCq, PutSignal
    <2> QED  BY <1>3, <1>6, <2>1, <2>2
  <1>9. ASSUME NEW p \in Procs, BarrierArrive(p) \/ BarrierLeave(p) PROVE MessagesOK'
    BY <1>6, <1>9 DEF BarrierArrive, BarrierLeave
  <1>10. CASE UNCHANGED vars
    BY <1>6, <1>10 DEF vars
  <1> QED  BY <1>4, <1>5, <1>7, <1>9, <1>10 DEF Next, Progress

-----------------------------------------------------------------------------
(* The second barrier.                                                     *)

(* A process leaves the communication phase with its puts seen, and they   *)
(* stay seen.                                                              *)
LEMMA AllSeenNext ==
    ASSUME GexInv, [Next]_vars
    PROVE  AllSeen'
  <1>1. /\ AllSeen /\ phase \in [Procs -> 0 .. 6]
        /\ \A k : Consumed(k) => Consumed(k)'
    BY QueueNext, PhaseType DEF GexInv, Types
  <1>2. ASSUME NEW p \in Procs, NEW o \in Puts, o.rank = p, phase'[p] > Comm,
               ~(phase[p] > Comm)
        PROVE  Consumed(<<"arrival", o>>)
    <2>1. PICK q \in Procs : BarrierArrive(q) \/ BarrierLeave(q)
      BY <1>2 DEF Next, ThreadStep, Progress, vars, AllocPush, AllocFill, FreeDevice,
                  Put, PutSignal, SendOrRecv, PollCq, ReqHandler,
                  ReqHandlerSignal
    <2>2. phase' = [phase EXCEPT ![q] = @ + 1]
      BY <2>1 DEF BarrierArrive, BarrierLeave
    <2>3. q = p /\ phase[p] = 2
      BY <1>1, <1>2, <2>2 DEF Comm
    <2>4. BarrierArrive(p)
      BY <2>1, <2>3 DEF BarrierLeave
    <2>5. ReadyForBarrier(p) /\ phase[p] = Comm /\ Comm # Alloc /\ Comm # Free
      BY <2>3, <2>4 DEF BarrierArrive, Alloc, Comm, Free
    <2>6. \A x \in Puts : x.rank = p => Consumed(<<"arrival", x>>)
      BY <2>5 DEF ReadyForBarrier
    <2> QED  BY <1>2, <2>6
  <1>3. ASSUME NEW p \in Procs, NEW o \in Puts, o.rank = p, phase'[p] > Comm
        PROVE  Consumed(<<"arrival", o>>)
    <2>1. CASE phase[p] > Comm
      BY <1>1, <1>3, <2>1 DEF AllSeen
    <2> QED  BY <1>2, <1>3, <2>1
  <1> QED  BY <1>1, <1>3 DEF AllSeen

-----------------------------------------------------------------------------
(* At the start every table is empty and every put still to come.          *)
LEMMA GexInit == Init => GexInv
  <1> SUFFICES ASSUME Init PROVE GexInv
    OBVIOUS
  <1> USE DEF Init
  <1>1. Types
    <2>1. /\ g_devices \in [Procs -> Seq(Device)] /\ cq \in [Comps -> Seq(Completion)]
          /\ \A c \in Comps : DOMAIN cq[c] = {}
          /\ \A p \in Procs : Len(g_devices[p]) = 0 /\ DOMAIN g_devices[p] = {}
      OBVIOUS
    <2>2. 0 <= NumDevices
      BY DeviceNumbers
    <2>3. phase \in [Procs -> Alloc .. Exited]
      BY DEF Alloc, Exited
    <2> QED  BY <2>1, <2>2, <2>3 DEF Types, TypeOK
  <1>2. Barriers /\ FrameOK
    BY DEF Barriers, FrameOK, Alloc, Comm, Free
  <1>3. TableOK
    <2>1. ASSUME NEW p \in Procs PROVE TableOf(p)
      BY DeviceNumbers DEF TableOf, Allocating, Alloc
    <2> QED  BY <2>1 DEF TableOK
  <1>4. \A k : ~Reported(k)
    BY DEF Reported
  <1>5. \A o \in Puts : ~InHand(o) /\ o \in todo /\ ~InFlight(o) /\ ~Handled(o)
    BY OpsAssumption DEF Puts, InHand, InFlight, Handled
  <1>6. SourceOK /\ TargetOK /\ QueueOnce
    BY <1>4, <1>5, OpsAssumption DEF SourceOK, TargetOK, QueueOnce, InHand
  <1>7. MessagesOK /\ AllSeen
    BY <1>5 DEF MessagesOK, AllSeen, Alloc, Comm
  <1> QED  BY <1>1, <1>2, <1>3, <1>6, <1>7 DEF GexInv

(* The inductive invariant holds.                                          *)
THEOREM GexCorrect == Spec => []GexInv
  <1>1. GexInv /\ [Next]_vars => GexInv'
    <2> SUFFICES ASSUME GexInv, [Next]_vars PROVE GexInv'
      OBVIOUS
    <2>1. Types' /\ SourceOK' /\ TargetOK' /\ QueueOnce' /\ MessagesOK' /\ AllSeen'
      BY TypesNext, SourceNext, TargetNext, QueueNext, MessagesNext, AllSeenNext
    <2>2. Barriers' /\ FrameOK' /\ TableOK'
      BY BarriersNext, FrameNext, TableNext DEF GexInv
    <2> QED  BY <2>1, <2>2 DEF GexInv
  <1> QED  BY GexInit, <1>1, PTL DEF Spec

(* The variables of the GASNet-EX backend keep their types; in particular  *)
(* alloc_device never makes the table longer than the devices asked for.   *)
THEOREM GexTypes == Spec => []TypeOK
  <1>1. GexInv => TypeOK
    BY DEF GexInv, Types
  <1> QED  BY <1>1, GexCorrect, PTL

(* gex_reqhandler never looks up a device that does not exist, is not      *)
(* filled in or is freed, and always finds the one the put is for: the     *)
(* barriers around the communication are enough for that.                  *)
THEOREM HandlersFind == Spec => []HandlerFindsDevice
  BY GexCorrect, HandlerFinds, PTL

(* free_device never deletes a device between the lookup of a handler and  *)
(* its signal: a process frees its devices only when every put it expects  *)
(* has been signalled, which its handlers have then done.                  *)
THEOREM HandlersKeep == Spec => []HandlerKeepsDevice
  BY GexCorrect, HandlerKeeps, PTL

-----------------------------------------------------------------------------
(* The contract of lcw.hpp.                                                *)

InQueue(c) == {cq[c][i] : i \in DOMAIN cq[c]}

(* The contract speaks of operations in the words of the backend, and what *)
(* it calls a report is one.                                               *)
LEMMA ContractNames ==
    /\ \A o : Contract!Counted(o) = Counted(o) /\ Contract!IsPut(o) = IsPut(o)
    /\ \A q : Contract!Key(q) = Key(q)
    /\ \A q \in Contract!Reports : Reported(Key(q))
  <1>1. /\ \A o : Contract!Counted(o) = Counted(o) /\ Contract!IsPut(o) = IsPut(o)
        /\ \A q : Contract!Key(q) = Key(q)
    BY DEF Contract!Counted, Counted, Contract!IsPut, IsPut, Contract!Key, Key
  <1>2. \A q \in Contract!Reports : Reported(Key(q))
    BY DEF Contract!Reports, Reported
  <1> QED  BY <1>1, <1>2

(* The completion of an injected put is due, at its source and at its      *)
(* target, until it is reported there.                                     *)
LEMMA PutDue ==
    ASSUME NEW o \in Puts, o \notin todo, ~Reported(<<"operation", o>>)
    PROVE  PutRequest(o) \in Contract!Due(o.comp)
  <1>1. PICK r : r = PutRequest(o)
    OBVIOUS
  <1>2. r = Contract!Sent(o) /\ Counted(o)
    BY <1>1 DEF PutRequest, Contract!Sent, Puts, IsPut, Counted
  <1>3. Key(r) = <<"operation", o>>
    BY <1>1, RequestType
  <1>4. \A q \in Contract!Reports : Key(q) # Key(r)
    BY <1>3, ContractNames
  <1> QED  BY <1>1, <1>2, <1>4, ContractNames DEF Contract!Due

(* The arrival of a put that was issued is due at the completion object of *)
(* the device it is for, until it is reported there.                       *)
LEMMA ArrivalDue ==
    ASSUME NEW o \in Puts, o \notin todo, ~Reported(<<"arrival", o>>)
    PROVE  ArrivedRequest(o) \in Contract!Due(PutComp[<<o.rank, o.dev>>])
  <1>1. PICK r : r = ArrivedRequest(o)
    OBVIOUS
  <1>2. r = Contract!Arrived(o) /\ IsPut(o)
    BY <1>1 DEF ArrivedRequest, Contract!Arrived, Puts
  <1>3. Key(r) = <<"arrival", o>>
    BY <1>1, RequestType
  <1>4. \A q \in Contract!Reports : Key(q) # Key(r)
    BY <1>3, ContractNames
  <1> QED  BY <1>1, <1>2, <1>4, ContractNames DEF Contract!Due

(* A signal of a report that is due is a step of the contract.             *)
LEMMA SignalIsReport ==
    ASSUME Types, NEW c \in Comps, NEW r \in Completion, SignalComp(c, r),
           r \in Contract!Due(c), UNCHANGED todo
    PROVE  Contract!Next
  <1>1. CASE c \in Handlers
    <2>1. Contract!Report(c)
      BY <1>1 DEF SignalComp, HandlerSignal, Contract!Report
    <2> QED  BY <2>1 DEF Contract!Next
  <1>2. CASE c \notin Handlers
    <2>1. /\ polled' = polled /\ cq'[c] = Append(cq[c], r) /\ cq[c] \in Seq(Completion)
          /\ \A e \in Comps : e # c => cq'[e] = cq[e]
      BY <1>2 DEF SignalComp, CqSignal, Types
    <2>2. PICK n \in Nat : n = Len(cq[c]) + 1
      BY <2>1
    <2>3. /\ DOMAIN cq'[c] = DOMAIN cq[c] \cup {n} /\ cq'[c][n] = r /\ n \notin DOMAIN cq[c]
          /\ \A i \in DOMAIN cq[c] : cq'[c][i] = cq[c][i]
      BY <2>1, <2>2
    <2>4. InQueue(c)' = InQueue(c) \cup {r}
      BY <2>3 DEF InQueue
    <2>5. \A e \in Comps : e # c => InQueue(e)' = InQueue(e)
      BY <2>1 DEF InQueue
    <2>6. [e \in Comps |-> InQueue(e)]' = [[e \in Comps |-> InQueue(e)] EXCEPT ![c] = @ \cup {r}]
      BY <2>4, <2>5
    <2>7. Contract!Report(c)
      BY <1>2, <2>1, <2>6 DEF InQueue, Contract!Report
    <2> QED  BY <2>7 DEF Contract!Next
  <1> QED  BY <1>1, <1>2

(* poll_cq is a step of the contract.                                      *)
LEMMA PollIsTake ==
    ASSUME Types, QueueOnce, NEW c \in Comps, Poll(c), UNCHANGED todo
    PROVE  Contract!Next
  <1>1. /\ cq[c] \in Seq(Completion) /\ cq[c] # <<>> /\ cq'[c] = Tail(cq[c])
        /\ \A e \in Comps : e # c => cq'[e] = cq[e]
        /\ polled' = [polled EXCEPT ![c] = @ \cup {Head(cq[c])}]
    BY DEF Types, TypeOK, Poll
  <1>2. /\ Head(cq[c]) = cq[c][1] /\ 1 \in DOMAIN cq[c] /\ Len(cq[c]) \in Nat
        /\ DOMAIN cq[c] = 1 .. Len(cq[c]) /\ DOMAIN cq'[c] = 1 .. (Len(cq[c]) - 1)
        /\ \A i \in 1 .. (Len(cq[c]) - 1) : cq'[c][i] = cq[c][i + 1]
    BY <1>1
  <1>3. PICK x : x = cq[c][1]
    OBVIOUS
  <1>4. x \in InQueue(c) /\ \A i \in DOMAIN cq[c] : i # 1 => cq[c][i] # x
    BY <1>2, <1>3 DEF InQueue, QueueOnce
  <1>5. ASSUME NEW i \in DOMAIN cq'[c] PROVE cq'[c][i] \in InQueue(c) \ {x}
    <2>1. i + 1 \in DOMAIN cq[c] /\ i + 1 # 1 /\ cq'[c][i] = cq[c][i + 1]
      BY <1>2, <1>5
    <2> QED  BY <1>4, <2>1 DEF InQueue
  <1>6. ASSUME NEW i \in DOMAIN cq[c], i # 1 PROVE cq[c][i] \in InQueue(c)'
    <2>1. i - 1 \in DOMAIN cq'[c] /\ cq'[c][i - 1] = cq[c][i]
      <3>1. i - 1 \in 1 .. (Len(cq[c]) - 1) /\ (i - 1) + 1 = i
        BY <1>2, <1>6
      <3> QED  BY <1>2, <3>1
    <2> QED  BY <2>1 DEF InQueue
  <1>7. InQueue(c)' = InQueue(c) \ {x}
    <2>1. InQueue(c)' \subseteq InQueue(c) \ {x}
      BY <1>5 DEF InQueue
    <2>2. InQueue(c) \ {x} \subseteq InQueue(c)'
      BY <1>3, <1>6 DEF InQueue
    <2> QED  BY <2>1, <2>2
  <1>8. \A e \in Comps : e # c => InQueue(e)' = InQueue(e)
    BY <1>1 DEF InQueue
  <1>9. [e \in Comps |-> InQueue(e)]' = [[e \in Comps |-> InQueue(e)] EXCEPT ![c] = @ \ {x}]
    BY <1>7, <1>8
  <1>10. polled' = [polled EXCEPT ![c] = @ \cup {x}]
    BY <1>1, <1>2, <1>3
  <1>11. Contract!Take(c)
    BY <1>4, <1>9, <1>10 DEF Contract!Take, InQueue
  <1> QED  BY <1>11 DEF Contract!Next

(* Every step is a step of the contract or leaves it alone.                *)
LEMMA ContractStep ==
    ASSUME GexInv, [Next]_vars
    PROVE  Contract!Next \/ UNCHANGED Contract!contractVars
  <1>1. Types /\ FrameOK /\ SourceOK /\ TargetOK /\ QueueOnce /\ MessagesOK
    BY DEF GexInv
  <1>2. ASSUME UNCHANGED compVars, \A o \in Puts : o \in todo' <=> o \in todo
        PROVE  UNCHANGED Contract!contractVars
    BY <1>2 DEF Contract!contractVars, compVars
  <1>3. ASSUME NEW t \in Threads, NEW o \in Ops, Put(t, o) PROVE Contract!Next
    <2>1. o \in Puts /\ o \in todo /\ todo' = todo \ {o} /\ UNCHANGED compVars
      BY <1>3 DEF Put, Puts
    <2>2. Puts \ todo' = (Puts \ todo) \cup {o}
      BY <2>1
    <2>3. Contract!Accept(o)
      BY <2>1, <2>2 DEF Contract!Accept, compVars
    <2> QED  BY <2>3 DEF Contract!Next
  <1>4. ASSUME NEW t \in Threads, PutSignal(t) PROVE Contract!Next
    <2>1. PICK o \in Puts : o = entry[t] /\ o.comp \in Comps
      BY <1>4, <1>1, OpsAssumption DEF PutSignal, FrameOK, Puts
    <2>2. o \notin todo /\ ~Reported(<<"operation", o>>)
      BY <1>1, <2>1 DEF SourceOK, InHand
    <2>3. PutRequest(o) \in Contract!Due(o.comp)
      BY <2>2, PutDue
    <2>4. PutRequest(o) \in Completion
      BY RequestType
    <2>5. SignalComp(o.comp, PutRequest(o)) /\ UNCHANGED todo
      BY <1>4, <2>1 DEF PutSignal
    <2> QED  BY <1>1, <2>1, <2>3, <2>4, <2>5, SignalIsReport
  <1>5. ASSUME NEW h \in running, ReqHandlerSignal(h) PROVE Contract!Next
    <2>1. PICK o \in Puts : o = h.op
      BY <1>1 DEF Types, TypeOK
    <2>2. o \notin todo /\ ~Reported(<<"arrival", o>>)
      BY <1>1, <2>1 DEF TargetOK, Handled
    <2>3. PICK c \in Comps : c = PutComp[<<o.rank, o.dev>>]
      BY OpsAssumption, ProcsAssumption DEF Puts, Devices
    <2>4. ArrivedRequest(o) \in Contract!Due(c) /\ ArrivedRequest(o) \in Completion
      BY <2>2, <2>3, ArrivalDue, RequestType
    <2>5. CompFound(h.op.rank, h.device) = {c}
      BY <2>1, <2>3, HandlerKeeps DEF HandlerKeepsDevice, CompFound
    <2>6. SignalComp(c, ArrivedRequest(o)) /\ UNCHANGED todo
      BY <1>5, <2>1, <2>5 DEF ReqHandlerSignal
    <2> QED  BY <1>1, <2>4, <2>6, SignalIsReport
  <1>6. ASSUME NEW t \in Threads, NEW c \in Comps, PollCq(t, c) PROVE Contract!Next
    BY <1>1, <1>6, PollIsTake DEF PollCq
  <1>7. ASSUME NEW t \in Threads, NEW o \in Ops, SendOrRecv(t, o)
        PROVE  UNCHANGED Contract!contractVars
    BY <1>2, <1>7 DEF SendOrRecv, Puts
  <1>8. ASSUME NEW t \in Threads, ThreadStep(t)
        PROVE  Contract!Next \/ UNCHANGED Contract!contractVars
    <2>1. \/ PutSignal(t) \/ UNCHANGED <<todo, compVars>>
          \/ \E o \in Ops : Put(t, o) \/ SendOrRecv(t, o)
          \/ \E c \in Comps : PollCq(t, c)
      BY <1>8 DEF ThreadStep, AllocPush, AllocFill, FreeDevice
    <2> QED  BY <1>2, <1>3, <1>4, <1>6, <1>7, <2>1
  <1>10. ASSUME NEW am \in ams, ReqHandler(am) PROVE UNCHANGED Contract!contractVars
    BY <1>2, <1>10 DEF ReqHandler
  <1>11. ASSUME NEW p \in Procs, BarrierArrive(p) \/ BarrierLeave(p)
         PROVE  UNCHANGED Contract!contractVars
    BY <1>2, <1>11 DEF BarrierArrive, BarrierLeave
  <1>12. ASSUME UNCHANGED vars PROVE UNCHANGED Contract!contractVars
    BY <1>2, <1>12 DEF vars
  <1> QED  BY <1>5, <1>8, <1>10, <1>11, <1>12 DEF Next, Progress

(* The GASNet-EX backend implements the contract of lcw.hpp for put: a put *)
(* is reported once at its source and once at its target, each time to the *)
(* right completion object, whatever thread runs the handlers.             *)
THEOREM GexContract == Spec => ContractSpec
  <1>1. Init => Contract!Init
    <2> SUFFICES ASSUME Init PROVE Contract!Init
      OBVIOUS
    <2>1. Puts \ todo = {}
      BY DEF Init, Puts
    <2> QED  BY <2>1 DEF Init, Contract!Init
  <1>2. GexInv /\ [Next]_vars => [Contract!Next]_(Contract!contractVars)
    BY ContractStep
  <1> QED  BY <1>1, <1>2, GexCorrect, PTL DEF Spec, ContractSpec, Contract!Spec
=============================================================================
