--------------------------- MODULE PingPongProofs ---------------------------
(***************************************************************************)
(* The ping-pong benchmark, for every sound command line: any number of    *)
(* devices, workers and progress threads, any windows, message sizes and   *)
(* iterations.                                                             *)
(***************************************************************************)
EXTENDS PingPong, FiniteSetTheorems, TLAPS

-----------------------------------------------------------------------------
(* Workers and their devices.                                              *)

(* Division undoes multiplication.                                         *)
LEMMA Quotient ==
    ASSUME NEW k \in Nat \ {0}, NEW q \in Nat, NEW r \in Nat, r < k
    PROVE  (k * q + r) \div k = q /\ (k * q + r) % k = r
  BY SMT

(* The quotient grows with the dividend, ...                               *)
LEMMA QuotientGrows ==
    ASSUME NEW k \in Nat \ {0}, NEW m \in Nat, NEW n \in Nat, m <= n
    PROVE  m \div k <= n \div k /\ m \div k \in Nat
  <1>1. m \div k \in Int
    BY SMT
  <1>2. m \div k >= 0
    BY SMT
  <1>3. m \div k <= n \div k
    BY SMT
  <1> QED  BY <1>1, <1>2, <1>3

(* ... and two multiples with one quotient are one.                        *)
LEMMA SameMultiple ==
    ASSUME NEW k \in Nat \ {0}, NEW m \in Nat, NEW n \in Nat,
           m \div k = n \div k, m % k = 0, n % k = 0
    PROVE  m = n
  BY SMT

(* Every worker has a device, and every device one worker that allocates   *)
(* it and frees it.                                                        *)
LEMMA CommandLine ==
    ASSUME NEW c \in Configs
    PROVE  /\ NWorkers(c) \in Nat \ {0} /\ WorkersPerDevice(c) \in Nat \ {0}
           /\ \A w \in 0 .. NWorkers(c) - 1 : DeviceIdx(c, w) \in 0 .. c.ndevices - 1
           /\ \A d \in 0 .. c.ndevices - 1 : \E w \in 0 .. NWorkers(c) - 1 :
                 w % WorkersPerDevice(c) = 0 /\ DeviceIdx(c, w) = d
  <1> DEFINE W == NWorkers(c)
             K == WorkersPerDevice(c)
             D == c.ndevices
  <1>1. W \in Nat \ {0} /\ D \in Nat \ {0}
    BY ConfigsAssumption DEF NWorkers
  <1>2. K \in Nat \ {0}
    <2>1. (D * 1 + 0) \div D = 1
      BY <1>1, Quotient
    <2>2. D <= W + D - 1 /\ W + D - 1 \in Nat /\ D \in Nat
      BY <1>1
    <2>3. D \div D <= (W + D - 1) \div D /\ D \div D \in Nat
      BY <1>1, <2>2, QuotientGrows
    <2>4. (W + D - 1) \div D \in Nat
      BY <1>1, <2>2, QuotientGrows
    <2> QED  BY <1>1, <2>1, <2>3, <2>4 DEF WorkersPerDevice
  <1>3. (W - 1) \div K = D - 1
    BY ConfigsAssumption DEF DeviceIdx
  <1> HIDE DEF W, K, D
  <1>4. ASSUME NEW w \in 0 .. W - 1 PROVE w \div K \in 0 .. D - 1
    <2>1. w \in Nat /\ W - 1 \in Nat /\ w <= W - 1
      BY <1>1
    <2>2. w \div K <= (W - 1) \div K /\ w \div K \in Nat
      BY <1>2, <2>1, QuotientGrows
    <2> QED  BY <1>1, <1>3, <2>2
  <1>5. ASSUME NEW d \in 0 .. D - 1
        PROVE  \E w \in 0 .. W - 1 : w % K = 0 /\ w \div K = d
    <2>1. d \in Nat /\ K * d \in Nat
      BY <1>1, <1>2
    <2>2. (K * d + 0) \div K = d /\ (K * d + 0) % K = 0
      BY <1>2, <2>1, Quotient
    <2>3. K * d <= W - 1
      <3> SUFFICES ASSUME K * d > W - 1 PROVE FALSE
        BY <1>1, <2>1
      <3>1. d # 0
        BY <1>1, <1>2
      <3>2. d - 1 \in Nat /\ K - 1 \in Nat /\ K - 1 < K
        BY <1>2, <2>1, <3>1
      <3>3. (K * (d - 1) + (K - 1)) \div K = d - 1
        BY <1>2, <3>2, Quotient
      <3>4. K * (d - 1) + (K - 1) = K * d - 1
        BY <1>2, <2>1
      <3>5. W - 1 \in Nat /\ K * d - 1 \in Nat /\ W - 1 <= K * d - 1
        BY <1>1, <2>1
      <3>6. (W - 1) \div K <= (K * d - 1) \div K
        BY <1>2, <3>5, QuotientGrows
      <3> QED  BY <1>1, <1>3, <2>1, <3>3, <3>4, <3>6
    <2> QED  BY <2>1, <2>2, <2>3, <1>1
  <1> QED  BY <1>1, <1>2, <1>4, <1>5 DEF W, K, D, DeviceIdx

(* Where a worker of the command line in use belongs.                      *)
LEMMA WorkerFacts ==
    ASSUME config \in Configs, NEW p \in Ranks, NEW t \in OfRank(p)
    PROVE  /\ t \in Workers /\ t[1] = p /\ t[2] \in 0 .. NWorkers(config) - 1 /\ t = <<p, t[2]>>
           /\ Dev(t) = <<p, DeviceIdx(config, t[2])>> /\ Dev(t)[1] = p
           /\ Dev(t)[2] = DeviceIdx(config, t[2])
           /\ Dev(t) \in Devs /\ Dev(t)[2] \in 0 .. config.ndevices - 1
           /\ Dev(t) \in Ranks \X DeviceIds
           /\ <<Peer(p), t[2]>> \in OfRank(Peer(p)) /\ Peer(p) \in Ranks
  <1>1. t \in Workers /\ t[1] = p /\ t[2] < NWorkers(config) /\ t = <<p, t[2]>>
    BY DEF OfRank, Workers
  <1>2. t[2] \in 0 .. NWorkers(config) - 1
    <2>1. PICK c \in Configs : t[2] \in 0 .. NWorkers(c) - 1
      BY <1>1 DEF Workers
    <2> QED  BY <1>1, <2>1, CommandLine
  <1>3. DeviceIdx(config, t[2]) \in 0 .. config.ndevices - 1
    BY <1>2, CommandLine
  <1>4. DeviceIdx(config, t[2]) \in DeviceIds
    BY <1>3 DEF DeviceIds
  <1>5. Peer(p) \in Ranks /\ <<Peer(p), t[2]>> \in Workers
    BY <1>1 DEF Peer, Ranks, Workers
  <1> QED  BY <1>1, <1>2, <1>3, <1>4, <1>5 DEF Dev, Devs, OfRank

(* A device has one owner.                                                 *)
LEMMA OneOwner ==
    ASSUME config \in Configs, NEW p \in Ranks, NEW t \in OfRank(p), NEW u \in OfRank(p),
           IsOwner(t), IsOwner(u), Dev(t)[2] = Dev(u)[2]
    PROVE  t = u
  <1>1. t[2] \in Nat /\ u[2] \in Nat /\ t = <<p, t[2]>> /\ u = <<p, u[2]>>
    <2>1. \A v \in OfRank(p) : v[2] \in 0 .. NWorkers(config) - 1 /\ v = <<p, v[2]>>
      BY WorkerFacts, ZenonT(30)
    <2>2. NWorkers(config) \in Nat
      BY CommandLine
    <2> QED  BY <2>1, <2>2
  <1>2. PICK k \in Nat \ {0} : k = WorkersPerDevice(config)
    BY CommandLine
  <1>3. t[2] \div k = u[2] \div k /\ t[2] % k = 0 /\ u[2] % k = 0
    BY <1>2 DEF Dev, DeviceIdx, IsOwner
  <1>4. t[2] = u[2]
    BY <1>1, <1>3, SameMultiple
  <1> QED  BY <1>1, <1>4

(* Every device has one.                                                   *)
LEMMA SomeOwner ==
    ASSUME config \in Configs, NEW d \in Devs
    PROVE  \E t \in OfRank(d[1]) : IsOwner(t) /\ Dev(t) = d
  <1>1. d = <<d[1], d[2]>> /\ d[1] \in Ranks /\ d[2] \in 0 .. config.ndevices - 1
    BY DEF Devs
  <1>2. PICK w \in 0 .. NWorkers(config) - 1 :
           w % WorkersPerDevice(config) = 0 /\ DeviceIdx(config, w) = d[2]
    BY <1>1, CommandLine
  <1>3. <<d[1], w>> \in OfRank(d[1])
    BY <1>1, <1>2, CommandLine DEF OfRank, Workers
  <1> QED  BY <1>1, <1>2, <1>3 DEF IsOwner, Dev

-----------------------------------------------------------------------------
(* The inductive invariant.                                                *)

Allocs == {"alloc", "dup", "alloc_reset"}
Frees == {"free", "comm_free", "free_reset", "done"}
Overs == {"all2", "free", "comm_free", "free_reset", "done"}

(* What holds of a worker at each of its steps: owners allocate and free,  *)
(* tbarrier_all counts it as often as it came there, and the loop          *)
(* variables are within their loops.                                       *)
WorkerOf(t) ==
    /\ pc[t] \in {"alloc", "dup", "alloc_reset", "free", "comm_free", "free_reset"} => IsOwner(t)
    /\ arrived.all[t] = IF pc[t] \in Allocs THEN 0 ELSE IF pc[t] \in Overs THEN 2 ELSE 1
    /\ pc[t] = "post_recv" => config.op = "SEND"
    /\ pc[t] \notin Loops => j[t] = 0 /\ iter[t] = 0
    /\ pc[t] \in Loops => j[t] < WindowOf(t)
    /\ pc[t] \in Overs => size[t] + 1 = nsizes

(* The workers of a longer command line do nothing.                        *)
IdleOf(t) == pc[t] = "done" /\ net[t] = 0 /\ pend[t] = 0

WorkersOK == \A t \in Workers : IF t \in OfRank(t[1]) THEN WorkerOf(t) ELSE IdleOf(t)

PrgsOK ==
    \A t \in Prgs :
       IF t \in PrgsOf(t[1]) THEN arrived.prg[t] = IF ppc[t] \in {"all1", "loop"} THEN 1 ELSE 2
                             ELSE ppc[t] = "done"

(* Nobody is past tbarrier_all before everybody came there.                *)
MetOK ==
    \A p \in Ranks :
       /\ \A u \in OfRank(p) : pc[u] \notin Allocs \cup {"all1"} => AllMet(p, 1)
       /\ \A u \in PrgsOf(p) : ppc[u] # "all1" => AllMet(p, 1)
       /\ \A u \in OfRank(p) : pc[u] \in Frees => AllMet(p, 2)

(* The state of a device follows from the step its owner is at, and its    *)
(* communicator from its number.                                           *)
DeviceOf(t) ==
    /\ device[Dev(t)].state = IF pc[t] \in {"alloc", "dup"} THEN "none"
                              ELSE IF pc[t] \in {"comm_free", "free_reset", "done"} THEN "freed"
                              ELSE "alive"
    /\ device[Dev(t)].comm = IF pc[t] = "alloc" THEN 0 ELSE Dev(t)[2] + 1

(* While devices are allocated, the turn is that of the next one; who      *)
(* allocates or frees a device has the turn, and the owner of the last one *)
(* finds the counter at the number of devices when it sets it back.        *)
TurnOf(t) ==
    /\ pc[t] = "alloc" => Dev(t)[2] >= dups[t[1]] /\ seq[t[1]] \in {dups[t[1]], dups[t[1]] - 1}
    /\ pc[t] = "dup" => Dev(t)[2] + 1 = dups[t[1]] /\ seq[t[1]] = Dev(t)[2]
    /\ pc[t] = "alloc_reset" => dups[t[1]] = config.ndevices
    /\ pc[t] = "comm_free" => seq[t[1]] = Dev(t)[2]
    /\ pc[t] \in {"alloc_reset", "free_reset"} =>
          Dev(t)[2] + 1 = config.ndevices /\ seq[t[1]] = config.ndevices

OwnersOK == \A p \in Ranks : \A t \in OfRank(p) : IsOwner(t) => DeviceOf(t) /\ TurnOf(t)

LiveInv == TypeOK /\ WorkersOK /\ PrgsOK /\ MetOK /\ OwnersOK

-----------------------------------------------------------------------------
(* What the steps of a worker do to it.                                    *)

(* Going on to a step changes the worker's own place and arrivals.         *)
LEMMA GotoFacts ==
    ASSUME TypeOK, NEW t \in Workers, NEW step \in WorkerSteps, Goto(t, step),
           step \in AllBarriers => arrived.all[t] < 2
    PROVE  /\ pc' \in [Workers -> WorkerSteps] /\ pc'[t] = step
           /\ \A u \in Workers : u # t => pc'[u] = pc[u] /\ arrived'.all[u] = arrived.all[u]
           /\ arrived'.all[t] = IF step \in AllBarriers THEN arrived.all[t] + 1 ELSE arrived.all[t]
           /\ arrived'.prg = arrived.prg
           /\ arrived' \in [worker : [Workers -> Nat], all : [Workers -> 0 .. 2],
                            prg : [Prgs -> 0 .. 2]]
           /\ barriers' \in [Ranks -> Nat]
  <1> USE DEF TypeOK
  <1>1. pc' \in [Workers -> WorkerSteps] /\ pc'[t] = step /\ \A u \in Workers : u # t => pc'[u] = pc[u]
    BY DEF Goto
  <1>2. barriers' \in [Ranks -> Nat]
    <2>1. t[1] \in Ranks
      BY DEF Workers
    <2> QED  BY <2>1 DEF Goto
  <1>3. /\ arrived.worker \in [Workers -> Nat] /\ arrived.all \in [Workers -> 0 .. 2]
        /\ arrived.prg \in [Prgs -> 0 .. 2]
        /\ arrived = [worker |-> arrived.worker, all |-> arrived.all, prg |-> arrived.prg]
    OBVIOUS
  <1>4. CASE step \in WorkerBarriers
    <2>1. arrived' = [arrived EXCEPT !.worker[t] = @ + 1] /\ step \notin AllBarriers
      BY <1>4 DEF Goto, WorkerBarriers, AllBarriers
    <2>2. PICK f : f = [arrived.worker EXCEPT ![t] = @ + 1]
      OBVIOUS
    <2>3. f \in [Workers -> Nat]
      BY <1>3, <2>2
    <2>4. arrived' = [worker |-> f, all |-> arrived.all, prg |-> arrived.prg]
      BY <1>3, <2>1, <2>2
    <2>5. arrived'.all = arrived.all /\ arrived'.prg = arrived.prg
      BY <2>4
    <2>6. step \notin AllBarriers
      BY <2>1
    <2>7. arrived' \in [worker : [Workers -> Nat], all : [Workers -> 0 .. 2], prg : [Prgs -> 0 .. 2]]
      BY <1>3, <2>3, <2>4
    <2> QED  BY <1>1, <1>2, <2>5, <2>6, <2>7
  <1>5. CASE step \in AllBarriers
    <2>1. arrived' = [arrived EXCEPT !.all[t] = @ + 1]
      BY <1>5 DEF Goto, WorkerBarriers, AllBarriers
    <2>2. PICK f : f = [arrived.all EXCEPT ![t] = @ + 1]
      OBVIOUS
    <2>3. /\ f \in [Workers -> 0 .. 2] /\ f[t] = arrived.all[t] + 1
          /\ \A u \in Workers : u # t => f[u] = arrived.all[u]
      BY <1>3, <1>5, <2>2
    <2>4. arrived' = [worker |-> arrived.worker, all |-> f, prg |-> arrived.prg]
      BY <1>3, <2>1, <2>2
    <2> QED  BY <1>1, <1>2, <1>3, <1>5, <2>3, <2>4
  <1>6. CASE step \notin WorkerBarriers \cup AllBarriers
    <2>1. arrived' = arrived
      BY <1>6 DEF Goto
    <2> QED  BY <1>1, <1>2, <1>3, <1>6, <2>1
  <1> QED  BY <1>4, <1>5, <1>6

(* Which step of a ping-pong follows which, and the last one.              *)
Order(p) ==
    IF p = 0
    THEN {<<"post_recv", "post_send">>, <<"post_send", "wait_send">>, <<"wait_send", "wait_recv">>}
    ELSE {<<"post_recv", "wait_recv">>, <<"wait_recv", "post_send">>, <<"post_send", "wait_send">>}
LastStep(p) == IF p = 0 THEN "wait_recv" ELSE "wait_send"
FirstStep(t) == IF config.op = "SEND" THEN "post_recv"
                ELSE IF t[1] = 0 THEN "post_send" ELSE "wait_recv"

(* Steps lists them in that order.                                         *)
LEMMA StepsFacts ==
    ASSUME NEW t \in Workers, config \in Configs
    PROVE  /\ Steps(t)[1] = FirstStep(t)
           /\ pc[t] \in Loops /\ (pc[t] = "post_recv" => config.op = "SEND") =>
                 \E k \in DOMAIN Steps(t) : Steps(t)[k] = pc[t]
           /\ Len(Steps(t)) \in DOMAIN Steps(t)
           /\ \A k \in DOMAIN Steps(t) :
                 /\ Steps(t)[k] \in Loops
                 /\ k = Len(Steps(t)) => Steps(t)[k] = LastStep(t[1])
                 /\ k # Len(Steps(t)) => <<Steps(t)[k], Steps(t)[k + 1]>> \in Order(t[1])
  <1>1. t[1] \in {0, 1}
    BY DEF Workers, Ranks
  <1>2. config.op \in {"SEND", "PUT"}
    BY ConfigsAssumption
  <1>3. CASE t[1] = 0 /\ config.op = "SEND"
    <2>1. Steps(t) = <<"post_recv", "post_send", "wait_send", "wait_recv">>
      BY <1>3 DEF Steps
    <2> QED  BY <1>3, <2>1 DEF FirstStep, LastStep, Order, Loops
  <1>4. CASE t[1] = 1 /\ config.op = "SEND"
    <2>1. Steps(t) = <<"post_recv", "wait_recv", "post_send", "wait_send">>
      BY <1>4 DEF Steps
    <2> QED  BY <1>4, <2>1 DEF FirstStep, LastStep, Order, Loops
  <1>5. CASE t[1] = 0 /\ config.op = "PUT"
    <2>1. Steps(t) = <<"post_send", "wait_send", "wait_recv">>
      BY <1>5 DEF Steps
    <2> QED  BY <1>5, <2>1 DEF FirstStep, LastStep, Order, Loops
  <1>6. CASE t[1] = 1 /\ config.op = "PUT"
    <2>1. Steps(t) = <<"wait_recv", "post_send", "wait_send">>
      BY <1>6 DEF Steps
    <2> QED  BY <1>6, <2>1 DEF FirstStep, LastStep, Order, Loops
  <1> QED  BY <1>1, <1>2, <1>3, <1>4, <1>5, <1>6

(* A counter that is set back at its end.                                  *)
LEMMA WrapAround ==
    ASSUME NEW n \in Nat \ {0}, NEW i \in 0 .. n - 1
    PROVE  (i + 1) % n = IF i + 1 = n THEN 0 ELSE i + 1
  BY SMT

(* Where a step of a loop leads: to its next turn, to the next loop, to    *)
(* the next ping-pong, or to the end of the ping-pongs of this size.       *)
LoopTo(t, step) ==
    \/ /\ j[t] + 1 < WindowOf(t) /\ j'[t] = j[t] + 1
       /\ step = pc[t] /\ iter'[t] = iter[t]
    \/ /\ j[t] + 1 = WindowOf(t) /\ j'[t] = 0
       /\ \/ <<pc[t], step>> \in Order(t[1]) /\ iter'[t] = iter[t]
          \/ /\ pc[t] = LastStep(t[1])
             /\ \/ iter[t] + 1 < niters /\ iter'[t] = iter[t] + 1 /\ step = FirstStep(t)
                \/ iter[t] + 1 = niters /\ iter'[t] = 0 /\ step = "end_b1"

(* Where a barrier leads.                                                  *)
BarrierTo(t, step) ==
    \/ /\ size'[t] = size[t]
       /\ \/ pc[t] = "all1" /\ step = "size_b1" /\ AllMet(t[1], 1)
          \/ pc[t] = "size_b1" /\ step \in {"size_mpi", "size_b2"}
          \/ pc[t] = "size_b2" /\ step = FirstStep(t)
          \/ pc[t] = "end_b1" /\ step \in {"end_mpi", "end_b2"}
          \/ pc[t] = "end_b2" /\ step = "all2" /\ size[t] + 1 = nsizes
          \/ pc[t] = "all2" /\ step = (IF IsOwner(t) THEN "free" ELSE "done") /\ AllMet(t[1], 2)
    \/ /\ pc[t] = "end_b2" /\ size[t] + 1 < nsizes
       /\ step = "size_b1" /\ size'[t] = size[t] + 1

(* The loops wait for a window of messages.                                *)
LEMMA WindowFacts ==
    ASSUME config \in Configs, NEW t
    PROVE  /\ WindowOf(t) \in Nat \ {0} /\ Repeats(t) = WindowOf(t)
           /\ WindowOf(t) <= config.send_window + config.recv_window - 1
           /\ {config.send_window, config.recv_window} \subseteq Nat \ {0}
  BY ConfigsAssumption DEF WindowOf, Repeats

(* EndOfStep goes where the loops lead.                                    *)
LEMMA LoopMove ==
    ASSUME TypeOK, NEW t \in Workers, WorkerOf(t), pc[t] \in Loops, EndOfStep(t)
    PROVE  /\ \E step \in Loops \cup {"end_b1"} : Goto(t, step) /\ LoopTo(t, step)
           /\ \A u \in Workers : u # t => j'[u] = j[u] /\ iter'[u] = iter[u]
           /\ j' \in [Workers -> 0 .. config.send_window + config.recv_window - 1]
           /\ iter' \in [Workers -> 0 .. niters - 1]
           /\ UNCHANGED <<config, size, seq, stop, ppc, dups, device>>
  <1> USE DEF TypeOK
  <1> DEFINE i == CHOOSE k \in DOMAIN Steps(t) : Steps(t)[k] = pc[t]
             again == j[t] + 1 < Repeats(t)
             last == ~again /\ i = Len(Steps(t))
             step == IF again THEN pc[t]
                     ELSE IF ~last THEN Steps(t)[i + 1]
                     ELSE IF iter[t] + 1 < niters THEN Steps(t)[1] ELSE "end_b1"
  <1>1. i \in DOMAIN Steps(t) /\ Steps(t)[i] = pc[t]
    BY StepsFacts DEF WorkerOf
  <1>2. /\ j' = [j EXCEPT ![t] = IF again THEN @ + 1 ELSE 0]
        /\ iter' = [iter EXCEPT ![t] = IF last THEN (@ + 1) % niters ELSE @]
        /\ Goto(t, step)
        /\ UNCHANGED <<config, size, seq, stop, ppc, dups, device>>
    BY DEF EndOfStep
  <1>3. /\ Steps(t)[1] = FirstStep(t) /\ FirstStep(t) \in Loops
        /\ i = Len(Steps(t)) => pc[t] = LastStep(t[1])
        /\ i # Len(Steps(t)) => <<pc[t], Steps(t)[i + 1]>> \in Order(t[1])
    BY <1>1, StepsFacts DEF FirstStep, Loops
  <1> HIDE DEF i
  <1>4. niters \in Nat \ {0} /\ iter[t] \in 0 .. niters - 1
    BY ConfigsAssumption
  <1>5. (iter[t] + 1) % niters = IF iter[t] + 1 = niters THEN 0 ELSE iter[t] + 1
    BY <1>4, WrapAround
  <1>6. /\ WindowOf(t) \in Nat \ {0} /\ Repeats(t) = WindowOf(t) /\ j[t] < WindowOf(t) /\ j[t] \in Nat
        /\ WindowOf(t) <= config.send_window + config.recv_window - 1
    BY WindowFacts DEF WorkerOf
  <1>7. \A u \in Workers : u # t => j'[u] = j[u] /\ iter'[u] = iter[u]
    BY <1>2
  <1>8. /\ j'[t] = (IF again THEN j[t] + 1 ELSE 0)
        /\ iter'[t] = (IF last THEN (iter[t] + 1) % niters ELSE iter[t])
    BY <1>2
  <1>9. again <=> j[t] + 1 < WindowOf(t)
    BY <1>6
  <1>10. LoopTo(t, step)
    <2>1. CASE again
      BY <1>8, <1>9, <2>1 DEF LoopTo
    <2>2. CASE ~again /\ i # Len(Steps(t))
      <3>1. j[t] + 1 = WindowOf(t)
        BY <1>6, <1>9, <2>2
      <3> QED  BY <1>3, <1>8, <2>2, <3>1 DEF LoopTo
    <2>3. CASE last
      <3>1. j[t] + 1 = WindowOf(t)
        BY <1>6, <1>9, <2>3
      <3>2. CASE iter[t] + 1 < niters
        BY <1>3, <1>4, <1>5, <1>8, <2>3, <3>1, <3>2 DEF LoopTo
      <3>3. CASE iter[t] + 1 = niters
        BY <1>3, <1>4, <1>5, <1>8, <2>3, <3>1, <3>3 DEF LoopTo
      <3> QED  BY <1>4, <3>2, <3>3
    <2> QED  BY <2>1, <2>2, <2>3
  <1>11. step \in Loops \cup {"end_b1"}
    BY <1>3 DEF Order, Loops
  <1>12. j' \in [Workers -> 0 .. config.send_window + config.recv_window - 1]
    <2>1. (IF again THEN j[t] + 1 ELSE 0) \in 0 .. config.send_window + config.recv_window - 1
      BY <1>6, <1>9, WindowFacts
    <2> QED  BY <1>2, <2>1
  <1>13. iter' \in [Workers -> 0 .. niters - 1]
    <2>1. (IF last THEN (iter[t] + 1) % niters ELSE iter[t]) \in 0 .. niters - 1
      BY <1>4, <1>5
    <2> QED  BY <1>2, <2>1
  <1> HIDE DEF step
  <1> QED  BY <1>2, <1>7, <1>10, <1>11, <1>12, <1>13

(* PassBarrier goes where the barriers lead.                               *)
LEMMA BarrierMove ==
    ASSUME TypeOK, NEW t \in Workers, WorkerOf(t), PassBarrier(t)
    PROVE  /\ pc[t] \in WorkerBarriers \cup AllBarriers
           /\ \E step \in WorkerSteps : Goto(t, step) /\ BarrierTo(t, step)
           /\ \A u \in Workers : u # t => size'[u] = size[u]
           /\ size' \in [Workers -> 0 .. nsizes - 1]
           /\ stop' \in [Ranks -> BOOLEAN]
           /\ UNCHANGED <<config, j, iter, seq, ppc, dups, device, commVars>>
  <1> USE DEF TypeOK
  <1>1. pc[t] \in WorkerBarriers \cup AllBarriers
    BY DEF PassBarrier, AllBarriers
  <1>2. size[t] \in 0 .. nsizes - 1 /\ nsizes \in Nat \ {0}
    BY ConfigsAssumption
  <1>3. Steps(t)[1] = FirstStep(t) /\ FirstStep(t) \in Loops
    BY StepsFacts DEF FirstStep, Loops
  <1>4. size'[t] = IF pc[t] = "end_b2" /\ size[t] + 1 < nsizes THEN size[t] + 1 ELSE size[t]
    BY DEF PassBarrier
  <1>5. BarrierTo(t, AfterBarrier(t)) /\ AfterBarrier(t) \in WorkerSteps
    <2>1. CASE pc[t] = "all1"
      BY <1>4, <2>1 DEF PassBarrier, AfterBarrier, BarrierTo, WorkerSteps, WorkerBarriers
    <2>2. CASE pc[t] = "size_b1"
      BY <1>4, <2>2 DEF AfterBarrier, BarrierTo, WorkerSteps, WorkerBarriers
    <2>3. CASE pc[t] = "size_b2"
      BY <1>3, <1>4, <2>3 DEF AfterBarrier, BarrierTo, WorkerSteps, WorkerBarriers
    <2>4. CASE pc[t] = "end_b1"
      BY <1>4, <2>4 DEF AfterBarrier, BarrierTo, WorkerSteps, WorkerBarriers
    <2>5. CASE pc[t] = "end_b2"
      BY <1>2, <1>4, <2>5 DEF AfterBarrier, BarrierTo, WorkerSteps, WorkerBarriers, AllBarriers
    <2>6. CASE pc[t] = "all2"
      BY <1>4, <2>6 DEF PassBarrier, AfterBarrier, BarrierTo, WorkerSteps, WorkerBarriers
    <2> QED  BY <1>1, <2>1, <2>2, <2>3, <2>4, <2>5, <2>6 DEF WorkerBarriers, AllBarriers
  <1>6. size' \in [Workers -> 0 .. nsizes - 1] /\ \A u \in Workers : u # t => size'[u] = size[u]
    <2>1. (IF pc[t] = "end_b2" /\ size[t] + 1 < nsizes THEN size[t] + 1 ELSE size[t]) \in 0 .. nsizes - 1
      BY <1>2
    <2> QED  BY <2>1 DEF PassBarrier
  <1>7. stop' \in [Ranks -> BOOLEAN]
    BY DEF PassBarrier, Stops
  <1> QED  BY <1>1, <1>5, <1>6, <1>7 DEF PassBarrier

(* The steps that are one call: to allocate or free a device, or to meet   *)
(* the other process.                                                      *)
CallSteps == {<<"alloc", "dup">>, <<"dup", "alloc_reset">>, <<"dup", "all1">>, <<"alloc_reset", "all1">>,
              <<"size_mpi", "size_b2">>, <<"end_mpi", "end_b2">>, <<"free", "comm_free">>,
              <<"comm_free", "free_reset">>, <<"comm_free", "done">>, <<"free_reset", "done">>}

MoveTo(t, step) ==
    \/ pc[t] \in Loops /\ LoopTo(t, step) /\ size'[t] = size[t]
    \/ BarrierTo(t, step) /\ j'[t] = j[t] /\ iter'[t] = iter[t]
    \/ <<pc[t], step>> \in CallSteps /\ j'[t] = j[t] /\ iter'[t] = iter[t] /\ size'[t] = size[t]

(* Every step of a worker leads from one place to another, and moves no    *)
(* other worker.                                                           *)
LEMMA WorkerMove ==
    ASSUME TypeOK, WorkersOK, NEW t \in Workers, WorkerStep(t)
    PROVE  /\ t[1] \in Ranks /\ t \in OfRank(t[1]) /\ WorkerOf(t)
           /\ config' = config /\ ppc' = ppc
           /\ \E step \in WorkerSteps : Goto(t, step) /\ MoveTo(t, step)
           /\ \A u \in Workers : u # t => j'[u] = j[u] /\ iter'[u] = iter[u] /\ size'[u] = size[u]
           /\ j' \in [Workers -> 0 .. config.send_window + config.recv_window - 1]
           /\ iter' \in [Workers -> 0 .. niters - 1]
           /\ size' \in [Workers -> 0 .. nsizes - 1]
           /\ stop' \in [Ranks -> BOOLEAN]
  <1> USE DEF TypeOK
  <1>1. pc[t] # "done"
    BY DEF WorkerStep, AllocDevice, CommDupReturns, PostRecv, PostSend, WaitSend, WaitRecv,
           PassBarrier, WorkerBarriers, MpiBarrierReturns, FreeDevice, CommFreeReturns, ResetTurn
  <1>2. t[1] \in Ranks /\ t \in OfRank(t[1]) /\ WorkerOf(t)
    BY <1>1 DEF WorkersOK, IdleOf, Workers
  <1>3. CASE PostRecv(t) \/ PostSend(t) \/ WaitSend(t) \/ WaitRecv(t)
    <2>1. EndOfStep(t) /\ pc[t] \in Loops
      BY <1>3 DEF PostRecv, PostSend, WaitSend, WaitRecv, Loops
    <2>2. \E step \in Loops \cup {"end_b1"} : Goto(t, step) /\ LoopTo(t, step)
      BY <1>2, <2>1, LoopMove
    <2>3. Loops \cup {"end_b1"} \subseteq WorkerSteps
      BY DEF WorkerSteps, WorkerBarriers
    <2>4. UNCHANGED <<config, size, ppc, stop>>
      BY <1>2, <2>1, LoopMove
    <2>5. /\ j' \in [Workers -> 0 .. config.send_window + config.recv_window - 1]
          /\ iter' \in [Workers -> 0 .. niters - 1]
          /\ \A u \in Workers : u # t => j'[u] = j[u] /\ iter'[u] = iter[u]
      BY <1>2, <2>1, LoopMove
    <2> QED  BY <1>2, <2>1, <2>2, <2>3, <2>4, <2>5 DEF MoveTo
  <1>4. CASE PassBarrier(t)
    <2>1. \E step \in WorkerSteps : Goto(t, step) /\ BarrierTo(t, step)
      BY <1>2, <1>4, BarrierMove
    <2>2. /\ \A u \in Workers : u # t => size'[u] = size[u]
          /\ size' \in [Workers -> 0 .. nsizes - 1]
          /\ stop' \in [Ranks -> BOOLEAN]
          /\ UNCHANGED <<config, j, iter, ppc>>
      BY <1>2, <1>4, BarrierMove
    <2> QED  BY <1>2, <2>1, <2>2 DEF MoveTo
  <1>5. CASE AllocDevice(t) \/ CommDupReturns(t) \/ MpiBarrierReturns(t) \/ FreeDevice(t)
             \/ CommFreeReturns(t) \/ ResetTurn(t)
    <2>1. UNCHANGED <<config, j, iter, size, ppc, stop>>
      BY <1>5 DEF AllocDevice, CommDupReturns, MpiBarrierReturns, FreeDevice, CommFreeReturns, ResetTurn
    <2>2. \E step \in WorkerSteps : Goto(t, step) /\ <<pc[t], step>> \in CallSteps
      BY <1>5 DEF AllocDevice, CommDupReturns, MpiBarrierReturns, FreeDevice, CommFreeReturns,
                  ResetTurn, NextTurn, CallSteps, WorkerSteps, WorkerBarriers, AllBarriers
    <2> QED  BY <1>2, <2>1, <2>2 DEF MoveTo
  <1> QED  BY <1>3, <1>4, <1>5 DEF WorkerStep

(* A worker that moves comes to the next barrier, and to a step it is for. *)
LEMMA WorkerMoved ==
    ASSUME TypeOK, NEW t \in Workers, WorkerOf(t), NEW step \in WorkerSteps, MoveTo(t, step),
           Goto(t, step), config' = config
    PROVE  /\ WorkerOf(t)' /\ (step \in AllBarriers => arrived.all[t] < 2)
           /\ step \notin Allocs \cup {"all1"} =>
                 pc[t] \notin Allocs \cup {"all1"} \/ AllMet(t[1], 1)
           /\ step \in Frees => pc[t] \in Frees \/ AllMet(t[1], 2)
           /\ pc[t] \notin {"alloc", "dup", "alloc_reset", "free", "comm_free", "free_reset"} =>
                 step \notin {"alloc", "dup", "alloc_reset", "comm_free", "free_reset"} /\ (step = "done" => ~IsOwner(t))
  <1> USE DEF TypeOK
  <1>1. WindowOf(t)' \in Nat \ {0} /\ WindowOf(t) \in Nat \ {0} /\ j[t] \in Nat
    BY ConfigsAssumption DEF WindowOf
  <1>2. IsOwner(t)' = IsOwner(t)
    BY DEF IsOwner
  <1>3. FirstStep(t) \in Loops /\ (FirstStep(t) = "post_recv" => config.op = "SEND")
    BY DEF FirstStep, Loops
  <1>4. step \in AllBarriers => arrived.all[t] < 2
    <2>1. step \in {"all1", "all2"} => pc[t] \in {"dup", "alloc_reset", "end_b2"}
      BY <1>3 DEF MoveTo, LoopTo, BarrierTo, CallSteps, Order, Loops
    <2> QED  BY <2>1 DEF AllBarriers, WorkerOf, Allocs, Overs
  <1>5. /\ pc'[t] = step
        /\ arrived'.all[t] = IF step \in AllBarriers THEN arrived.all[t] + 1 ELSE arrived.all[t]
    BY <1>4, GotoFacts
  <1>6. CASE pc[t] \in Loops /\ LoopTo(t, step) /\ size'[t] = size[t]
    <2>1. step \in Loops \cup {"end_b1"} /\ arrived.all[t] = 1
      BY <1>3, <1>6 DEF LoopTo, Order, Loops, WorkerOf, Allocs, Overs
    <2>2. step = "post_recv" => config.op = "SEND"
      BY <1>3, <1>6 DEF LoopTo, Order, WorkerOf
    <2>3. step = "end_b1" => j'[t] = 0 /\ iter'[t] = 0
      BY <1>3, <1>6 DEF LoopTo, Order, Loops
    <2>4. step \in Loops => j'[t] < WindowOf(t)'
      <3>1. CASE step = pc[t] /\ j'[t] = j[t] + 1 /\ j[t] + 1 < WindowOf(t)
        BY <1>5, <3>1 DEF WindowOf
      <3>2. CASE j'[t] = 0
        BY <1>1, <3>2
      <3> QED  BY <1>6, <3>1, <3>2 DEF LoopTo
    <2>5. arrived'.all[t] = 1
      BY <1>5, <2>1 DEF AllBarriers, Loops
    <2> QED  BY <1>4, <1>5, <1>6, <2>1, <2>2, <2>3, <2>4, <2>5 DEF WorkerOf, Loops, Allocs, Overs, Frees
  <1>7. CASE BarrierTo(t, step) /\ j'[t] = j[t] /\ iter'[t] = iter[t]
    <2>1. pc[t] \notin Loops /\ j[t] = 0 /\ iter[t] = 0 /\ pc[t] \notin Allocs
      BY <1>7 DEF BarrierTo, WorkerOf, Loops, Allocs
    <2>2. step = "post_recv" => config.op = "SEND"
      BY <1>3, <1>7 DEF BarrierTo
    <2>3. step \in Loops => j'[t] < WindowOf(t)'
      BY <1>1, <1>7, <2>1
    <2>4. /\ arrived'.all[t] = IF step \in Allocs THEN 0 ELSE IF step \in Overs THEN 2 ELSE 1
          /\ step \notin Allocs
      BY <1>3, <1>5, <1>7 DEF BarrierTo, WorkerOf, Loops, Allocs, Overs, AllBarriers
    <2>5. step \in Overs => size'[t] + 1 = nsizes
      BY <1>3, <1>7 DEF BarrierTo, WorkerOf, Loops, Overs
    <2>6. /\ step \in {"alloc", "dup", "alloc_reset", "free", "comm_free", "free_reset"} => IsOwner(t)
          /\ step \notin {"alloc", "dup", "alloc_reset", "comm_free", "free_reset"} /\ (step = "done" => ~IsOwner(t))
      BY <1>3, <1>7 DEF BarrierTo, Loops
    <2>7. pc[t] \in Allocs \cup {"all1"} => AllMet(t[1], 1)
      BY <1>7, <2>1 DEF BarrierTo
    <2>8. step \in Frees => AllMet(t[1], 2)
      BY <1>3, <1>7 DEF BarrierTo, Frees, Loops
    <2>9. WorkerOf(t)'
      BY <1>2, <1>5, <1>7, <2>1, <2>2, <2>3, <2>4, <2>5, <2>6 DEF WorkerOf
    <2> QED  BY <1>4, <2>6, <2>7, <2>8, <2>9
  <1>8. CASE <<pc[t], step>> \in CallSteps /\ j'[t] = j[t] /\ iter'[t] = iter[t] /\ size'[t] = size[t]
    BY <1>2, <1>4, <1>5, <1>8 DEF CallSteps, WorkerOf, Loops, Allocs, Overs, Frees, AllBarriers
  <1> QED  BY <1>6, <1>7, <1>8 DEF MoveTo

-----------------------------------------------------------------------------
(* The steps keep workers, barriers and devices in order.                  *)

(* Arrivals are not taken back.                                            *)
LEMMA MetStays ==
    ASSUME config' = config,
           \A u \in Workers : arrived.all[u] \in Nat /\ arrived'.all[u] \in Nat,
           \A u \in Prgs : arrived.prg[u] \in Nat /\ arrived'.prg[u] \in Nat,
           \A u \in Workers : arrived'.all[u] >= arrived.all[u],
           \A u \in Prgs : arrived'.prg[u] >= arrived.prg[u],
           NEW p, NEW n \in Nat, AllMet(p, n)
    PROVE  AllMet(p, n)'
  BY DEF AllMet, OfRank, PrgsOf

(* A counter that is not zero may be counted down.                         *)
LEMMA CountDown ==
    ASSUME NEW S, NEW f \in [S -> Nat], NEW x, f[x] > 0
    PROVE  [f EXCEPT ![x] = @ - 1] \in [S -> Nat]
  <1> DEFINE g == [f EXCEPT ![x] = @ - 1]
  <1>1. g = [y \in S |-> IF y = x THEN f[x] - 1 ELSE f[y]]
    OBVIOUS
  <1>2. ASSUME NEW y \in S PROVE (IF y = x THEN f[x] - 1 ELSE f[y]) \in Nat
    OBVIOUS
  <1> QED  BY <1>1, <1>2

(* A step of a worker touches no other worker's messages.                  *)
LEMMA WorkerMessages ==
    ASSUME TypeOK, NEW t \in Workers, WorkerStep(t)
    PROVE  /\ \A u \in Workers : u # t =>
                 /\ net'[u] = net[u] /\ pend'[u] = pend[u] /\ scq'[u] = scq[u]
                 /\ rposted'[u] = rposted[u] /\ rcq'[u] = rcq[u]
           /\ {rposted', net', pend', scq', rcq'} \subseteq [Workers -> Nat]
           /\ put_cq' \in [Ranks \X DeviceIds -> Nat]
  <1> USE DEF TypeOK
  <1>1. /\ rposted \in [Workers -> Nat] /\ net \in [Workers -> Nat] /\ pend \in [Workers -> Nat]
        /\ scq \in [Workers -> Nat] /\ rcq \in [Workers -> Nat]
        /\ put_cq \in [Ranks \X DeviceIds -> Nat]
    OBVIOUS
  <1> HIDE DEF TypeOK
  <1>2. CASE PostRecv(t)
    BY <1>1, <1>2 DEF PostRecv
  <1>3. CASE PostSend(t)
    BY <1>1, <1>3 DEF PostSend
  <1>4. CASE WaitSend(t)
    <2>1. /\ scq' = [scq EXCEPT ![t] = @ - 1] /\ scq[t] > 0
          /\ UNCHANGED <<rposted, net, pend, rcq, put_cq>>
      BY <1>4 DEF WaitSend
    <2>2. scq' \in [Workers -> Nat]
      BY <1>1, <2>1
    <2> QED  BY <1>1, <2>1, <2>2
  <1>5. CASE WaitRecv(t) /\ config.op = "SEND"
    <2>1. /\ rcq' = [rcq EXCEPT ![t] = @ - 1] /\ rcq[t] > 0
          /\ UNCHANGED <<rposted, net, pend, scq, put_cq>>
      BY <1>5 DEF WaitRecv
    <2>2. rcq' \in [Workers -> Nat]
      BY <1>1, <2>1
    <2> QED  BY <1>1, <2>1, <2>2
  <1>6. CASE WaitRecv(t) /\ config.op # "SEND"
    <2>1. /\ put_cq' = [put_cq EXCEPT ![Dev(t)] = @ - 1] /\ put_cq[Dev(t)] > 0
          /\ UNCHANGED <<rposted, net, pend, scq, rcq>>
      BY <1>6 DEF WaitRecv
    <2>2. put_cq' \in [Ranks \X DeviceIds -> Nat]
      BY <1>1, <2>1, CountDown
    <2> QED  BY <1>1, <2>1, <2>2
  <1>7. CASE UNCHANGED commVars
    BY <1>1, <1>7 DEF commVars
  <1> QED  BY <1>2, <1>3, <1>4, <1>5, <1>6, <1>7
           DEF WorkerStep, AllocDevice, CommDupReturns, PassBarrier, MpiBarrierReturns, FreeDevice,
               CommFreeReturns, ResetTurn

(* A step of a worker keeps what is known of workers and barriers.         *)
LEMMA LiveWorkers ==
    ASSUME LiveInv, NEW t \in Workers, WorkerStep(t)
    PROVE  WorkersOK' /\ PrgsOK' /\ MetOK'
  <1> USE DEF LiveInv, TypeOK
  <1>1. /\ t[1] \in Ranks /\ t \in OfRank(t[1]) /\ WorkerOf(t) /\ config' = config /\ ppc' = ppc
        /\ \A u \in Workers : u # t => j'[u] = j[u] /\ iter'[u] = iter[u] /\ size'[u] = size[u]
    BY WorkerMove
  <1>2. PICK step \in WorkerSteps : Goto(t, step) /\ MoveTo(t, step)
    BY WorkerMove
  <1>3. /\ WorkerOf(t)' /\ (step \in AllBarriers => arrived.all[t] < 2)
        /\ step \notin Allocs \cup {"all1"} =>
              pc[t] \notin Allocs \cup {"all1"} \/ AllMet(t[1], 1)
        /\ step \in Frees => pc[t] \in Frees \/ AllMet(t[1], 2)
    BY <1>1, <1>2, WorkerMoved
  <1>4. /\ pc'[t] = step
        /\ \A u \in Workers : u # t => pc'[u] = pc[u] /\ arrived'.all[u] = arrived.all[u]
        /\ arrived'.all[t] = IF step \in AllBarriers THEN arrived.all[t] + 1 ELSE arrived.all[t]
        /\ arrived'.prg = arrived.prg
    BY <1>2, <1>3, GotoFacts
  <1>5. \A p : OfRank(p)' = OfRank(p) /\ PrgsOf(p)' = PrgsOf(p)
    BY <1>1 DEF OfRank, PrgsOf
  <1>6. WorkersOK'
    <2>1. ASSUME NEW u \in Workers, u # t PROVE WorkerOf(u) => WorkerOf(u)'
      BY <1>1, <1>4, <2>1 DEF WorkerOf, IsOwner, WindowOf
    <2>2. ASSUME NEW u \in Workers, u # t PROVE IdleOf(u) => IdleOf(u)'
      BY <1>4, <2>2, WorkerMessages DEF IdleOf
    <2> QED  BY <1>1, <1>3, <1>5, <2>1, <2>2 DEF WorkersOK
  <1>7. PrgsOK'
    BY <1>1, <1>4, <1>5 DEF PrgsOK
  <1>8. ASSUME NEW p, NEW n \in Nat, AllMet(p, n) PROVE AllMet(p, n)'
    <2>1. /\ arrived.all \in [Workers -> 0 .. 2] /\ arrived.prg \in [Prgs -> 0 .. 2]
      OBVIOUS
    <2> HIDE DEF LiveInv, TypeOK
    <2>2. \A u \in Workers : arrived'.all[u] \in Nat /\ arrived'.all[u] >= arrived.all[u]
      BY <1>4, <2>1
    <2>3. \A u \in Prgs : arrived'.prg[u] \in Nat /\ arrived'.prg[u] >= arrived.prg[u]
      BY <1>4, <2>1
    <2>4. /\ \A u \in Workers : arrived.all[u] \in Nat
          /\ \A u \in Prgs : arrived.prg[u] \in Nat
      BY <2>1
    <2> QED  BY <1>1, <1>8, <2>2, <2>3, <2>4, MetStays
  <1>9. MetOK'
    <2> SUFFICES ASSUME NEW p \in Ranks
                 PROVE  /\ \A u \in OfRank(p) : pc'[u] \notin Allocs \cup {"all1"} => AllMet(p, 1)'
                        /\ \A u \in PrgsOf(p) : ppc'[u] # "all1" => AllMet(p, 1)'
                        /\ \A u \in OfRank(p) : pc'[u] \in Frees => AllMet(p, 2)'
      BY <1>5 DEF MetOK
    <2>1. AllMet(p, 1) => AllMet(p, 1)'
      BY <1>8
    <2>2. AllMet(p, 2) => AllMet(p, 2)'
      BY <1>8
    <2>3. ASSUME NEW u \in OfRank(p), pc'[u] \notin Allocs \cup {"all1"} PROVE AllMet(p, 1)
      BY <1>3, <1>4, <2>3 DEF MetOK, OfRank
    <2>4. ASSUME NEW u \in OfRank(p), pc'[u] \in Frees PROVE AllMet(p, 2)
      BY <1>3, <1>4, <2>4 DEF MetOK, OfRank
    <2> QED  BY <1>1, <2>1, <2>2, <2>3, <2>4 DEF MetOK
  <1> QED  BY <1>6, <1>7, <1>9

(* Only its owner changes a device.                                        *)
LEMMA OtherOwner ==
    ASSUME LiveInv, config' = config, NEW p \in Ranks, NEW q \in Ranks,
           NEW t \in OfRank(p), IsOwner(t), NEW u \in OfRank(q), IsOwner(u), u # t,
           pc'[u] = pc[u],
           \A d \in Ranks \X DeviceIds : d # Dev(t) => device'[d] = device[d]
    PROVE  DeviceOf(u)' /\ (p = q => Dev(u)[2] # Dev(t)[2]) /\ t[1] = p /\ u[1] = q
  <1>1. /\ Dev(t) = <<p, Dev(t)[2]>> /\ Dev(u) = <<q, Dev(u)[2]>> /\ t[1] = p /\ u[1] = q
        /\ Dev(u) \in Ranks \X DeviceIds
    <2>1. config \in Configs
      BY DEF LiveInv, TypeOK
    <2>2. Dev(t) = <<t[1], Dev(t)[2]>> /\ Dev(u) = <<u[1], Dev(u)[2]>>
      BY DEF Dev
    <2>3. t[1] = p /\ u[1] = q /\ Dev(u) \in Ranks \X DeviceIds
      BY <2>1, WorkerFacts, Zenon
    <2> QED  BY <2>2, <2>3
  <1>2. p = q => Dev(u)[2] # Dev(t)[2]
    BY OneOwner DEF LiveInv, TypeOK
  <1>3. Dev(u) # Dev(t)
    BY <1>1, <1>2
  <1>4. device'[Dev(u)] = device[Dev(u)]
    BY <1>1, <1>3
  <1>5. Dev(u)' = Dev(u)
    BY DEF Dev
  <1> QED  BY <1>1, <1>2, <1>4, <1>5 DEF LiveInv, OwnersOK, DeviceOf

(* alloc_device takes the next communicator, and is at the device whose    *)
(* turn it is.                                                             *)
LEMMA OwnersAlloc ==
    ASSUME LiveInv, NEW p \in Ranks, NEW t \in OfRank(p), AllocDevice(t)
    PROVE  /\ OwnersOK' /\ dups' \in [Ranks -> 0 .. config.ndevices]
           /\ device' \in [Ranks \X DeviceIds ->
                              [state : {"none", "alive", "freed"}, comm : 0 .. config.ndevices]]
  <1> USE DEF LiveInv, TypeOK
  <1>1. /\ t \in Workers /\ t[1] = p /\ Dev(t)[2] \in 0 .. config.ndevices - 1
        /\ Dev(t) \in Ranks \X DeviceIds /\ config.ndevices \in Nat
    BY WorkerFacts, ConfigsAssumption
  <1>2. pc[t] = "alloc" /\ WorkerOf(t) /\ seq[p] = Dev(t)[2] /\ config' = config /\ UNCHANGED seq
    BY <1>1 DEF AllocDevice, MyTurn, WorkersOK
  <1>3. IsOwner(t) /\ DeviceOf(t) /\ TurnOf(t)
    BY <1>2 DEF WorkerOf, OwnersOK
  <1>4. dups[p] = Dev(t)[2]
    BY <1>1, <1>2, <1>3 DEF TurnOf
  <1>5. dups'[p] = dups[p] + 1 /\ \A q \in Ranks : q # p => dups'[q] = dups[q]
    BY <1>1 DEF AllocDevice
  <1>6. dups' \in [Ranks -> 0 .. config.ndevices]
    BY <1>1, <1>4, <1>5 DEF AllocDevice
  <1>7. PICK r : /\ r = [device[Dev(t)] EXCEPT !.comm = dups[p] + 1]
                 /\ device' = [device EXCEPT ![Dev(t)] = r]
    BY <1>1 DEF AllocDevice
  <1>8. /\ r \in [state : {"none", "alive", "freed"}, comm : 0 .. config.ndevices]
        /\ r.state = device[Dev(t)].state /\ r.comm = dups[p] + 1
    <2>1. PICK o \in [state : {"none", "alive", "freed"}, comm : 0 .. config.ndevices] :
             o = device[Dev(t)]
      BY <1>1
    <2>2. r = [state |-> o.state, comm |-> dups[p] + 1]
      BY <1>7, <2>1
    <2>3. dups[p] + 1 \in 0 .. config.ndevices
      BY <1>1, <1>4
    <2> QED  BY <2>1, <2>2, <2>3
  <1>9. pc'[t] = "dup" /\ \A u \in Workers : u # t => pc'[u] = pc[u]
    BY <1>1 DEF AllocDevice, Goto
  <1>10. /\ device'[Dev(t)] = r
         /\ \A d \in Ranks \X DeviceIds : d # Dev(t) => device'[d] = device[d]
    BY <1>1, <1>7
  <1>11. Dev(t)' = Dev(t)
    BY <1>2 DEF Dev
  <1>12. DeviceOf(t)' /\ TurnOf(t)'
    <2>1. r.state = "none" /\ r.comm = Dev(t)[2] + 1
      BY <1>2, <1>3, <1>4, <1>8 DEF DeviceOf, Allocs
    <2> QED  BY <1>1, <1>2, <1>4, <1>5, <1>9, <1>10, <1>11, <2>1 DEF DeviceOf, TurnOf
  <1>13. ASSUME NEW q \in Ranks, NEW u \in OfRank(q), IsOwner(u), u # t
         PROVE  DeviceOf(u)' /\ TurnOf(u)'
    <2>1. u \in Workers /\ pc'[u] = pc[u] /\ TurnOf(u)
      BY <1>9, <1>13 DEF OfRank, OwnersOK
    <2>2. Dev(u)' = Dev(u) /\ Dev(u)[2] \in 0 .. config.ndevices - 1 /\ Dev(t)[2] \in Nat
      <3>1. Dev(u)[2] \in 0 .. config.ndevices - 1
        BY WorkerFacts
      <3>2. Dev(u)' = Dev(u)
        BY <1>2 DEF Dev
      <3> QED  BY <1>1, <3>1, <3>2
    <2> HIDE DEF LiveInv, TypeOK
    <2>3. DeviceOf(u)' /\ (p = q => Dev(u)[2] # Dev(t)[2]) /\ u[1] = q
      <3>1. config' = config /\ IsOwner(t) /\ IsOwner(u) /\ u # t /\ pc'[u] = pc[u]
        BY <1>2, <1>3, <1>13, <2>1
      <3>2. \A d \in Ranks \X DeviceIds : d # Dev(t) => device'[d] = device[d]
        BY <1>10
      <3>3. DeviceOf(u)'
        BY <3>1, <3>2, OtherOwner
      <3>4. p = q => Dev(u)[2] # Dev(t)[2]
        BY <3>1, <3>2, OtherOwner
      <3>5. u[1] = q
        BY <3>1, <3>2, OtherOwner
      <3> QED BY <3>3, <3>4, <3>5
    <2>4. CASE q # p
      BY <1>2, <1>5, <2>1, <2>2, <2>3, <2>4 DEF TurnOf
    <2>5. CASE q = p
      BY <1>1, <1>2, <1>4, <1>5, <2>1, <2>2, <2>3, <2>5 DEF TurnOf
    <2> QED  BY <2>3, <2>4, <2>5
  <1>14. \A q : OfRank(q)' = OfRank(q)
    BY <1>2 DEF OfRank
  <1>15. \A u : IsOwner(u)' = IsOwner(u)
    BY <1>2 DEF IsOwner
  <1>16. OwnersOK'
    BY <1>12, <1>13, <1>14, <1>15 DEF OwnersOK
  <1>17. device' \in [Ranks \X DeviceIds ->
                        [state : {"none", "alive", "freed"}, comm : 0 .. config.ndevices]]
    BY <1>7, <1>8
  <1> QED  BY <1>6, <1>16, <1>17

(* A step of one worker keeps the others' devices and turns, where it      *)
(* leaves their devices and the turns of the other process alone.          *)
LEMMA OwnersFrame ==
    ASSUME LiveInv, config' = config, NEW p \in Ranks, NEW t \in OfRank(p),
           \A u \in Workers : u # t => pc'[u] = pc[u],
           \A d \in Ranks \X DeviceIds : (IsOwner(t) /\ d = Dev(t)) \/ device'[d] = device[d],
           \A q \in Ranks : q # p => seq'[q] = seq[q] /\ dups'[q] = dups[q],
           IsOwner(t) => DeviceOf(t)' /\ TurnOf(t)',
           \A u \in OfRank(p) : u # t /\ IsOwner(u) => TurnOf(u)'
    PROVE  OwnersOK'
  <1>1. config \in Configs
    BY DEF LiveInv, TypeOK
  <1>2. (\A q : OfRank(q)' = OfRank(q)) /\ (\A u : IsOwner(u)' = IsOwner(u))
    BY DEF OfRank, IsOwner
  <1>3. ASSUME NEW q \in Ranks, NEW u \in OfRank(q), IsOwner(u), u # t
        PROVE  DeviceOf(u)' /\ TurnOf(u)'
    <2>1. u \in Workers /\ pc'[u] = pc[u] /\ TurnOf(u) /\ DeviceOf(u) /\ u[1] = q
      BY <1>3 DEF OfRank, OwnersOK, LiveInv
    <2>2. Dev(u)' = Dev(u) /\ Dev(u) \in Ranks \X DeviceIds
      <3>1. Dev(u) \in Ranks \X DeviceIds
        BY <1>1, WorkerFacts
      <3> QED  BY <3>1 DEF Dev
    <2>3. ASSUME IsOwner(t) PROVE Dev(u) # Dev(t)
      <3>1. Dev(t)[1] = p /\ Dev(u)[1] = q
        BY <1>1, WorkerFacts
      <3>2. p = q => Dev(u)[2] # Dev(t)[2]
        BY <1>1, <1>3, <2>3, OneOwner
      <3> QED  BY <3>1, <3>2
    <2>4. device'[Dev(u)] = device[Dev(u)]
      BY <2>2, <2>3
    <2>5. DeviceOf(u)'
      BY <2>1, <2>2, <2>4 DEF DeviceOf
    <2>6. CASE q = p
      BY <1>3, <2>5, <2>6
    <2>7. CASE q # p
      BY <2>1, <2>2, <2>5, <2>7 DEF TurnOf
    <2> QED  BY <2>6, <2>7
  <1> QED  BY <1>2, <1>3 DEF OwnersOK

(* MPI_Comm_dup returns: the turn is that of the next device, if there is  *)
(* one.                                                                    *)
LEMMA OwnersDup ==
    ASSUME LiveInv, NEW p \in Ranks, NEW t \in OfRank(p), CommDupReturns(t)
    PROVE  /\ OwnersOK' /\ seq' \in [Ranks -> 0 .. config.ndevices] /\ UNCHANGED dups
           /\ device' \in [Ranks \X DeviceIds ->
                              [state : {"none", "alive", "freed"}, comm : 0 .. config.ndevices]]
  <1> USE DEF LiveInv, TypeOK
  <1>1. /\ t \in Workers /\ t[1] = p /\ Dev(t)[2] \in 0 .. config.ndevices - 1
        /\ Dev(t) \in Ranks \X DeviceIds /\ config.ndevices \in Nat \ {0}
    BY WorkerFacts, ConfigsAssumption
  <1>2. pc[t] = "dup" /\ WorkerOf(t) /\ config' = config /\ dups' = dups
    BY <1>1 DEF CommDupReturns, WorkersOK
  <1>3. IsOwner(t) /\ DeviceOf(t) /\ TurnOf(t)
    BY <1>2 DEF WorkerOf, OwnersOK
  <1>4. Dev(t)[2] + 1 = dups[p] /\ seq[p] = Dev(t)[2]
    BY <1>1, <1>2, <1>3 DEF TurnOf
  <1>5. /\ seq' \in [Ranks -> 0 .. config.ndevices] /\ seq'[p] = dups[p]
        /\ \A q \in Ranks : q # p => seq'[q] = seq[q]
    <2>1. seq' = [seq EXCEPT ![p] = dups[p]]
      BY <1>1, <1>4 DEF CommDupReturns, NextTurn
    <2>2. dups[p] \in 0 .. config.ndevices
      OBVIOUS
    <2> QED  BY <2>1, <2>2
  <1>6. PICK r : /\ r = [device[Dev(t)] EXCEPT !.state = "alive"]
                 /\ device' = [device EXCEPT ![Dev(t)] = r]
    BY <1>1 DEF CommDupReturns
  <1>7. /\ r \in [state : {"none", "alive", "freed"}, comm : 0 .. config.ndevices]
        /\ r.state = "alive" /\ r.comm = device[Dev(t)].comm
    <2>1. PICK o \in [state : {"none", "alive", "freed"}, comm : 0 .. config.ndevices] :
             o = device[Dev(t)]
      BY <1>1
    <2>2. r = [state |-> "alive", comm |-> o.comm]
      BY <1>6, <2>1
    <2> QED  BY <2>1, <2>2
  <1>8. /\ pc'[t] = IF dups[p] = config.ndevices THEN "alloc_reset" ELSE "all1"
        /\ \A u \in Workers : u # t => pc'[u] = pc[u]
    BY <1>1, <1>4 DEF CommDupReturns, NextTurn, Goto
  <1>9. /\ device'[Dev(t)] = r
        /\ \A d \in Ranks \X DeviceIds : (IsOwner(t) /\ d = Dev(t)) \/ device'[d] = device[d]
    BY <1>1, <1>3, <1>6
  <1>10. DeviceOf(t)' /\ TurnOf(t)'
    <2>1. Dev(t)' = Dev(t)
      BY <1>2 DEF Dev
    <2>2. r.comm = Dev(t)[2] + 1
      BY <1>2, <1>3, <1>7 DEF DeviceOf
    <2> QED  BY <1>1, <1>2, <1>4, <1>5, <1>7, <1>8, <1>9, <2>1, <2>2 DEF DeviceOf, TurnOf
  <1>11. ASSUME NEW u \in OfRank(p), u # t, IsOwner(u) PROVE TurnOf(u)'
    <2>1. pc'[u] = pc[u] /\ TurnOf(u) /\ u[1] = p
      BY <1>8, <1>11 DEF OfRank, OwnersOK
    <2>2. Dev(u)' = Dev(u) /\ Dev(u)[2] \in 0 .. config.ndevices - 1
      <3>1. Dev(u)[2] \in 0 .. config.ndevices - 1
        BY WorkerFacts
      <3> QED  BY <1>2, <3>1 DEF Dev
    <2>3. Dev(u)[2] # Dev(t)[2]
      BY <1>3, <1>11, OneOwner
    <2>4. pc[u] \notin {"comm_free", "free_reset"}
      BY <1>1, <1>2 DEF MetOK, Frees, AllMet, WorkerOf, Allocs
    <2> QED  BY <1>1, <1>2, <1>4, <1>5, <2>1, <2>2, <2>3, <2>4 DEF TurnOf
  <1>12. device' \in [Ranks \X DeviceIds ->
                        [state : {"none", "alive", "freed"}, comm : 0 .. config.ndevices]]
    BY <1>6, <1>7
  <1>13. OwnersOK'
    <2>1. \A u \in OfRank(p) : u # t /\ IsOwner(u) => TurnOf(u)'
      BY <1>11
    <2>2. \A q \in Ranks : q # p => seq'[q] = seq[q] /\ dups'[q] = dups[q]
      BY <1>2, <1>5
    <2> HIDE DEF LiveInv, TypeOK
    <2> QED  BY <1>2, <1>8, <1>9, <1>10, <2>1, <2>2, OwnersFrame
  <1> QED  BY <1>2, <1>5, <1>12, <1>13

(* free_device takes the owner's own device away.                          *)
LEMMA OwnersFree ==
    ASSUME LiveInv, NEW p \in Ranks, NEW t \in OfRank(p), FreeDevice(t)
    PROVE  /\ OwnersOK' /\ UNCHANGED <<seq, dups>>
           /\ device' \in [Ranks \X DeviceIds ->
                              [state : {"none", "alive", "freed"}, comm : 0 .. config.ndevices]]
  <1> USE DEF LiveInv, TypeOK
  <1>1. /\ t \in Workers /\ t[1] = p /\ Dev(t) \in Ranks \X DeviceIds
    BY WorkerFacts
  <1>2. /\ pc[t] = "free" /\ WorkerOf(t) /\ config' = config /\ dups' = dups /\ seq' = seq
        /\ seq[p] = Dev(t)[2]
    BY <1>1 DEF FreeDevice, MyTurn, WorkersOK
  <1>3. IsOwner(t) /\ DeviceOf(t)
    BY <1>2 DEF WorkerOf, OwnersOK
  <1>4. PICK r : /\ r = [device[Dev(t)] EXCEPT !.state = "freed"]
                 /\ device' = [device EXCEPT ![Dev(t)] = r]
    BY <1>1 DEF FreeDevice
  <1>5. /\ r \in [state : {"none", "alive", "freed"}, comm : 0 .. config.ndevices]
        /\ r.state = "freed" /\ r.comm = device[Dev(t)].comm
    <2>1. PICK o \in [state : {"none", "alive", "freed"}, comm : 0 .. config.ndevices] :
             o = device[Dev(t)]
      BY <1>1
    <2>2. r = [state |-> "freed", comm |-> o.comm]
      BY <1>4, <2>1
    <2> QED  BY <2>1, <2>2
  <1>6. pc'[t] = "comm_free" /\ \A u \in Workers : u # t => pc'[u] = pc[u]
    BY <1>1 DEF FreeDevice, Goto
  <1>7. /\ device'[Dev(t)] = r
        /\ \A d \in Ranks \X DeviceIds : (IsOwner(t) /\ d = Dev(t)) \/ device'[d] = device[d]
    BY <1>1, <1>3, <1>4
  <1>8. DeviceOf(t)' /\ TurnOf(t)'
    <2>1. Dev(t)' = Dev(t)
      BY <1>2 DEF Dev
    <2>2. r.comm = Dev(t)[2] + 1
      BY <1>2, <1>3, <1>5 DEF DeviceOf
    <2> QED  BY <1>1, <1>2, <1>5, <1>6, <1>7, <2>1, <2>2 DEF DeviceOf, TurnOf
  <1>9. ASSUME NEW u \in OfRank(p), u # t, IsOwner(u) PROVE TurnOf(u)'
    <2>1. pc'[u] = pc[u] /\ TurnOf(u)
      BY <1>6, <1>9 DEF OfRank, OwnersOK
    <2>2. Dev(u)' = Dev(u)
      BY <1>2 DEF Dev
    <2> QED  BY <1>2, <2>1, <2>2 DEF TurnOf
  <1>10. device' \in [Ranks \X DeviceIds ->
                        [state : {"none", "alive", "freed"}, comm : 0 .. config.ndevices]]
    BY <1>4, <1>5
  <1>11. OwnersOK'
    <2>1. \A u \in OfRank(p) : u # t /\ IsOwner(u) => TurnOf(u)'
      BY <1>9
    <2>2. \A q \in Ranks : q # p => seq'[q] = seq[q] /\ dups'[q] = dups[q]
      BY <1>2
    <2> HIDE DEF LiveInv, TypeOK
    <2> QED  BY <1>2, <1>6, <1>7, <1>8, <2>1, <2>2, OwnersFrame
  <1> QED  BY <1>2, <1>10, <1>11

(* MPI_Comm_free returns: the turn goes on, and nobody waits to allocate.  *)
LEMMA OwnersCommFree ==
    ASSUME LiveInv, NEW p \in Ranks, NEW t \in OfRank(p), CommFreeReturns(t)
    PROVE  /\ OwnersOK' /\ UNCHANGED <<dups, device>>
           /\ seq' \in [Ranks -> 0 .. config.ndevices]
  <1> USE DEF LiveInv, TypeOK
  <1>1. /\ t \in Workers /\ t[1] = p /\ config.ndevices \in Nat \ {0}
        /\ Dev(t)[2] \in 0 .. config.ndevices - 1
    BY WorkerFacts, ConfigsAssumption
  <1>2. pc[t] = "comm_free" /\ WorkerOf(t) /\ config' = config /\ UNCHANGED <<dups, device>>
    BY <1>1 DEF CommFreeReturns, WorkersOK
  <1>3. IsOwner(t) /\ DeviceOf(t) /\ seq[p] = Dev(t)[2]
    BY <1>1, <1>2 DEF WorkerOf, OwnersOK, TurnOf
  <1>4. /\ seq' \in [Ranks -> 0 .. config.ndevices] /\ seq'[p] = Dev(t)[2] + 1
        /\ \A q \in Ranks : q # p => seq'[q] = seq[q]
    <2>1. seq' = [seq EXCEPT ![p] = Dev(t)[2] + 1]
      BY <1>1, <1>3 DEF CommFreeReturns, NextTurn
    <2>2. Dev(t)[2] + 1 \in 0 .. config.ndevices
      BY <1>1
    <2> QED  BY <2>1, <2>2
  <1>5. /\ pc'[t] = IF Dev(t)[2] + 1 = config.ndevices THEN "free_reset" ELSE "done"
        /\ \A u \in Workers : u # t => pc'[u] = pc[u]
    BY <1>1, <1>3 DEF CommFreeReturns, NextTurn, Goto
  <1>6. DeviceOf(t)' /\ TurnOf(t)'
    <2>1. Dev(t)' = Dev(t)
      BY <1>2 DEF Dev
    <2> QED  BY <1>1, <1>2, <1>3, <1>4, <1>5, <2>1 DEF DeviceOf, TurnOf
  <1>7. ASSUME NEW u \in OfRank(p), u # t, IsOwner(u) PROVE TurnOf(u)'
    <2>1. arrived.all[u] >= 2
      BY <1>2 DEF MetOK, Frees, AllMet
    <2>2. u \in Workers /\ WorkerOf(u)
      BY DEF OfRank, WorkersOK
    <2>3. pc'[u] \notin Allocs /\ pc'[u] = pc[u]
      BY <1>5, <1>7, <2>1, <2>2 DEF WorkerOf
    <2>4. TurnOf(u) /\ u[1] = p /\ Dev(u)[2] # Dev(t)[2]
      BY <1>3, <1>7, OneOwner DEF OfRank, OwnersOK
    <2>5. pc[u] \notin {"comm_free", "free_reset"}
      BY <1>1, <1>3, <2>4 DEF TurnOf
    <2> QED  BY <2>3, <2>5 DEF TurnOf, Allocs
  <1>8. OwnersOK'
    <2>1. \A u \in OfRank(p) : u # t /\ IsOwner(u) => TurnOf(u)'
      BY <1>7
    <2>2. \A q \in Ranks : q # p => seq'[q] = seq[q] /\ dups'[q] = dups[q]
      BY <1>2, <1>4
    <2>3. \A d \in Ranks \X DeviceIds : (IsOwner(t) /\ d = Dev(t)) \/ device'[d] = device[d]
      BY <1>2
    <2> HIDE DEF LiveInv, TypeOK
    <2> QED  BY <1>2, <1>5, <1>6, <2>1, <2>2, <2>3, OwnersFrame
  <1> QED  BY <1>2, <1>4, <1>8

(* The counter is set back by the owner of the last device alone, when     *)
(* nobody has the turn.                                                    *)
LEMMA OwnersReset ==
    ASSUME LiveInv, NEW p \in Ranks, NEW t \in OfRank(p), ResetTurn(t)
    PROVE  /\ OwnersOK' /\ UNCHANGED <<dups, device>>
           /\ seq' \in [Ranks -> 0 .. config.ndevices]
  <1> USE DEF LiveInv, TypeOK
  <1>1. /\ t \in Workers /\ t[1] = p /\ config.ndevices \in Nat \ {0}
        /\ Dev(t)[2] \in 0 .. config.ndevices - 1
    BY WorkerFacts, ConfigsAssumption
  <1>2. /\ pc[t] \in {"alloc_reset", "free_reset"} /\ WorkerOf(t) /\ config' = config
        /\ UNCHANGED <<dups, device>>
    BY <1>1 DEF ResetTurn, WorkersOK
  <1>3. /\ IsOwner(t) /\ DeviceOf(t) /\ TurnOf(t)
        /\ Dev(t)[2] + 1 = config.ndevices /\ seq[p] = config.ndevices
    BY <1>1, <1>2 DEF WorkerOf, OwnersOK, TurnOf
  <1>4. /\ seq' \in [Ranks -> 0 .. config.ndevices]
        /\ \A q \in Ranks : q # p => seq'[q] = seq[q]
    <2>1. seq' = [seq EXCEPT ![p] = 0]
      BY <1>1 DEF ResetTurn
    <2> QED  BY <1>1, <2>1
  <1>5. /\ pc'[t] = IF pc[t] = "alloc_reset" THEN "all1" ELSE "done"
        /\ \A u \in Workers : u # t => pc'[u] = pc[u]
    BY <1>1 DEF ResetTurn, Goto
  <1>6. DeviceOf(t)' /\ TurnOf(t)'
    <2>1. Dev(t)' = Dev(t)
      BY <1>2 DEF Dev
    <2> QED  BY <1>2, <1>3, <1>5, <2>1 DEF DeviceOf, TurnOf
  <1>7. ASSUME NEW u \in OfRank(p), u # t, IsOwner(u) PROVE TurnOf(u)'
    <2>1. pc'[u] = pc[u] /\ TurnOf(u) /\ u[1] = p /\ u \in Workers /\ WorkerOf(u)
      BY <1>5, <1>7 DEF OfRank, OwnersOK, WorkersOK
    <2>2. Dev(u)[2] \in 0 .. config.ndevices - 1 /\ Dev(u)[2] # Dev(t)[2]
      <3>1. Dev(u)[2] \in 0 .. config.ndevices - 1
        BY WorkerFacts
      <3> QED  BY <1>3, <1>7, <3>1, OneOwner
    <2>3. pc[u] \notin {"dup", "alloc_reset", "comm_free", "free_reset"}
      BY <1>1, <1>3, <2>1, <2>2 DEF TurnOf
    <2>4. pc[u] # "alloc"
      <3>1. CASE pc[t] = "alloc_reset"
        BY <1>1, <1>3, <2>1, <2>2, <3>1 DEF TurnOf
      <3>2. CASE pc[t] = "free_reset"
        <4>1. arrived.all[u] >= 2
          BY <3>2 DEF MetOK, Frees, AllMet
        <4> QED  BY <2>1, <4>1 DEF WorkerOf, Allocs
      <3> QED  BY <1>2, <3>1, <3>2
    <2> QED  BY <2>1, <2>3, <2>4 DEF TurnOf
  <1>8. OwnersOK'
    <2>1. \A u \in OfRank(p) : u # t /\ IsOwner(u) => TurnOf(u)'
      BY <1>7
    <2>2. \A q \in Ranks : q # p => seq'[q] = seq[q] /\ dups'[q] = dups[q]
      BY <1>2, <1>4
    <2>3. \A d \in Ranks \X DeviceIds : (IsOwner(t) /\ d = Dev(t)) \/ device'[d] = device[d]
      BY <1>2
    <2> HIDE DEF LiveInv, TypeOK
    <2> QED  BY <1>2, <1>5, <1>6, <2>1, <2>2, <2>3, OwnersFrame
  <1> QED  BY <1>2, <1>4, <1>8

(* The other steps leave devices and turns alone.                          *)
LEMMA OwnersQuiet ==
    ASSUME LiveInv, NEW p \in Ranks, NEW t \in OfRank(p), config' = config,
           UNCHANGED <<seq, dups, device>>, \A u \in Workers : u # t => pc'[u] = pc[u],
           pc[t] \notin {"alloc", "dup", "alloc_reset", "free", "comm_free", "free_reset"},
           pc'[t] \notin {"alloc", "dup", "alloc_reset", "comm_free", "free_reset"}, pc'[t] = "done" => ~IsOwner(t),
           pc[t] # "done"
    PROVE  OwnersOK'
  <1>1. \A u : Dev(u)' = Dev(u)
    BY DEF Dev
  <1>2. IsOwner(t) => DeviceOf(t)' /\ TurnOf(t)'
    <2>1. ASSUME IsOwner(t) PROVE DeviceOf(t) /\ pc'[t] # "done"
      BY <2>1 DEF LiveInv, OwnersOK
    <2>2. pc[t] \notin Allocs /\ pc'[t] \notin Allocs
      BY DEF Allocs
    <2> QED  BY <1>1, <2>1, <2>2 DEF DeviceOf, TurnOf
  <1>3. ASSUME NEW u \in OfRank(p), u # t, IsOwner(u) PROVE TurnOf(u)'
    <2>1. pc'[u] = pc[u] /\ TurnOf(u)
      BY <1>3 DEF LiveInv, OfRank, OwnersOK
    <2> QED  BY <1>1, <2>1 DEF TurnOf
  <1>4. \A u \in OfRank(p) : u # t /\ IsOwner(u) => TurnOf(u)'
    BY <1>3
  <1>5. \A d \in Ranks \X DeviceIds : (IsOwner(t) /\ d = Dev(t)) \/ device'[d] = device[d]
    OBVIOUS
  <1>6. \A q \in Ranks : q # p => seq'[q] = seq[q] /\ dups'[q] = dups[q]
    OBVIOUS
  <1> QED  BY <1>2, <1>4, <1>5, <1>6, OwnersFrame

(* Every step of a worker keeps the invariant.                             *)
LEMMA LiveWorkerStep ==
    ASSUME LiveInv, NEW t \in Workers, WorkerStep(t)
    PROVE  LiveInv'
  <1>1. /\ t[1] \in Ranks /\ t \in OfRank(t[1]) /\ WorkerOf(t) /\ config' = config /\ ppc' = ppc
        /\ j' \in [Workers -> 0 .. config.send_window + config.recv_window - 1]
        /\ iter' \in [Workers -> 0 .. niters - 1]
        /\ size' \in [Workers -> 0 .. nsizes - 1]
        /\ stop' \in [Ranks -> BOOLEAN]
    BY WorkerMove DEF LiveInv
  <1>2. PICK step \in WorkerSteps : Goto(t, step) /\ MoveTo(t, step)
    BY WorkerMove DEF LiveInv
  <1>3. TypeOK
    BY DEF LiveInv
  <1>4. /\ step \in AllBarriers => arrived.all[t] < 2
        /\ pc[t] \notin {"alloc", "dup", "alloc_reset", "free", "comm_free", "free_reset"} =>
              step \notin {"alloc", "dup", "alloc_reset", "comm_free", "free_reset"} /\ (step = "done" => ~IsOwner(t))
    BY <1>1, <1>2, <1>3, WorkerMoved
  <1>5. /\ pc' \in [Workers -> WorkerSteps] /\ pc'[t] = step
        /\ \A u \in Workers : u # t => pc'[u] = pc[u]
        /\ arrived' \in [worker : [Workers -> Nat], all : [Workers -> 0 .. 2],
                         prg : [Prgs -> 0 .. 2]]
        /\ barriers' \in [Ranks -> Nat]
    BY <1>2, <1>3, <1>4, GotoFacts
  <1> DEFINE Devices == [Ranks \X DeviceIds ->
                           [state : {"none", "alive", "freed"}, comm : 0 .. config.ndevices]]
  <1>6. /\ seq \in [Ranks -> 0 .. config.ndevices] /\ dups \in [Ranks -> 0 .. config.ndevices]
        /\ device \in Devices
    BY <1>3 DEF TypeOK
  <1>7. OwnersOK' /\ seq' \in [Ranks -> 0 .. config.ndevices]
        /\ dups' \in [Ranks -> 0 .. config.ndevices] /\ device' \in Devices
    <2>1. CASE AllocDevice(t)
      <3>1. seq' = seq
        BY <2>1 DEF AllocDevice
      <3> QED  BY <1>1, <1>6, <2>1, <3>1, OwnersAlloc
    <2>2. CASE CommDupReturns(t)
      BY <1>1, <1>6, <2>2, OwnersDup
    <2>3. CASE FreeDevice(t)
      BY <1>1, <1>6, <2>3, OwnersFree
    <2>4. CASE CommFreeReturns(t)
      BY <1>1, <1>6, <2>4, OwnersCommFree
    <2>6. CASE ResetTurn(t)
      BY <1>1, <1>6, <2>6, OwnersReset
    <2>5. CASE PostRecv(t) \/ PostSend(t) \/ WaitSend(t) \/ WaitRecv(t) \/ PassBarrier(t)
               \/ MpiBarrierReturns(t)
      <3>1. UNCHANGED <<seq, dups, device>>
        BY <2>5 DEF PostRecv, PostSend, WaitSend, WaitRecv, PassBarrier, MpiBarrierReturns, EndOfStep
      <3>2. pc[t] \notin {"alloc", "dup", "alloc_reset", "free", "comm_free", "free_reset", "done"}
        BY <2>5 DEF PostRecv, PostSend, WaitSend, WaitRecv, PassBarrier, MpiBarrierReturns,
                    WorkerBarriers
      <3>3. OwnersOK'
        BY <1>1, <1>4, <1>5, <3>1, <3>2, OwnersQuiet
      <3> QED  BY <1>6, <3>1, <3>3
    <2> QED  BY <2>1, <2>2, <2>3, <2>4, <2>5, <2>6 DEF WorkerStep
  <1>8. /\ {rposted', net', pend', scq', rcq'} \subseteq [Workers -> Nat]
        /\ put_cq' \in [Ranks \X DeviceIds -> Nat]
    BY <1>3, WorkerMessages
  <1>9. ppc' \in [Prgs -> {"all1", "loop", "all2", "done"}] /\ config' \in Configs
    BY <1>1, <1>3 DEF TypeOK
  <1>10. TypeOK'
    BY <1>1, <1>5, <1>7, <1>8, <1>9 DEF TypeOK
  <1> QED  BY <1>7, <1>10, LiveWorkers DEF LiveInv

(* What the messages do moves no thread and no device.                     *)
LEMMA LiveMessages ==
    ASSUME LiveInv, NEW t \in Workers,
           SendCompletes(t) \/ \E d \in Devs : Arrives(t, d)
    PROVE  LiveInv'
  <1>1. UNCHANGED <<config, threadVars, syncVars, device>>
    BY DEF SendCompletes, Arrives
  <1>2. /\ rposted \in [Workers -> Nat] /\ net \in [Workers -> Nat] /\ pend \in [Workers -> Nat]
        /\ scq \in [Workers -> Nat] /\ rcq \in [Workers -> Nat]
        /\ put_cq \in [Ranks \X DeviceIds -> Nat]
    BY DEF LiveInv, TypeOK
  <1>3. /\ {rposted', net', pend', scq', rcq'} \subseteq [Workers -> Nat]
        /\ put_cq' \in [Ranks \X DeviceIds -> Nat]
        /\ \A u \in Workers : net'[u] <= net[u] /\ pend'[u] <= pend[u]
    <2>1. CASE SendCompletes(t)
      <3>1. /\ pend' = [pend EXCEPT ![t] = @ - 1] /\ pend[t] > 0 /\ scq' = [scq EXCEPT ![t] = @ + 1]
            /\ UNCHANGED <<rposted, net, rcq, put_cq>>
        BY <2>1 DEF SendCompletes
      <3>2. pend' \in [Workers -> Nat] /\ \A u \in Workers : pend'[u] <= pend[u]
        BY <1>2, <3>1
      <3>3. scq' \in [Workers -> Nat]
        BY <1>2, <3>1
      <3> QED  BY <1>2, <3>1, <3>2, <3>3
    <2>2. ASSUME NEW d \in Devs, Arrives(t, d)
          PROVE  /\ {rposted', net', pend', scq', rcq'} \subseteq [Workers -> Nat]
                 /\ put_cq' \in [Ranks \X DeviceIds -> Nat]
                 /\ \A u \in Workers : net'[u] <= net[u] /\ pend'[u] <= pend[u]
      <3>1. net' = [net EXCEPT ![t] = @ - 1] /\ net[t] > 0 /\ UNCHANGED <<pend, scq>>
        BY <2>2 DEF Arrives
      <3>2. net' \in [Workers -> Nat] /\ \A u \in Workers : net'[u] <= net[u]
        BY <1>2, <3>1
      <3>3. rposted' \in [Workers -> Nat] /\ rcq' \in [Workers -> Nat]
            /\ put_cq' \in [Ranks \X DeviceIds -> Nat]
        <4>1. CASE config.op = "SEND"
          <5>1. PICK r : /\ rposted[r] > 0 /\ rposted' = [rposted EXCEPT ![r] = @ - 1]
                         /\ rcq' = [rcq EXCEPT ![r] = @ + 1] /\ UNCHANGED put_cq
            BY <2>2, <4>1 DEF Arrives
          <5>2. rposted' \in [Workers -> Nat]
            BY <1>2, <5>1, CountDown
          <5>3. rcq' \in [Workers -> Nat]
            <6>1. rcq' = [y \in Workers |-> IF y = r THEN rcq[r] + 1 ELSE rcq[y]]
              BY <1>2, <5>1
            <6>2. ASSUME NEW y \in Workers PROVE (IF y = r THEN rcq[r] + 1 ELSE rcq[y]) \in Nat
              BY <1>2
            <6> QED  BY <6>1, <6>2
          <5> QED  BY <1>2, <5>1, <5>2, <5>3
        <4>2. CASE config.op # "SEND"
          BY <1>2, <2>2, <4>2 DEF Arrives
        <4> QED  BY <4>1, <4>2
      <3> QED  BY <1>2, <3>1, <3>2, <3>3
    <2> QED  BY <2>1, <2>2
  <1>4. TypeOK'
    BY <1>1, <1>3 DEF LiveInv, TypeOK, threadVars, syncVars
  <1>5. WorkersOK'
    <2>1. ASSUME NEW u \in Workers PROVE IdleOf(u) => IdleOf(u)'
      <3>1. net'[u] \in Nat /\ pend'[u] \in Nat /\ net'[u] <= net[u] /\ pend'[u] <= pend[u]
        BY <1>3
      <3> QED  BY <1>1, <3>1 DEF IdleOf, threadVars
    <2>2. ASSUME NEW u \in Workers PROVE WorkerOf(u) => WorkerOf(u)'
      BY <1>1 DEF WorkerOf, threadVars, syncVars, IsOwner, WindowOf
    <2>3. \A p : OfRank(p)' = OfRank(p)
      BY <1>1 DEF OfRank
    <2> QED  BY <2>1, <2>2, <2>3 DEF LiveInv, WorkersOK
  <1>6. PrgsOK' /\ MetOK'
    BY <1>1 DEF LiveInv, PrgsOK, MetOK, AllMet, OfRank, PrgsOf, threadVars, syncVars
  <1>7. OwnersOK'
    BY <1>1 DEF LiveInv, OwnersOK, DeviceOf, TurnOf, Dev, OfRank, IsOwner, threadVars, syncVars
  <1> QED  BY <1>4, <1>5, <1>6, <1>7 DEF LiveInv

(* Neither do the progress threads.                                        *)
LEMMA LivePrgs ==
    ASSUME LiveInv, NEW t \in Prgs, PrgStep(t)
    PROVE  LiveInv'
  <1>1. /\ UNCHANGED <<config, threadVars, seq, stop, barriers, dups, device, commVars>>
        /\ ppc[t] \in {"all1", "loop", "all2"}
    BY DEF PrgStep, PrgStart, PrgStop, PrgExit
  <1>2. t[1] \in Ranks /\ t \in PrgsOf(t[1])
    BY <1>1 DEF LiveInv, PrgsOK, Prgs
  <1>3. /\ arrived.worker \in [Workers -> Nat] /\ arrived.all \in [Workers -> 0 .. 2]
        /\ arrived.prg \in [Prgs -> 0 .. 2]
        /\ arrived = [worker |-> arrived.worker, all |-> arrived.all, prg |-> arrived.prg]
        /\ ppc \in [Prgs -> {"all1", "loop", "all2", "done"}]
    BY DEF LiveInv, TypeOK
  <1>4. /\ ppc' \in [Prgs -> {"all1", "loop", "all2", "done"}]
        /\ \A u \in Prgs : u # t => ppc'[u] = ppc[u]
        /\ ppc'[t] # "all1" /\ (ppc[t] = "all1" => AllMet(t[1], 1))
    BY <1>3 DEF PrgStep, PrgStart, PrgStop, PrgExit
  <1>5. /\ arrived' \in [worker : [Workers -> Nat], all : [Workers -> 0 .. 2],
                         prg : [Prgs -> 0 .. 2]]
        /\ arrived'.all = arrived.all
        /\ \A u \in Prgs : u # t => arrived'.prg[u] = arrived.prg[u]
        /\ arrived'.prg[t] >= arrived.prg[t]
        /\ arrived'.prg[t] = IF ppc'[t] \in {"all1", "loop"} THEN 1 ELSE 2
    <2>1. arrived.prg[t] = IF ppc[t] \in {"all1", "loop"} THEN 1 ELSE 2
      BY <1>2 DEF LiveInv, PrgsOK
    <2>2. CASE PrgStop(t)
      <3>1. arrived' = [arrived EXCEPT !.prg[t] = @ + 1] /\ ppc[t] = "loop" /\ ppc'[t] = "all2"
        BY <1>3, <2>2 DEF PrgStop
      <3>2. PICK f : f = [arrived.prg EXCEPT ![t] = @ + 1]
        OBVIOUS
      <3>3. /\ f \in [Prgs -> 0 .. 2] /\ f[t] = 2
            /\ \A u \in Prgs : u # t => f[u] = arrived.prg[u]
        BY <1>3, <2>1, <3>1, <3>2
      <3>4. arrived' = [worker |-> arrived.worker, all |-> arrived.all, prg |-> f]
        BY <1>3, <3>1, <3>2
      <3>5. arrived'.prg = f /\ arrived'.all = arrived.all
        BY <3>4
      <3>6. arrived' \in [worker : [Workers -> Nat], all : [Workers -> 0 .. 2],
                          prg : [Prgs -> 0 .. 2]]
        BY <1>3, <3>3, <3>4
      <3>7. arrived.prg[t] = 1
        BY <2>1, <3>1
      <3> QED  BY <3>1, <3>3, <3>5, <3>6, <3>7
    <2>3. CASE PrgStart(t) \/ PrgExit(t)
      <3>1. /\ arrived' = arrived
            /\ \/ ppc[t] = "all1" /\ ppc'[t] = "loop"
               \/ ppc[t] = "all2" /\ ppc'[t] = "done"
        BY <1>3, <2>3 DEF PrgStart, PrgExit
      <3>2. arrived' \in [worker : [Workers -> Nat], all : [Workers -> 0 .. 2],
                          prg : [Prgs -> 0 .. 2]]
        BY <3>1 DEF LiveInv, TypeOK
      <3>3. arrived'.prg[t] = arrived.prg[t] /\ arrived.prg[t] \in 0 .. 2
        BY <1>3, <3>1
      <3> QED  BY <2>1, <3>1, <3>2, <3>3
    <2> QED  BY <2>2, <2>3 DEF PrgStep
  <1>6. TypeOK'
    BY <1>1, <1>4, <1>5 DEF LiveInv, TypeOK, threadVars, commVars
  <1>7. \A p : OfRank(p)' = OfRank(p) /\ PrgsOf(p)' = PrgsOf(p)
    BY <1>1 DEF OfRank, PrgsOf
  <1>8. WorkersOK'
    <2>1. \A u : (WorkerOf(u) => WorkerOf(u)') /\ (IdleOf(u) => IdleOf(u)')
      BY <1>1, <1>5 DEF WorkerOf, IdleOf, threadVars, commVars, IsOwner, WindowOf
    <2> QED  BY <1>7, <2>1 DEF LiveInv, WorkersOK
  <1>9. PrgsOK'
    BY <1>2, <1>4, <1>5, <1>7 DEF LiveInv, PrgsOK
  <1>10. ASSUME NEW p, NEW n \in Nat, AllMet(p, n) PROVE AllMet(p, n)'
    <2>1. \A u \in Workers : arrived.all[u] \in Nat /\ arrived'.all[u] \in Nat
                             /\ arrived'.all[u] >= arrived.all[u]
      BY <1>3, <1>5
    <2>2. \A u \in Prgs : arrived.prg[u] \in Nat /\ arrived'.prg[u] \in Nat
                          /\ arrived'.prg[u] >= arrived.prg[u]
      BY <1>3, <1>5
    <2> QED  BY <1>1, <1>10, <2>1, <2>2, MetStays
  <1>11. MetOK'
    <2> SUFFICES ASSUME NEW p \in Ranks
                 PROVE  /\ \A u \in OfRank(p) : pc[u] \notin Allocs \cup {"all1"} => AllMet(p, 1)'
                        /\ \A u \in PrgsOf(p) : ppc'[u] # "all1" => AllMet(p, 1)'
                        /\ \A u \in OfRank(p) : pc[u] \in Frees => AllMet(p, 2)'
      BY <1>1, <1>7 DEF MetOK, threadVars
    <2>1. (AllMet(p, 1) => AllMet(p, 1)') /\ (AllMet(p, 2) => AllMet(p, 2)')
      BY <1>10
    <2>2. ASSUME NEW u \in PrgsOf(p), ppc'[u] # "all1" PROVE AllMet(p, 1)
      <3>1. u \in Prgs /\ u[1] = p
        BY DEF PrgsOf
      <3> QED  BY <1>2, <1>4, <2>2, <3>1 DEF LiveInv, MetOK
    <2> QED  BY <2>1, <2>2 DEF LiveInv, MetOK
  <1>12. OwnersOK'
    BY <1>1 DEF LiveInv, OwnersOK, DeviceOf, TurnOf, Dev, OfRank, IsOwner, threadVars
  <1> QED  BY <1>6, <1>8, <1>9, <1>11, <1>12 DEF LiveInv

-----------------------------------------------------------------------------
(* The program starts in order, ...                                        *)
LEMMA LiveInit ==
    ASSUME Init
    PROVE  LiveInv
  <1>1. config \in Configs /\ config.ndevices \in Nat \ {0} /\ niters \in Nat \ {0}
        /\ nsizes \in Nat \ {0} /\ config.send_window \in Nat \ {0} /\ config.recv_window \in Nat \ {0}
    BY ConfigsAssumption DEF Init
  <1>2. /\ pc = [t \in Workers |-> IF t \notin OfRank(t[1]) THEN "done"
                                   ELSE IF IsOwner(t) THEN "alloc" ELSE "all1"]
        /\ ppc = [t \in Prgs |-> IF t \in PrgsOf(t[1]) THEN "all1" ELSE "done"]
        /\ arrived = [worker |-> Zero(Workers),
                      all |-> [t \in Workers |-> IF pc[t] = "all1" THEN 1 ELSE 0],
                      prg |-> [t \in Prgs |-> IF ppc[t] = "all1" THEN 1 ELSE 0]]
    BY DEF Init
  <1>3. /\ j = Zero(Workers) /\ iter = Zero(Workers) /\ size = Zero(Workers)
        /\ seq = Zero(Ranks) /\ dups = Zero(Ranks) /\ barriers = Zero(Ranks)
        /\ stop = [p \in Ranks |-> FALSE]
        /\ device = [d \in Ranks \X DeviceIds |-> [state |-> "none", comm |-> 0]]
        /\ rposted = Zero(Workers) /\ net = Zero(Workers) /\ pend = Zero(Workers)
        /\ scq = Zero(Workers) /\ rcq = Zero(Workers) /\ put_cq = Zero(Ranks \X DeviceIds)
    BY DEF Init
  <1>4. \A S, n : n \in Nat => Zero(S) \in [S -> 0 .. n] /\ Zero(S) \in [S -> Nat]
    BY DEF Zero
  <1>5. TypeOK
    <2>1. /\ seq \in [Ranks -> 0 .. config.ndevices] /\ dups \in [Ranks -> 0 .. config.ndevices]
          /\ j \in [Workers -> 0 .. config.send_window + config.recv_window - 1]
          /\ iter \in [Workers -> 0 .. niters - 1] /\ size \in [Workers -> 0 .. nsizes - 1]
      <3>1. /\ config.ndevices - 1 \in Nat /\ config.ndevices \in Nat
            /\ config.send_window + config.recv_window - 1 \in Nat
            /\ niters - 1 \in Nat /\ nsizes - 1 \in Nat
        BY <1>1
      <3>2. /\ Zero(Ranks) \in [Ranks -> 0 .. config.ndevices]
            /\ Zero(Ranks) \in [Ranks -> 0 .. config.ndevices]
            /\ Zero(Workers) \in [Workers -> 0 .. config.send_window + config.recv_window - 1]
            /\ Zero(Workers) \in [Workers -> 0 .. niters - 1]
            /\ Zero(Workers) \in [Workers -> 0 .. nsizes - 1]
        BY <1>4, <3>1
      <3> QED  BY <1>3, <3>2
    <2>2. pc \in [Workers -> WorkerSteps]
      BY <1>2 DEF WorkerSteps, AllBarriers
    <2>3. ppc \in [Prgs -> {"all1", "loop", "all2", "done"}] /\ stop \in [Ranks -> BOOLEAN]
      BY <1>2, <1>3
    <2>4. arrived \in [worker : [Workers -> Nat], all : [Workers -> 0 .. 2], prg : [Prgs -> 0 .. 2]]
      <3>1. /\ [t \in Workers |-> IF pc[t] = "all1" THEN 1 ELSE 0] \in [Workers -> 0 .. 2]
            /\ [t \in Prgs |-> IF ppc[t] = "all1" THEN 1 ELSE 0] \in [Prgs -> 0 .. 2]
        OBVIOUS
      <3> QED  BY <1>2, <1>4, <3>1
    <2>5. device \in [Ranks \X DeviceIds ->
                        [state : {"none", "alive", "freed"}, comm : 0 .. config.ndevices]]
      BY <1>1, <1>3
    <2>6. /\ {rposted, net, pend, scq, rcq} \subseteq [Workers -> Nat] /\ barriers \in [Ranks -> Nat]
          /\ put_cq \in [Ranks \X DeviceIds -> Nat]
      BY <1>3 DEF Zero
    <2> QED  BY <1>1, <2>1, <2>2, <2>3, <2>4, <2>5, <2>6 DEF TypeOK
  <1>6. \A t \in Workers : arrived.all[t] = IF pc[t] = "all1" THEN 1 ELSE 0
    BY <1>2
  <1>7. WorkersOK
    <2>1. ASSUME NEW t \in Workers, t \in OfRank(t[1]) PROVE WorkerOf(t)
      <3>1. pc[t] = IF IsOwner(t) THEN "alloc" ELSE "all1"
        BY <1>2, <2>1
      <3>2. j[t] = 0 /\ iter[t] = 0
        BY <1>3 DEF Zero
      <3> QED  BY <1>6, <3>1, <3>2 DEF WorkerOf, Allocs, Overs, Loops
    <2>2. ASSUME NEW t \in Workers, t \notin OfRank(t[1]) PROVE IdleOf(t)
      BY <1>2, <1>3, <2>2 DEF IdleOf, Zero
    <2> QED  BY <2>1, <2>2 DEF WorkersOK
  <1>8. PrgsOK
    BY <1>2 DEF PrgsOK
  <1>9. MetOK
    <2>1. ASSUME NEW p \in Ranks, NEW u \in OfRank(p) PROVE pc[u] \in {"alloc", "all1"}
      BY <1>2 DEF OfRank
    <2>2. ASSUME NEW p \in Ranks, NEW u \in PrgsOf(p) PROVE ppc[u] = "all1"
      BY <1>2 DEF PrgsOf
    <2> QED  BY <2>1, <2>2 DEF MetOK, Allocs, Frees
  <1>10. OwnersOK
    <2> SUFFICES ASSUME NEW p \in Ranks, NEW t \in OfRank(p), IsOwner(t)
                 PROVE  DeviceOf(t) /\ TurnOf(t)
      BY DEF OwnersOK
    <2>1. t \in Workers /\ t[1] = p /\ Dev(t) \in Ranks \X DeviceIds /\ Dev(t)[2] \in 0 .. config.ndevices - 1
      BY <1>1, WorkerFacts
    <2>2. pc[t] = "alloc"
      BY <1>2, <2>1
    <2>3. device[Dev(t)] = [state |-> "none", comm |-> 0] /\ seq[p] = 0 /\ dups[p] = 0
      BY <1>3, <2>1 DEF Zero
    <2>4. DeviceOf(t)
      BY <2>2, <2>3 DEF DeviceOf, Allocs
    <2>5. PICK k \in 0 .. config.ndevices - 1 : k = Dev(t)[2]
      BY <2>1
    <2>6. k >= 0
      BY <1>1
    <2>7. TurnOf(t)
      BY <2>1, <2>2, <2>3, <2>5, <2>6 DEF TurnOf
    <2> QED  BY <2>4, <2>7
  <1> QED  BY <1>5, <1>7, <1>8, <1>9, <1>10 DEF LiveInv

(* ... stays in order, ...                                                 *)
LEMMA LiveNext ==
    ASSUME LiveInv, [Next]_vars
    PROVE  LiveInv'
  <1>1. CASE UNCHANGED vars
    BY <1>1 DEF vars, threadVars, syncVars, commVars, LiveInv, TypeOK, WorkersOK, WorkerOf, IdleOf,
                IsOwner, WindowOf, PrgsOK, MetOK, AllMet, OfRank, PrgsOf, OwnersOK, DeviceOf, TurnOf, Dev
  <1>2. ASSUME NEW t \in Workers, WorkerStep(t) PROVE LiveInv'
    BY <1>2, LiveWorkerStep
  <1>3. ASSUME NEW t \in Workers, SendCompletes(t) \/ \E d \in Devs : Arrives(t, d) PROVE LiveInv'
    BY <1>3, LiveMessages
  <1>4. ASSUME NEW t \in Prgs, PrgStep(t) PROVE LiveInv'
    BY <1>4, LivePrgs
  <1> QED  BY <1>1, <1>2, <1>3, <1>4 DEF Next

(* ... and is so always.                                                   *)
LEMMA LiveAlways == Spec => []LiveInv
  BY LiveInit, LiveNext, PTL DEF Spec

(* Every variable keeps its type: g_device_sequence_control is the number  *)
(* of a device or, until the store of 0 after the last increment, the      *)
(* number of devices, and MPI_Comm_dup is called at most once a device.    *)
THEOREM PingPongTypes == Spec => []TypeOK
  <1>1. LiveInv => TypeOK
    BY DEF LiveInv
  <1> QED  BY <1>1, LiveAlways, PTL

(* The devices of one index have one communicator: alloc_devices goes      *)
(* through them in the order of g_device_sequence_control on both sides,   *)
(* so that the n-th MPI_Comm_dup is that of device n - 1.                  *)
THEOREM PeersAlwaysShareComm == Spec => []PeersShareComm
  <1>1. ASSUME LiveInv PROVE PeersShareComm
    <2>1. ASSUME NEW p \in Ranks, NEW d \in 0 .. config.ndevices - 1,
                 device[<<p, d>>].state = "alive"
          PROVE  device[<<p, d>>].comm = d + 1
      <3>1. <<p, d>> \in Devs /\ config \in Configs
        BY <1>1 DEF Devs, LiveInv, TypeOK
      <3>2. PICK o \in OfRank(p) : IsOwner(o) /\ Dev(o) = <<p, d>>
        BY <3>1, SomeOwner
      <3>3. DeviceOf(o) /\ Dev(o)[2] = d
        BY <1>1, <3>2 DEF LiveInv, OwnersOK
      <3> QED  BY <2>1, <3>2, <3>3 DEF DeviceOf, Allocs
    <2> QED  BY <2>1 DEF PeersShareComm, Ranks
  <1> QED  BY <1>1, LiveAlways, PTL

(* Nobody calls do_progress on a device before alloc_device has returned   *)
(* or after free_device: tbarrier_all is between them.                     *)
THEOREM ProgressAlwaysOnLive == Spec => []ProgressOnLive
  <1>1. ASSUME LiveInv, NEW d \in Devs, Progressed(d) PROVE device[d].state = "alive"
    <2>1. config \in Configs /\ d[1] \in Ranks
      BY <1>1 DEF LiveInv, TypeOK, Devs
    <2>2. PICK o \in OfRank(d[1]) : IsOwner(o) /\ Dev(o) = d
      BY <2>1, SomeOwner
    <2>3. DeviceOf(o) /\ o \in Workers /\ WorkerOf(o)
      BY <1>1, <2>1, <2>2 DEF LiveInv, OwnersOK, OfRank, WorkersOK
    <2>4. AllMet(d[1], 1) /\ ~AllMet(d[1], 2) => device[d].state = "alive"
      <3> SUFFICES ASSUME AllMet(d[1], 1), ~AllMet(d[1], 2) PROVE device[d].state = "alive"
        OBVIOUS
      <3>1. pc[o] \notin Frees
        BY <1>1, <2>1 DEF LiveInv, MetOK
      <3>2. arrived.all[o] >= 1
        BY DEF AllMet
      <3>3. pc[o] \notin Allocs
        BY <2>3, <3>2 DEF WorkerOf
      <3> QED  BY <2>2, <2>3, <3>1, <3>3 DEF DeviceOf, Frees, Allocs
    <2>5. ASSUME NEW t \in OfRank(d[1]), Dev(t) = d, WorkerProgresses(t) PROVE device[d].state = "alive"
      <3>1. t \in Workers /\ WorkerOf(t)
        BY <1>1 DEF LiveInv, OfRank, WorkersOK
      <3>2. CASE pc[t] = "free"
        <4>1. DeviceOf(t)
          BY <1>1, <2>1, <3>1, <3>2 DEF LiveInv, WorkerOf, OwnersOK
        <4> QED  BY <2>5, <3>2, <4>1 DEF DeviceOf, Allocs
      <3>3. CASE pc[t] \in Loops \cup {"end_b1", "end_b2"}
        <4>1. AllMet(d[1], 1)
          BY <1>1, <2>1, <3>3 DEF LiveInv, MetOK, Loops, Allocs
        <4>2. arrived.all[t] = 1
          BY <3>1, <3>3 DEF WorkerOf, Loops, Allocs, Overs
        <4>3. ~AllMet(d[1], 2)
          BY <4>2 DEF AllMet
        <4> QED  BY <2>4, <4>1, <4>3
      <3> QED  BY <2>5, <3>2, <3>3 DEF WorkerProgresses
    <2>6. ASSUME NEW t \in PrgsOf(d[1]), ppc[t] = "loop" PROVE device[d].state = "alive"
      <3>1. AllMet(d[1], 1)
        BY <1>1, <2>1, <2>6 DEF LiveInv, MetOK
      <3>2. arrived.prg[t] = 1
        BY <1>1, <2>6 DEF LiveInv, PrgsOK, PrgsOf
      <3>3. ~AllMet(d[1], 2)
        BY <3>2 DEF AllMet
      <3> QED  BY <2>4, <3>1, <3>3
    <2> QED  BY <1>1, <2>5, <2>6 DEF Progressed
  <1>2. LiveInv => ProgressOnLive
    BY <1>1 DEF ProgressOnLive
  <1> QED  BY <1>2, LiveAlways, PTL

-----------------------------------------------------------------------------
(* No message is lost.  The messages of a worker are numbered by size,     *)
(* ping-pong and place in the window, and its place in the program says    *)
(* which of them it has sent and which of its peer's it has taken.         *)

Ended == {"end_b1", "end_mpi", "end_b2", "all2", "free", "comm_free", "free_reset", "done"}
Win(p) == IF p = 0 THEN config.send_window ELSE config.recv_window
Messages(p) == (0 .. nsizes - 1) \X (0 .. niters - 1) \X (0 .. Win(p) - 1)
Current(t) == <<size[t], iter[t], j[t]>>

SentIn(t) ==
    IF pc[t] = "post_send" THEN j[t]
    ELSE IF pc[t] = "wait_send" \/ (t[1] = 0 /\ pc[t] = "wait_recv") THEN Win(t[1]) ELSE 0
TakenIn(t) ==
    IF pc[t] = "wait_recv" THEN j[t]
    ELSE IF t[1] = 1 /\ pc[t] \in {"post_send", "wait_send"} THEN Win(Peer(t[1])) ELSE 0

(* Message m is behind a worker that is through with n of this ping-pong.  *)
Passed(t, n, m) ==
    \/ m[1] < size[t]
    \/ m[1] = size[t] /\ (pc[t] \in Ended \/ m[2] < iter[t] \/ (m[2] = iter[t] /\ m[3] < n))
IsSent(t, m) == Passed(t, SentIn(t), m)
IsTaken(t, m) == Passed(t, TakenIn(t), m)

(* Completions of sends and of receives that the worker still waits for.   *)
Unsent(t) ==
    IF pc[t] = "post_send" THEN j[t] ELSE IF pc[t] = "wait_send" THEN Win(t[1]) - j[t] ELSE 0
Awaited(t) ==
    IF config.op # "SEND" THEN 0
    ELSE IF pc[t] = "post_recv" THEN j[t]
    ELSE IF pc[t] = "wait_recv" THEN Win(Peer(t[1])) - j[t]
    ELSE IF t[1] = 0 /\ pc[t] \in {"post_send", "wait_send"} THEN Win(Peer(t[1])) ELSE 0
FlowOf(t) == pend[t] + scq[t] = Unsent(t) /\ rposted[t] + rcq[t] = Awaited(t)

(* What a worker's step in a loop does to its messages.                    *)
LEMMA LoopFlow ==
    ASSUME TypeOK, NEW t \in Workers, WorkerOf(t), pc[t] \in Loops, NEW step, LoopTo(t, step),
           pc'[t] = step, size'[t] = size[t], config' = config
    PROVE  /\ \A m \in Messages(t[1]) :
                 IsSent(t, m)' <=> IsSent(t, m) \/ (pc[t] = "post_send" /\ m = Current(t))
           /\ \A m \in Messages(Peer(t[1])) :
                 IsTaken(t, m)' <=> IsTaken(t, m) \/ (pc[t] = "wait_recv" /\ m = Current(t))
           /\ Unsent(t)' = Unsent(t) + (IF pc[t] = "post_send" THEN 1
                                        ELSE IF pc[t] = "wait_send" THEN 0 - 1 ELSE 0)
           /\ Awaited(t)' = Awaited(t) + (IF config.op # "SEND" THEN 0
                                          ELSE IF pc[t] = "post_recv" THEN 1
                                          ELSE IF pc[t] = "wait_recv" THEN 0 - 1 ELSE 0)
           /\ (pc[t] = "post_send" => ~IsSent(t, Current(t)) /\ Current(t) \in Messages(t[1]))
           /\ (pc[t] = "wait_recv" =>
                 ~IsTaken(t, Current(t)) /\ Current(t) \in Messages(Peer(t[1])))
  <1>1. /\ t[1] \in {0, 1} /\ j[t] \in Nat /\ iter[t] \in 0 .. niters - 1 /\ size[t] \in 0 .. nsizes - 1
        /\ niters \in Nat \ {0} /\ nsizes \in Nat \ {0} /\ j[t] < WindowOf(t)
        /\ Win(0) \in Nat \ {0} /\ Win(1) \in Nat \ {0} /\ (\A p : Win(p)' = Win(p))
        /\ WindowOf(t) = (IF pc[t] \in {"post_send", "wait_send"} THEN Win(t[1]) ELSE Win(Peer(t[1])))
    <2>1. t[1] \in {0, 1} /\ j[t] < WindowOf(t) /\ (\A p : Win(p)' = Win(p))
      BY DEF Workers, Ranks, WorkerOf, Win
    <2>2. /\ j[t] \in Nat /\ iter[t] \in 0 .. niters - 1 /\ size[t] \in 0 .. nsizes - 1
          /\ config \in Configs
      BY ConfigsAssumption DEF TypeOK
    <2>3. niters \in Nat \ {0} /\ nsizes \in Nat \ {0} /\ Win(0) \in Nat \ {0} /\ Win(1) \in Nat \ {0}
      BY <2>2, ConfigsAssumption DEF Win
    <2>4. WindowOf(t) = (IF pc[t] \in {"post_send", "wait_send"} THEN Win(t[1]) ELSE Win(Peer(t[1])))
      BY <2>1 DEF WindowOf, Win, Peer
    <2> QED  BY <2>1, <2>2, <2>3, <2>4
  <1>2. /\ \A m \in Messages(t[1]) : m[1] \in 0 .. nsizes - 1 /\ m[2] \in 0 .. niters - 1
                                     /\ m[3] \in 0 .. Win(t[1]) - 1 /\ m = <<m[1], m[2], m[3]>>
        /\ \A m \in Messages(Peer(t[1])) : m[1] \in 0 .. nsizes - 1 /\ m[2] \in 0 .. niters - 1
                                     /\ m[3] \in 0 .. Win(Peer(t[1])) - 1 /\ m = <<m[1], m[2], m[3]>>
    BY DEF Messages
  <1>3. FirstStep(t) = IF config.op = "SEND" THEN "post_recv"
                       ELSE IF t[1] = 0 THEN "post_send" ELSE "wait_recv"
    BY DEF FirstStep
  <1>4. pc[t] = "post_recv" => config.op = "SEND"
    BY DEF WorkerOf
  <1>5. Unsent(t)' = Unsent(t) + (IF pc[t] = "post_send" THEN 1
                                  ELSE IF pc[t] = "wait_send" THEN 0 - 1 ELSE 0)
    BY <1>1, <1>3, <1>4 DEF LoopTo, Order, LastStep, Loops, Unsent
  <1>6. Awaited(t)' = Awaited(t) + (IF config.op # "SEND" THEN 0
                                    ELSE IF pc[t] = "post_recv" THEN 1
                                    ELSE IF pc[t] = "wait_recv" THEN 0 - 1 ELSE 0)
    BY <1>1, <1>3, <1>4 DEF LoopTo, Order, LastStep, Loops, Awaited, Peer
  <1>7. ASSUME NEW m \in Messages(t[1])
        PROVE  IsSent(t, m)' <=> IsSent(t, m) \/ (pc[t] = "post_send" /\ m = Current(t))
    BY <1>1, <1>2, <1>3, <1>4 DEF LoopTo, Order, LastStep, Loops, IsSent, Passed, SentIn, Current, Ended
  <1>8. ASSUME NEW m \in Messages(Peer(t[1]))
        PROVE  IsTaken(t, m)' <=> IsTaken(t, m) \/ (pc[t] = "wait_recv" /\ m = Current(t))
    BY <1>1, <1>2, <1>3, <1>4 DEF LoopTo, Order, LastStep, Loops, IsTaken, Passed, TakenIn, Current, Ended, Peer
  <1>9. pc[t] = "post_send" => ~IsSent(t, Current(t)) /\ Current(t) \in Messages(t[1])
    BY <1>1 DEF IsSent, Passed, SentIn, Current, Messages, Ended
  <1>10. pc[t] = "wait_recv" => ~IsTaken(t, Current(t)) /\ Current(t) \in Messages(Peer(t[1]))
    <2>1. pc[t] = "wait_recv" => j[t] \in 0 .. Win(Peer(t[1])) - 1
      BY <1>1 DEF Peer
    <2>2. size[t] \in Nat /\ iter[t] \in Nat
      BY <1>1
    <2>3. pc[t] = "wait_recv" => ~IsTaken(t, Current(t))
      BY <1>1, <2>2 DEF IsTaken, Passed, TakenIn, Current, Ended
    <2> QED  BY <1>1, <2>1, <2>3 DEF Current, Messages
  <1> QED  BY <1>5, <1>6, <1>7, <1>8, <1>9, <1>10

(* The other steps of a worker neither send nor take a message.            *)
LEMMA BarrierFlow ==
    ASSUME TypeOK, NEW t \in Workers, WorkerOf(t), NEW step, pc'[t] = step, config' = config,
           j'[t] = j[t], iter'[t] = iter[t],
           BarrierTo(t, step) \/ (<<pc[t], step>> \in CallSteps /\ size'[t] = size[t])
    PROVE  /\ \A m \in Messages(t[1]) : IsSent(t, m)' <=> IsSent(t, m)
           /\ \A m \in Messages(Peer(t[1])) : IsTaken(t, m)' <=> IsTaken(t, m)
           /\ Unsent(t)' = Unsent(t) /\ Awaited(t)' = Awaited(t)
           /\ pc[t] \notin Loops
  <1>1. /\ t[1] \in {0, 1} /\ iter[t] \in 0 .. niters - 1 /\ size[t] \in 0 .. nsizes - 1
        /\ niters \in Nat \ {0} /\ nsizes \in Nat \ {0} /\ (\A p : Win(p)' = Win(p))
    <2>1. t[1] \in {0, 1} /\ (\A p : Win(p)' = Win(p))
      BY DEF Workers, Ranks, Win
    <2>2. iter[t] \in 0 .. niters - 1 /\ size[t] \in 0 .. nsizes - 1
      BY DEF TypeOK
    <2> QED  BY <2>1, <2>2, ConfigsAssumption
  <1>2. pc[t] \notin Loops
    BY DEF BarrierTo, CallSteps, Loops
  <1>3. j[t] = 0 /\ iter[t] = 0
    BY <1>2 DEF WorkerOf
  <1>4. step \in Loops => step = FirstStep(t) /\ pc[t] = "size_b2"
    BY DEF BarrierTo, CallSteps, Loops
  <1>5. step = FirstStep(t) => step \notin {"wait_send"} /\ (t[1] = 0 => step # "wait_recv")
                                /\ (t[1] = 1 => step # "post_send")
                                /\ (config.op = "SEND" => step = "post_recv")
    BY <1>1 DEF FirstStep
  <1>6. SentIn(t)' = 0 /\ TakenIn(t)' = 0 /\ SentIn(t) = 0 /\ TakenIn(t) = 0
    BY <1>1, <1>2, <1>3, <1>4, <1>5 DEF SentIn, TakenIn, Loops
  <1>7. Unsent(t)' = 0 /\ Unsent(t) = 0 /\ Awaited(t)' = 0 /\ Awaited(t) = 0
    BY <1>1, <1>2, <1>3, <1>4, <1>5 DEF Unsent, Awaited, Loops
  <1>8. /\ \A m \in Messages(t[1]) : m[1] \in Nat /\ m[2] \in Nat /\ m[3] \in Nat
        /\ \A m \in Messages(Peer(t[1])) : m[1] \in Nat /\ m[2] \in Nat /\ m[3] \in Nat
    BY <1>1 DEF Messages
  <1>9. \/ size'[t] = size[t] /\ (pc'[t] \in Ended <=> pc[t] \in Ended)
        \/ size'[t] = size[t] + 1 /\ pc[t] \in Ended /\ pc'[t] \notin Ended
    BY <1>4, <1>5 DEF BarrierTo, CallSteps, Ended, FirstStep
  <1>10. ASSUME NEW m, m[1] \in Nat, m[2] \in Nat, m[3] \in Nat
         PROVE  Passed(t, 0, m)' <=> Passed(t, 0, m)
    BY <1>1, <1>3, <1>9, <1>10 DEF Passed
  <1> QED  BY <1>2, <1>6, <1>7, <1>8, <1>10 DEF IsSent, IsTaken, Passed

(* A worker sends the current message when it posts it and takes it when   *)
(* it waits for it, and its queues hold what it waits for.                 *)
LEMMA WorkerFlow ==
    ASSUME LiveInv, NEW t \in Workers, WorkerStep(t)
    PROVE  /\ \A m \in Messages(t[1]) :
                 IsSent(t, m)' <=> IsSent(t, m) \/ (pc[t] = "post_send" /\ m = Current(t))
           /\ \A m \in Messages(Peer(t[1])) :
                 IsTaken(t, m)' <=> IsTaken(t, m) \/ (pc[t] = "wait_recv" /\ m = Current(t))
           /\ (pc[t] = "post_send" => ~IsSent(t, Current(t)) /\ Current(t) \in Messages(t[1]))
           /\ (pc[t] = "wait_recv" =>
                 ~IsTaken(t, Current(t)) /\ Current(t) \in Messages(Peer(t[1])))
           /\ FlowOf(t) => FlowOf(t)'
  <1>1. /\ TypeOK /\ config' = config /\ WorkerOf(t)
    BY WorkerMove DEF LiveInv
  <1>2. PICK step \in WorkerSteps : Goto(t, step) /\ MoveTo(t, step)
    BY WorkerMove DEF LiveInv
  <1>3. pc'[t] = step
    BY <1>1, <1>2 DEF Goto, TypeOK
  <1>4. /\ pend[t] \in Nat /\ scq[t] \in Nat /\ rposted[t] \in Nat /\ rcq[t] \in Nat
        /\ pend \in [Workers -> Nat] /\ scq \in [Workers -> Nat] /\ rposted \in [Workers -> Nat]
        /\ rcq \in [Workers -> Nat]
    BY <1>1 DEF TypeOK
  <1>5. CASE pc[t] \in Loops /\ LoopTo(t, step) /\ size'[t] = size[t]
    <2>1. /\ \A m \in Messages(t[1]) :
                IsSent(t, m)' <=> IsSent(t, m) \/ (pc[t] = "post_send" /\ m = Current(t))
          /\ \A m \in Messages(Peer(t[1])) :
                IsTaken(t, m)' <=> IsTaken(t, m) \/ (pc[t] = "wait_recv" /\ m = Current(t))
          /\ (pc[t] = "post_send" => ~IsSent(t, Current(t)) /\ Current(t) \in Messages(t[1]))
          /\ (pc[t] = "wait_recv" =>
                ~IsTaken(t, Current(t)) /\ Current(t) \in Messages(Peer(t[1])))
      BY <1>1, <1>3, <1>5, LoopFlow
    <2>2. /\ Unsent(t)' = Unsent(t) + (IF pc[t] = "post_send" THEN 1
                                       ELSE IF pc[t] = "wait_send" THEN 0 - 1 ELSE 0)
          /\ Awaited(t)' = Awaited(t) + (IF config.op # "SEND" THEN 0
                                         ELSE IF pc[t] = "post_recv" THEN 1
                                         ELSE IF pc[t] = "wait_recv" THEN 0 - 1 ELSE 0)
      BY <1>1, <1>3, <1>5, LoopFlow
    <2>3. ASSUME FlowOf(t) PROVE FlowOf(t)'
      <3>1. pend[t] + scq[t] = Unsent(t) /\ rposted[t] + rcq[t] = Awaited(t)
        BY <2>3 DEF FlowOf
      <3>2. CASE PostRecv(t)
        <4>1. /\ rposted'[t] = rposted[t] + 1 /\ UNCHANGED <<pend, scq, rcq>> /\ pc[t] = "post_recv"
              /\ config.op = "SEND"
          BY <1>1, <1>4, <3>2 DEF PostRecv, WorkerOf
        <4> QED  BY <1>4, <2>2, <3>1, <4>1 DEF FlowOf
      <3>3. CASE PostSend(t)
        <4>1. pend'[t] = pend[t] + 1 /\ UNCHANGED <<rposted, scq, rcq>> /\ pc[t] = "post_send"
          BY <1>4, <3>3 DEF PostSend
        <4> QED  BY <1>4, <2>2, <3>1, <4>1 DEF FlowOf
      <3>4. CASE WaitSend(t)
        <4>1. scq'[t] = scq[t] - 1 /\ UNCHANGED <<rposted, pend, rcq>> /\ pc[t] = "wait_send"
          BY <1>4, <3>4 DEF WaitSend
        <4> QED  BY <1>4, <2>2, <3>1, <4>1 DEF FlowOf
      <3>5. CASE WaitRecv(t)
        <4>1. /\ rcq'[t] = (IF config.op = "SEND" THEN rcq[t] - 1 ELSE rcq[t])
              /\ UNCHANGED <<rposted, pend, scq>> /\ pc[t] = "wait_recv"
          BY <1>4, <3>5 DEF WaitRecv
        <4> QED  BY <1>4, <2>2, <3>1, <4>1 DEF FlowOf
      <3> QED  BY <1>5, <3>2, <3>3, <3>4, <3>5
               DEF WorkerStep, AllocDevice, CommDupReturns, PassBarrier, MpiBarrierReturns,
                   FreeDevice, CommFreeReturns, ResetTurn, Loops, WorkerBarriers
    <2> QED  BY <2>1, <2>3
  <1>6. CASE /\ j'[t] = j[t] /\ iter'[t] = iter[t]
             /\ BarrierTo(t, step) \/ (<<pc[t], step>> \in CallSteps /\ size'[t] = size[t])
    <2>1. /\ \A m \in Messages(t[1]) : IsSent(t, m)' <=> IsSent(t, m)
          /\ \A m \in Messages(Peer(t[1])) : IsTaken(t, m)' <=> IsTaken(t, m)
          /\ pc[t] \notin Loops
      BY <1>1, <1>3, <1>6, BarrierFlow
    <2>2. Unsent(t)' = Unsent(t) /\ Awaited(t)' = Awaited(t)
      BY <1>1, <1>3, <1>6, BarrierFlow
    <2>3. UNCHANGED commVars
      BY <2>1 DEF WorkerStep, AllocDevice, CommDupReturns, PassBarrier, MpiBarrierReturns, FreeDevice,
                  CommFreeReturns, ResetTurn, Loops, PostRecv, PostSend, WaitSend, WaitRecv
    <2>4. FlowOf(t) => FlowOf(t)'
      BY <2>2, <2>3 DEF FlowOf, commVars
    <2> QED  BY <2>1, <2>4 DEF Loops
  <1> QED  BY <1>2, <1>5, <1>6 DEF MoveTo

-----------------------------------------------------------------------------
(* Counting messages on their way.                                         *)

(* A set grows by one, ...                                                 *)
LEMMA OneMore ==
    ASSUME NEW S, NEW T, NEW x, IsFiniteSet(S), x \notin S, \A y : y \in T <=> y \in S \/ y = x
    PROVE  IsFiniteSet(T) /\ Cardinality(T) = Cardinality(S) + 1 /\ Cardinality(S) \in Nat
  <1>1. T = S \cup {x}
    OBVIOUS
  <1> QED  BY <1>1, FS_AddElement, FS_CardinalityType

(* ... or shrinks by one.                                                  *)
LEMMA OneLess ==
    ASSUME NEW S, NEW T, NEW x, IsFiniteSet(S), x \in S, \A y : y \in T <=> y \in S /\ y # x
    PROVE  IsFiniteSet(T) /\ Cardinality(T) = Cardinality(S) - 1 /\ Cardinality(S) \in Nat
  <1>1. T = S \ {x}
    OBVIOUS
  <1> QED  BY <1>1, FS_RemoveElement, FS_CardinalityType

(* The workers of a device, and the messages to it that f counts for the   *)
(* workers of process p.                                                   *)
On(e) == {w \in 0 .. NWorkers(config) - 1 : DeviceIdx(config, w) = e}
Counted(p, e, f) == {x \in On(e) \X (Nat \ {0}) : x[2] <= f[<<p, x[1]>>]}

(* One counter is counted up ...                                           *)
LEMMA CountedUp ==
    ASSUME NEW p, NEW e, NEW f, NEW g, NEW w \in On(e), f[<<p, w>>] \in Nat,
           g[<<p, w>>] = f[<<p, w>>] + 1, \A v \in On(e) : v # w => g[<<p, v>>] = f[<<p, v>>],
           IsFiniteSet(Counted(p, e, f))
    PROVE  /\ IsFiniteSet(Counted(p, e, g))
           /\ Cardinality(Counted(p, e, g)) = Cardinality(Counted(p, e, f)) + 1
  <1> DEFINE S == Counted(p, e, f)
             T == Counted(p, e, g)
             x == <<w, f[<<p, w>>] + 1>>
  <1>1. x \notin S
    BY DEF Counted
  <1>2. ASSUME NEW y \in T PROVE y \in S \/ y = x
    <2>1. y = <<y[1], y[2]>> /\ y[1] \in On(e) /\ y[2] \in Nat \ {0} /\ y[2] <= g[<<p, y[1]>>]
      BY DEF Counted
    <2>2. CASE y[1] = w
      BY <2>1, <2>2 DEF Counted
    <2>3. CASE y[1] # w
      BY <2>1, <2>3 DEF Counted
    <2> QED  BY <2>2, <2>3
  <1>3. ASSUME NEW y \in S PROVE y \in T
    <2>1. y = <<y[1], y[2]>> /\ y[1] \in On(e) /\ y[2] \in Nat \ {0} /\ y[2] <= f[<<p, y[1]>>]
      BY DEF Counted
    <2>2. CASE y[1] = w
      BY <2>1, <2>2 DEF Counted
    <2>3. CASE y[1] # w
      BY <2>1, <2>3 DEF Counted
    <2> QED  BY <2>2, <2>3
  <1>4. x \in T
    BY DEF Counted
  <1> HIDE DEF S, T, x
  <1>5. IsFiniteSet(S)
    BY DEF S
  <1>6. IsFiniteSet(T) /\ Cardinality(T) = Cardinality(S) + 1
    BY <1>1, <1>2, <1>3, <1>4, <1>5, OneMore
  <1> QED  BY <1>6 DEF S, T

(* ... or down.                                                            *)
LEMMA CountedDown ==
    ASSUME NEW p, NEW e, NEW f, NEW g, NEW w \in On(e), f[<<p, w>>] \in Nat \ {0},
           g[<<p, w>>] = f[<<p, w>>] - 1, \A v \in On(e) : v # w => g[<<p, v>>] = f[<<p, v>>],
           IsFiniteSet(Counted(p, e, f))
    PROVE  /\ IsFiniteSet(Counted(p, e, g))
           /\ Cardinality(Counted(p, e, g)) = Cardinality(Counted(p, e, f)) - 1
           /\ Cardinality(Counted(p, e, f)) \in Nat
  <1> DEFINE S == Counted(p, e, f)
             T == Counted(p, e, g)
             x == <<w, f[<<p, w>>]>>
  <1>1. x \in S
    BY DEF Counted
  <1>2. ASSUME NEW y \in S, y # x PROVE y \in T
    <2>1. y = <<y[1], y[2]>> /\ y[1] \in On(e) /\ y[2] \in Nat \ {0} /\ y[2] <= f[<<p, y[1]>>]
      BY DEF Counted
    <2>2. CASE y[1] = w
      BY <1>2, <2>1, <2>2 DEF Counted
    <2>3. CASE y[1] # w
      BY <2>1, <2>3 DEF Counted
    <2> QED  BY <2>2, <2>3
  <1>3. ASSUME NEW y \in T PROVE y \in S /\ y # x
    <2>1. y = <<y[1], y[2]>> /\ y[1] \in On(e) /\ y[2] \in Nat \ {0} /\ y[2] <= g[<<p, y[1]>>]
      BY DEF Counted
    <2>2. CASE y[1] = w
      BY <2>1, <2>2 DEF Counted
    <2>3. CASE y[1] # w
      BY <2>1, <2>3 DEF Counted
    <2> QED  BY <2>2, <2>3
  <1> HIDE DEF S, T, x
  <1>5. IsFiniteSet(S)
    BY DEF S
  <1>6. IsFiniteSet(T) /\ Cardinality(T) = Cardinality(S) - 1 /\ Cardinality(S) \in Nat
    BY <1>1, <1>2, <1>3, <1>5, OneLess
  <1> QED  BY <1>6 DEF S, T

(* What the workers of the other process have sent to a device, and what   *)
(* its own workers have taken.                                             *)
SentTo(d) == {x \in On(d[2]) \X Messages(Peer(d[1])) : IsSent(<<Peer(d[1]), x[1]>>, x[2])}
TakenAt(d) == {x \in On(d[2]) \X Messages(Peer(d[1])) : IsTaken(<<d[1], x[1]>>, x[2])}

(* A message that was sent to a device is under way, waits in a queue of   *)
(* the device, or has been taken.                                          *)
BalanceOf(d) ==
    /\ IsFiniteSet(SentTo(d)) /\ IsFiniteSet(TakenAt(d))
    /\ IsFiniteSet(Counted(Peer(d[1]), d[2], net)) /\ IsFiniteSet(Counted(d[1], d[2], rcq))
    /\ Cardinality(SentTo(d)) = Cardinality(Counted(Peer(d[1]), d[2], net))
                                + Cardinality(Counted(d[1], d[2], rcq)) + put_cq[d]
                                + Cardinality(TakenAt(d))

FlowOK == \A p \in Ranks : \A t \in OfRank(p) : FlowOf(t)
Balance == \A d \in Devs : BalanceOf(d)
FlowInv == LiveInv /\ FlowOK /\ Balance

(* The workers of a device are workers of its process.                     *)
LEMMA OnFacts ==
    ASSUME config \in Configs, NEW p \in Ranks, NEW e, NEW w \in On(e)
    PROVE  /\ <<p, w>> \in OfRank(p) /\ <<p, w>> \in Workers /\ Dev(<<p, w>>) = <<p, e>>
           /\ w \in 0 .. NWorkers(config) - 1
  <1>1. w \in 0 .. NWorkers(config) - 1 /\ DeviceIdx(config, w) = e /\ NWorkers(config) \in Nat
    BY CommandLine DEF On
  <1>2. <<p, w>> \in Workers
    BY <1>1 DEF Workers
  <1> QED  BY <1>1, <1>2 DEF OfRank, Dev

(* Where nothing is sent, arrives or is taken, the balance stays.          *)
LEMMA BalanceFrame ==
    ASSUME NEW d, config' = config, BalanceOf(d), put_cq'[d] = put_cq[d],
           \A w \in On(d[2]) : \A m \in Messages(Peer(d[1])) :
              /\ IsSent(<<Peer(d[1]), w>>, m)' <=> IsSent(<<Peer(d[1]), w>>, m)
              /\ IsTaken(<<d[1], w>>, m)' <=> IsTaken(<<d[1], w>>, m),
           \A w \in On(d[2]) : /\ net'[<<Peer(d[1]), w>>] = net[<<Peer(d[1]), w>>]
                               /\ rcq'[<<d[1], w>>] = rcq[<<d[1], w>>]
    PROVE  BalanceOf(d)'
  <1>1. On(d[2])' = On(d[2]) /\ Messages(Peer(d[1]))' = Messages(Peer(d[1]))
    BY DEF On, Messages, Win
  <1>2. SentTo(d)' = SentTo(d)
    BY <1>1 DEF SentTo
  <1>3. TakenAt(d)' = TakenAt(d)
    BY <1>1 DEF TakenAt
  <1>4. Counted(Peer(d[1]), d[2], net)' = Counted(Peer(d[1]), d[2], net)
    BY <1>1 DEF Counted
  <1>5. Counted(d[1], d[2], rcq)' = Counted(d[1], d[2], rcq)
    BY <1>1 DEF Counted
  <1> QED  BY <1>2, <1>3, <1>4, <1>5 DEF BalanceOf

(* A step of a worker leaves what the others have sent and taken.          *)
LEMMA OtherFlow ==
    ASSUME LiveInv, NEW t \in Workers, WorkerStep(t), NEW u \in Workers, u # t
    PROVE  /\ \A m : (IsSent(u, m)' <=> IsSent(u, m)) /\ (IsTaken(u, m)' <=> IsTaken(u, m))
           /\ FlowOf(u)' <=> FlowOf(u)
  <1>1. /\ config' = config
        /\ j'[u] = j[u] /\ iter'[u] = iter[u] /\ size'[u] = size[u]
    BY WorkerMove DEF LiveInv
  <1>2. PICK step \in WorkerSteps : Goto(t, step)
    BY WorkerMove DEF LiveInv
  <1>3. pc'[u] = pc[u]
    BY <1>2 DEF Goto, LiveInv, TypeOK
  <1>4. Win(u[1])' = Win(u[1]) /\ Win(Peer(u[1]))' = Win(Peer(u[1]))
    BY <1>1 DEF Win
  <1>5. /\ net'[u] = net[u] /\ pend'[u] = pend[u] /\ scq'[u] = scq[u]
        /\ rposted'[u] = rposted[u] /\ rcq'[u] = rcq[u]
    BY WorkerMessages DEF LiveInv
  <1>6. SentIn(u)' = SentIn(u) /\ TakenIn(u)' = TakenIn(u)
    BY <1>1, <1>3, <1>4 DEF SentIn, TakenIn
  <1>7. Unsent(u)' = Unsent(u) /\ Awaited(u)' = Awaited(u)
    BY <1>1, <1>3, <1>4 DEF Unsent, Awaited
  <1> QED  BY <1>1, <1>3, <1>5, <1>6, <1>7 DEF IsSent, IsTaken, Passed, FlowOf

(* Only posting sends, and only waiting for a receive takes from a queue.  *)
LEMMA WorkerCounts ==
    ASSUME LiveInv, NEW t \in Workers, WorkerStep(t)
    PROVE  /\ pc[t] # "post_send" => net' = net
           /\ pc[t] = "post_send" => net'[t] = net[t] + 1
           /\ (pc[t] # "wait_recv" => UNCHANGED <<rcq, put_cq>>)
           /\ pc[t] = "wait_recv" =>
                 \/ rcq[t] > 0 /\ rcq'[t] = rcq[t] - 1 /\ put_cq' = put_cq
                 \/ rcq' = rcq /\ put_cq[Dev(t)] > 0 /\ put_cq' = [put_cq EXCEPT ![Dev(t)] = @ - 1]
  <1>1. net \in [Workers -> Nat] /\ rcq \in [Workers -> Nat]
    BY DEF LiveInv, TypeOK
  <1>2. CASE PostRecv(t) \/ WaitSend(t)
    BY <1>2 DEF PostRecv, WaitSend
  <1>3. CASE PostSend(t)
    BY <1>1, <1>3 DEF PostSend
  <1>4. CASE WaitRecv(t)
    BY <1>1, <1>4 DEF WaitRecv
  <1>5. CASE AllocDevice(t) \/ CommDupReturns(t) \/ PassBarrier(t) \/ MpiBarrierReturns(t)
             \/ FreeDevice(t) \/ CommFreeReturns(t) \/ ResetTurn(t)
    BY <1>5 DEF AllocDevice, CommDupReturns, PassBarrier, MpiBarrierReturns, FreeDevice,
                CommFreeReturns, ResetTurn, commVars, WorkerBarriers
  <1> QED  BY <1>2, <1>3, <1>4, <1>5 DEF WorkerStep

(* A worker that sends puts one message under way to its peer's device.    *)
LEMMA BalanceSend ==
    ASSUME LiveInv, NEW t \in Workers, WorkerStep(t), pc[t] = "post_send",
           NEW p \in Ranks, t[1] = Peer(p), NEW e, t[2] \in On(e), BalanceOf(<<p, e>>),
           put_cq[<<p, e>>] \in Nat
    PROVE  BalanceOf(<<p, e>>)'
  <1> DEFINE d == <<p, e>>
             q == Peer(p)
             x == <<t[2], Current(t)>>
  <1>1. config' = config /\ config \in Configs /\ q \in Ranks /\ q # p /\ t = <<q, t[2]>>
    <2>1. config' = config /\ config \in Configs
      BY WorkerMove DEF LiveInv, TypeOK
    <2>2. q \in Ranks /\ q # p /\ t = <<q, t[2]>>
      BY DEF Ranks, Peer, Workers
    <2> QED  BY <2>1, <2>2
  <1>2. On(e)' = On(e) /\ Messages(q)' = Messages(q)
    BY <1>1 DEF On, Messages, Win
  <1>3. d[1] = p /\ d[2] = e
    OBVIOUS
  <1>4. ASSUME NEW w \in On(e)
        PROVE  /\ <<p, w>> \in Workers /\ <<p, w>> # t /\ <<q, w>> \in Workers
               /\ w # t[2] => <<q, w>> # t
    BY <1>1, OnFacts
  <1>5. \A w \in On(e) : w # t[2] => \A m : IsSent(<<q, w>>, m)' <=> IsSent(<<q, w>>, m)
    BY <1>4, OtherFlow
  <1>6. \A w \in On(e) : \A m : IsTaken(<<p, w>>, m)' <=> IsTaken(<<p, w>>, m)
    BY <1>4, OtherFlow
  <1>7. /\ \A m \in Messages(q) : IsSent(t, m)' <=> IsSent(t, m) \/ m = Current(t)
        /\ ~IsSent(t, Current(t)) /\ Current(t) \in Messages(q)
    BY WorkerFlow
  <1>8. TakenAt(d)' = TakenAt(d)
    BY <1>2, <1>6 DEF TakenAt
  <1>9. x \notin SentTo(d) /\ \A y : y \in SentTo(d)' <=> y \in SentTo(d) \/ y = x
    <2>1. x \notin SentTo(d)
      BY <1>1, <1>7 DEF SentTo
    <2>2. ASSUME NEW y \in On(e) \X Messages(q)
          PROVE  IsSent(<<q, y[1]>>, y[2])' <=> IsSent(<<q, y[1]>>, y[2]) \/ y = x
      <3>1. y = <<y[1], y[2]>> /\ y[1] \in On(e) /\ y[2] \in Messages(q)
        OBVIOUS
      <3>2. CASE y[1] = t[2]
        <4>1. <<q, y[1]>> = t
          BY <1>1, <3>2
        <4>2. y = x <=> y[2] = Current(t)
          BY <3>1, <3>2
        <4>3. IsSent(t, y[2])' <=> IsSent(t, y[2]) \/ y[2] = Current(t)
          BY <1>7, <3>1
        <4> QED  BY <4>1, <4>2, <4>3
      <3>3. CASE y[1] # t[2]
        BY <1>5, <3>1, <3>3
      <3> QED  BY <3>2, <3>3
    <2>3. x \in On(e) \X Messages(q)
      BY <1>7
    <2> HIDE DEF x
    <2>4. SentTo(d)' = {y \in On(e) \X Messages(q) : IsSent(<<q, y[1]>>, y[2])'}
      BY <1>2 DEF SentTo
    <2>5. SentTo(d) = {y \in On(e) \X Messages(q) : IsSent(<<q, y[1]>>, y[2])}
      BY DEF SentTo
    <2> HIDE DEF d, q
    <2> QED  BY <2>1, <2>2, <2>3, <2>4, <2>5
  <1>10. PICK g : g = net'
    OBVIOUS
  <1>11. /\ net[<<q, t[2]>>] \in Nat /\ g[<<q, t[2]>>] = net[<<q, t[2]>>] + 1
         /\ \A v \in On(e) : v # t[2] => g[<<q, v>>] = net[<<q, v>>]
    <2>1. net[t] \in Nat
      BY DEF LiveInv, TypeOK
    <2>2. net'[t] = net[t] + 1
      BY WorkerCounts
    <2>3. \A v \in On(e) : v # t[2] => net'[<<q, v>>] = net[<<q, v>>]
      BY <1>4, WorkerMessages DEF LiveInv
    <2> QED  BY <1>1, <1>10, <2>1, <2>2, <2>3
  <1>12. Counted(q, e, net)' = Counted(q, e, g)
    BY <1>2, <1>10 DEF Counted
  <1>13. Counted(p, e, rcq)' = Counted(p, e, rcq) /\ put_cq' = put_cq
    <2>1. rcq' = rcq /\ put_cq' = put_cq
      BY WorkerCounts
    <2> QED  BY <1>2, <2>1 DEF Counted
  <1> HIDE DEF x, d, q
  <1>14. /\ IsFiniteSet(SentTo(d)) /\ IsFiniteSet(TakenAt(d))
         /\ IsFiniteSet(Counted(q, e, net)) /\ IsFiniteSet(Counted(p, e, rcq))
         /\ Cardinality(SentTo(d)) = Cardinality(Counted(q, e, net)) + Cardinality(Counted(p, e, rcq))
                                     + put_cq[d] + Cardinality(TakenAt(d))
    BY <1>3 DEF BalanceOf, d, q
  <1>15. /\ IsFiniteSet(SentTo(d)') /\ Cardinality(SentTo(d)') = Cardinality(SentTo(d)) + 1
    BY <1>9, <1>14, OneMore
  <1>16. /\ IsFiniteSet(Counted(q, e, g))
         /\ Cardinality(Counted(q, e, g)) = Cardinality(Counted(q, e, net)) + 1
    BY <1>11, <1>14, CountedUp
  <1>17. /\ Cardinality(SentTo(d)) \in Nat /\ Cardinality(TakenAt(d)) \in Nat /\ put_cq[d] \in Nat
         /\ Cardinality(Counted(q, e, net)) \in Nat /\ Cardinality(Counted(p, e, rcq)) \in Nat
    BY <1>14, FS_CardinalityType DEF d
  <1>18. /\ IsFiniteSet(SentTo(d)') /\ IsFiniteSet(TakenAt(d)')
         /\ IsFiniteSet(Counted(q, e, net)') /\ IsFiniteSet(Counted(p, e, rcq)')
    BY <1>8, <1>12, <1>13, <1>14, <1>15, <1>16
  <1>19. Cardinality(SentTo(d)') = Cardinality(Counted(q, e, net)') + Cardinality(Counted(p, e, rcq)')
                                   + put_cq'[d] + Cardinality(TakenAt(d)')
    BY <1>8, <1>12, <1>13, <1>14, <1>15, <1>16, <1>17
  <1> QED  BY <1>3, <1>18, <1>19 DEF BalanceOf, d, q

(* A worker that takes a message takes it from a queue of its device.      *)
LEMMA BalanceTake ==
    ASSUME LiveInv, NEW t \in Workers, WorkerStep(t), pc[t] = "wait_recv",
           NEW p \in Ranks, t[1] = p, NEW e, t[2] \in On(e), BalanceOf(<<p, e>>),
           put_cq[<<p, e>>] \in Nat, <<p, e>> \in Ranks \X DeviceIds
    PROVE  BalanceOf(<<p, e>>)'
  <1> DEFINE d == <<p, e>>
             q == Peer(p)
             x == <<t[2], Current(t)>>
  <1>1. config' = config /\ config \in Configs /\ q \in Ranks /\ q # p /\ t = <<p, t[2]>>
    <2>1. config' = config /\ config \in Configs
      BY WorkerMove DEF LiveInv, TypeOK
    <2>2. q \in Ranks /\ q # p /\ t = <<p, t[2]>>
      BY DEF Ranks, Peer, Workers
    <2> QED  BY <2>1, <2>2
  <1>2. On(e)' = On(e) /\ Messages(q)' = Messages(q)
    BY <1>1 DEF On, Messages, Win
  <1>3. d[1] = p /\ d[2] = e
    OBVIOUS
  <1>4. ASSUME NEW w \in On(e)
        PROVE  /\ <<q, w>> \in Workers /\ <<q, w>> # t /\ <<p, w>> \in Workers
               /\ w # t[2] => <<p, w>> # t
    BY <1>1, OnFacts
  <1>5. \A w \in On(e) : w # t[2] => \A m : IsTaken(<<p, w>>, m)' <=> IsTaken(<<p, w>>, m)
    BY <1>4, OtherFlow
  <1>6. \A w \in On(e) : \A m : IsSent(<<q, w>>, m)' <=> IsSent(<<q, w>>, m)
    BY <1>4, OtherFlow
  <1>7. /\ \A m \in Messages(q) : IsTaken(t, m)' <=> IsTaken(t, m) \/ m = Current(t)
        /\ ~IsTaken(t, Current(t)) /\ Current(t) \in Messages(q)
    BY WorkerFlow
  <1>8. SentTo(d)' = SentTo(d)
    BY <1>2, <1>6 DEF SentTo
  <1>9. x \notin TakenAt(d) /\ \A y : y \in TakenAt(d)' <=> y \in TakenAt(d) \/ y = x
    <2>1. x \notin TakenAt(d)
      BY <1>1, <1>7 DEF TakenAt
    <2>2. ASSUME NEW y \in On(e) \X Messages(q)
          PROVE  IsTaken(<<p, y[1]>>, y[2])' <=> IsTaken(<<p, y[1]>>, y[2]) \/ y = x
      <3>1. y = <<y[1], y[2]>> /\ y[1] \in On(e) /\ y[2] \in Messages(q)
        OBVIOUS
      <3>2. CASE y[1] = t[2]
        <4>1. <<p, y[1]>> = t
          BY <1>1, <3>2
        <4>2. y = x <=> y[2] = Current(t)
          BY <3>1, <3>2
        <4>3. IsTaken(t, y[2])' <=> IsTaken(t, y[2]) \/ y[2] = Current(t)
          BY <1>7, <3>1
        <4> QED  BY <4>1, <4>2, <4>3
      <3>3. CASE y[1] # t[2]
        BY <1>5, <3>1, <3>3
      <3> QED  BY <3>2, <3>3
    <2>3. x \in On(e) \X Messages(q)
      BY <1>7
    <2> HIDE DEF x
    <2>4. TakenAt(d)' = {y \in On(e) \X Messages(q) : IsTaken(<<p, y[1]>>, y[2])'}
      BY <1>2 DEF TakenAt
    <2>5. TakenAt(d) = {y \in On(e) \X Messages(q) : IsTaken(<<p, y[1]>>, y[2])}
      BY DEF TakenAt
    <2> HIDE DEF d, q
    <2> QED  BY <2>1, <2>2, <2>3, <2>4, <2>5
  <1>10. Counted(q, e, net)' = Counted(q, e, net)
    <2>1. net' = net
      BY WorkerCounts
    <2> QED  BY <1>2, <2>1 DEF Counted
  <1>11. /\ IsFiniteSet(SentTo(d)) /\ IsFiniteSet(TakenAt(d))
         /\ IsFiniteSet(Counted(q, e, net)) /\ IsFiniteSet(Counted(p, e, rcq))
         /\ Cardinality(SentTo(d)) = Cardinality(Counted(q, e, net)) + Cardinality(Counted(p, e, rcq))
                                     + put_cq[d] + Cardinality(TakenAt(d))
    BY <1>3 DEF BalanceOf
  <1>12. /\ IsFiniteSet(Counted(p, e, rcq)') /\ put_cq'[d] \in Int /\ Cardinality(Counted(p, e, rcq)') \in Int
         /\ Cardinality(Counted(p, e, rcq)') + put_cq'[d] = Cardinality(Counted(p, e, rcq)) + put_cq[d] - 1
    <2>1. CASE rcq[t] > 0 /\ rcq'[t] = rcq[t] - 1 /\ put_cq' = put_cq
      <3>1. PICK g : g = rcq'
        OBVIOUS
      <3>2. /\ rcq[<<p, t[2]>>] \in Nat \ {0} /\ g[<<p, t[2]>>] = rcq[<<p, t[2]>>] - 1
            /\ \A v \in On(e) : v # t[2] => g[<<p, v>>] = rcq[<<p, v>>]
        <4>1. rcq[t] \in Nat \ {0}
          BY <2>1 DEF LiveInv, TypeOK
        <4>2. \A v \in On(e) : v # t[2] => rcq'[<<p, v>>] = rcq[<<p, v>>]
          BY <1>4, WorkerMessages DEF LiveInv
        <4> QED  BY <1>1, <2>1, <3>1, <4>1, <4>2
      <3>3. Counted(p, e, rcq)' = Counted(p, e, g)
        BY <1>2, <3>1 DEF Counted
      <3>4. /\ IsFiniteSet(Counted(p, e, g)) /\ Cardinality(Counted(p, e, rcq)) \in Nat
            /\ Cardinality(Counted(p, e, g)) = Cardinality(Counted(p, e, rcq)) - 1
        BY <1>11, <3>2, CountedDown
      <3> QED  BY <2>1, <3>3, <3>4
    <2>2. CASE rcq' = rcq /\ put_cq[Dev(t)] > 0 /\ put_cq' = [put_cq EXCEPT ![Dev(t)] = @ - 1]
      <3>1. Dev(t) = d
        BY <1>1, OnFacts
      <3>2. put_cq'[d] = put_cq[d] - 1
        BY <2>2, <3>1 DEF LiveInv, TypeOK
      <3>3. Counted(p, e, rcq)' = Counted(p, e, rcq)
        BY <1>2, <2>2 DEF Counted
      <3>4. Cardinality(Counted(p, e, rcq)) \in Nat
        BY <1>11, FS_CardinalityType
      <3> QED  BY <1>11, <3>2, <3>3, <3>4
    <2> QED  BY <2>1, <2>2, WorkerCounts
  <1> HIDE DEF x, d, q
  <1>13. IsFiniteSet(TakenAt(d)') /\ Cardinality(TakenAt(d)') = Cardinality(TakenAt(d)) + 1
    BY <1>9, <1>11, OneMore
  <1>14. /\ Cardinality(SentTo(d)) \in Nat /\ Cardinality(TakenAt(d)) \in Nat /\ put_cq[d] \in Nat
         /\ Cardinality(Counted(q, e, net)) \in Nat /\ Cardinality(Counted(p, e, rcq)) \in Nat
    BY <1>11, FS_CardinalityType DEF d
  <1>15. /\ IsFiniteSet(SentTo(d)') /\ IsFiniteSet(TakenAt(d)')
         /\ IsFiniteSet(Counted(q, e, net)') /\ IsFiniteSet(Counted(p, e, rcq)')
    BY <1>8, <1>10, <1>11, <1>12, <1>13
  <1>16. Cardinality(SentTo(d)') = Cardinality(Counted(q, e, net)') + Cardinality(Counted(p, e, rcq)')
                                   + put_cq'[d] + Cardinality(TakenAt(d)')
    BY <1>8, <1>10, <1>11, <1>12, <1>13, <1>14
  <1> QED  BY <1>3, <1>15, <1>16 DEF BalanceOf, d, q

(* A step of a worker keeps the balance of every device.                   *)
LEMMA BalanceWorker ==
    ASSUME FlowInv, NEW t \in Workers, WorkerStep(t)
    PROVE  FlowOK' /\ Balance'
  <1>1. LiveInv /\ config' = config /\ config \in Configs /\ t[1] \in Ranks /\ t \in OfRank(t[1])
    BY WorkerMove DEF FlowInv, LiveInv, TypeOK
  <1>2. FlowOK'
    <2>1. \A u \in Workers : FlowOf(u) => FlowOf(u)'
      BY <1>1, OtherFlow, WorkerFlow
    <2>2. \A p : OfRank(p)' = OfRank(p) /\ OfRank(p) \subseteq Workers
      BY <1>1 DEF OfRank
    <2> QED  BY <2>1, <2>2 DEF FlowInv, FlowOK
  <1>3. ASSUME NEW d \in Devs PROVE BalanceOf(d)'
    <2>1. /\ d = <<d[1], d[2]>> /\ d[1] \in Ranks /\ Peer(d[1]) \in Ranks /\ Peer(d[1]) # d[1]
          /\ d[2] \in 0 .. config.ndevices - 1 /\ Peer(Peer(d[1])) = d[1]
      BY DEF Devs, Ranks, Peer
    <2>2. d \in Ranks \X DeviceIds
      BY <1>1, <2>1 DEF DeviceIds
    <2>3. put_cq[d] \in Nat /\ BalanceOf(d)
      BY <1>1, <2>2 DEF FlowInv, Balance, LiveInv, TypeOK
    <2>4. CASE pc[t] = "post_send" /\ t[1] = Peer(d[1]) /\ t[2] \in On(d[2])
      BY <1>1, <2>1, <2>3, <2>4, BalanceSend
    <2>5. CASE pc[t] = "wait_recv" /\ t[1] = d[1] /\ t[2] \in On(d[2])
      BY <1>1, <2>1, <2>2, <2>3, <2>5, BalanceTake
    <2>6. CASE /\ ~(pc[t] = "post_send" /\ t[1] = Peer(d[1]) /\ t[2] \in On(d[2]))
               /\ ~(pc[t] = "wait_recv" /\ t[1] = d[1] /\ t[2] \in On(d[2]))
      <3>1. ASSUME NEW w \in On(d[2]), NEW p \in Ranks
            PROVE  <<p, w>> \in Workers /\ (<<p, w>> = t => t[1] = p /\ t[2] \in On(d[2]))
        BY <1>1, OnFacts
      <3>2. ASSUME NEW w \in On(d[2])
            PROVE  /\ \A m \in Messages(Peer(d[1])) :
                         IsSent(<<Peer(d[1]), w>>, m)' <=> IsSent(<<Peer(d[1]), w>>, m)
                   /\ net'[<<Peer(d[1]), w>>] = net[<<Peer(d[1]), w>>]
        <4>1. PICK u \in Workers : u = <<Peer(d[1]), w>>
          BY <2>1, <3>1
        <4>2. CASE u # t
          <5>1. \A m : IsSent(u, m)' <=> IsSent(u, m)
            BY <1>1, <4>2, OtherFlow
          <5>2. net'[u] = net[u]
            BY <1>1, <4>2, WorkerMessages DEF LiveInv
          <5> QED  BY <4>1, <5>1, <5>2
        <4>3. CASE u = t
          <5>1. t[1] = Peer(d[1]) /\ t[2] \in On(d[2])
            BY <2>1, <3>1, <4>1, <4>3
          <5>2. pc[t] # "post_send"
            BY <2>6, <5>1
          <5>3. \A m \in Messages(Peer(d[1])) : IsSent(t, m)' <=> IsSent(t, m)
            BY <1>1, <5>1, <5>2, WorkerFlow
          <5>4. net' = net
            BY <1>1, <5>2, WorkerCounts
          <5> QED  BY <4>1, <4>3, <5>3, <5>4
        <4> QED  BY <4>2, <4>3
      <3>3. ASSUME NEW w \in On(d[2])
            PROVE  /\ \A m \in Messages(Peer(d[1])) :
                         IsTaken(<<d[1], w>>, m)' <=> IsTaken(<<d[1], w>>, m)
                   /\ rcq'[<<d[1], w>>] = rcq[<<d[1], w>>]
        <4>1. PICK u \in Workers : u = <<d[1], w>>
          BY <2>1, <3>1
        <4>2. CASE u # t
          <5>1. \A m : IsTaken(u, m)' <=> IsTaken(u, m)
            BY <1>1, <4>2, OtherFlow
          <5>2. rcq'[u] = rcq[u]
            BY <1>1, <4>2, WorkerMessages DEF LiveInv
          <5> QED  BY <4>1, <5>1, <5>2
        <4>3. CASE u = t
          <5>1. t[1] = d[1] /\ t[2] \in On(d[2])
            BY <2>1, <3>1, <4>1, <4>3
          <5>2. pc[t] # "wait_recv"
            BY <2>6, <5>1
          <5>3. \A m \in Messages(Peer(d[1])) : IsTaken(t, m)' <=> IsTaken(t, m)
            BY <1>1, <5>1, <5>2, WorkerFlow
          <5>4. rcq' = rcq
            BY <1>1, <5>2, WorkerCounts
          <5> QED  BY <4>1, <4>3, <5>3, <5>4
        <4> QED  BY <4>2, <4>3
      <3>4. put_cq'[d] = put_cq[d]
        <4>1. CASE pc[t] # "wait_recv"
          <5>1. put_cq' = put_cq
            BY <1>1, <4>1, WorkerCounts
          <5> QED  BY <5>1
        <4>2. CASE pc[t] = "wait_recv"
          <5>1. Dev(t) # d
            <6> SUFFICES ASSUME Dev(t) = d PROVE FALSE
              OBVIOUS
            <6>1. t[2] \in 0 .. NWorkers(config) - 1
              BY <1>1, WorkerFacts
            <6>2. t[1] = d[1] /\ DeviceIdx(config, t[2]) = d[2]
              BY <2>1 DEF Dev
            <6> QED  BY <2>6, <4>2, <6>1, <6>2 DEF On
          <5>2. put_cq' = put_cq \/ put_cq' = [put_cq EXCEPT ![Dev(t)] = @ - 1]
            BY <1>1, <4>2, WorkerCounts
          <5>3. put_cq \in [Ranks \X DeviceIds -> Nat]
            BY <1>1 DEF LiveInv, TypeOK
          <5> QED  BY <2>2, <5>1, <5>2, <5>3
        <4> QED  BY <4>1, <4>2
      <3> QED  BY <1>1, <2>3, <3>2, <3>3, <3>4, BalanceFrame
    <2> QED  BY <2>4, <2>5, <2>6
  <1>4. Devs' = Devs
    BY <1>1 DEF Devs
  <1> QED  BY <1>2, <1>3, <1>4 DEF Balance

(* A message arrives on the device of the peer: the communicators of two   *)
(* devices are the same only if their numbers are.                         *)
LEMMA ArrivesAtPeer ==
    ASSUME LiveInv, NEW t \in Workers, NEW d \in Devs, Arrives(t, d)
    PROVE  /\ t[1] \in Ranks /\ t = <<t[1], t[2]>> /\ d = <<Peer(t[1]), d[2]>>
           /\ t[2] \in On(d[2]) /\ d \in Ranks \X DeviceIds
  <1>1. config \in Configs /\ net \in [Workers -> Nat] /\ d[1] = Peer(t[1]) /\ net[t] > 0
        /\ device[d].comm = device[Dev(t)].comm /\ device[d].state = "alive"
    BY DEF LiveInv, TypeOK, Arrives
  <1>2. t[1] \in Ranks /\ t = <<t[1], t[2]>> /\ t \in OfRank(t[1])
    <2>1. t[1] \in Ranks /\ t = <<t[1], t[2]>>
      BY DEF Workers
    <2>2. ~IdleOf(t)
      BY <1>1 DEF IdleOf
    <2> QED  BY <2>1, <2>2 DEF LiveInv, WorkersOK
  <1>3. d = <<d[1], d[2]>> /\ d[1] \in Ranks /\ d[2] \in 0 .. config.ndevices - 1
    BY DEF Devs
  <1>4. PICK o \in OfRank(d[1]) : IsOwner(o) /\ Dev(o) = d
    BY <1>1, SomeOwner
  <1>5. device[d].comm = d[2] + 1
    <2>1. DeviceOf(o)
      BY <1>3, <1>4 DEF LiveInv, OwnersOK
    <2> QED  BY <1>1, <1>4, <2>1 DEF DeviceOf, Allocs
  <1>6. /\ Dev(t) = <<t[1], DeviceIdx(config, t[2])>> /\ t[2] \in 0 .. NWorkers(config) - 1
        /\ DeviceIdx(config, t[2]) \in 0 .. config.ndevices - 1
    <2>1. Dev(t)[2] \in 0 .. config.ndevices - 1 /\ t[2] \in 0 .. NWorkers(config) - 1
      BY <1>1, <1>2, WorkerFacts
    <2> QED  BY <2>1 DEF Dev
  <1>7. device[Dev(t)].comm \in {0, DeviceIdx(config, t[2]) + 1}
    <2>1. PICK e : e = <<t[1], DeviceIdx(config, t[2])>>
      OBVIOUS
    <2>2. e \in Devs /\ e[1] = t[1] /\ e[2] = DeviceIdx(config, t[2])
      BY <1>2, <1>6, <2>1 DEF Devs
    <2>3. PICK u \in OfRank(t[1]) : IsOwner(u) /\ Dev(u) = e
      BY <1>1, <2>2, SomeOwner
    <2>4. DeviceOf(u)
      BY <1>2, <2>3 DEF LiveInv, OwnersOK
    <2> QED  BY <1>6, <2>1, <2>2, <2>3, <2>4 DEF DeviceOf
  <1>8. DeviceIdx(config, t[2]) = d[2]
    <2>1. config.ndevices \in Nat
      BY <1>1, ConfigsAssumption
    <2>2. PICK k \in 0 .. config.ndevices - 1 : k = DeviceIdx(config, t[2])
      BY <1>6
    <2>3. PICK l \in 0 .. config.ndevices - 1 : l = d[2]
      BY <1>3
    <2>4. l + 1 \in {0, k + 1}
      BY <1>1, <1>5, <1>7, <2>2, <2>3
    <2>5. k = l
      BY <2>1, <2>4
    <2> QED  BY <2>2, <2>3, <2>5
  <1>9. d \in Ranks \X DeviceIds
    BY <1>1, <1>3 DEF DeviceIds
  <1> QED  BY <1>1, <1>2, <1>3, <1>6, <1>8, <1>9 DEF On

(* What workers have sent, taken and wait for changes only when they move. *)
LEMMA ThreadsStay ==
    ASSUME UNCHANGED <<config, threadVars>>
    PROVE  /\ \A t, m : (IsSent(t, m)' <=> IsSent(t, m)) /\ (IsTaken(t, m)' <=> IsTaken(t, m))
           /\ \A t : Unsent(t)' = Unsent(t) /\ Awaited(t)' = Awaited(t)
           /\ (\A e : On(e)' = On(e)) /\ (\A p : Messages(p)' = Messages(p))
           /\ (\A p : OfRank(p)' = OfRank(p)) /\ Devs' = Devs
           /\ \A d : SentTo(d)' = SentTo(d) /\ TakenAt(d)' = TakenAt(d)
  <1>1. (\A e : On(e)' = On(e)) /\ (\A p : Messages(p)' = Messages(p))
    BY DEF On, Messages, Win
  <1>2. \A t, m : (IsSent(t, m)' <=> IsSent(t, m)) /\ (IsTaken(t, m)' <=> IsTaken(t, m))
    BY DEF threadVars, IsSent, IsTaken, Passed, SentIn, TakenIn, Win
  <1>3. \A t : Unsent(t)' = Unsent(t) /\ Awaited(t)' = Awaited(t)
    BY DEF threadVars, Unsent, Awaited, Win
  <1>4. (\A p : OfRank(p)' = OfRank(p)) /\ Devs' = Devs
    BY DEF OfRank, Devs
  <1>5. \A d : SentTo(d)' = SentTo(d) /\ TakenAt(d)' = TakenAt(d)
    BY <1>1, <1>2 DEF SentTo, TakenAt
  <1> QED  BY <1>1, <1>2, <1>3, <1>4, <1>5

(* A message that arrives goes from under way into a queue of the device.  *)
LEMMA BalanceArrives ==
    ASSUME FlowInv, NEW t \in Workers, NEW d \in Devs, Arrives(t, d)
    PROVE  FlowOK' /\ Balance'
  <1>1. LiveInv /\ UNCHANGED <<config, threadVars>> /\ config \in Configs
    BY DEF FlowInv, Arrives, LiveInv, TypeOK
  <1>2. /\ t[1] \in Ranks /\ t = <<t[1], t[2]>> /\ d = <<Peer(t[1]), d[2]>>
        /\ t[2] \in On(d[2]) /\ d \in Ranks \X DeviceIds
    BY <1>1, ArrivesAtPeer
  <1> DEFINE p == Peer(t[1])
             q == t[1]
             e == d[2]
             r == <<p, t[2]>>
  <1>3. p \in Ranks /\ q \in Ranks /\ p # q /\ Peer(p) = q /\ d = <<p, e>> /\ t = <<q, t[2]>> /\ d[1] = p
    BY <1>2 DEF Peer, Ranks
  <1>4. /\ rposted \in [Workers -> Nat] /\ net \in [Workers -> Nat] /\ rcq \in [Workers -> Nat]
        /\ put_cq \in [Ranks \X DeviceIds -> Nat] /\ r \in Workers /\ net[t] > 0
        /\ net' = [net EXCEPT ![t] = @ - 1] /\ UNCHANGED <<pend, scq>>
    <2>1. r \in Workers
      BY <1>1, <1>2, <1>3, OnFacts
    <2> QED  BY <1>1, <2>1 DEF LiveInv, TypeOK, Arrives
  <1>5. \/ /\ rposted[r] > 0 /\ rposted' = [rposted EXCEPT ![r] = @ - 1]
           /\ rcq' = [rcq EXCEPT ![r] = @ + 1] /\ put_cq' = put_cq
        \/ rposted' = rposted /\ rcq' = rcq /\ put_cq' = [put_cq EXCEPT ![d] = @ + 1]
    BY DEF Arrives
  <1> HIDE DEF p, q, e, r
  <1>6. FlowOK'
    <2>1. ASSUME NEW u \in Workers, FlowOf(u) PROVE FlowOf(u)'
      <3>1. rposted'[u] + rcq'[u] = rposted[u] + rcq[u]
        <4>1. CASE rposted' = rposted /\ rcq' = rcq
          BY <4>1
        <4>2. CASE /\ rposted[r] > 0 /\ rposted' = [rposted EXCEPT ![r] = @ - 1]
                   /\ rcq' = [rcq EXCEPT ![r] = @ + 1]
          <5>1. rposted[r] \in Nat /\ rcq[r] \in Nat
            BY <1>4
          <5>2. CASE u = r
            BY <1>4, <4>2, <5>1, <5>2
          <5>3. CASE u # r
            BY <1>4, <4>2, <5>3
          <5> QED  BY <5>2, <5>3
        <4> QED  BY <1>5, <4>1, <4>2
      <3>2. Unsent(u)' = Unsent(u) /\ Awaited(u)' = Awaited(u)
        BY <1>1, ThreadsStay
      <3> QED  BY <1>4, <2>1, <3>1, <3>2 DEF FlowOf
    <2>2. \A k : OfRank(k)' = OfRank(k) /\ OfRank(k) \subseteq Workers
      BY <1>1, ThreadsStay DEF OfRank
    <2> QED  BY <2>1, <2>2 DEF FlowInv, FlowOK
  <1>7. ASSUME NEW c \in Devs, c # d PROVE BalanceOf(c)'
    <2>1. c = <<c[1], c[2]>> /\ c[1] \in Ranks /\ Peer(c[1]) \in Ranks /\ BalanceOf(c)
      BY DEF Devs, FlowInv, Balance, Peer, Ranks
    <2>2. ASSUME NEW w \in On(c[2])
          PROVE  /\ <<Peer(c[1]), w>> # t /\ <<c[1], w>> # r
                 /\ <<Peer(c[1]), w>> \in Workers /\ <<c[1], w>> \in Workers
      <3>1. <<Peer(c[1]), w>> \in Workers /\ <<c[1], w>> \in Workers
        BY <1>1, <2>1, OnFacts
      <3>2. w = t[2] => c[2] = e
        BY <1>2 DEF On, e
      <3>3. Peer(c[1]) = q => c[1] = p
        BY <1>3, <2>1 DEF Peer, Ranks
      <3>4. <<Peer(c[1]), w>> # t
        BY <1>3, <1>7, <2>1, <3>2, <3>3
      <3>5. <<c[1], w>> # r
        BY <1>3, <1>7, <2>1, <3>2 DEF r
      <3> QED  BY <3>1, <3>4, <3>5
    <2>3. \A w \in On(c[2]) : /\ net'[<<Peer(c[1]), w>>] = net[<<Peer(c[1]), w>>]
                              /\ rcq'[<<c[1], w>>] = rcq[<<c[1], w>>]
      BY <1>4, <1>5, <2>2
    <2>4. put_cq'[c] = put_cq[c]
      <3>1. c \in Ranks \X DeviceIds
        BY <1>1 DEF Devs, DeviceIds
      <3> QED  BY <1>4, <1>5, <1>7, <3>1
    <2>5. \A u, m : (IsSent(u, m)' <=> IsSent(u, m)) /\ (IsTaken(u, m)' <=> IsTaken(u, m))
      BY <1>1, ThreadsStay
    <2> QED  BY <1>1, <2>1, <2>3, <2>4, <2>5, BalanceFrame
  <1>8. BalanceOf(d)'
    <2>1. /\ IsFiniteSet(SentTo(d)) /\ IsFiniteSet(TakenAt(d))
          /\ IsFiniteSet(Counted(q, e, net)) /\ IsFiniteSet(Counted(p, e, rcq))
          /\ Cardinality(SentTo(d)) = Cardinality(Counted(q, e, net)) + Cardinality(Counted(p, e, rcq))
                                      + put_cq[d] + Cardinality(TakenAt(d))
      <3>1. BalanceOf(d)
        BY DEF FlowInv, Balance
      <3> QED  BY <1>3, <3>1 DEF BalanceOf, e
    <2>2. SentTo(d)' = SentTo(d) /\ TakenAt(d)' = TakenAt(d) /\ On(e)' = On(e)
      BY <1>1, ThreadsStay
    <2>3. /\ IsFiniteSet(Counted(q, e, net)') /\ Cardinality(Counted(q, e, net)) \in Nat
          /\ Cardinality(Counted(q, e, net)') = Cardinality(Counted(q, e, net)) - 1
      <3>1. PICK g : g = net'
        OBVIOUS
      <3>2. /\ net[<<q, t[2]>>] \in Nat \ {0} /\ g[<<q, t[2]>>] = net[<<q, t[2]>>] - 1
            /\ \A v \in On(e) : v # t[2] => g[<<q, v>>] = net[<<q, v>>]
        <4>1. net[t] \in Nat \ {0} /\ net'[t] = net[t] - 1
          BY <1>4
        <4>2. ASSUME NEW v \in On(e), v # t[2] PROVE net'[<<q, v>>] = net[<<q, v>>]
          <5>1. <<q, v>> \in Workers
            BY <1>1, <1>3, OnFacts
          <5>2. <<q, v>> # t
            BY <1>3, <4>2
          <5> QED  BY <1>4, <5>1, <5>2
        <4> QED  BY <1>3, <3>1, <4>1, <4>2
      <3>3. Counted(q, e, net)' = Counted(q, e, g)
        BY <2>2, <3>1 DEF Counted
      <3>4. t[2] \in On(e)
        BY <1>2 DEF e
      <3>5. /\ IsFiniteSet(Counted(q, e, g)) /\ Cardinality(Counted(q, e, net)) \in Nat
            /\ Cardinality(Counted(q, e, g)) = Cardinality(Counted(q, e, net)) - 1
        BY <2>1, <3>2, <3>4, CountedDown
      <3> QED  BY <3>3, <3>5
    <2>4. put_cq[d] \in Nat /\ Cardinality(Counted(p, e, rcq)) \in Nat
      BY <1>2, <1>4, <2>1, FS_CardinalityType
    <2>5. /\ IsFiniteSet(Counted(p, e, rcq)') /\ Cardinality(Counted(p, e, rcq)') \in Int /\ put_cq'[d] \in Int
          /\ Cardinality(Counted(p, e, rcq)') + put_cq'[d] = Cardinality(Counted(p, e, rcq)) + put_cq[d] + 1
      <3>1. CASE rcq' = [rcq EXCEPT ![r] = @ + 1] /\ put_cq' = put_cq
        <4>1. PICK g : g = rcq'
          OBVIOUS
        <4>2. /\ rcq[<<p, t[2]>>] \in Nat /\ g[<<p, t[2]>>] = rcq[<<p, t[2]>>] + 1
              /\ \A v \in On(e) : v # t[2] => g[<<p, v>>] = rcq[<<p, v>>]
          <5>1. rcq[r] \in Nat /\ rcq'[r] = rcq[r] + 1
            BY <1>4, <3>1
          <5>2. ASSUME NEW v \in On(e), v # t[2] PROVE rcq'[<<p, v>>] = rcq[<<p, v>>]
            <6>1. <<p, v>> \in Workers
              BY <1>1, <1>3, OnFacts
            <6>2. <<p, v>> # r
              BY <5>2 DEF r
            <6> QED  BY <1>4, <3>1, <6>1, <6>2
          <5> QED  BY <4>1, <5>1, <5>2 DEF r
        <4>3. Counted(p, e, rcq)' = Counted(p, e, g)
          BY <2>2, <4>1 DEF Counted
        <4>4. t[2] \in On(e)
          BY <1>2 DEF e
        <4>5. /\ IsFiniteSet(Counted(p, e, g))
              /\ Cardinality(Counted(p, e, g)) = Cardinality(Counted(p, e, rcq)) + 1
          BY <2>1, <4>2, <4>4, CountedUp
        <4> QED  BY <2>4, <3>1, <4>3, <4>5
      <3>2. CASE rcq' = rcq /\ put_cq' = [put_cq EXCEPT ![d] = @ + 1]
        <4>1. put_cq'[d] = put_cq[d] + 1
          BY <1>2, <1>4, <3>2
        <4>2. Counted(p, e, rcq)' = Counted(p, e, rcq)
          BY <2>2, <3>2 DEF Counted
        <4> QED  BY <2>1, <2>4, <4>1, <4>2
      <3> QED  BY <1>5, <3>1, <3>2
    <2>6. Cardinality(SentTo(d)) \in Nat /\ Cardinality(TakenAt(d)) \in Nat
      BY <2>1, FS_CardinalityType
    <2>7. Cardinality(SentTo(d)') = Cardinality(Counted(q, e, net)') + Cardinality(Counted(p, e, rcq)')
                                    + put_cq'[d] + Cardinality(TakenAt(d)')
      BY <2>1, <2>2, <2>3, <2>4, <2>5, <2>6
    <2> QED  BY <1>3, <2>1, <2>2, <2>3, <2>5, <2>7 DEF BalanceOf, e
  <1>9. Devs' = Devs
    BY <1>1, ThreadsStay
  <1> QED  BY <1>6, <1>7, <1>8, <1>9 DEF Balance

(* The other steps leave messages alone, or complete a send.               *)
LEMMA BalanceStays ==
    ASSUME FlowInv, UNCHANGED <<config, threadVars, net, rcq, put_cq>>,
           \A t \in Workers : pend'[t] + scq'[t] = pend[t] + scq[t] /\ rposted'[t] = rposted[t]
    PROVE  FlowOK' /\ Balance'
  <1>1. FlowOK'
    <2>1. ASSUME NEW u \in Workers, FlowOf(u) PROVE FlowOf(u)'
      <3>1. Unsent(u)' = Unsent(u) /\ Awaited(u)' = Awaited(u)
        BY ThreadsStay
      <3> QED  BY <2>1, <3>1 DEF FlowOf
    <2>2. \A k : OfRank(k)' = OfRank(k) /\ OfRank(k) \subseteq Workers
      BY ThreadsStay DEF OfRank
    <2> QED  BY <2>1, <2>2 DEF FlowInv, FlowOK
  <1>2. \A u, m : (IsSent(u, m)' <=> IsSent(u, m)) /\ (IsTaken(u, m)' <=> IsTaken(u, m))
    BY ThreadsStay
  <1>3. ASSUME NEW d \in Devs PROVE BalanceOf(d)'
    <2>1. BalanceOf(d)
      BY DEF FlowInv, Balance
    <2> QED  BY <1>2, <2>1, BalanceFrame
  <1>4. Devs' = Devs
    BY ThreadsStay
  <1> QED  BY <1>1, <1>3, <1>4 DEF Balance

(* Nothing has been sent at first.                                         *)
LEMMA FlowInit ==
    ASSUME Init
    PROVE  FlowInv
  <1>1. LiveInv
    BY LiveInit
  <1>2. config \in Configs /\ niters \in Nat \ {0} /\ nsizes \in Nat \ {0}
    BY ConfigsAssumption DEF Init
  <1>3. ASSUME NEW p \in Ranks, NEW t \in OfRank(p)
        PROVE  /\ t \in Workers /\ pc[t] \in {"alloc", "all1"} /\ size[t] = 0 /\ iter[t] = 0
               /\ pend[t] = 0 /\ scq[t] = 0 /\ rposted[t] = 0 /\ rcq[t] = 0 /\ net[t] = 0
    BY DEF Init, OfRank, Zero
  <1>4. FlowOK
    BY <1>3 DEF FlowOK, FlowOf, Unsent, Awaited
  <1>5. ASSUME NEW d \in Devs PROVE BalanceOf(d)
    <2>1. d[1] \in Ranks /\ Peer(d[1]) \in Ranks /\ d \in Ranks \X DeviceIds
      BY <1>2 DEF Devs, Peer, Ranks, DeviceIds
    <2>2. \A w \in On(d[2]) : /\ <<Peer(d[1]), w>> \in OfRank(Peer(d[1]))
                              /\ <<d[1], w>> \in OfRank(d[1])
      BY <1>2, <2>1, OnFacts
    <2>3. \A m \in Messages(Peer(d[1])) : m[1] \in Nat /\ m[2] \in Nat /\ m[3] \in Nat
      BY <1>2 DEF Messages
    <2>4. SentTo(d) = {}
      <3> SUFFICES ASSUME NEW w \in On(d[2]), NEW m \in Messages(Peer(d[1])),
                          IsSent(<<Peer(d[1]), w>>, m)
                   PROVE  FALSE
        BY DEF SentTo
      <3>1. PICK u \in OfRank(Peer(d[1])) : u = <<Peer(d[1]), w>>
        BY <2>2
      <3>2. pc[u] \in {"alloc", "all1"} /\ size[u] = 0 /\ iter[u] = 0
        BY <1>3, <2>1
      <3>3. IsSent(u, m)
        BY <3>1
      <3> QED  BY <2>3, <3>2, <3>3 DEF IsSent, Passed, SentIn, Ended
    <2>5. TakenAt(d) = {}
      <3> SUFFICES ASSUME NEW w \in On(d[2]), NEW m \in Messages(Peer(d[1])),
                          IsTaken(<<d[1], w>>, m)
                   PROVE  FALSE
        BY DEF TakenAt
      <3>1. PICK u \in OfRank(d[1]) : u = <<d[1], w>>
        BY <2>2
      <3>2. pc[u] \in {"alloc", "all1"} /\ size[u] = 0 /\ iter[u] = 0
        BY <1>3, <2>1
      <3>3. IsTaken(u, m)
        BY <3>1
      <3> QED  BY <2>3, <3>2, <3>3 DEF IsTaken, Passed, TakenIn, Ended
    <2>6. Counted(Peer(d[1]), d[2], net) = {} /\ Counted(d[1], d[2], rcq) = {}
      <3>1. \A w \in On(d[2]) : net[<<Peer(d[1]), w>>] = 0 /\ rcq[<<d[1], w>>] = 0
        BY <1>3, <2>1, <2>2
      <3>2. ASSUME NEW x \in Counted(Peer(d[1]), d[2], net) PROVE FALSE
        <4>1. x[1] \in On(d[2]) /\ x[2] \in Nat \ {0} /\ x[2] <= net[<<Peer(d[1]), x[1]>>]
          BY DEF Counted
        <4>2. net[<<Peer(d[1]), x[1]>>] = 0
          BY <3>1, <4>1
        <4> QED  BY <4>1, <4>2
      <3>3. ASSUME NEW x \in Counted(d[1], d[2], rcq) PROVE FALSE
        <4>1. x[1] \in On(d[2]) /\ x[2] \in Nat \ {0} /\ x[2] <= rcq[<<d[1], x[1]>>]
          BY DEF Counted
        <4>2. rcq[<<d[1], x[1]>>] = 0
          BY <3>1, <4>1
        <4> QED  BY <4>1, <4>2
      <3> QED  BY <3>2, <3>3
    <2>7. put_cq[d] = 0
      BY <2>1 DEF Init, Zero
    <2>8. IsFiniteSet({}) /\ Cardinality({}) = 0
      BY FS_EmptySet
    <2> QED  BY <2>4, <2>5, <2>6, <2>7, <2>8 DEF BalanceOf
  <1> QED  BY <1>1, <1>4, <1>5 DEF FlowInv, Balance

(* Every step keeps the books.                                             *)
LEMMA FlowNext ==
    ASSUME FlowInv, [Next]_vars
    PROVE  FlowInv'
  <1>1. LiveInv'
    BY LiveNext DEF FlowInv
  <1>2. ASSUME NEW t \in Workers, WorkerStep(t) PROVE FlowOK' /\ Balance'
    BY <1>2, BalanceWorker
  <1>3. ASSUME NEW t \in Workers, SendCompletes(t) PROVE FlowOK' /\ Balance'
    <2>1. pend \in [Workers -> Nat] /\ scq \in [Workers -> Nat]
      BY DEF FlowInv, LiveInv, TypeOK
    <2>2. /\ pend' = [pend EXCEPT ![t] = @ - 1] /\ scq' = [scq EXCEPT ![t] = @ + 1]
          /\ UNCHANGED <<config, threadVars, net, rcq, put_cq>> /\ rposted' = rposted
      BY <1>3 DEF SendCompletes
    <2>3. ASSUME NEW u \in Workers PROVE pend'[u] + scq'[u] = pend[u] + scq[u]
      <3>1. CASE u = t
        BY <2>1, <2>2, <3>1
      <3>2. CASE u # t
        BY <2>1, <2>2, <3>2
      <3> QED  BY <3>1, <3>2
    <2> QED  BY <2>2, <2>3, BalanceStays
  <1>4. ASSUME NEW t \in Workers, NEW d \in Devs, Arrives(t, d) PROVE FlowOK' /\ Balance'
    BY <1>4, BalanceArrives
  <1>5. CASE UNCHANGED <<config, threadVars, commVars>>
    <2>1. UNCHANGED <<config, threadVars, net, rcq, put_cq>> /\ UNCHANGED <<pend, scq, rposted>>
      BY <1>5 DEF commVars
    <2> QED  BY <1>1, <2>1, BalanceStays DEF FlowInv
  <1>6. ASSUME NEW t \in Prgs, PrgStep(t) PROVE UNCHANGED <<config, threadVars, commVars>>
    BY <1>6 DEF PrgStep, PrgStart, PrgStop, PrgExit
  <1> QED  BY <1>1, <1>2, <1>3, <1>4, <1>5, <1>6 DEF Next, vars, FlowInv

(* The books are always kept.                                              *)
LEMMA FlowAlways == Spec => []FlowInv
  BY FlowInit, FlowNext, PTL DEF Spec

(* free_device finds nothing left: when the owner of a device comes there, *)
(* all workers of the process are past their last window, so that as many  *)
(* messages were taken as the peers can ever have sent.                    *)
THEOREM FreedAlwaysQuiet == Spec => []FreedIsQuiet
  <1>1. ASSUME FlowInv, NEW d \in Devs, device[d].state = "freed"
        PROVE  \A u \in OfRank(d[1]) : pc[u] \in Overs /\ u \in Workers /\ WorkerOf(u) /\ FlowOf(u)
    <2>1. LiveInv /\ config \in Configs /\ d[1] \in Ranks
      BY <1>1 DEF FlowInv, LiveInv, TypeOK, Devs
    <2>2. PICK o \in OfRank(d[1]) : IsOwner(o) /\ Dev(o) = d
      BY <2>1, SomeOwner
    <2>3. pc[o] \in Frees
      <3>1. DeviceOf(o)
        BY <2>1, <2>2 DEF LiveInv, OwnersOK
      <3> QED  BY <1>1, <2>2, <3>1 DEF DeviceOf, Frees
    <2>4. AllMet(d[1], 2)
      BY <2>1, <2>3 DEF LiveInv, MetOK
    <2>5. ASSUME NEW u \in OfRank(d[1]) PROVE u \in Workers /\ WorkerOf(u) /\ FlowOf(u)
      BY <1>1, <2>1 DEF FlowInv, FlowOK, LiveInv, WorkersOK, OfRank
    <2>6. ASSUME NEW u \in OfRank(d[1]) PROVE pc[u] \in Overs
      <3>1. arrived.all[u] >= 2
        BY <2>4 DEF AllMet
      <3> QED  BY <2>5, <3>1 DEF WorkerOf
    <2> QED  BY <2>5, <2>6
  <1>2. ASSUME FlowInv, NEW d \in Devs, device[d].state = "freed"
        PROVE  put_cq[d] = 0 /\ Counted(Peer(d[1]), d[2], net) = {}
    <2>1. LiveInv /\ config \in Configs /\ d[1] \in Ranks /\ d \in Ranks \X DeviceIds /\ nsizes \in Nat \ {0}
      BY <1>2, ConfigsAssumption DEF FlowInv, LiveInv, TypeOK, Devs, DeviceIds
    <2>2. ASSUME NEW w \in On(d[2]), NEW m \in Messages(Peer(d[1])) PROVE IsTaken(<<d[1], w>>, m)
      <3>1. PICK u \in OfRank(d[1]) : u = <<d[1], w>>
        BY <2>1, OnFacts
      <3>2. pc[u] \in Overs /\ u \in Workers /\ WorkerOf(u)
        BY <1>1, <1>2
      <3>3. size[u] + 1 = nsizes /\ size[u] \in 0 .. nsizes - 1
        BY <2>1, <3>2 DEF WorkerOf, LiveInv, TypeOK
      <3>4. m[1] \in 0 .. nsizes - 1
        BY DEF Messages
      <3>5. m[1] < size[u] \/ m[1] = size[u]
        BY <2>1, <3>3, <3>4
      <3>6. pc[u] \in Ended
        BY <3>2 DEF Overs, Ended
      <3> QED  BY <3>1, <3>5, <3>6 DEF IsTaken, Passed
    <2>3. SentTo(d) \subseteq TakenAt(d)
      BY <2>2 DEF SentTo, TakenAt
    <2>4. /\ IsFiniteSet(SentTo(d)) /\ IsFiniteSet(TakenAt(d))
          /\ IsFiniteSet(Counted(Peer(d[1]), d[2], net)) /\ IsFiniteSet(Counted(d[1], d[2], rcq))
          /\ Cardinality(SentTo(d)) = Cardinality(Counted(Peer(d[1]), d[2], net))
                                      + Cardinality(Counted(d[1], d[2], rcq)) + put_cq[d]
                                      + Cardinality(TakenAt(d))
      BY <1>2 DEF FlowInv, Balance, BalanceOf
    <2>5. Cardinality(SentTo(d)) <= Cardinality(TakenAt(d))
      BY <2>3, <2>4, FS_Subset
    <2>6. /\ Cardinality(SentTo(d)) \in Nat /\ Cardinality(TakenAt(d)) \in Nat /\ put_cq[d] \in Nat
          /\ Cardinality(Counted(Peer(d[1]), d[2], net)) \in Nat
          /\ Cardinality(Counted(d[1], d[2], rcq)) \in Nat
      BY <2>1, <2>4, FS_CardinalityType DEF LiveInv, TypeOK
    <2>7. put_cq[d] = 0 /\ Cardinality(Counted(Peer(d[1]), d[2], net)) = 0
      BY <2>4, <2>5, <2>6
    <2> QED  BY <2>4, <2>7, FS_EmptySet
  <1>3. ASSUME FlowInv, NEW d \in Devs, device[d].state = "freed", NEW t \in OfRank(d[1])
        PROVE  pend[t] = 0 /\ rposted[t] = 0 /\ rcq[t] = 0
    <2>1. pc[t] \in Overs /\ t \in Workers /\ FlowOf(t)
      BY <1>1, <1>3
    <2>2. pend[t] \in Nat /\ scq[t] \in Nat /\ rposted[t] \in Nat /\ rcq[t] \in Nat
      BY <1>3, <2>1 DEF FlowInv, LiveInv, TypeOK
    <2>3. Unsent(t) = 0 /\ Awaited(t) = 0
      BY <2>1 DEF Unsent, Awaited, Overs
    <2> QED  BY <2>1, <2>2, <2>3 DEF FlowOf
  <1>4. ASSUME FlowInv, NEW d \in Devs, device[d].state = "freed", NEW t \in OfRank(Peer(d[1])),
               Dev(t)[2] = d[2]
        PROVE  net[t] = 0
    <2>1. /\ config \in Configs /\ net \in [Workers -> Nat] /\ d[1] \in Ranks /\ Peer(d[1]) \in Ranks
      BY <1>4 DEF FlowInv, LiveInv, TypeOK, Devs, Peer, Ranks
    <2>2. t \in Workers /\ t = <<Peer(d[1]), t[2]>> /\ t[2] \in 0 .. NWorkers(config) - 1
      BY <2>1, WorkerFacts
    <2>3. t[2] \in On(d[2])
      BY <1>4, <2>2 DEF Dev, On
    <2>4. <<t[2], 1>> \notin Counted(Peer(d[1]), d[2], net)
      BY <1>2, <1>4
    <2>5. ~(1 <= net[t])
      BY <2>2, <2>3, <2>4 DEF Counted
    <2> QED  BY <2>1, <2>2, <2>5
  <1>5. FlowInv => FreedIsQuiet
    BY <1>2, <1>3, <1>4 DEF FreedIsQuiet
  <1> QED  BY <1>5, FlowAlways, PTL
=============================================================================
