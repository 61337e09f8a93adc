------------------------------ MODULE PingPong ------------------------------
(***************************************************************************)
(* examples/pingpong_mt.cpp, the client the repository comes with, on the  *)
(* MPI backend: two processes, each with worker threads that allocate the  *)
(* devices in turn, play ping-pong with the worker of the same number on   *)
(* the other side, and free the devices in turn, and with progress         *)
(* threads.  Rank 0 is the sender and rank 1 the receiver.                 *)
(*                                                                         *)
(* Below the calls the library is reduced to what LcwContract promises:    *)
(* completions appear when some thread makes progress on the device.  The  *)
(* messages of one worker are counted and not told apart: the windows of a *)
(* ping-pong are posted, and waited for, as a whole, so that only their    *)
(* number decides who goes on.                                             *)
(***************************************************************************)
EXTENDS Integers, Sequences, FiniteSets

CONSTANTS
    Configs,     \* the command lines to consider
    niters,      \* ping-pongs per message size
    nsizes       \* message sizes

Ranks == {0, 1}
Peer(p) == 1 - p

(* What follows from the command line.                                     *)
NWorkers(c) == c.nthreads - c.nprgthreads
WorkersPerDevice(c) == (NWorkers(c) + c.ndevices - 1) \div c.ndevices
DeviceIdx(c, w) == w \div WorkersPerDevice(c)
DevicesPerPrg(c) == (c.ndevices + c.nprgthreads - 1) \div c.nprgthreads

(* main spawns a progress thread at every nthreads_per_prg-th place.       *)
SpawnedPrg(c) ==
    Cardinality({i \in 0 .. c.nthreads - 1 :
       c.nprgthreads > 0 /\ i % (c.nthreads \div c.nprgthreads) = 0})

(* A command line is sound if main's assertions hold, there is a device,   *)
(* as many progress threads are spawned as the barriers count, every       *)
(* device has a worker, and workers that share a device use windows of one *)
(* when they put, as the program's warning says.                           *)
ASSUME ConfigsAssumption ==
    /\ niters \in Nat \ {0} /\ nsizes \in Nat \ {0}
    /\ \A c \in Configs :
          /\ c.op \in {"SEND", "PUT"} /\ {c.send_window, c.recv_window, c.ndevices} \subseteq Nat \ {0}
          /\ {c.nthreads, c.nprgthreads} \subseteq Nat /\ c.nthreads > c.nprgthreads
          /\ SpawnedPrg(c) = c.nprgthreads /\ c.nprgthreads <= c.ndevices
          /\ DeviceIdx(c, NWorkers(c) - 1) = c.ndevices - 1
          /\ c.op = "PUT" /\ NWorkers(c) # c.ndevices =>
                c.send_window = 1 /\ c.recv_window = 1

(* The devices and threads of any of the command lines.                    *)
DeviceIds == UNION {0 .. c.ndevices - 1 : c \in Configs}
Workers == Ranks \X UNION {0 .. NWorkers(c) - 1 : c \in Configs}
Prgs == Ranks \X UNION {0 .. c.nprgthreads - 1 : c \in Configs}

VARIABLES
    config,
    seq,       \* g_device_sequence_control
    stop,      \* progress_thread_stop
    pc,        \* the step each worker takes next
    j,         \* the loop variable of that step
    iter,      \* the ping-pong it is in
    size,      \* the message size it is at
    ppc,       \* the step each progress thread takes next
    arrived,   \* arrivals of each worker at tbarrier_worker and of each
               \* thread at tbarrier_all
    barriers,  \* calls of lcw::barrier of each process
    dups,      \* calls of MPI_Comm_dup of each process
    device,    \* the devices: their state and their communicator
    rposted,   \* receives each worker has posted that have no message yet
    net,       \* messages of each worker that have not arrived
    pend,      \* sends of each worker that have not completed
    scq, rcq,  \* completions in each worker's queues
    put_cq     \* arrivals in each device's put_cq

threadVars == <<pc, j, iter, size>>
syncVars == <<seq, stop, ppc, arrived, barriers, dups>>
commVars == <<rposted, net, pend, scq, rcq, put_cq>>
vars == <<config, threadVars, syncVars, device, commVars>>

OfRank(p) == {t \in Workers : t[1] = p /\ t[2] < NWorkers(config)}
PrgsOf(p) == {t \in Prgs : t[1] = p /\ t[2] < config.nprgthreads}
Dev(t) == <<t[1], DeviceIdx(config, t[2])>>
IsOwner(t) == t[2] % WorkersPerDevice(config) = 0
Devs == {<<p, d>> : p \in Ranks, d \in 0 .. config.ndevices - 1}

WorkerBarriers == {"size_b1", "size_b2", "end_b1", "end_b2"}
AllBarriers == {"all1", "all2"}
Loops == {"post_recv", "post_send", "wait_send", "wait_recv"}
WorkerSteps ==
    {"alloc", "dup", "alloc_reset", "size_mpi", "end_mpi",
     "free", "comm_free", "free_reset", "done"}
    \cup WorkerBarriers \cup AllBarriers \cup Loops

TypeOK ==
    /\ config \in Configs
    /\ seq \in [Ranks -> 0 .. config.ndevices]
    /\ stop \in [Ranks -> BOOLEAN]
    /\ pc \in [Workers -> WorkerSteps]
    /\ j \in [Workers -> 0 .. config.send_window + config.recv_window - 1]
    /\ iter \in [Workers -> 0 .. niters - 1]
    /\ size \in [Workers -> 0 .. nsizes - 1]
    /\ ppc \in [Prgs -> {"all1", "loop", "all2", "done"}]
    /\ arrived \in [worker : [Workers -> Nat],
                    all : [Workers -> 0 .. 2], prg : [Prgs -> 0 .. 2]]
    /\ barriers \in [Ranks -> Nat] /\ dups \in [Ranks -> 0 .. config.ndevices]
    /\ device \in [Ranks \X DeviceIds ->
                     [state : {"none", "alive", "freed"}, comm : 0 .. config.ndevices]]
    /\ {rposted, net, pend, scq, rcq} \subseteq [Workers -> Nat]
    /\ put_cq \in [Ranks \X DeviceIds -> Nat]

Zero(S) == [x \in S |-> 0]
Init ==
    /\ config \in Configs
    /\ seq = Zero(Ranks) /\ stop = [p \in Ranks |-> FALSE]
    /\ pc = [t \in Workers |-> IF t \notin OfRank(t[1]) THEN "done"
                               ELSE IF IsOwner(t) THEN "alloc" ELSE "all1"]
    /\ j = Zero(Workers) /\ iter = Zero(Workers) /\ size = Zero(Workers)
    /\ ppc = [t \in Prgs |-> IF t \in PrgsOf(t[1]) THEN "all1" ELSE "done"]
    /\ arrived = [worker |-> Zero(Workers),
                  all |-> [t \in Workers |-> IF pc[t] = "all1" THEN 1 ELSE 0],
                  prg |-> [t \in Prgs |-> IF ppc[t] = "all1" THEN 1 ELSE 0]]
    /\ barriers = Zero(Ranks) /\ dups = Zero(Ranks)
    /\ device = [d \in Ranks \X DeviceIds |-> [state |-> "none", comm |-> 0]]
    /\ rposted = Zero(Workers) /\ net = Zero(Workers) /\ pend = Zero(Workers)
    /\ scq = Zero(Workers) /\ rcq = Zero(Workers) /\ put_cq = Zero(Ranks \X DeviceIds)

-----------------------------------------------------------------------------
(* A worker goes on to a step; it arrives at the step's barrier, if it is  *)
(* one, and worker 0 calls lcw::barrier.                                   *)
Goto(t, step) ==
    /\ pc' = [pc EXCEPT ![t] = step]
    /\ arrived' = CASE step \in WorkerBarriers -> [arrived EXCEPT !.worker[t] = @ + 1]
                    [] step \in AllBarriers -> [arrived EXCEPT !.all[t] = @ + 1]
                    [] OTHER -> arrived
    /\ barriers' = IF step \in {"size_mpi", "end_mpi"}
                   THEN [barriers EXCEPT ![t[1]] = @ + 1] ELSE barriers

(* LCT_tbarrier_test: everybody else has arrived as often.                 *)
WorkersMet(t) == \A u \in OfRank(t[1]) : arrived.worker[u] >= arrived.worker[t]

(* Mutant: tbarrier_all does not count the progress threads.               *)
AllMetWorkersOnly(p, n) == \A u \in OfRank(p) : arrived.all[u] >= n

(* The same at tbarrier_all, where the progress threads take part.         *)
AllMet(p, n) ==
    /\ \A u \in OfRank(p) : arrived.all[u] >= n
    /\ \A u \in PrgsOf(p) : arrived.prg[u] >= n

(* Mutant: the counter is set back after every device.                     *)
NextTurnResets(t, reset, next) ==
    /\ seq' = [seq EXCEPT ![t[1]] = @ + 1]
    /\ Goto(t, IF seq[t[1]] + 1 <= config.ndevices THEN reset ELSE next)

(* ++g_device_sequence_control; after the last device the counter, which   *)
(* then is the number of devices and nobody's turn, is set back by a store *)
(* of its own.                                                             *)
NextTurn(t, reset, next) ==
    /\ seq' = [seq EXCEPT ![t[1]] = @ + 1]
    /\ Goto(t, IF seq[t[1]] + 1 = config.ndevices THEN reset ELSE next)

(* g_device_sequence_control = 0.                                          *)
ResetTurn(t) ==
    /\ pc[t] \in {"alloc_reset", "free_reset"}
    /\ seq' = [seq EXCEPT ![t[1]] = 0]
    /\ Goto(t, IF pc[t] = "alloc_reset" THEN "all1" ELSE "done")
    /\ UNCHANGED <<config, j, iter, size, stop, ppc, dups, device, commVars>>

-----------------------------------------------------------------------------
(* Mutant: nobody waits for their turn.                                    *)
MyTurnAnyway(t) == TRUE

(* while (g_device_sequence_control != device_idx).                        *)
MyTurn(t) == seq[t[1]] = Dev(t)[2]

(* alloc_device calls MPI_Comm_dup, the next one of this process, ...      *)
AllocDevice(t) ==
    /\ pc[t] = "alloc" /\ MyTurn(t)
    /\ dups' = [dups EXCEPT ![t[1]] = @ + 1]
    /\ device' = [device EXCEPT ![Dev(t)].comm = dups[t[1]] + 1]
    /\ Goto(t, "dup")
    /\ UNCHANGED <<config, j, iter, size, seq, stop, ppc, commVars>>

(* ... which returns when the peer has made as many.                       *)
CommDupReturns(t) ==
    /\ pc[t] = "dup" /\ dups[Peer(t[1])] >= device[Dev(t)].comm
    /\ device' = [device EXCEPT ![Dev(t)].state = "alive"]
    /\ NextTurn(t, "alloc_reset", "all1")
    /\ UNCHANGED <<config, j, iter, size, stop, ppc, dups, commVars>>

-----------------------------------------------------------------------------
(* The steps of a ping-pong, in the order of each side, and how often each *)
(* is repeated.  With put nothing is received explicitly.                  *)
Steps(t) ==
    LET all == IF t[1] = 0
               THEN <<"post_recv", "post_send", "wait_send", "wait_recv">>
               ELSE <<"post_recv", "wait_recv", "post_send", "wait_send">>
    IN  IF config.op = "SEND" THEN all ELSE Tail(all)
WindowOf(t) ==
    IF (t[1] = 0) = (pc[t] \in {"post_send", "wait_send"})
    THEN config.send_window ELSE config.recv_window

(* Mutant: one send is waited for, whatever the window.                    *)
RepeatsWaitsOnce(t) == IF pc[t] = "wait_send" THEN 1 ELSE WindowOf(t)

Repeats(t) == WindowOf(t)

(* The step is repeated, the next one follows, or the next iteration.      *)
EndOfStep(t) ==
    LET i == CHOOSE k \in DOMAIN Steps(t) : Steps(t)[k] = pc[t]
        again == j[t] + 1 < Repeats(t)
        last == ~again /\ i = Len(Steps(t))
    IN  /\ j' = [j EXCEPT ![t] = IF again THEN @ + 1 ELSE 0]
        /\ iter' = [iter EXCEPT ![t] = IF last THEN (@ + 1) % niters ELSE @]
        /\ Goto(t, IF again THEN pc[t]
                   ELSE IF ~last THEN Steps(t)[i + 1]
                   ELSE IF iter[t] + 1 < niters THEN Steps(t)[1] ELSE "end_b1")
        /\ UNCHANGED <<config, size, seq, stop, ppc, dups, device>>

(* The loops that try a refused receive, send or put again: the attempt    *)
(* that succeeds is the step, and one that is refused changes nothing here.*)
PostRecv(t) ==
    /\ pc[t] = "post_recv"
    /\ rposted' = [rposted EXCEPT ![t] = @ + 1]
    /\ EndOfStep(t) /\ UNCHANGED <<net, pend, scq, rcq, put_cq>>

PostSend(t) ==
    /\ pc[t] = "post_send"
    /\ net' = [net EXCEPT ![t] = @ + 1]
    /\ pend' = [pend EXCEPT ![t] = @ + 1]
    /\ EndOfStep(t) /\ UNCHANGED <<rposted, scq, rcq, put_cq>>

(* Mutant: what poll_cq returns is not looked at.                          *)
WaitSendUnchecked(t) ==
    /\ pc[t] = "wait_send"
    /\ scq' = [scq EXCEPT ![t] = @ - 1]
    /\ EndOfStep(t) /\ UNCHANGED <<rposted, net, pend, rcq, put_cq>>

(* while (!lcw::poll_cq(scq, &sreq)).                                      *)
WaitSend(t) ==
    /\ pc[t] = "wait_send" /\ scq[t] > 0
    /\ scq' = [scq EXCEPT ![t] = @ - 1]
    /\ EndOfStep(t) /\ UNCHANGED <<rposted, net, pend, rcq, put_cq>>

(* poll_cq(rcq); with put that is the put_cq the workers of a device share.*)
WaitRecv(t) ==
    /\ pc[t] = "wait_recv"
    /\ IF config.op = "SEND"
       THEN rcq[t] > 0 /\ rcq' = [rcq EXCEPT ![t] = @ - 1] /\ UNCHANGED put_cq
       ELSE /\ put_cq[Dev(t)] > 0
            /\ put_cq' = [put_cq EXCEPT ![Dev(t)] = @ - 1] /\ UNCHANGED rcq
    /\ EndOfStep(t) /\ UNCHANGED <<rposted, net, pend, scq>>

-----------------------------------------------------------------------------
(* Worker 0 sets progress_thread_stop after the last size.                 *)
Stops(t) == t[2] = 0 /\ pc[t] = "end_b2" /\ size[t] + 1 = nsizes

(* The barriers around the ping-pongs of one message size: the workers of  *)
(* a process meet, worker 0 meets the other process, the workers meet.     *)
AfterBarrier(t) ==
    CASE pc[t] = "all1" -> "size_b1"
      [] pc[t] = "size_b1" -> IF t[2] = 0 THEN "size_mpi" ELSE "size_b2"
      [] pc[t] = "size_b2" -> Steps(t)[1]
      [] pc[t] = "end_b1" -> IF t[2] = 0 THEN "end_mpi" ELSE "end_b2"
      [] pc[t] = "end_b2" -> IF size[t] + 1 < nsizes THEN "size_b1" ELSE "all2"
      [] pc[t] = "all2" -> IF IsOwner(t) THEN "free" ELSE "done"

PassBarrier(t) ==
    /\ \/ pc[t] \in WorkerBarriers /\ WorkersMet(t)
       \/ pc[t] = "all1" /\ AllMet(t[1], 1)
       \/ pc[t] = "all2" /\ AllMet(t[1], 2)
    /\ stop' = [stop EXCEPT ![t[1]] = @ \/ Stops(t)]
    /\ size' = [size EXCEPT ![t] =
                   IF pc[t] = "end_b2" /\ @ + 1 < nsizes THEN @ + 1 ELSE @]
    /\ Goto(t, AfterBarrier(t))
    /\ UNCHANGED <<config, j, iter, seq, ppc, dups, device, commVars>>

(* MPI_Barrier returns when the other process has called it as often.      *)
MpiBarrierReturns(t) ==
    /\ pc[t] \in {"size_mpi", "end_mpi"} /\ barriers[Peer(t[1])] >= barriers[t[1]]
    /\ Goto(t, IF pc[t] = "size_mpi" THEN "size_b2" ELSE "end_b2")
    /\ UNCHANGED <<config, j, iter, size, seq, stop, ppc, dups, device, commVars>>

(* free_cq for put_cq, and free_device, which calls MPI_Comm_free ...      *)
FreeDevice(t) ==
    /\ pc[t] = "free" /\ MyTurn(t)
    /\ device' = [device EXCEPT ![Dev(t)].state = "freed"]
    /\ Goto(t, "comm_free")
    /\ UNCHANGED <<config, j, iter, size, seq, stop, ppc, dups, commVars>>

(* ... and it, being collective, may wait for the peer to free the same    *)
(* communicator; the first device keeps its own.                           *)
CommFreeReturns(t) ==
    /\ pc[t] = "comm_free"
    /\ device[Dev(t)].comm # 1 =>
          \E d \in Devs : /\ d[1] = Peer(t[1]) /\ device[d].state = "freed"
                          /\ device[d].comm = device[Dev(t)].comm
    /\ NextTurn(t, "free_reset", "done")
    /\ UNCHANGED <<config, j, iter, size, stop, ppc, dups, device, commVars>>

-----------------------------------------------------------------------------
(* progress_thread_fn.                                                     *)
PrgStart(t) ==
    /\ ppc[t] = "all1" /\ AllMet(t[1], 1)
    /\ ppc' = [ppc EXCEPT ![t] = "loop"]
    /\ UNCHANGED <<config, threadVars, seq, stop, arrived, barriers, dups, device, commVars>>

PrgStop(t) ==
    /\ ppc[t] = "loop" /\ stop[t[1]]
    /\ ppc' = [ppc EXCEPT ![t] = "all2"]
    /\ arrived' = [arrived EXCEPT !.prg[t] = @ + 1]
    /\ UNCHANGED <<config, threadVars, seq, stop, barriers, dups, device, commVars>>

PrgExit(t) ==
    /\ ppc[t] = "all2" /\ AllMet(t[1], 2)
    /\ ppc' = [ppc EXCEPT ![t] = "done"]
    /\ UNCHANGED <<config, threadVars, seq, stop, arrived, barriers, dups, device, commVars>>

(* The devices a progress thread looks after.                              *)
PrgDevs(t) ==
    {d \in Devs : d[1] = t[1] /\ d[2] \div DevicesPerPrg(config) = t[2]}

(* Somebody calls do_progress on the device: a progress thread, a worker   *)
(* that waits and has no progress thread, or one that waits at the end or  *)
(* for its turn to free.                                                   *)
WorkerProgresses(t) ==
    \/ config.nprgthreads = 0 /\ pc[t] \in Loops
    \/ pc[t] \in {"end_b1", "end_b2", "free"}
Progressed(d) ==
    \/ \E t \in OfRank(d[1]) : Dev(t) = d /\ WorkerProgresses(t)
    \/ \E t \in PrgsOf(d[1]) : ppc[t] = "loop" /\ d \in PrgDevs(t)

(* A message arrives on the device of its communicator: at the receive of  *)
(* the peer worker, whose tag it has, or in put_cq.                        *)
Arrives(t, d) ==
    /\ net[t] > 0 /\ d[1] = Peer(t[1]) /\ device[d].comm = device[Dev(t)].comm
    /\ device[d].state = "alive" /\ Progressed(d)
    /\ net' = [net EXCEPT ![t] = @ - 1]
    /\ IF config.op = "SEND"
       THEN LET r == <<Peer(t[1]), t[2]>>
            IN  /\ rposted[r] > 0 /\ Dev(r) = d
                /\ rposted' = [rposted EXCEPT ![r] = @ - 1]
                /\ rcq' = [rcq EXCEPT ![r] = @ + 1]
                /\ UNCHANGED put_cq
       ELSE /\ put_cq' = [put_cq EXCEPT ![d] = @ + 1]
            /\ UNCHANGED <<rposted, rcq>>
    /\ UNCHANGED <<config, threadVars, syncVars, device, pend, scq>>

(* A send completes, at the latest when its message has arrived.           *)
SendCompletes(t) ==
    /\ pend[t] > 0 /\ device[Dev(t)].state = "alive" /\ Progressed(Dev(t))
    /\ pend' = [pend EXCEPT ![t] = @ - 1]
    /\ scq' = [scq EXCEPT ![t] = @ + 1]
    /\ UNCHANGED <<config, threadVars, syncVars, device, rposted, net, rcq, put_cq>>

WorkerStep(t) ==
    \/ AllocDevice(t) \/ CommDupReturns(t) \/ ResetTurn(t)
    \/ PostRecv(t) \/ PostSend(t) \/ WaitSend(t) \/ WaitRecv(t)
    \/ PassBarrier(t) \/ MpiBarrierReturns(t) \/ FreeDevice(t) \/ CommFreeReturns(t)
PrgStep(t) == PrgStart(t) \/ PrgStop(t) \/ PrgExit(t)

Next ==
    \/ \E t \in Workers : WorkerStep(t) \/ SendCompletes(t)
    \/ \E t \in Workers, d \in Devs : Arrives(t, d)
    \/ \E t \in Prgs : PrgStep(t)

Spec == Init /\ [][Next]_vars

(* A send is sure to be let in only while no other one of its process is   *)
(* pending, which might hold the slots of max_pending_msg.                 *)
Admitted(t) == pc[t] = "post_send" => \A u \in OfRank(t[1]) : pend[u] = 0

(* The scheduler runs every thread; MPI delivers, and completes a send     *)
(* whose message has arrived.                                              *)
FairSpec ==
    /\ Spec
    /\ \A t \in Workers : WF_vars(Admitted(t) /\ WorkerStep(t))
    /\ \A t \in Prgs : WF_vars(PrgStep(t))
    /\ WF_vars(\E t \in Workers : \/ pend[t] > net[t] /\ SendCompletes(t)
                                  \/ \E d \in Devs : Arrives(t, d))

-----------------------------------------------------------------------------
(* Devices of one index have one communicator, because every process       *)
(* allocates them in the same order: no message goes to another device.    *)
PeersShareComm ==
    \A d \in 0 .. config.ndevices - 1 :
       (\A p \in Ranks : device[<<p, d>>].state = "alive") =>
          device[<<0, d>>].comm = device[<<1, d>>].comm

(* A device is freed only when nothing is left for it: no send of its      *)
(* workers is incomplete, no receive posted, no message under way to it    *)
(* and no arrival in its put_cq that nobody took, so that free_device may  *)
(* take put_rbuf and the queues away.                                      *)
FreedIsQuiet ==
    \A t \in Workers, d \in Devs : device[d].state = "freed" =>
       /\ t \in OfRank(d[1]) /\ Dev(t) = d =>
             pend[t] = 0 /\ rposted[t] = 0 /\ rcq[t] = 0
       /\ t \in OfRank(Peer(d[1])) /\ Dev(t)[2] = d[2] => net[t] = 0
       /\ put_cq[d] = 0

(* Nobody makes progress on a device that is not there: the progress       *)
(* threads have stopped when the first device is freed.                    *)
ProgressOnLive == \A d \in Devs : Progressed(d) => device[d].state = "alive"

(* Every thread comes to its end: no turn, barrier or message is waited    *)
(* for in vain.                                                            *)
AllDone == <>(/\ \A t \in Workers : pc[t] = "done"
              /\ \A t \in Prgs : ppc[t] = "done")
=============================================================================
