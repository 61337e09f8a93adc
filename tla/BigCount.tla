------------------------------ MODULE BigCount ------------------------------
(***************************************************************************)
(* Messages longer than an int can count (bigcount_wrapper.hpp), and the   *)
(* length that is reported for them.  MPI's count arguments are ints: a    *)
(* longer message is sent as one element of a datatype made of c chunks of *)
(* int_max bytes and a remainder of r bytes.                               *)
(*                                                                         *)
(* A datatype is its type map: the sequence of (displacement, length)      *)
(* blocks of bytes it takes from the buffer.                               *)
(***************************************************************************)
EXTENDS Integers, Sequences

CONSTANTS
    int_max,     \* std::numeric_limits<int>::max()
    MaxSize      \* bound on the sizes that are tried

ASSUME IntMaxAssumption == int_max \in Nat \ {0} /\ MaxSize \in Nat

MPI_UNDEFINED == -32766

(* MPI_Type_vector(c, int_max, int_max, MPI_BYTE): c blocks back to back.  *)
Chunks(c) == [i \in 1 .. c |-> [disp |-> (i - 1) * int_max, length |-> int_max]]

(* Mutant: the remainder is placed behind one chunk.                       *)
type_contiguous_remainder_second(nbytes) ==
    Append(Chunks(nbytes \div int_max), [disp |-> int_max, length |-> nbytes % int_max])

(* type_contiguous: the chunks, and the remainder behind them.             *)
type_contiguous(nbytes) ==
    LET c == nbytes \div int_max
        r == nbytes % int_max
    IN  Append(Chunks(c), [disp |-> c * int_max, length |-> r])

(* LCW_Assert(c < int_max).                                                *)
Representable(nbytes) == nbytes \div int_max < int_max

(* Mutant: the size is given to MPI as the count.                          *)
BlocksUnsplit(n) == <<[disp |-> 0, length |-> n]>>

(* The blocks that isend and irecv hand to MPI for an operation of size    *)
(* bytes: size elements of MPI_BYTE, or one of the long datatype.          *)
Blocks(n) ==
    IF n > int_max THEN type_contiguous(n)
                      ELSE <<[disp |-> 0, length |-> n]>>

(* MPI_Get_count into an int (external).                                   *)
get_count(n) == IF n <= int_max THEN n ELSE MPI_UNDEFINED

-----------------------------------------------------------------------------
VARIABLES
    pc,        \* "call", "sent", "done" or "aborted"
    size,      \* the length given to send
    blocks,    \* what MPI was asked to transfer
    length     \* request_t::length of the receive that took the message

vars == <<pc, size, blocks, length>>

TypeOK ==
    /\ pc \in {"call", "sent", "done", "aborted"}
    /\ size \in 0 .. MaxSize
    /\ blocks \in Seq([disp : Nat, length : 0 .. int_max])
    /\ length \in Nat \cup {MPI_UNDEFINED}

Init ==
    /\ pc = "call"
    /\ size \in 0 .. MaxSize
    /\ blocks = <<>> /\ length = 0

(* mpi::isend; the receive is posted with the same size.                   *)
isend ==
    /\ pc = "call"
    /\ IF Representable(size) \/ size <= int_max
         THEN pc' = "sent" /\ blocks' = Blocks(size)
         ELSE pc' = "aborted" /\ UNCHANGED blocks
    /\ UNCHANGED <<size, length>>

(* MPI_Test succeeds for the receive; its length is read from the status.  *)
Complete ==
    /\ pc = "sent"
    /\ pc' = "done"
    /\ length' = get_count(size)
    /\ UNCHANGED <<size, blocks>>

Next == isend \/ Complete
Spec == Init /\ [][Next]_vars

-----------------------------------------------------------------------------
(* The blocks handed to MPI cover the buffer's bytes from 0 to size - 1,   *)
(* in order, without a gap and without an overlap, and end at size.        *)
BlocksTile ==
    pc \in {"sent", "done"} =>
       /\ blocks # <<>> /\ blocks[1].disp = 0
       /\ \A i \in 1 .. Len(blocks) - 1 :
             blocks[i + 1].disp = blocks[i].disp + blocks[i].length
       /\ blocks[Len(blocks)].disp + blocks[Len(blocks)].length = size

(* What the ping-pong example asserts of every completed receive,          *)
(* rreq.length == msg_size.                                                *)
LengthExact == pc = "done" => length = size
=============================================================================
