--------------------------- MODULE BigCountProofs ---------------------------
(***************************************************************************)
(* type_contiguous describes exactly the message, whatever the width of an *)
(* int is.                                                                 *)
(***************************************************************************)
EXTENDS BigCount, TLAPS

(* The blocks cover the bytes 0 to n - 1 in order.                         *)
Tiles(b, n) ==
    /\ b # <<>> /\ b[1].disp = 0
    /\ \A i \in 1 .. Len(b) - 1 : b[i + 1].disp = b[i].disp + b[i].length
    /\ b[Len(b)].disp + b[Len(b)].length = n

(* Division with remainder, as nbytes / int_max and nbytes % int_max.      *)
LEMMA DivMod ==
    ASSUME NEW n \in Nat, NEW k \in Nat \ {0}
    PROVE  /\ n \div k \in Nat /\ n % k \in 0 .. k - 1
           /\ n = (n \div k) * k + (n % k)
  <1>1. n \div k \in Int /\ n % k \in 0 .. k - 1
    OBVIOUS
  <1>2. n = k * (n \div k) + (n % k)
    OBVIOUS
  <1>3. \A q \in Int : k * q = q * k /\ (q < 0 => k * q <= -k)
    OBVIOUS
  <1>4. n \div k \in Nat
    <2> DEFINE q == n \div k
    <2>1. q \in Int /\ n = k * q + (n % k) /\ (q < 0 => k * q <= -k)
      BY <1>1, <1>2, <1>3
    <2> DEFINE kq == k * q
               m == n % k
    <2>2. kq \in Int /\ n = kq + m /\ (q < 0 => kq <= -k) /\ m \in 0 .. k - 1
      BY <1>1, <2>1
    <2> HIDE DEF q, kq, m
    <2>3. q \in Nat
      BY <2>1, <2>2
    <2> QED  BY <2>3 DEF q
  <1> QED  BY <1>1, <1>2, <1>3, <1>4

(* The chunks and the remainder that type_contiguous puts behind them tile *)
(* the buffer, for any number of chunks.                                   *)
LEMMA ContiguousTiles ==
    ASSUME NEW n \in Nat
    PROVE  Tiles(type_contiguous(n), n)
  <1> DEFINE c == n \div int_max
             r == n % int_max
             last == [disp |-> c * int_max, length |-> r]
             b == Append(Chunks(c), last)
  <1>1. int_max \in Nat \ {0} /\ c \in Nat /\ r \in Nat /\ n = c * int_max + r
    BY IntMaxAssumption, DivMod
  <1>2. type_contiguous(n) = b
    BY DEF type_contiguous
  <1> HIDE DEF c, r
  <1>3. /\ Chunks(c) \in Seq([disp : Int, length : Int]) /\ Len(Chunks(c)) = c
        /\ \A i \in 1 .. c : /\ Chunks(c)[i].disp = (i - 1) * int_max
                             /\ Chunks(c)[i].length = int_max
    <2>1. \A i \in 1 .. c : (i - 1) * int_max \in Int
      BY <1>1
    <2>2. Chunks(c) \in [1 .. c -> [disp : Int, length : Int]]
      BY <1>1, <2>1 DEF Chunks
    <2>3. \A i \in 1 .. c : Chunks(c)[i] = [disp |-> (i - 1) * int_max, length |-> int_max]
      BY DEF Chunks
    <2>4. Chunks(c) \in Seq([disp : Int, length : Int]) /\ Len(Chunks(c)) = c
      <3> DEFINE cs == Chunks(c)
                 S == [disp : Int, length : Int]
      <3>1. cs \in [1 .. c -> S]
        BY <2>2
      <3> HIDE DEF cs, S
      <3>2. cs \in Seq(S) /\ Len(cs) = c
        BY <1>1, <3>1
      <3> QED  BY <3>2 DEF cs, S
    <2> QED  BY <2>3, <2>4
  <1>4. last.disp = c * int_max /\ last.length = r /\ last \in [disp : Int, length : Int]
    BY <1>1
  <1> HIDE DEF last
  <1>5. /\ Len(b) = c + 1 /\ b[c + 1] = last
        /\ \A i \in 1 .. c : b[i] = Chunks(c)[i]
    <2> DEFINE S == [disp : Int, length : Int]
               s == Chunks(c)
    <2>1. s \in Seq(S) /\ last \in S /\ Len(s) = c
      BY <1>3, <1>4
    <2> HIDE DEF S, s
    <2>2. Len(Append(s, last)) = c + 1 /\ Append(s, last)[c + 1] = last
      BY <1>1, <2>1
    <2>3. \A i \in 1 .. c : Append(s, last)[i] = s[i]
      BY <1>1, <2>1
    <2> QED  BY <2>2, <2>3 DEF s
  <1> HIDE DEF b
  <1>6. \A i \in 1 .. c + 1 : b[i].disp = (i - 1) * int_max
    <2> SUFFICES ASSUME NEW i \in 1 .. c + 1
                 PROVE  b[i].disp = (i - 1) * int_max
      OBVIOUS
    <2>1. CASE i \in 1 .. c
      BY <1>3, <1>5, <2>1
    <2>2. CASE i = c + 1
      <3>1. b[i].disp = c * int_max /\ i - 1 = c
        BY <1>1, <1>4, <1>5, <2>2
      <3> QED  BY <3>1
    <2> QED  BY <1>1, <2>1, <2>2
  <1>7. \A i \in 1 .. c : b[i].length = int_max
    BY <1>3, <1>5
  <1>8. ASSUME NEW i \in 1 .. c
        PROVE  b[i + 1].disp = b[i].disp + b[i].length
    <2>1. b[i + 1].disp = i * int_max /\ b[i].disp = (i - 1) * int_max
      BY <1>1, <1>6
    <2>2. i * int_max = (i - 1) * int_max + int_max
      BY <1>1
    <2> QED  BY <1>7, <2>1, <2>2
  <1>9. b[1].disp = 0 /\ b # <<>>
    BY <1>1, <1>5, <1>6
  <1> QED  BY <1>1, <1>2, <1>4, <1>5, <1>8, <1>9 DEF Tiles

(* What isend and irecv hand to MPI tiles the buffer.                      *)
LEMMA BlocksTiles ==
    ASSUME NEW n \in Nat
    PROVE  Tiles(Blocks(n), n)
  <1>1. CASE n > int_max
    BY <1>1, ContiguousTiles DEF Blocks
  <1>2. CASE ~(n > int_max)
    BY <1>2 DEF Blocks, Tiles
  <1> QED  BY <1>1, <1>2

TileInv ==
    /\ pc \in {"call", "sent", "done", "aborted"}
    /\ size \in Nat
    /\ pc \in {"sent", "done"} => blocks = Blocks(size)

(* Every message that isend hands to MPI is described without a gap or an  *)
(* overlap, from its first byte to its last: the split of type_contiguous  *)
(* is exact for every size and every width of int.                         *)
THEOREM TilesHold == Spec => []BlocksTile
  <1>1. Init => TileInv
    BY IntMaxAssumption DEF Init, TileInv
  <1>2. TileInv /\ [Next]_vars => TileInv'
    BY DEF TileInv, Next, isend, Complete, vars
  <1>3. TileInv => BlocksTile
    <2> SUFFICES ASSUME TileInv, pc \in {"sent", "done"}
                 PROVE  Tiles(blocks, size)
      BY DEF BlocksTile, Tiles
    <2> QED  BY BlocksTiles DEF TileInv
  <1> QED  BY <1>1, <1>2, <1>3, PTL DEF Spec

-----------------------------------------------------------------------------
Block == [disp : Nat, length : 0 .. int_max]

(* No block is longer than the int that MPI counts it with.                *)
LEMMA BlocksFit ==
    ASSUME NEW n \in Nat
    PROVE  Blocks(n) \in Seq(Block)
  <1>1. int_max \in Nat \ {0} /\ \A a, b \in Nat : a * b \in Nat
    BY IntMaxAssumption
  <1>2. CASE n > int_max
    <2> DEFINE c == n \div int_max
               r == n % int_max
    <2>1. c \in Nat /\ r \in 0 .. int_max - 1
      BY <1>1, DivMod
    <2> HIDE DEF c, r
    <2>2. Chunks(c) \in [1 .. c -> Block]
      <3>1. ASSUME NEW i \in 1 .. c
            PROVE  [disp |-> (i - 1) * int_max, length |-> int_max] \in Block
        <4>1. i - 1 \in Nat
          BY <2>1
        <4>2. (i - 1) * int_max \in Nat /\ int_max \in 0 .. int_max
          BY <1>1, <4>1
        <4> QED  BY <4>2 DEF Block
      <3> QED  BY <3>1 DEF Chunks
    <2>3. Chunks(c) \in Seq(Block)
      <3> DEFINE cs == Chunks(c)
      <3>1. cs \in [1 .. c -> Block]
        BY <2>2
      <3> HIDE DEF cs
      <3>2. cs \in Seq(Block)
        BY <2>1, <3>1
      <3> QED  BY <3>2 DEF cs
    <2>4. [disp |-> c * int_max, length |-> r] \in Block
      BY <1>1, <2>1 DEF Block
    <2>5. Append(Chunks(c), [disp |-> c * int_max, length |-> r]) \in Seq(Block)
      BY <2>3, <2>4
    <2> QED  BY <1>2, <2>5 DEF Blocks, type_contiguous, c, r
  <1>3. CASE ~(n > int_max)
    <2>1. [disp |-> 0, length |-> n] \in Block
      BY <1>1, <1>3 DEF Block
    <2> QED  BY <1>3, <2>1 DEF Blocks
  <1> QED  BY <1>2, <1>3

(* The types hold; above all, no block of the datatype is longer than an   *)
(* int can say, whatever the size of the message.                          *)
THEOREM BigCountTypes == Spec => []TypeOK
  <1>1. Init => TypeOK
    BY DEF Init, TypeOK
  <1>2. TypeOK /\ [Next]_vars => TypeOK'
    <2> SUFFICES ASSUME TypeOK, [Next]_vars PROVE TypeOK'
      OBVIOUS
    <2>1. size \in Nat
      BY IntMaxAssumption DEF TypeOK
    <2>2. CASE isend
      <3>1. blocks' \in Seq(Block)
        BY <2>1, <2>2, BlocksFit DEF isend, TypeOK, Block
      <3> QED  BY <2>2, <3>1 DEF isend, TypeOK, Block
    <2>3. CASE Complete
      BY <2>1, <2>3 DEF Complete, TypeOK, get_count
    <2>4. CASE UNCHANGED vars
      BY <2>4 DEF vars, TypeOK
    <2> QED  BY <2>2, <2>3, <2>4 DEF Next
  <1> QED  BY <1>1, <1>2, PTL DEF Spec
=============================================================================
