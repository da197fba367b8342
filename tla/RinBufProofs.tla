---------------------------- MODULE RinBufProofs ----------------------------
(***************************************************************************)
(* Proofs about RinBuf, for every set of bytes, every capacity and every   *)
(* size of a request: no memcpy leaves the memory of the ring, and the     *)
(* ring implements the queue of bytes of module Fifo.                      *)
(***************************************************************************)
EXTENDS RinBufProps, SequenceTheorems, TLAPS

USE BytesAssumption, SizesAssumption

-----------------------------------------------------------------------------
(***************************************************************************)
(* Places in the ring, and sequences.                                      *)
(***************************************************************************)

\* Quotient and remainder.
LEMMA DivMod ==
  ASSUME NEW n \in Int, NEW k \in Nat \ {0}
  PROVE  n \div k \in Int /\ n % k \in 0 .. k - 1 /\ n = k * (n \div k) + (n % k)
<1>1. n \div k \in Int
  OBVIOUS
<1>2. n % k \in 0 .. k - 1
  OBVIOUS
<1>3. n = k * (n \div k) + (n % k)
  OBVIOUS
<1> QED
  BY <1>1, <1>2, <1>3

\* A place behind the end of the memory is one at its start.
LEMMA Wraps ==
  ASSUME NEW c \in Nat \ {0}, NEW x \in Nat, x < 2 * c
  PROVE  x % c = IF x < c THEN x ELSE x - c
<1> DEFINE q == x \div c
           r == x % c
<1>1. q \in Int /\ r \in 0 .. c - 1 /\ x = c * q + r
  BY DivMod
<1> HIDE DEF q, r
<1>2. c * q \in Int /\ c * q <= 2 * c - 1 /\ c * q >= 1 - c
  BY <1>1
<1>3. q < 2
  <2>1. q >= 2 => c * (q - 2) >= 0
    BY <1>1
  <2>2. c * (q - 2) = c * q - 2 * c
    BY <1>1
  <2> QED
    BY <1>1, <1>2, <2>1, <2>2
<1>4. q > -1
  <2>1. q <= -1 => c * (-1 - q) >= 0
    BY <1>1
  <2>2. c * (-1 - q) = - c - c * q
    BY <1>1
  <2> QED
    BY <1>1, <1>2, <2>1, <2>2
<1>5. q = 0 \/ q = 1
  BY <1>1, <1>3, <1>4
<1>6. CASE q = 0
  BY <1>1, <1>6 DEF r
<1>7. CASE q = 1
  BY <1>1, <1>7 DEF r
<1> QED
  BY <1>5, <1>6, <1>7

\* A function on 1 .. n is a sequence of length n.
LEMMA FunctionIsSeq ==
  ASSUME NEW S, NEW n \in Nat, NEW f \in [1 .. n -> S]
  PROVE  f \in Seq(S) /\ Len(f) = n
<1>1. f \in Seq(S)
  BY SeqDef
<1>2. Len(f) \in Nat /\ DOMAIN f = 1 .. Len(f) /\ DOMAIN f = 1 .. n
  BY <1>1, LenProperties
<1> QED
  BY <1>1, <1>2

\* A place of the content is not among the n cells behind it; the place after those of
\* l bytes of content is the first of them, and so on, around the end of the memory.
LEMMA PlacesBehind ==
  ASSUME NEW c \in Nat \ {0}, NEW p \in 0 .. c - 1, NEW l \in 0 .. c,
         NEW at, at = (p + l) % c,
         NEW n \in Nat, l + n <= c, at + n <= c,
         NEW i \in 1 .. l + n
  PROVE  /\ (p + i - 1) % c \in 0 .. c - 1
         /\ i <= l => (p + i - 1) % c \notin at .. at + n - 1
         /\ i > l => (p + i - 1) % c = at + (i - l - 1)
<1>1. at = IF p + l < c THEN p + l ELSE p + l - c
  <2>1. PICK x \in Nat : x = p + l /\ x < 2 * c
    OBVIOUS
  <2>2. x % c = IF x < c THEN x ELSE x - c
    BY <2>1, Wraps
  <2> QED
    BY <2>1, <2>2
<1>2. (p + i - 1) % c = IF p + i - 1 < c THEN p + i - 1 ELSE p + i - 1 - c
  <2>1. PICK x \in Nat : x = p + i - 1 /\ x < 2 * c
    OBVIOUS
  <2>2. x % c = IF x < c THEN x ELSE x - c
    BY <2>1, Wraps
  <2> QED
    BY <2>1, <2>2
<1> QED
  BY <1>1, <1>2

\* The content after n bytes were taken is the content from the next on.
LEMMA TakenBefore ==
  ASSUME NEW c \in Nat \ {0}, NEW p \in 0 .. c - 1, NEW n \in 0 .. c - p,
         NEW i \in 1 .. c - n
  PROVE  (((p + n) % c) + i - 1) % c = (p + (n + i) - 1) % c
<1>1. (p + n) % c = IF p + n < c THEN p + n ELSE p + n - c
  <2>1. PICK x \in Nat : x = p + n /\ x < 2 * c
    OBVIOUS
  <2>2. x % c = IF x < c THEN x ELSE x - c
    BY <2>1, Wraps
  <2> QED
    BY <2>1, <2>2
<1>2. (p + (n + i) - 1) % c = IF p + (n + i) - 1 < c THEN p + (n + i) - 1 ELSE p + (n + i) - 1 - c
  <2>1. PICK x \in Nat : x = p + (n + i) - 1 /\ x < 2 * c
    OBVIOUS
  <2>2. x % c = IF x < c THEN x ELSE x - c
    BY <2>1, Wraps
  <2> QED
    BY <2>1, <2>2
<1>3. PICK x \in Nat : x = ((p + n) % c) + i - 1 /\ x < 2 * c
  BY <1>1
<1>4. x % c = IF x < c THEN x ELSE x - c
  BY <1>3, Wraps
<1> QED
  BY <1>1, <1>2, <1>3, <1>4

-----------------------------------------------------------------------------
(***************************************************************************)
(* The invariant.                                                          *)
(***************************************************************************)

Cell     == Byte \union {GARBAGE}
Memories == UNION { [0 .. c - 1 -> Cell] : c \in Nat }

\* The indexes are within the memory, which has the size cap says.
Ring ==
  /\ buf \in [data : Memories, cap : Nat, pos : Nat, lmt : Nat]
  /\ buf.data \in [0 .. buf.cap - 1 -> Cell]
  /\ buf.lmt <= buf.cap
  /\ IF buf.cap = 0 THEN buf.pos = 0 ELSE buf.pos < buf.cap

\* Every byte of the content was written.
AllWritten == \A i \in 1 .. buf.lmt : buf.data[(buf.pos + i - 1) % buf.cap] \in Byte

\* What a call has yet to move is there, or has room.
Calls ==
  /\ pc \in {"idle", "write", "read", "retain"}
  /\ io \in [rest : Seq(Byte), left : Nat, out : Seq(Byte), moved : Nat, ret : Nat, cap : Nat]
  /\ pc = "write" => io.ret - io.moved = MinOf(Len(io.rest), buf.cap - buf.lmt)
  /\ pc = "read" => io.left <= buf.lmt /\ io.left = io.ret - io.moved
  /\ pc = "retain" => io.left = buf.lmt /\ io.cap \in Caps /\ io.cap > buf.cap /\ io.rest = <<>>

RingInv == Ring /\ AllWritten /\ Calls

\* The content is a sequence of bytes, as long as lmt says.
LEMMA ContentIsSeq ==
  ASSUME RingInv
  PROVE  /\ Content \in Seq(Byte) /\ Len(Content) = buf.lmt
         /\ \A i \in 1 .. buf.lmt : Content[i] = buf.data[(buf.pos + i - 1) % buf.cap]
<1>1. buf.lmt \in Nat /\ Content \in [1 .. buf.lmt -> Byte]
  BY DEF RingInv, Ring, AllWritten, Content
<1>2. \A i \in 1 .. buf.lmt : Content[i] = buf.data[(buf.pos + i - 1) % buf.cap]
  BY DEF Content
<1> HIDE DEF Content
<1> QED
  BY <1>1, <1>2, FunctionIsSeq

\* RingInv in the next state has the same consequence.
LEMMA ContentIsSeqNext ==
  ASSUME RingInv'
  PROVE  /\ Content' \in Seq(Byte) /\ Len(Content') = buf'.lmt
         /\ \A i \in 1 .. buf'.lmt : Content'[i] = buf'.data[(buf'.pos + i - 1) % buf'.cap]
<1>1. buf'.lmt \in Nat /\ Content' \in [1 .. buf'.lmt -> Byte]
  BY DEF RingInv, Ring, AllWritten, Content
<1>2. \A i \in 1 .. buf'.lmt : Content'[i] = buf'.data[(buf'.pos + i - 1) % buf'.cap]
  BY DEF Content
<1> HIDE DEF Content
<1> QED
  BY <1>1, <1>2, FunctionIsSeq

\* The ring begins without memory, and as the queue begins.
LEMMA RingInit == Init => RingInv /\ Abs!Init
<1> SUFFICES ASSUME Init PROVE RingInv /\ Abs!Init
  OBVIOUS
<1>1. buf.data \in [0 .. buf.cap - 1 -> Cell] /\ buf.data \in Memories
  BY DEF Init, Cell, Memories
<1>2. <<>> \in Seq(Byte)
  BY EmptySeq
<1>3. RingInv
  BY <1>1, <1>2 DEF Init, RingInv, Ring, AllWritten, Calls, NoIO
<1>4. Content = <<>>
  BY <1>3, ContentIsSeq, EmptySeq DEF Init
<1> QED
  BY <1>3, <1>4 DEF Init, NoIO, Abs!Init, Queue, Doing, Got, Due

-----------------------------------------------------------------------------
(***************************************************************************)
(* One lemma per action: the invariant is kept, and the step is one of the *)
(* queue, or none.                                                         *)
(***************************************************************************)

Kept == RingInv' /\ [Abs!Next]_(Abs!vars)

\* What leaves the ring alone keeps what is said of the ring.
LEMMA RingAlone ==
  ASSUME RingInv, UNCHANGED buf, Calls'
  PROVE  RingInv' /\ Content' = Content
<1>1. Ring' /\ AllWritten' /\ Content' = Content
  BY DEF RingInv, Ring, AllWritten, Content
<1> QED
  BY <1>1 DEF RingInv

\* The beginning of a call.
LEMMA WriteStep ==
  ASSUME RingInv, NEW n \in 0 .. MaxSize, NEW s \in [1 .. n -> Byte], aloe_rinbuf_write(s)
  PROVE  Kept
<1>1. s \in Seq(Byte) /\ Len(s) = n
  BY FunctionIsSeq
<1>2. <<>> \in Seq(Byte)
  BY EmptySeq
<1>3. Calls'
  <2>1. buf.cap \in Nat /\ buf.lmt \in Nat /\ buf.lmt <= buf.cap
    BY DEF RingInv, Ring
  <2>2. MinOf(Len(s), buf.cap - buf.lmt) \in Nat
    BY <1>1, <2>1 DEF MinOf
  <2>3. io' = [rest |-> s, left |-> 0, out |-> <<>>, moved |-> 0,
               ret |-> MinOf(Len(s), buf.cap - buf.lmt), cap |-> 0]
    BY DEF aloe_rinbuf_write, NoIO
  <2>4. buf' = buf /\ pc' = "write"
    BY DEF aloe_rinbuf_write
  <2>5. io' \in [rest : Seq(Byte), left : Nat, out : Seq(Byte), moved : Nat, ret : Nat, cap : Nat]
    BY <1>1, <1>2, <2>2, <2>3
  <2>6. io'.ret - io'.moved = MinOf(Len(io'.rest), buf'.cap - buf'.lmt)
    <3>1. io'.ret = MinOf(Len(s), buf.cap - buf.lmt) /\ io'.moved = 0 /\ io'.rest = s
      BY <2>3
    <3> QED
      BY <2>2, <2>4, <3>1
  <2> QED
    BY <2>4, <2>5, <2>6 DEF Calls
<1>4. RingInv' /\ Content' = Content /\ Len(Content) = buf.lmt
  BY <1>3, ContentIsSeq, RingAlone DEF aloe_rinbuf_write
<1>5. Abs!Put(s)
  BY <1>4 DEF Abs!Put, Abs!MinOf, MinOf, aloe_rinbuf_write, NoIO, Queue, Doing, Got, Due,
              RingInv, Calls, Ring
<1> QED
  BY <1>4, <1>5 DEF Kept, Abs!Next

LEMMA ReadStep ==
  ASSUME RingInv, NEW n \in 0 .. MaxSize, aloe_rinbuf_read(n)
  PROVE  Kept
<1>1. <<>> \in Seq(Byte)
  BY EmptySeq
<1>2. Calls'
  <2>1. buf.lmt \in Nat
    BY DEF RingInv, Ring
  <2>2. Asked(n) \in Nat /\ Asked(n) <= buf.lmt
    BY <2>1 DEF MinOf, Asked
  <2>3. io' = [rest |-> <<>>, left |-> Asked(n), out |-> <<>>, moved |-> 0,
               ret |-> Asked(n), cap |-> 0]
    BY DEF aloe_rinbuf_read, NoIO
  <2>4. buf' = buf /\ pc' = "read"
    BY DEF aloe_rinbuf_read
  <2>5. /\ io' \in [rest : Seq(Byte), left : Nat, out : Seq(Byte), moved : Nat, ret : Nat, cap : Nat]
        /\ io'.left <= buf.lmt /\ io'.left = io'.ret - io'.moved
    BY <1>1, <2>2, <2>3
  <2> QED
    BY <2>4, <2>5 DEF Calls
<1>3. RingInv' /\ Content' = Content /\ Len(Content) = buf.lmt
  BY <1>2, ContentIsSeq, RingAlone DEF aloe_rinbuf_read
<1>4. Abs!Get(n)
  BY <1>3 DEF Abs!Get, Abs!MinOf, MinOf, Asked, aloe_rinbuf_read, NoIO, Queue, Doing, Got, Due,
              RingInv, Calls, Ring
<1> QED
  BY <1>3, <1>4 DEF Kept, Abs!Next

\* The first memory comes at once; later, the content is read first.
LEMMA ExpandStep ==
  ASSUME RingInv, NEW c \in Caps, aloe_buf_expand(c)
  PROVE  Kept
<1>1. <<>> \in Seq(Byte)
  BY EmptySeq
<1>2. c \in Nat /\ c > 0 /\ buf.cap \in Nat
  BY DEF RingInv, Ring, aloe_buf_expand
<1>3. CASE buf.data = <<>>
  <2>1. buf.cap = 0
    BY <1>2, <1>3 DEF RingInv, Ring
  <2>2. buf.pos = 0 /\ buf.lmt = 0
    BY <2>1 DEF RingInv, Ring
  <2>3. Memory(c) \in [0 .. c - 1 -> Cell] /\ Memory(c) \in Memories
    BY <1>2 DEF Memory, Memories, Cell
  <2>4. buf' = [data |-> Memory(c), cap |-> c, pos |-> 0, lmt |-> 0] /\ pc' = pc /\ io' = NoIO
    BY <1>3, <2>2 DEF aloe_buf_expand, RingInv, Ring
  <2>5. Ring' /\ AllWritten'
    BY <1>2, <2>3, <2>4 DEF Ring, AllWritten
  <2>6. Calls'
    BY <1>1, <2>4 DEF aloe_buf_expand, Calls, NoIO
  <2>7. RingInv'
    BY <2>5, <2>6 DEF RingInv
  <2>8. Content = <<>> /\ Content' = <<>>
    BY <2>2, <2>4, <2>7, ContentIsSeq, ContentIsSeqNext, EmptySeq
  <2>9. Abs!Grow
    BY <1>2, <2>1, <2>4, <2>8 DEF Abs!Grow, aloe_buf_expand, NoIO, Queue, Doing, Got, Due
  <2> QED
    BY <2>7, <2>9 DEF Kept, Abs!Next
<1>4. CASE buf.data # <<>>
  <2>1. Calls'
    <3>1. buf.lmt \in Nat
      BY DEF RingInv, Ring
    <3>2. io' = [rest |-> <<>>, left |-> buf.lmt, out |-> <<>>, moved |-> 0,
                 ret |-> buf.lmt, cap |-> c]
      BY <1>4 DEF aloe_buf_expand, NoIO
    <3> QED
      BY <1>1, <1>2, <1>4, <3>1, <3>2 DEF Calls, aloe_buf_expand
  <2>2. RingInv' /\ Content' = Content /\ Content \in Seq(Byte)
    BY <1>4, <2>1, ContentIsSeq, RingAlone DEF aloe_buf_expand
  <2>3. <<>> \o Content = Content
    BY <2>2, ConcatEmptySeq
  <2>4. Abs!Grow
    BY <1>4, <2>2, <2>3 DEF Abs!Grow, aloe_buf_expand, NoIO, Queue, Doing, Got, Due
  <2> QED
    BY <2>2, <2>4 DEF Kept, Abs!Next
<1> QED
  BY <1>3, <1>4

\* A chunk is written behind the content.
LEMMA WriteChunkStep ==
  ASSUME RingInv, WriteChunk
  PROVE  Kept
<1> DEFINE room == MinOf(Len(io.rest), buf.cap - buf.lmt)
           at   == (buf.pos + buf.lmt) % buf.cap
           n    == ToTheEnd(room, at)
<1>1. /\ io.rest \in Seq(Byte) /\ Len(io.rest) \in Nat
      /\ buf.cap \in Nat \ {0} /\ buf.pos \in 0 .. buf.cap - 1 /\ buf.lmt \in 0 .. buf.cap
      /\ DOMAIN buf.data = 0 .. buf.cap - 1
  BY LenProperties DEF RingInv, Ring, Calls, WriteChunk, MinOf
<1>2. room \in Nat \ {0} /\ room <= Len(io.rest) /\ room <= buf.cap - buf.lmt
  BY <1>1 DEF WriteChunk, MinOf
<1>3. at \in 0 .. buf.cap - 1
  BY <1>1
<1>4. n \in Nat /\ n <= room /\ at + n <= buf.cap /\ (n >= Len(io.rest) => n = room)
  BY <1>1, <1>2, <1>3 DEF ToTheEnd, MinOf
<1>5. /\ buf' = [buf EXCEPT !.data = Copied(buf.data, at, io.rest, n), !.lmt = buf.lmt + n]
      /\ IF n >= Len(io.rest) THEN pc' = "idle" ELSE UNCHANGED pc
      /\ io' = [io EXCEPT !.rest = Drop(io.rest, n), !.moved = io.moved + n]
      /\ pc = "write"
  BY DEF WriteChunk
<1> HIDE DEF room, at, n
<1>6. /\ buf'.cap = buf.cap /\ buf'.pos = buf.pos /\ buf'.lmt = buf.lmt + n
      /\ buf'.data = Copied(buf.data, at, io.rest, n)
      /\ buf' = [data |-> buf'.data, cap |-> buf'.cap, pos |-> buf'.pos, lmt |-> buf'.lmt]
  BY <1>5 DEF RingInv, Ring
<1>7. \A i \in 1 .. buf.lmt + n :
        buf'.data[(buf.pos + i - 1) % buf.cap] =
          IF i <= buf.lmt THEN buf.data[(buf.pos + i - 1) % buf.cap] ELSE io.rest[i - buf.lmt]
  <2> TAKE i \in 1 .. buf.lmt + n
  <2> DEFINE x == (buf.pos + i - 1) % buf.cap
  <2>1. PICK c, p, l, k :
          c = buf.cap /\ p = buf.pos /\ l = buf.lmt /\ k = n
    OBVIOUS
  <2>2. /\ c \in Nat \ {0} /\ p \in 0 .. c - 1 /\ l \in 0 .. c /\ k \in Nat
        /\ at = (p + l) % c /\ l + k <= c /\ at + k <= c /\ i \in 1 .. l + k
    BY <1>1, <1>2, <1>4, <2>1 DEF at
  <2>3. /\ (p + i - 1) % c \in 0 .. c - 1
        /\ i <= l => (p + i - 1) % c \notin at .. at + k - 1
        /\ i > l => (p + i - 1) % c = at + (i - l - 1)
    BY <2>2, PlacesBehind
  <2>4. /\ x \in DOMAIN buf.data
        /\ i <= buf.lmt => x \notin at .. at + n - 1
        /\ i > buf.lmt => x = at + (i - buf.lmt - 1)
    BY <1>1, <2>1, <2>3
  <2> HIDE DEF x
  <2>5. buf'.data[x] = IF x \in at .. at + n - 1 THEN io.rest[x - at + 1] ELSE buf.data[x]
    BY <1>6, <2>4 DEF Copied
  <2>6. CASE i <= buf.lmt
    BY <2>4, <2>5, <2>6 DEF x
  <2>7. CASE i > buf.lmt
    <3>1. x \in at .. at + n - 1 /\ x - at + 1 = i - buf.lmt
      BY <1>1, <1>3, <1>4, <2>4, <2>7
    <3>2. ~(i <= buf.lmt)
      BY <1>1, <1>4, <2>7
    <3> QED
      BY <2>5, <3>1, <3>2 DEF x
  <2> QED
    BY <1>1, <1>4, <2>6, <2>7
<1>8. \A i \in 1 .. Len(io.rest) : io.rest[i] \in Byte
  BY <1>1, ElementOfSeq
<1>9. Ring'
  <2>1. buf'.data \in [0 .. buf.cap - 1 -> Cell]
    <3>1. ASSUME NEW i \in 0 .. buf.cap - 1
          PROVE  IF i \in at .. at + n - 1 THEN io.rest[i - at + 1] \in Cell ELSE buf.data[i] \in Cell
      <4>1. CASE i \in at .. at + n - 1
        <5>1. i - at + 1 \in 1 .. Len(io.rest)
          BY <1>1, <1>2, <1>3, <1>4, <4>1
        <5> QED
          BY <1>8, <4>1, <5>1 DEF Cell
      <4>2. CASE i \notin at .. at + n - 1
        BY <4>2 DEF RingInv, Ring
      <4> QED
        BY <4>1, <4>2
    <3>2. buf'.data = [i \in 0 .. buf.cap - 1 |->
                         IF i \in at .. at + n - 1 THEN io.rest[i - at + 1] ELSE buf.data[i]]
      BY <1>1, <1>6 DEF Copied
    <3> QED
      BY <3>1, <3>2
  <2>2. buf'.data \in Memories
    BY <1>1, <2>1 DEF Memories
  <2> QED
    BY <1>1, <1>2, <1>4, <1>6, <2>1, <2>2 DEF Ring
<1>10. AllWritten'
  <2> SUFFICES ASSUME NEW i \in 1 .. buf'.lmt
               PROVE  buf'.data[(buf'.pos + i - 1) % buf'.cap] \in Byte
    BY DEF AllWritten
  <2>1. CASE i <= buf.lmt
    BY <1>1, <1>6, <1>7, <2>1 DEF RingInv, AllWritten
  <2>2. CASE i > buf.lmt
    <3>1. i \in 1 .. buf.lmt + n /\ i - buf.lmt \in 1 .. Len(io.rest)
      BY <1>1, <1>2, <1>4, <1>6, <2>2
    <3>2. buf'.data[(buf.pos + i - 1) % buf.cap] = io.rest[i - buf.lmt]
      BY <1>1, <1>7, <2>2, <3>1
    <3> QED
      BY <1>6, <1>8, <3>1, <3>2
  <2> QED
    BY <1>1, <1>4, <1>6, <2>1, <2>2
<1>11. /\ Drop(io.rest, n) \in Seq(Byte) /\ Len(Drop(io.rest, n)) = Len(io.rest) - n
       /\ SubSeq(io.rest, 1, n) \in Seq(Byte) /\ Len(SubSeq(io.rest, 1, n)) = n
       /\ \A i \in 1 .. n : SubSeq(io.rest, 1, n)[i] = io.rest[i]
  <2>1. n + 1 \in Int /\ Len(io.rest) \in Int /\ n <= Len(io.rest)
    BY <1>1, <1>2, <1>4
  <2>2. /\ SubSeq(io.rest, n + 1, Len(io.rest)) \in Seq(Byte)
        /\ Len(SubSeq(io.rest, n + 1, Len(io.rest))) =
             IF n + 1 <= Len(io.rest) THEN Len(io.rest) - (n + 1) + 1 ELSE 0
    BY <1>4, <1>8, <2>1, SubSeqProperties
  <2>3. /\ SubSeq(io.rest, 1, n) \in Seq(Byte)
        /\ Len(SubSeq(io.rest, 1, n)) = IF 1 <= n THEN n - 1 + 1 ELSE 0
        /\ \A i \in 1 .. n - 1 + 1 : SubSeq(io.rest, 1, n)[i] = io.rest[1 + i - 1]
    BY <1>4, <1>8, <2>1, SubSeqProperties
  <2> QED
    BY <1>1, <1>4, <2>1, <2>2, <2>3 DEF Drop
<1>12. Calls'
  <2>1. io \in [rest : Seq(Byte), left : Nat, out : Seq(Byte), moved : Nat, ret : Nat, cap : Nat]
    BY DEF RingInv, Calls
  <2>2. io' \in [rest : Seq(Byte), left : Nat, out : Seq(Byte), moved : Nat, ret : Nat, cap : Nat]
    <3>1. Drop(io.rest, n) \in Seq(Byte) /\ io.moved + n \in Nat
      BY <1>4, <1>11, <2>1
    <3> QED
      BY <1>5, <2>1, <3>1
  <2>3. pc' \in {"idle", "write"}
    BY <1>5
  <2>4. io'.rest = Drop(io.rest, n) /\ io'.ret = io.ret /\ io'.moved = io.moved + n
    BY <1>5, <2>1
  <2>5. io.ret - io.moved = room /\ io.ret \in Nat /\ io.moved \in Nat
    BY <1>5, <2>1 DEF RingInv, Calls, room
  <2>6. MinOf(Len(Drop(io.rest, n)), buf.cap - (buf.lmt + n)) = room - n
    BY <1>1, <1>2, <1>4, <1>11 DEF room, MinOf
  <2>7. io'.ret - io'.moved = MinOf(Len(io'.rest), buf'.cap - buf'.lmt)
    BY <1>2, <1>4, <1>6, <2>4, <2>5, <2>6
  <2> QED
    BY <2>2, <2>3, <2>7 DEF Calls
<1>13. RingInv'
  BY <1>9, <1>10, <1>12 DEF RingInv
<1>14. Content' = Content \o SubSeq(io.rest, 1, n)
  <2> DEFINE w      == SubSeq(io.rest, 1, n)
             behind == Content \o w
  <2>1. /\ Content \in Seq(Byte) /\ Len(Content) = buf.lmt
        /\ \A i \in 1 .. buf.lmt : Content[i] = buf.data[(buf.pos + i - 1) % buf.cap]
    BY ContentIsSeq
  <2>2. /\ Content' \in Seq(Byte) /\ Len(Content') = buf.lmt + n
        /\ \A i \in 1 .. buf.lmt + n : Content'[i] = buf'.data[(buf.pos + i - 1) % buf.cap]
    BY <1>6, <1>13, ContentIsSeqNext
  <2>3. w \in Seq(Byte) /\ Len(w) = n /\ \A i \in 1 .. n : w[i] = io.rest[i]
    BY <1>11
  <2> HIDE DEF w
  <2>4. /\ behind \in Seq(Byte) /\ Len(behind) = buf.lmt + n
        /\ \A i \in 1 .. buf.lmt + n :
             behind[i] = IF i <= buf.lmt THEN Content[i] ELSE w[i - buf.lmt]
    <3>1. /\ Content \o w \in Seq(Byte) /\ Len(Content \o w) = Len(Content) + Len(w)
          /\ \A i \in 1 .. Len(Content) + Len(w) :
               (Content \o w)[i] = IF i <= Len(Content) THEN Content[i] ELSE w[i - Len(Content)]
      BY <2>1, <2>3, ConcatProperties
    <3> QED
      BY <2>1, <2>3, <3>1
  <2> HIDE DEF behind
  <2>5. \A i \in 1 .. buf.lmt + n : Content'[i] = behind[i]
    <3> TAKE i \in 1 .. buf.lmt + n
    <3>1. CASE i <= buf.lmt
      BY <1>1, <1>4, <1>7, <2>1, <2>2, <2>4, <3>1
    <3>2. CASE i > buf.lmt
      <4>1. i - buf.lmt \in 1 .. n
        BY <1>1, <1>4, <3>2
      <4>2. behind[i] = io.rest[i - buf.lmt]
        BY <1>1, <1>4, <2>3, <2>4, <3>2, <4>1
      <4> QED
        BY <1>1, <1>7, <2>2, <3>2, <4>2
    <3> QED
      BY <1>1, <1>4, <3>1, <3>2
  <2>6. Content' = behind
    BY <2>2, <2>4, <2>5, SeqEqual
  <2> QED
    BY <2>6 DEF behind, w
<1>15. io.ret - io.moved = room
  BY <1>5 DEF RingInv, Calls, room
<1>16. io.ret \in Nat /\ io.moved \in Nat
  BY DEF RingInv, Calls
<1>17. /\ Due = room /\ Due' = room - n /\ Got' = Got
       /\ Doing = "put" /\ Doing' \in {"nothing", "put"} /\ (Doing' = "nothing" => n = room)
       /\ Queue = Content /\ Queue' = Content'
       /\ io'.rest = SubSeq(io.rest, n + 1, Len(io.rest))
  <2>1. /\ io'.rest = Drop(io.rest, n) /\ io'.out = io.out
        /\ io'.ret = io.ret /\ io'.moved = io.moved + n
    BY <1>5 DEF RingInv, Calls
  <2>2. pc = "write" /\ pc' \in {"idle", "write"} /\ (pc' = "idle" => n = room)
    BY <1>4, <1>5
  <2>3. Queue = Content /\ Queue' = Content' /\ Got' = Got
    BY <2>1, <2>2 DEF Queue, Got
  <2>4. Due = room /\ Due' = room - n
    BY <1>2, <1>4, <1>15, <1>16, <2>1, <2>2 DEF Due
  <2>5. Doing = "put" /\ Doing' \in {"nothing", "put"} /\ (Doing' = "nothing" => n = room)
    BY <2>2 DEF Doing
  <2> QED
    BY <2>1, <2>3, <2>4, <2>5 DEF Drop
<1>18. n \in 0 .. Due /\ Abs!Accept(n)
  BY <1>2, <1>4, <1>6, <1>14, <1>17 DEF Abs!Accept, Abs!Goes
<1> QED
  BY <1>13, <1>18 DEF Kept, Abs!Next

\* When there is no room left, all that was to be moved has been.
LEMMA WriteFullStep ==
  ASSUME RingInv, WriteFull
  PROVE  Kept
<1>1. pc = "write" /\ pc' = "idle" /\ buf' = buf /\ io' = io
  BY DEF WriteFull
<1>2. Calls'
  BY <1>1 DEF RingInv, Calls
<1>3. RingInv' /\ Content' = Content /\ Content \in Seq(Byte)
  BY <1>1, <1>2, ContentIsSeq, RingAlone
<1>4. io.rest \in Seq(Byte)
  BY DEF RingInv, Calls
<1>5. /\ SubSeq(io.rest, 1, 0) = <<>> /\ Content \o <<>> = Content
      /\ SubSeq(io.rest, 0 + 1, Len(io.rest)) = io.rest
  BY <1>3, <1>4, SubSeqEmpty, SubSeqFull, ConcatEmptySeq
<1>6. io.ret - io.moved = 0
  BY <1>1 DEF WriteFull, RingInv, Calls
<1>7. /\ Due = 0 /\ Due' = 0 /\ Got' = Got /\ Doing = "put" /\ Doing' = "nothing"
      /\ Queue = Content /\ Queue' = Content
  BY <1>1, <1>3, <1>6 DEF Due, Got, Doing, Queue
<1>8. 0 \in 0 .. Due
  BY <1>7
<1>9. Abs!Accept(0)
  <2>1. /\ Doing = "put" /\ 0 <= Due /\ Due' = Due - 0 /\ Due' = 0
        /\ Doing' = "nothing"
    BY <1>7
  <2>2. Queue' = Queue \o SubSeq(io.rest, 1, 0) /\ io'.rest = SubSeq(io.rest, 0 + 1, Len(io.rest))
    BY <1>1, <1>5, <1>7
  <2>3. buf'.cap = buf.cap /\ Got' = Got
    BY <1>1, <1>7
  <2> QED
    BY <2>1, <2>2, <2>3 DEF Abs!Accept, Abs!Goes
<1> QED
  BY <1>3, <1>8, <1>9 DEF Kept, Abs!Next

\* A chunk is read off the front of the content, up to the end of the memory.
LEMMA ReadChunkStep ==
  ASSUME RingInv, ReadChunk
  PROVE  Kept
<1> DEFINE n     == MinOf(io.left, buf.cap - buf.pos)
           chunk == [i \in 1 .. n |-> buf.data[buf.pos + i - 1]]
<1>1. /\ buf.cap \in Nat \ {0} /\ buf.pos \in 0 .. buf.cap - 1 /\ buf.lmt \in 0 .. buf.cap
      /\ io.left \in Nat /\ io.left <= buf.lmt /\ io.moved \in Nat /\ io.ret \in Nat
      /\ io.out \in Seq(Byte)
      /\ pc \in {"read", "retain"}
  BY DEF RingInv, Ring, Calls, ReadChunk, MinOf
<1>2. n \in Nat \ {0} /\ n <= io.left /\ n <= buf.cap - buf.pos
  BY <1>1 DEF ReadChunk, MinOf
<1>3. /\ buf' = [buf EXCEPT !.pos = Advanced(buf.pos, n), !.lmt = buf.lmt - n]
      /\ io' = [io EXCEPT !.left = io.left - n, !.moved = io.moved + n, !.out = io.out \o chunk]
      /\ pc' = pc
  BY DEF ReadChunk
<1> HIDE DEF n, chunk
<1>4. /\ buf'.cap = buf.cap /\ buf'.data = buf.data
      /\ buf'.pos = (buf.pos + n) % buf.cap /\ buf'.lmt = buf.lmt - n
      /\ buf' = [data |-> buf'.data, cap |-> buf'.cap, pos |-> buf'.pos, lmt |-> buf'.lmt]
  BY <1>3 DEF RingInv, Ring, Advanced
<1>5. \A i \in 1 .. buf.lmt - n :
        (buf'.pos + i - 1) % buf.cap = (buf.pos + (n + i) - 1) % buf.cap
  <2> TAKE i \in 1 .. buf.lmt - n
  <2>1. PICK c, p, k : c = buf.cap /\ p = buf.pos /\ k = n
    OBVIOUS
  <2>2. c \in Nat \ {0} /\ p \in 0 .. c - 1 /\ k \in 0 .. c - p /\ i \in 1 .. c - k
    BY <1>1, <1>2, <2>1
  <2>3. (((p + k) % c) + i - 1) % c = (p + (k + i) - 1) % c
    BY <2>2, TakenBefore
  <2> QED
    BY <1>4, <2>1, <2>3
<1>6. \A i \in 1 .. n : (buf.pos + i - 1) % buf.cap = buf.pos + i - 1
  <2> TAKE i \in 1 .. n
  <2>1. PICK c, x : c = buf.cap /\ x = buf.pos + i - 1
    OBVIOUS
  <2>2. c \in Nat \ {0} /\ x \in Nat /\ x < c
    BY <1>1, <1>2, <2>1
  <2>3. x % c = x
    BY <2>2, Wraps
  <2> QED
    BY <2>1, <2>3
<1>7. Ring'
  <2>1. buf'.pos \in 0 .. buf.cap - 1
    BY <1>1, <1>2, <1>4
  <2>2. buf.data \in Memories /\ buf.data \in [0 .. buf.cap - 1 -> Cell] /\ buf.cap \in Nat
    BY DEF RingInv, Ring
  <2>3. buf.lmt - n \in Nat /\ buf.lmt - n <= buf.cap /\ buf.cap # 0
    BY <1>1, <1>2
  <2>4. buf' \in [data : Memories, cap : Nat, pos : Nat, lmt : Nat]
    BY <1>4, <2>1, <2>2, <2>3
  <2> QED
    BY <1>1, <1>4, <2>1, <2>2, <2>3, <2>4 DEF Ring
<1>8. /\ Content \in Seq(Byte) /\ Len(Content) = buf.lmt
      /\ \A i \in 1 .. buf.lmt : Content[i] = buf.data[(buf.pos + i - 1) % buf.cap]
  BY ContentIsSeq
<1>9. AllWritten'
  <2> SUFFICES ASSUME NEW i \in 1 .. buf'.lmt
               PROVE  buf'.data[(buf'.pos + i - 1) % buf'.cap] \in Byte
    BY DEF AllWritten
  <2>1. i \in 1 .. buf.lmt - n /\ n + i \in 1 .. buf.lmt
    BY <1>1, <1>2, <1>4
  <2>2. buf.data[(buf.pos + (n + i) - 1) % buf.cap] \in Byte
    BY <2>1 DEF RingInv, AllWritten
  <2> QED
    BY <1>4, <1>5, <2>1, <2>2
<1>10. chunk \in Seq(Byte) /\ Len(chunk) = n /\ \A i \in 1 .. n : chunk[i] = Content[i]
  <2>1. \A i \in 1 .. n : chunk[i] = Content[i] /\ Content[i] \in Byte
    <3> TAKE i \in 1 .. n
    <3>1. i \in 1 .. buf.lmt
      BY <1>1, <1>2
    <3>2. chunk[i] = buf.data[buf.pos + i - 1]
      BY DEF chunk
    <3>3. Content[i] = buf.data[buf.pos + i - 1]
      BY <1>6, <1>8, <3>1
    <3>4. Content[i] \in Byte
      BY <1>8, <3>1, ElementOfSeq
    <3> QED
      BY <3>2, <3>3, <3>4
  <2>2. chunk \in [1 .. n -> Byte]
    BY <2>1 DEF chunk
  <2>3. n \in Nat
    BY <1>2
  <2> QED
    BY <2>1, <2>2, <2>3, FunctionIsSeq
<1>11. io.out \o chunk \in Seq(Byte)
  BY <1>1, <1>10, ConcatProperties
<1>12. Calls'
  <2>1. io \in [rest : Seq(Byte), left : Nat, out : Seq(Byte), moved : Nat, ret : Nat, cap : Nat]
    BY DEF RingInv, Calls
  <2>2. io' \in [rest : Seq(Byte), left : Nat, out : Seq(Byte), moved : Nat, ret : Nat, cap : Nat]
    <3>1. io.left - n \in Nat /\ io.moved + n \in Nat
      BY <1>1, <1>2
    <3> QED
      BY <1>3, <1>11, <2>1, <3>1
  <2>3. /\ io'.left = io.left - n /\ io'.moved = io.moved + n
        /\ io'.ret = io.ret /\ io'.cap = io.cap /\ io'.rest = io.rest
    BY <1>3, <2>1
  <2>4. /\ pc = "read" => io.left = io.ret - io.moved
        /\ pc = "retain" => io.left = buf.lmt /\ io.cap \in Caps /\ io.cap > buf.cap /\ io.rest = <<>>
    BY DEF RingInv, Calls
  <2>5. pc' = "read" => io'.left <= buf'.lmt /\ io'.left = io'.ret - io'.moved
    <3> SUFFICES ASSUME pc = "read"
                 PROVE  io.left - n <= buf.lmt - n /\ io.left - n = io.ret - (io.moved + n)
      BY <1>3, <1>4, <2>3
    <3>1. io.left = io.ret - io.moved
      BY <2>4
    <3> QED
      BY <1>1, <1>2, <3>1
  <2>6. pc' = "retain" =>
          io'.left = buf'.lmt /\ io'.cap \in Caps /\ io'.cap > buf'.cap /\ io'.rest = <<>>
    BY <1>1, <1>2, <1>3, <1>4, <2>3, <2>4
  <2> QED
    BY <1>1, <1>3, <2>2, <2>5, <2>6 DEF Calls
<1>13. RingInv'
  BY <1>7, <1>9, <1>12 DEF RingInv
<1>14. SubSeq(Content, 1, n) = chunk
  <2> DEFINE first == SubSeq(Content, 1, n)
  <2>1. n \in Int /\ n >= 1 /\ \A i \in 1 .. n : Content[i] \in Byte
    BY <1>1, <1>2, <1>8, ElementOfSeq
  <2>2. /\ first \in Seq(Byte)
        /\ Len(first) = IF 1 <= n THEN n - 1 + 1 ELSE 0
        /\ \A i \in 1 .. n - 1 + 1 : first[i] = Content[1 + i - 1]
    BY <2>1, SubSeqProperties
  <2> HIDE DEF first
  <2>3. Len(first) = n /\ \A i \in 1 .. n : first[i] = chunk[i]
    BY <1>10, <2>1, <2>2
  <2>4. first = chunk
    BY <1>10, <2>2, <2>3, SeqEqual
  <2> QED
    BY <2>4 DEF first
<1>15. Content' = SubSeq(Content, n + 1, Len(Content))
  <2> DEFINE after == SubSeq(Content, n + 1, Len(Content))
  <2>1. /\ Content' \in Seq(Byte) /\ Len(Content') = buf.lmt - n
        /\ \A i \in 1 .. buf.lmt - n : Content'[i] = buf.data[(buf'.pos + i - 1) % buf.cap]
    BY <1>4, <1>13, ContentIsSeqNext
  <2>2. n + 1 \in Int /\ Len(Content) \in Int /\ \A i \in n + 1 .. Len(Content) : Content[i] \in Byte
    BY <1>1, <1>2, <1>8, ElementOfSeq
  <2>3. /\ after \in Seq(Byte)
        /\ Len(after) = IF n + 1 <= Len(Content) THEN Len(Content) - (n + 1) + 1 ELSE 0
        /\ \A i \in 1 .. Len(Content) - (n + 1) + 1 : after[i] = Content[n + 1 + i - 1]
    BY <2>2, SubSeqProperties
  <2> HIDE DEF after
  <2>4. Len(after) = buf.lmt - n /\ \A i \in 1 .. buf.lmt - n : after[i] = Content[n + i]
    <3>1. Len(Content) = buf.lmt /\ n <= buf.lmt /\ n \in Nat /\ buf.lmt \in Nat
      BY <1>1, <1>2, <1>8
    <3>2. Len(after) = buf.lmt - n
      BY <2>3, <3>1
    <3>3. ASSUME NEW i \in 1 .. buf.lmt - n
          PROVE  after[i] = Content[n + i]
      <4>1. i \in 1 .. Len(Content) - (n + 1) + 1 /\ n + 1 + i - 1 = n + i
        BY <3>1
      <4>2. after[i] = Content[n + 1 + i - 1]
        BY <2>3, <4>1
      <4> QED
        BY <4>1, <4>2
    <3> QED
      BY <3>2, <3>3
  <2>5. \A i \in 1 .. buf.lmt - n : Content'[i] = after[i]
    <3> TAKE i \in 1 .. buf.lmt - n
    <3>1. n + i \in 1 .. buf.lmt
      BY <1>1, <1>2
    <3>2. Content[n + i] = buf.data[(buf.pos + (n + i) - 1) % buf.cap]
      BY <1>8, <3>1
    <3> QED
      BY <1>5, <2>1, <2>4, <3>2
  <2>6. Content' = after
    BY <2>1, <2>3, <2>4, <2>5, SeqEqual
  <2> QED
    BY <2>6 DEF after
<1>16. io'.out = io.out \o chunk /\ io'.ret = io.ret /\ io'.moved = io.moved + n /\ io'.rest = io.rest
  BY <1>3 DEF RingInv, Calls
<1>17. CASE pc = "read"
  <2>1. io.left = io.ret - io.moved
    BY <1>17 DEF RingInv, Calls
  <2>2. pc' = "read"
    BY <1>3, <1>17
  <2>3. /\ Got = io.out /\ Got' = io.out \o chunk
        /\ Doing = "get" /\ Doing' = "get" /\ Queue = Content /\ Queue' = Content'
    BY <1>16, <1>17, <2>2 DEF Got, Doing, Queue
  <2>4. Due = io.left /\ Due' = io.left - n
    <3>1. Due = io.ret - io.moved /\ Due' = io'.ret - io'.moved
      BY <1>17, <2>2 DEF Due
    <3>2. io'.ret - io'.moved = (io.ret - io.moved) - n
      BY <1>1, <1>2, <1>16
    <3> QED
      BY <2>1, <3>1, <3>2
  <2>5. n \in 0 .. Due
    BY <1>1, <1>2, <2>4
  <2>6. n <= Due /\ Due' = Due - n
    BY <1>2, <2>4
  <2>7. Abs!Yield(n)
    BY <1>4, <1>14, <1>15, <1>16, <2>3, <2>6 DEF Abs!Yield, Abs!Goes
  <2> QED
    BY <1>13, <2>5, <2>7 DEF Kept, Abs!Next
<1>18. CASE pc = "retain"
  <2>1. Content = chunk \o Content'
    <3>1. n \in 0 .. Len(Content)
      BY <1>1, <1>2, <1>8
    <3>2. /\ 1 \in 1 .. Len(Content) + 1 /\ n \in 1 - 1 .. Len(Content)
          /\ Len(Content) \in n .. Len(Content)
      BY <3>1
    <3>3. SubSeq(Content, 1, n) \o SubSeq(Content, n + 1, Len(Content)) = SubSeq(Content, 1, Len(Content))
      BY <1>8, <3>2, ConcatAdjacentSubSeq
    <3> QED
      BY <1>8, <1>14, <1>15, <3>3, SubSeqFull
  <2>2. Content' \in Seq(Byte)
    BY <1>13, ContentIsSeqNext
  <2>3. (io.out \o chunk) \o Content' = io.out \o Content
    <3>1. PICK o, c, t : o = io.out /\ c = chunk /\ t = Content'
      OBVIOUS
    <3>2. o \in Seq(Byte) /\ c \in Seq(Byte) /\ t \in Seq(Byte)
      BY <1>1, <1>10, <2>2, <3>1
    <3>3. (o \o c) \o t = o \o (c \o t)
      BY <3>2, ConcatAssociative
    <3> QED
      BY <2>1, <3>1, <3>3
  <2>4. UNCHANGED Abs!vars
    BY <1>3, <1>4, <1>16, <1>18, <2>3 DEF Abs!vars, Queue, Doing, Got, Due
  <2> QED
    BY <1>13, <2>4 DEF Kept
<1> QED
  BY <1>1, <1>17, <1>18

\* When nothing is left to read, the call has read what it will return, or the ring
\* moves to its new memory.
LEMMA ReadEndStep ==
  ASSUME RingInv, ReadEnd
  PROVE  Kept
<1>1. /\ buf.cap \in Nat /\ buf.pos \in Nat /\ buf.lmt \in 0 .. buf.cap
      /\ IF buf.cap = 0 THEN buf.pos = 0 ELSE buf.pos < buf.cap
      /\ io.left \in Nat /\ io.left <= buf.lmt /\ io.moved \in Nat /\ io.ret \in Nat
      /\ io.out \in Seq(Byte) /\ io.rest \in Seq(Byte)
      /\ pc \in {"read", "retain"} /\ pc' = "idle"
  <2>1. pc \in {"read", "retain"} /\ pc' = "idle"
    BY DEF ReadEnd
  <2>2. buf \in [data : Memories, cap : Nat, pos : Nat, lmt : Nat] /\ buf.lmt <= buf.cap
    BY DEF RingInv, Ring
  <2>3. IF buf.cap = 0 THEN buf.pos = 0 ELSE buf.pos < buf.cap
    BY DEF RingInv, Ring
  <2>4. io \in [rest : Seq(Byte), left : Nat, out : Seq(Byte), moved : Nat, ret : Nat, cap : Nat]
    BY DEF RingInv, Calls
  <2>5. io.left <= buf.lmt
    BY <2>1, <2>2 DEF RingInv, Calls
  <2>6. buf.cap \in Nat /\ buf.pos \in Nat /\ buf.lmt \in 0 .. buf.cap
    BY <2>2
  <2>7. /\ io.left \in Nat /\ io.moved \in Nat /\ io.ret \in Nat
        /\ io.out \in Seq(Byte) /\ io.rest \in Seq(Byte)
    BY <2>4
  <2> QED
    BY <2>1, <2>3, <2>5, <2>6, <2>7
<1>2. io.left = 0
  BY <1>1 DEF ReadEnd, MinOf
<1>3. Content \in Seq(Byte) /\ Len(Content) = buf.lmt
  BY ContentIsSeq
<1>4. CASE pc = "read"
  <2>1. buf' = buf /\ io' = io
    BY <1>4 DEF ReadEnd
  <2>2. Calls'
    BY <1>1, <2>1 DEF RingInv, Calls
  <2>3. RingInv' /\ Content' = Content
    BY <2>1, <2>2, RingAlone
  <2>4. io.ret - io.moved = 0
    BY <1>2, <1>4 DEF RingInv, Calls
  <2>5. /\ Due = 0 /\ Due' = 0 /\ Got = io.out /\ Got' = io.out
        /\ Doing = "get" /\ Doing' = "nothing" /\ Queue = Content /\ Queue' = Content
    BY <1>1, <1>4, <2>1, <2>3, <2>4 DEF Due, Got, Doing, Queue
  <2>6. /\ SubSeq(Content, 1, 0) = <<>> /\ io.out \o <<>> = io.out
        /\ SubSeq(Content, 0 + 1, Len(Content)) = Content
    BY <1>1, <1>3, SubSeqEmpty, SubSeqFull, ConcatEmptySeq
  <2>7. 0 \in 0 .. Due
    BY <2>5
  <2>8. Abs!Yield(0)
    <3>1. /\ Doing = "get" /\ 0 <= Due /\ Due' = Due - 0 /\ Due' = 0
          /\ Doing' = "nothing"
      BY <2>5
    <3>2. Got' = Got \o SubSeq(Queue, 1, 0) /\ Queue' = SubSeq(Queue, 0 + 1, Len(Queue))
      BY <2>5, <2>6
    <3>3. buf'.cap = buf.cap /\ io'.rest = io.rest
      BY <2>1
    <3> QED
      BY <3>1, <3>2, <3>3 DEF Abs!Yield, Abs!Goes
  <2> QED
    BY <2>3, <2>7, <2>8 DEF Kept, Abs!Next
<1>5. CASE pc = "retain"
  <2> DEFINE c == io.cap
             filled == Copied(Memory(c), 0, io.out, Len(io.out))
  <2>1. c \in Caps /\ c > buf.cap /\ io.rest = <<>> /\ buf.lmt = 0
    BY <1>2, <1>5 DEF RingInv, Calls
  <2>2. c \in Nat \ {0}
    <3>1. c \in Nat /\ buf.cap \in Nat
      BY <1>1, <2>1
    <3> QED
      BY <2>1, <3>1
  <2>3. buf' = [data |-> filled, cap |-> c, pos |-> 0, lmt |-> 0] /\ io' = NoIO
    BY <1>5, <2>1 DEF ReadEnd, Install, RingInv, Ring
  <2>4. filled \in [0 .. c - 1 -> Cell]
    <3>1. \A i \in 1 .. Len(io.out) : io.out[i] \in Byte
      BY <1>1, ElementOfSeq
    <3>2. Len(io.out) \in Nat
      BY <1>1, LenProperties
    <3>3. DOMAIN Memory(c) = 0 .. c - 1 /\ \A i \in 0 .. c - 1 : Memory(c)[i] = GARBAGE
      BY DEF Memory
    <3>4. \A i \in 0 .. c - 1 :
            IF i \in 0 .. 0 + Len(io.out) - 1 THEN io.out[i - 0 + 1] \in Cell
                                              ELSE Memory(c)[i] \in Cell
      BY <2>2, <3>1, <3>2, <3>3 DEF Cell
    <3> HIDE DEF c
    <3>5. filled = [i \in 0 .. c - 1 |-> IF i \in 0 .. 0 + Len(io.out) - 1 THEN io.out[i - 0 + 1]
                                                                          ELSE Memory(c)[i]]
      BY <3>3 DEF Copied
    <3> QED
      BY <3>4, <3>5
  <2> HIDE DEF c, filled
  <2>5. filled \in Memories
    BY <2>2, <2>4 DEF Memories
  <2>6. Ring' /\ AllWritten'
    BY <2>1, <2>2, <2>3, <2>4, <2>5 DEF Ring, AllWritten
  <2>7. Calls'
    BY <1>1, <2>3, EmptySeq DEF Calls, NoIO
  <2>8. RingInv'
    BY <2>6, <2>7 DEF RingInv
  <2>9. Content' = <<>>
    BY <2>3, <2>8, ContentIsSeqNext, EmptySeq
  <2>10. /\ Due = 0 /\ Due' = 0 /\ Got = <<>> /\ Got' = <<>>
         /\ Doing = "grow" /\ Doing' = "nothing" /\ Queue' = <<>>
         /\ buf'.cap = c /\ io'.rest = <<>>
    BY <1>1, <1>5, <2>3, <2>9 DEF Due, Got, Doing, Queue, NoIO
  <2>11. Abs!Grown
    BY <2>1, <2>10 DEF Abs!Grown
  <2> QED
    BY <2>8, <2>11 DEF Kept, Abs!Next
<1> QED
  BY <1>1, <1>4, <1>5

\* A step of the ring is a step of the queue, or none.
LEMMA RingStep ==
  ASSUME RingInv, [Next]_vars
  PROVE  Kept
<1>1. CASE Call
  <2>1. ASSUME NEW s \in Requests, aloe_rinbuf_write(s)
        PROVE  Kept
    <3>1. PICK n \in 0 .. MaxSize : s \in [1 .. n -> Byte]
      BY DEF Requests
    <3> QED
      BY <2>1, <3>1, WriteStep
  <2> QED
    BY <1>1, <2>1, ReadStep, ExpandStep DEF Call
<1>2. CASE Copying
  BY <1>2, WriteChunkStep, WriteFullStep, ReadChunkStep, ReadEndStep DEF Copying
<1>3. CASE UNCHANGED vars
  <2>1. buf' = buf /\ pc' = pc /\ io' = io
    BY <1>3 DEF vars
  <2>2. Calls'
    BY <2>1 DEF RingInv, Calls
  <2>3. RingInv' /\ Content' = Content
    BY <2>1, <2>2, RingAlone
  <2>4. UNCHANGED Abs!vars
    BY <2>1, <2>3 DEF Abs!vars, Queue, Doing, Got, Due
  <2> QED
    BY <2>3, <2>4 DEF Kept
<1> QED
  BY <1>1, <1>2, <1>3 DEF Next

-----------------------------------------------------------------------------
\* RingInv always holds: pos and lmt are within the memory, what lies between them was
\* written, and what a call has yet to move is there or has room (aloe_rinbuf_read and
\* aloe_rinbuf_write, misc.c:72 and :96).
THEOREM RingAlways == Spec => []RingInv
<1>1. RingInv /\ [Next]_vars => RingInv'
  BY RingStep DEF Kept
<1> QED
  BY RingInit, <1>1, PTL DEF Spec

\* No memcpy of the ring ever leaves its memory or reads a byte that was not written.
THEOREM AlwaysInMemory == Spec => []InMemory
<1>1. RingInv => InMemory
  <2> SUFFICES ASSUME RingInv PROVE InMemory
    OBVIOUS
  <2>1. /\ buf.cap \in Nat /\ buf.pos \in Nat /\ buf.lmt \in Nat /\ buf.lmt <= buf.cap
        /\ DOMAIN buf.data = 0 .. buf.cap - 1
        /\ IF buf.cap = 0 THEN buf.pos = 0 ELSE buf.pos < buf.cap
    BY DEF RingInv, Ring
  <2>2. ASSUME pc = "write", io.rest # <<>>, buf.lmt < buf.cap
        PROVE  LET at == (buf.pos + buf.lmt) % buf.cap
               IN  at + ToTheEnd(MinOf(Len(io.rest), buf.cap - buf.lmt), at) <= buf.cap
    <3>1. (buf.pos + buf.lmt) % buf.cap \in 0 .. buf.cap - 1 /\ buf.cap \in Nat \ {0}
      BY <2>1, <2>2
    <3>2. Len(io.rest) \in Nat
      BY LenProperties DEF RingInv, Calls
    <3> QED
      BY <2>1, <3>1, <3>2 DEF ToTheEnd, MinOf
  <2>3. pc \in {"read", "retain"} => io.left <= buf.lmt
    BY <2>1 DEF RingInv, Calls
  <2>4. \A i \in 1 .. Len(Content) : Content[i] # GARBAGE
    <3>1. Content \in Seq(Byte)
      BY ContentIsSeq
    <3> QED
      BY <3>1, ElementOfSeq
  <2> QED
    BY <2>1, <2>2, <2>3, <2>4 DEF InMemory
<1> QED
  BY RingAlways, <1>1, PTL

\* The ring is a queue of bytes, wherever its content wraps: every byte written is read
\* once, in the order written, and a call returns the number of bytes it has moved.
THEOREM RingIsFifo == Spec => ImplementsFifo
<1>1. RingInv /\ [Next]_vars => [Abs!Next]_(Abs!vars)
  BY RingStep DEF Kept
<1>2. Init => Abs!Init
  BY RingInit
<1> QED
  BY RingAlways, <1>1, <1>2, PTL DEF Spec, ImplementsFifo, Abs!Spec

=============================================================================
