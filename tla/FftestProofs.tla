---------------------------- MODULE FftestProofs ----------------------------
(***************************************************************************)
(* Proofs about Fftest, for every size of the file, of the buffer and of   *)
(* the threshold: the parser sees the file in order and whole, and main    *)
(* releases what it opened.                                                *)
(***************************************************************************)
EXTENDS FftestProps, TLAPS

Types ==
  /\ pc \in {"setup", "parse", "refill", "send", "receive", "send_end", "receive_end",
             "finally", "exit", "crash"}
  /\ setup \in 0 .. Len(Steps)
  /\ aubuf \in [0 .. AUBUF_SZ - 1 -> Int]
  /\ aubuf_pos \in Nat /\ aubuf_len \in Nat /\ aubuf_prog \in Nat /\ au_prog \in Nat
  /\ file \in 0 .. FileSize /\ ioerr \in BOOLEAN /\ frames \in Nat

\* An empty buffer in front of the parser is the end of the file, or reading has failed:
\* the threshold below which the buffer is refilled is at least 1.
EmptyAtEnd == pc = "parse" /\ aubuf_len = 0 => file = FileSize \/ ioerr

\* Nothing is read before everything is obtained.
Untouched == pc = "setup" => file = 0 /\ au_prog = 0

\* dec is obtained first, and released by nobody.
DecFirst == pc # "crash" /\ setup > 0 => "dec" \in held

FftestInv ==
  Types /\ StreamInOrder /\ EmptyAtEnd /\ AllConsumed /\ Untouched /\ DecFirst
  /\ ReleasedAtEnd

USE SizesAssumption

-----------------------------------------------------------------------------
LEMMA StepsKnown == Len(Steps) = 9 /\ Steps[1] = "dec"
  BY DEF Steps

\* In the first state nothing is read and nothing obtained.
LEMMA FftestInit == Init => FftestInv
<1> SUFFICES ASSUME Init PROVE FftestInv
  OBVIOUS
<1>1. Types
  <2>1. aubuf \in [0 .. AUBUF_SZ - 1 -> Int]
    BY DEF Init
  <2>2. setup \in 0 .. Len(Steps)
    BY StepsKnown DEF Init
  <2>3. file \in 0 .. FileSize
    BY DEF Init
  <2> QED
    BY <2>1, <2>2, <2>3 DEF Init, Types
<1> QED
  BY <1>1, StepsKnown
  DEF Init, FftestInv, StreamInOrder, EmptyAtEnd, AllConsumed, Untouched, DecFirst,
      ReleasedAtEnd

\* A step of the preparation does not touch the input.
LEMMA SetUpKeeps == FftestInv /\ SetUp => FftestInv'
<1> SUFFICES ASSUME FftestInv, SetUp PROVE FftestInv'
  OBVIOUS
<1> USE StepsKnown DEF FftestInv, SetUp, input
<1>1. Types' /\ StreamInOrder'
  BY DEF Types, StreamInOrder
<1>2. EmptyAtEnd' /\ AllConsumed' /\ Untouched' /\ ReleasedAtEnd'
  BY DEF EmptyAtEnd, AllConsumed, Untouched, ReleasedAtEnd
<1>3. DecFirst'
  <2>1. setup = 0 => Steps[setup + 1] = "dec"
    OBVIOUS
  <2>2. \/ /\ setup' = setup + 1
           /\ \/ held' = held \union ({Steps[setup + 1]} \cap Resources)
              \/ Steps[setup + 1] = "ofd" /\ UNCHANGED held
        \/ UNCHANGED <<held, setup>>
    OBVIOUS
  <2>3. CASE setup = 0
    BY <2>1, <2>2, <2>3 DEF Resources, DecFirst
  <2>4. CASE setup # 0
    BY <2>2, <2>4 DEF DecFirst, Types
  <2> QED
    BY <2>3, <2>4
<1> QED
  BY <1>1, <1>2, <1>3

\* What is read goes behind what is kept: with the bytes that are kept in order at the start
\* of data, the buffer is in order.
LEMMA FilledInOrder ==
  ASSUME Types, StreamInOrder,
         NEW data \in [0 .. AUBUF_SZ - 1 -> Int],
         \A i \in 0 .. aubuf_len - 1 : data[i] = au_prog + i,
         NEW n \in Read(AUBUF_SZ - aubuf_len)
  PROVE  /\ n \in Nat /\ n <= AUBUF_SZ - aubuf_len /\ n <= FileSize - file
         /\ Filled(data, aubuf_len, n) \in [0 .. AUBUF_SZ - 1 -> Int]
         /\ \A i \in 0 .. aubuf_len + n - 1 : Filled(data, aubuf_len, n)[i] = au_prog + i
<1>1. /\ aubuf_len \in Nat /\ aubuf_len <= AUBUF_SZ /\ file \in 0 .. FileSize
      /\ au_prog \in Nat /\ au_prog + aubuf_len = file
  BY DEF Types, StreamInOrder
<1>2. n \in Nat /\ n <= AUBUF_SZ - aubuf_len /\ n <= FileSize - file
  BY <1>1 DEF Read, MinOf
<1>3. Filled(data, aubuf_len, n) \in [0 .. AUBUF_SZ - 1 -> Int]
  BY <1>1, <1>2 DEF Filled
<1>4. ASSUME NEW i \in 0 .. aubuf_len + n - 1
      PROVE  Filled(data, aubuf_len, n)[i] = au_prog + i
  <2>1. i \in 0 .. AUBUF_SZ - 1
    BY <1>1, <1>2
  <2>2. CASE i < aubuf_len
    BY <1>1, <1>2, <2>1, <2>2 DEF Filled
  <2>3. CASE i >= aubuf_len
    BY <1>1, <1>2, <2>1, <2>3 DEF Filled
  <2> QED
    BY <1>1, <1>2, <2>2, <2>3
<1> QED
  BY <1>2, <1>3, <1>4

\* An empty buffer that was filled with nothing, though there was room, is the end.
LEMMA NothingFilled ==
  ASSUME NEW n \in Nat, Loaded(n, AUBUF_SZ), n = 0, file \in 0 .. FileSize, ioerr \in BOOLEAN
  PROVE  file' = FileSize \/ ioerr'
<1>1. CASE FileSize - file > 0
  <2>1. n < MinOf(AUBUF_SZ, FileSize - file)
    BY <1>1 DEF MinOf
  <2> QED
    BY <2>1 DEF Loaded
<1>2. CASE FileSize - file = 0
  BY <1>2 DEF Loaded
<1> QED
  BY <1>1, <1>2

\* The buffer is filled, from nothing or behind the rest that was slid to its start.
LEMMA LoadKeeps ==
  ASSUME FftestInv, pc \in {"setup", "refill"}, pc' = "parse",
         UNCHANGED <<held, setup, au_prog, frames>>,
         NEW data \in [0 .. AUBUF_SZ - 1 -> Int],
         \A i \in 0 .. aubuf_len - 1 : data[i] = au_prog + i,
         NEW n \in Read(AUBUF_SZ - aubuf_len), Loaded(n, AUBUF_SZ - aubuf_len),
         aubuf' = Filled(data, aubuf_len, n), aubuf_pos' = 0, aubuf_len' = aubuf_len + n
  PROVE  FftestInv'
<1> USE DEF FftestInv
<1>1. /\ n \in Nat /\ n <= AUBUF_SZ - aubuf_len /\ n <= FileSize - file
      /\ Filled(data, aubuf_len, n) \in [0 .. AUBUF_SZ - 1 -> Int]
      /\ \A i \in 0 .. aubuf_len + n - 1 : Filled(data, aubuf_len, n)[i] = au_prog + i
  BY FilledInOrder
<1>2. file' = file + n /\ aubuf_prog' = aubuf_prog + n /\ ioerr' \in BOOLEAN
  BY DEF Loaded
<1>3. Types'
  BY <1>1, <1>2 DEF Types
<1>4. StreamInOrder'
  BY <1>1, <1>2 DEF StreamInOrder, Types
<1>5. EmptyAtEnd'
  <2>1. SUFFICES ASSUME aubuf_len' = 0 PROVE file' = FileSize \/ ioerr'
    BY DEF EmptyAtEnd
  <2>2. n = 0 /\ aubuf_len = 0
    BY <1>1, <2>1 DEF Types
  <2> QED
    BY <1>1, <2>2, NothingFilled DEF Types
<1>6. AllConsumed' /\ Untouched' /\ DecFirst' /\ ReleasedAtEnd'
  BY DEF AllConsumed, Untouched, DecFirst, ReleasedAtEnd
<1> QED
  BY <1>3, <1>4, <1>5, <1>6

LEMMA FirstReadKeeps == FftestInv /\ FirstRead => FftestInv'
<1> SUFFICES ASSUME FftestInv, FirstRead PROVE FftestInv'
  OBVIOUS
<1>1. aubuf_len = 0 /\ AUBUF_SZ - aubuf_len = AUBUF_SZ
  BY DEF FftestInv, FirstRead, Untouched, StreamInOrder, Types
<1>2. aubuf \in [0 .. AUBUF_SZ - 1 -> Int] /\ \A i \in 0 .. aubuf_len - 1 : aubuf[i] = au_prog + i
  BY <1>1 DEF FftestInv, Types
<1>3. PICK n \in Read(AUBUF_SZ) :
        /\ Loaded(n, AUBUF_SZ)
        /\ aubuf' = Filled(aubuf, 0, n) /\ aubuf_pos' = 0 /\ aubuf_len' = n
  BY DEF FirstRead
<1>4. aubuf_len' = aubuf_len + n
  BY <1>1, <1>3 DEF Read
<1> QED
  BY <1>1, <1>2, <1>3, <1>4, LoadKeeps DEF FirstRead

LEMMA RefillKeeps == FftestInv /\ Refill => FftestInv'
<1> SUFFICES ASSUME FftestInv, Refill PROVE FftestInv'
  OBVIOUS
<1>1. CASE Low(aubuf_len)
  <2> DEFINE data == Slid(aubuf, aubuf_pos, aubuf_len)
  <2>1. /\ data \in [0 .. AUBUF_SZ - 1 -> Int]
        /\ \A i \in 0 .. aubuf_len - 1 : data[i] = au_prog + i
    <3>1. /\ aubuf \in [0 .. AUBUF_SZ - 1 -> Int] /\ aubuf_pos \in Nat /\ aubuf_len \in Nat
          /\ aubuf_pos + aubuf_len <= AUBUF_SZ
          /\ \A i \in 0 .. aubuf_len - 1 : aubuf[aubuf_pos + i] = au_prog + i
      BY DEF FftestInv, Types, StreamInOrder
    <3>2. DOMAIN aubuf = 0 .. AUBUF_SZ - 1
      BY <3>1
    <3>3. \A i \in 0 .. AUBUF_SZ - 1 : i < aubuf_len => aubuf_pos + i \in 0 .. AUBUF_SZ - 1
      BY <3>1
    <3> QED
      BY <3>1, <3>2, <3>3 DEF Slid
  <2>2. PICK n \in Read(AUBUF_SZ - aubuf_len) :
          /\ Loaded(n, AUBUF_SZ - aubuf_len)
          /\ aubuf' = Filled(data, aubuf_len, n)
          /\ aubuf_pos' = 0 /\ aubuf_len' = aubuf_len + n
    BY <1>1 DEF Refill, Room
  <2> QED
    BY <2>1, <2>2, LoadKeeps DEF Refill
<1>2. CASE ~ Low(aubuf_len)
  <2>1. /\ UNCHANGED <<aubuf, aubuf_pos, aubuf_len, aubuf_prog, file, ioerr, held, setup,
                       au_prog, frames>>
        /\ pc = "refill" /\ pc' = "parse"
    BY <1>2 DEF Refill
  <2>2. aubuf_len # 0
    BY <1>2 DEF Low
  <2> QED
    BY <2>1, <2>2
    DEF FftestInv, Types, StreamInOrder, EmptyAtEnd, AllConsumed, Untouched, DecFirst, ReleasedAtEnd
<1> QED
  BY <1>1, <1>2

\* The parser takes from the front.
LEMMA ParseKeeps ==
  ASSUME FftestInv, NEW psz \in 0 .. AUBUF_SZ, Parse(psz)
  PROVE  FftestInv'
<1> USE DEF FftestInv, Parse, More
<1>1. Types'
  BY DEF Types
<1>2. StreamInOrder'
  <2>1. /\ aubuf_pos' = aubuf_pos + psz /\ aubuf_len' = aubuf_len - psz
        /\ au_prog' = au_prog + psz /\ UNCHANGED <<aubuf, aubuf_prog, file>>
    OBVIOUS
  <2>2. ASSUME NEW i \in 0 .. aubuf_len' - 1
        PROVE  aubuf'[aubuf_pos' + i] = au_prog' + i
    <3>1. psz + i \in 0 .. aubuf_len - 1 /\ aubuf_pos' + i = aubuf_pos + (psz + i)
      BY <2>1 DEF Types
    <3> QED
      BY <2>1, <3>1 DEF StreamInOrder, Types
  <2> QED
    BY <2>1, <2>2 DEF StreamInOrder, Types
<1>3. EmptyAtEnd' /\ AllConsumed' /\ Untouched' /\ DecFirst' /\ ReleasedAtEnd'
  BY DEF EmptyAtEnd, AllConsumed, Untouched, DecFirst, ReleasedAtEnd
<1> QED
  BY <1>1, <1>2, <1>3

\* The other steps leave the input alone; the loop is left when all of it is consumed.
LEMMA OthersKeep ==
  FftestInv /\ (ParseFails \/ Drain \/ Send \/ Receive \/ Finally \/ Ended) => FftestInv'
<1> SUFFICES ASSUME FftestInv, ParseFails \/ Drain \/ Send \/ Receive \/ Finally \/ Ended
             PROVE  FftestInv'
  OBVIOUS
<1> USE DEF FftestInv, ParseFails, Drain, Send, Receive, Finally, Ended, More, input, vars
<1>1. UNCHANGED input /\ UNCHANGED setup
  OBVIOUS
<1>2. Types'
  BY <1>1, SizesAssumption DEF Types
<1>3. StreamInOrder'
  BY <1>1 DEF StreamInOrder
<1>4. EmptyAtEnd' /\ Untouched'
  BY <1>1 DEF EmptyAtEnd, Untouched
<1>5. AllConsumed'
  BY <1>1 DEF AllConsumed, EmptyAtEnd, StreamInOrder, Types
<1>6. DecFirst' /\ ReleasedAtEnd'
  BY <1>1 DEF DecFirst, ReleasedAtEnd, NotFreed, Types
<1> QED
  BY <1>2, <1>3, <1>4, <1>5, <1>6

-----------------------------------------------------------------------------
\* The invariant holds of every state, for every size of file and buffer.
THEOREM Invariant == Spec => []FftestInv
<1>1. FftestInv /\ [Next]_vars => FftestInv'
  <2>1. FftestInv /\ UNCHANGED vars => FftestInv'
    BY DEF vars, input, FftestInv, Types, StreamInOrder, EmptyAtEnd, AllConsumed, Untouched,
           DecFirst, ReleasedAtEnd
  <2> QED
    BY <2>1, SetUpKeeps, FirstReadKeeps, RefillKeeps, ParseKeeps, OthersKeep DEF Next, Loop
<1> QED
  BY <1>1, FftestInit, PTL DEF Spec

\* StreamInOrder (fftest1.c:237-263): what the parser is given next is the file from the first
\* byte it has not consumed.
THEOREM StreamAlwaysInOrder == Spec => []StreamInOrder
<1>1. FftestInv => StreamInOrder
  BY DEF FftestInv
<1> QED
  BY <1>1, Invariant, PTL

\* AllConsumed (fftest1.c:228, 266): the decoder is told the end when the parser has consumed
\* the whole file, or reading it has failed.
THEOREM AllConsumedAlways == Spec => []AllConsumed
<1>1. FftestInv => AllConsumed
  BY DEF FftestInv
<1> QED
  BY <1>1, Invariant, PTL

\* ReleasedAtEnd (fftest1.c:273-281): main releases all it has opened but dec itself, and dies
\* only without it.
THEOREM ReleasedAtEndAlways == Spec => []ReleasedAtEnd
<1>1. FftestInv => ReleasedAtEnd
  BY DEF FftestInv
<1> QED
  BY <1>1, Invariant, PTL

=============================================================================
