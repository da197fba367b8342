----------------------------- MODULE BufProofs -----------------------------
(***************************************************************************)
(* Proofs about the index buffer of misc.c and its users, for every set of *)
(* letters, every text, capacity, maximum and gap: nothing is printed or   *)
(* moved outside the memory, a printf is whole or leaves the text alone,   *)
(* and what log_printf and test_buf1 compose from several printfs is       *)
(* whole, too.                                                             *)
(***************************************************************************)
EXTENDS BufUsers, SequenceTheorems, TLAPS

Cell == Char \union {NUL, GARBAGE}

\* The indexes of buffer b are in order and within its memory.
BufOK(b) ==
  /\ b \in [data : [0 .. b.cap - 1 -> Cell], cap : Nat, pos : Nat, lmt : Nat]
  /\ b.pos <= b.lmt /\ b.lmt <= b.cap

\* What lies before pos in b begins c, too.
Keeps(b, c) == c.pos = b.pos /\ \A i \in 0 .. b.pos - 1 : c.data[i] = b.data[i]

\* A buffer is known by its four fields, in whatever order they are updated.
LEMMA Updated ==
  ASSUME NEW b, BufOK(b), NEW d, NEW q, NEW l
  PROVE  /\ [b EXCEPT !.data = d, !.pos = q] = [data |-> d, cap |-> b.cap, pos |-> q, lmt |-> b.lmt]
         /\ [b EXCEPT !.data = d, !.pos = q, !.lmt = l] = [data |-> d, cap |-> b.cap, pos |-> q, lmt |-> l]
<1> DEFINE b1 == [b EXCEPT !.data = d]
           b2 == [b1 EXCEPT !.pos = q]
<1>1. b1 = [data |-> d, cap |-> b.cap, pos |-> b.pos, lmt |-> b.lmt]
  BY DEF BufOK
<1> HIDE DEF b1
<1>2. b2 = [data |-> d, cap |-> b.cap, pos |-> q, lmt |-> b.lmt]
  BY <1>1
<1> HIDE DEF b2
<1>3. [b2 EXCEPT !.lmt = l] = [data |-> d, cap |-> b.cap, pos |-> q, lmt |-> l]
  BY <1>2
<1> QED
  BY <1>2, <1>3, Zenon DEF b1, b2

LEMMA NewBuf ==
  ASSUME NEW cap \in Nat, NEW data \in [0 .. cap - 1 -> Cell],
         NEW pos \in Nat, NEW lmt \in Nat, pos <= lmt, lmt <= cap
  PROVE  LET b == [data |-> data, cap |-> cap, pos |-> pos, lmt |-> lmt]
         IN  BufOK(b) /\ b.data = data /\ b.cap = cap /\ b.pos = pos /\ b.lmt = lmt
  BY DEF BufOK

LEMMA NoBufOK == BufOK(NoBuf) /\ NoBuf.pos = 0 /\ NoBuf.lmt = 0 /\ NoBuf.cap = 0
<1>1. <<>> \in [0 .. 0 - 1 -> Cell]
  OBVIOUS
<1> QED
  BY <1>1 DEF NoBuf, BufOK

-----------------------------------------------------------------------------
(***************************************************************************)
(* What the operations do to a buffer.                                     *)
(***************************************************************************)

LEMMA WrittenIs ==
  ASSUME NEW b, BufOK(b), NEW s \in Seq(Char), b.pos + Len(s) < b.cap
  PROVE  /\ Written(b.data, b.pos, s) \in [0 .. b.cap - 1 -> Cell]
         /\ \A i \in 0 .. b.cap - 1 : i < b.pos => Written(b.data, b.pos, s)[i] = b.data[i]
         /\ \A i \in 1 .. Len(s) : Written(b.data, b.pos, s)[b.pos + i - 1] = s[i]
         /\ Written(b.data, b.pos, s)[b.pos + Len(s)] = NUL
         /\ \A i \in 0 .. b.cap - 1 : i > b.pos + Len(s) => Written(b.data, b.pos, s)[i] = b.data[i]
<1> DEFINE cap == b.cap
           data == b.data
           k == b.pos
           w == Written(data, k, s)
<1>1. /\ cap \in Nat /\ k \in Nat /\ data \in [0 .. cap - 1 -> Cell] /\ k + Len(s) < cap
      /\ Len(s) \in Nat /\ DOMAIN data = 0 .. cap - 1
      /\ \A i \in 1 .. Len(s) : s[i] \in Char
  BY DEF BufOK
<1> HIDE DEF cap, data, k
<1>2. w = [i \in 0 .. cap - 1 |-> IF i \in k .. k + Len(s) - 1 THEN s[i - k + 1]
                                  ELSE IF i = k + Len(s) THEN NUL ELSE data[i]]
  BY <1>1 DEF Written, cap, data, k
<1> HIDE DEF w
<1>3. \A i \in k .. k + Len(s) - 1 : i - k + 1 \in 1 .. Len(s)
  BY <1>1
<1>4. w \in [0 .. cap - 1 -> Cell]
  BY <1>1, <1>2, <1>3 DEF Cell
<1>5. ASSUME NEW i \in 1 .. Len(s)
      PROVE  w[k + i - 1] = s[i]
  <2>1. k + i - 1 \in 0 .. cap - 1 /\ k + i - 1 \in k .. k + Len(s) - 1 /\ (k + i - 1) - k + 1 = i
    BY <1>1
  <2> QED
    BY <1>2, <2>1
<1>6. k + Len(s) \in 0 .. cap - 1 /\ w[k + Len(s)] = NUL
  BY <1>1, <1>2
<1>7. ASSUME NEW i \in 0 .. cap - 1
      PROVE  (i < k => w[i] = data[i]) /\ (i > k + Len(s) => w[i] = data[i])
  BY <1>1, <1>2
<1> QED
  BY <1>4, <1>5, <1>6, <1>7 DEF w, cap, data, k

\* aloe_buf_vprintf leaves what is before pos alone.  A text that fits is appended whole,
\* with a NUL behind it; of one that does not as much as there is room for is left in the
\* memory, with a NUL at the end, but pos does not move.
LEMMA Vprintf ==
  ASSUME NEW b, BufOK(b), NEW t \in Seq(Char)
  PROVE  LET c == aloe_buf_vprintf(b, t)
         IN  /\ BufOK(c) /\ c.cap = b.cap /\ c.lmt = b.lmt
             /\ c.pos = IF Fits(b, t) THEN b.pos + Len(t) ELSE b.pos
             /\ \A i \in 0 .. b.pos - 1 : c.data[i] = b.data[i]
             /\ \A i \in b.lmt .. b.cap - 1 : c.data[i] = b.data[i]
             /\ Fits(b, t) => /\ \A i \in 1 .. Len(t) : c.data[b.pos + i - 1] = t[i]
                              /\ c.pos < c.lmt /\ c.data[c.pos] = NUL
             /\ ~ Fits(b, t) /\ b.pos < b.lmt => c.data[b.lmt - 1] = NUL
<1> DEFINE n == b.lmt - b.pos
           s == SubSeq(t, 1, MinOf(Len(t), n - 1))
           d == Vsnprintf(b.data, b.pos, n, t)
           p == IF Fits(b, t) THEN b.pos + Len(t) ELSE b.pos
           c == aloe_buf_vprintf(b, t)
<1>1. /\ b.data \in [0 .. b.cap - 1 -> Cell] /\ b.cap \in Nat /\ b.pos \in Nat /\ b.lmt \in Nat
      /\ b.pos <= b.lmt /\ b.lmt <= b.cap /\ Len(t) \in Nat /\ n \in Nat
      /\ b \in [data : [0 .. b.cap - 1 -> Cell], cap : Nat, pos : Nat, lmt : Nat]
  BY DEF BufOK
<1>2. c = [data |-> d, cap |-> b.cap, pos |-> p, lmt |-> b.lmt]
  <2>1. c = [b EXCEPT !.data = d, !.pos = p]
    BY Zenon DEF aloe_buf_vprintf
  <2> HIDE DEF c, d, p
  <2> QED
    BY <2>1, Updated, Zenon
<1>3. p \in Nat /\ p <= b.lmt /\ (Fits(b, t) => p < b.lmt) /\ (Fits(b, t) <=> Len(t) < n)
  BY <1>1 DEF Fits
<1>4. CASE n = 0
  <2>1. d = b.data /\ ~ Fits(b, t)
    BY <1>1, <1>3, <1>4 DEF Vsnprintf
  <2> HIDE DEF d, p
  <2>2. BufOK(c) /\ c.data = d /\ c.cap = b.cap /\ c.pos = p /\ c.lmt = b.lmt
    BY <1>1, <1>2, <1>3, <2>1, NewBuf
  <2> QED
    BY <1>1, <1>4, <2>1, <2>2 DEF p
<1>5. CASE n > 0
  <2>1. d = Written(b.data, b.pos, s)
    BY <1>5 DEF Vsnprintf
  <2> HIDE DEF d
  <2>2. /\ s \in Seq(Char) /\ Len(s) = MinOf(Len(t), n - 1)
        /\ \A i \in 1 .. Len(s) : s[i] = t[i]
    <3>1. MinOf(Len(t), n - 1) \in 0 .. Len(t)
      BY <1>1, <1>5 DEF MinOf
    <3> QED
      BY <1>1, <3>1
  <2> HIDE DEF s
  <2>3. b.pos + Len(s) < b.lmt /\ Len(s) \in Nat
    BY <1>1, <1>5, <2>2 DEF MinOf
  <2>4. /\ d \in [0 .. b.cap - 1 -> Cell]
        /\ \A i \in 0 .. b.cap - 1 : i < b.pos => d[i] = b.data[i]
        /\ \A i \in 1 .. Len(s) : d[b.pos + i - 1] = s[i]
        /\ d[b.pos + Len(s)] = NUL
        /\ \A i \in 0 .. b.cap - 1 : i > b.pos + Len(s) => d[i] = b.data[i]
    <3>1. b.pos + Len(s) < b.cap
      BY <1>1, <2>3
    <3> QED
      BY <1>1, <2>1, <2>2, <3>1, WrittenIs
  <2>5. Fits(b, t) => Len(s) = Len(t)
    BY <1>1, <1>3, <1>5, <2>2 DEF MinOf
  <2>6. ~ Fits(b, t) => b.pos + Len(s) = b.lmt - 1
    BY <1>1, <1>3, <1>5, <2>2 DEF MinOf
  <2> HIDE DEF n
  <2>7. BufOK(c) /\ c.data = d /\ c.cap = b.cap /\ c.pos = p /\ c.lmt = b.lmt
    <3> HIDE DEF c, p
    <3> QED
      BY <1>1, <1>2, <1>3, <2>4, NewBuf
  <2>8. /\ \A i \in 0 .. b.pos - 1 : d[i] = b.data[i]
        /\ \A i \in b.lmt .. b.cap - 1 : d[i] = b.data[i]
    BY <1>1, <2>3, <2>4
  <2>9. Fits(b, t) => (\A i \in 1 .. Len(t) : d[b.pos + i - 1] = t[i]) /\ p < b.lmt /\ d[p] = NUL
    BY <1>3, <2>2, <2>4, <2>5
  <2> HIDE DEF c, p
  <2> QED
    BY <1>1, <2>4, <2>6, <2>7, <2>8, <2>9 DEF c, p
<1> QED
  BY <1>1, <1>4, <1>5

\* aloe_buf_expand keeps what is before pos.  It gives the capacity asked for, if that is
\* more, and a limit at the end of the memory stays there.
LEMMA Expand ==
  ASSUME NEW b, BufOK(b), NEW cap \in Int, NEW x \in aloe_buf_expand(b, cap)
  PROVE  /\ x.ok \in BOOLEAN /\ BufOK(x.b) /\ Keeps(b, x.b)
         /\ ~ x.ok => x.b = b
         /\ x.ok => x.b.cap = MaxOf(b.cap, cap)
         /\ b.lmt = b.cap => x.b.lmt = x.b.cap
<1>1. /\ b.data \in [0 .. b.cap - 1 -> Cell] /\ b.cap \in Nat /\ b.pos \in Nat /\ b.lmt \in Nat
      /\ b.pos <= b.lmt /\ b.lmt <= b.cap
  BY DEF BufOK
<1>2. CASE x.b = b /\ (x.ok = FALSE \/ (x.ok = TRUE /\ cap <= b.cap))
  BY <1>1, <1>2 DEF Keeps, MaxOf
<1>3. CASE x.ok = TRUE /\ x.b = RetainIndex(b, cap) /\ cap > b.cap
  <2> DEFINE d == [i \in 0 .. cap - 1 |-> IF i < b.pos THEN b.data[i] ELSE GARBAGE]
             l == IF b.lmt = b.cap THEN cap ELSE b.lmt
  <2>1. x.b = [data |-> d, cap |-> cap, pos |-> b.pos, lmt |-> l]
    BY <1>3 DEF RetainIndex, Grown
  <2>2. d \in [0 .. cap - 1 -> Cell] /\ \A i \in 0 .. b.pos - 1 : d[i] = b.data[i]
    BY <1>1, <1>3 DEF Cell
  <2>3. l \in Nat /\ b.pos <= l /\ l <= cap /\ cap \in Nat
    BY <1>1, <1>3
  <2> HIDE DEF d, l
  <2>4. BufOK(x.b) /\ x.b.data = d /\ x.b.cap = cap /\ x.b.pos = b.pos /\ x.b.lmt = l
    BY <1>1, <2>1, <2>2, <2>3, NewBuf
  <2>5. Keeps(b, x.b)
    BY <2>2, <2>4 DEF Keeps
  <2>6. /\ b.lmt = b.cap => x.b.lmt = x.b.cap
        /\ x.b.cap = MaxOf(b.cap, cap)
    BY <1>1, <1>3, <2>4 DEF MaxOf, l
  <2> QED
    BY <1>3, <2>4, <2>5, <2>6
<1> QED
  <2>1. \/ x \in {[ok |-> TRUE, b |-> b]} /\ cap <= b.cap
        \/ x \in {[ok |-> FALSE, b |-> b]}
        \/ x \in {[ok |-> TRUE, b |-> RetainIndex(b, cap)]} /\ ~ cap <= b.cap
    BY DEF aloe_buf_expand
  <2>2. \/ x.b = b /\ (x.ok = FALSE \/ (x.ok = TRUE /\ cap <= b.cap))
        \/ x.ok = TRUE /\ x.b = RetainIndex(b, cap) /\ cap > b.cap
    BY <1>1, <2>1
  <2> QED
    BY <1>2, <1>3, <2>2

\* aloe_buf_shift_left moves what is before pos, without its first bytes, to the start.
LEMMA ShiftLeft ==
  ASSUME NEW b, BufOK(b), NEW offset \in Nat, offset > 0
  PROVE  LET c == aloe_buf_shift_left(b, offset)
         IN  /\ BufOK(c) /\ c.cap = b.cap
             /\ offset <= b.pos =>
                  /\ c.pos = b.pos - offset /\ c.lmt = b.lmt - offset
                  /\ \A i \in 0 .. c.pos - 1 : c.data[i] = b.data[i + offset]
<1> DEFINE c == aloe_buf_shift_left(b, offset)
<1>1. /\ b.data \in [0 .. b.cap - 1 -> Cell] /\ b.cap \in Nat /\ b.pos \in Nat /\ b.lmt \in Nat
      /\ b.pos <= b.lmt /\ b.lmt <= b.cap
      /\ b \in [data : [0 .. b.cap - 1 -> Cell], cap : Nat, pos : Nat, lmt : Nat]
  BY DEF BufOK
<1>2. CASE offset > b.pos
  BY <1>1, <1>2 DEF aloe_buf_shift_left
<1>3. CASE offset <= b.pos
  <2>1. b.data # <<>>
    <3>1. 0 \in DOMAIN b.data
      BY <1>1, <1>3
    <3>2. 0 \notin DOMAIN <<>>
      OBVIOUS
    <3> QED
      BY <3>1, <3>2
  <2> DEFINE d == Shifted(b, offset)
             p == b.pos - offset
             l == b.lmt - offset
  <2>2. c = [data |-> d, cap |-> b.cap, pos |-> p, lmt |-> l]
    <3>1. c = [b EXCEPT !.data = d, !.pos = p, !.lmt = l]
      BY <1>1, <1>3, <2>1 DEF aloe_buf_shift_left
    <3> QED
      BY <3>1, Updated, Zenon
  <2>3. d \in [0 .. b.cap - 1 -> Cell] /\ \A i \in 0 .. p - 1 : d[i] = b.data[i + offset]
    <3>1. d = [i \in 0 .. b.cap - 1 |-> IF i < b.pos - offset THEN b.data[i + offset] ELSE b.data[i]]
      BY <1>1 DEF Shifted
    <3>2. \A i \in 0 .. b.cap - 1 : i < b.pos - offset => i + offset \in 0 .. b.cap - 1
      BY <1>1, <1>3
    <3> HIDE DEF d
    <3>3. d \in [0 .. b.cap - 1 -> Cell]
      BY <1>1, <3>1, <3>2
    <3> QED
      BY <1>1, <3>1, <3>3
  <2>4. p \in Nat /\ l \in Nat /\ p <= l /\ l <= b.cap
    BY <1>1, <1>3
  <2> HIDE DEF d, c, p, l
  <2>5. BufOK(c) /\ c.data = d /\ c.cap = b.cap /\ c.pos = p /\ c.lmt = l
    BY <1>1, <2>2, <2>3, <2>4, NewBuf
  <2> QED
    BY <2>3, <2>5 DEF c, p, l
<1> QED
  BY <1>1, <1>2, <1>3

-----------------------------------------------------------------------------
(***************************************************************************)
(* The invariant.  Its first part is about a printf, whoever calls it.     *)
(***************************************************************************)

IOOK ==
  /\ io \in [text : Seq(Char), max : Int, before : {io.before}, nomem : BOOLEAN, ret : {-1, 0, 1, 2}]
  /\ BufOK(io.before)

\* Between two attempts to print: nothing has been decided, what was printed before the
\* call is untouched, the limit moves with the memory, which is not too large.
TryInv ==
  pc = "try" =>
    LET b == io.before
    IN  /\ io.ret = 0 /\ ~ io.nomem /\ io.max # 0
        /\ b.lmt = b.cap /\ buf.lmt = buf.cap /\ Keeps(b, buf)
        /\ io.max > 0 => buf.cap <= MaxOf(b.cap, io.max)
        /\ buf.cap <= MaxOf(MaxOf(b.cap, Least), 2 * (b.pos + Len(io.text)))

Ended ==
  pc = "idle" =>
    /\ io.ret = 1 => buf.data[buf.pos] = NUL
    /\ io.ret = -1 /\ ~ io.nomem /\ buf.pos < buf.lmt =>
         \E i \in buf.pos .. buf.lmt - 1 : buf.data[i] = NUL

BufInv == BufOK(buf) /\ pc \in {"idle", "try"} /\ IOOK /\ TryInv /\ Ended

\* Who is where: a printf that may grow is only called by any.
UserInv ==
  /\ user = "any" => at = "idle"
  /\ user # "any" => pc = "idle"
  /\ at \in {"idle", "log", "logged", "body", "header", "join", "responded", "failed"}

\* The first k pieces of a line, and the others.
Begun(p, k) ==
  CASE k = 0 -> <<>> [] k = 1 -> p[1] [] k = 2 -> p[1] \o p[2]
    [] k = 3 -> p[1] \o p[2] \o p[3] [] OTHER -> p[1] \o p[2] \o p[3] \o p[4]
Rest(p, k) == SubSeq(p, k + 1, 4)

\* Some pieces are printed, whole, the others are left; there is room for the NUL.
LogInv ==
  at = "log" =>
    /\ want \in [1 .. 4 -> Seq(Char)]
    /\ buf.cap = LineCap /\ buf.lmt = LineCap
    /\ shown.to # "none" /\ shown = [to |-> shown.to, text |-> <<>>]
    /\ \E k \in 0 .. 4 : /\ left = Rest(want, k) /\ Text(buf) = Begun(want, k)
                         /\ k > 0 => buf.pos < LineCap

\* The body is right behind the gap, the header at the start of it, both with room for
\* their NUL.
ResponseInv ==
  at \in {"body", "header", "join"} =>
    /\ want = <<want[1], want[2]>> /\ want[1] \in Seq(Char) /\ want[2] \in Seq(Char)
    /\ buf.cap = RespCap /\ buf.lmt = RespCap
    /\ at = "body" => left = want /\ buf.pos = Gap
    /\ at = "header" => left = <<want[2]>>
    /\ at \in {"body", "header"} => hdr = [pos |-> 0, lmt |-> Gap]
    /\ at \in {"header", "join"} =>
         /\ buf.pos = Gap + Len(want[1]) /\ buf.pos < RespCap
         /\ \A i \in 1 .. Len(want[1]) : buf.data[Gap + i - 1] = want[1][i]
    /\ at = "join" =>
         /\ hdr = [pos |-> Len(want[2]), lmt |-> Gap] /\ Len(want[2]) < Gap
         /\ \A i \in 1 .. Len(want[2]) : buf.data[i - 1] = want[2][i]

UsersInv == BufInv /\ UserInv /\ LogInv /\ LineWhole /\ ResponseInv /\ ResponseWhole

-----------------------------------------------------------------------------
(***************************************************************************)
(* The text of a buffer, and what a printf does to it.                     *)
(***************************************************************************)

LEMMA TextIs ==
  ASSUME NEW b, BufOK(b)
  PROVE  /\ Text(b) \in Seq(Cell) /\ Len(Text(b)) = b.pos
         /\ \A i \in 1 .. b.pos : Text(b)[i] = b.data[i - 1]
<1>1. /\ b.data \in [0 .. b.cap - 1 -> Cell] /\ b.pos \in Nat /\ b.cap \in Nat /\ b.pos <= b.cap
      /\ \A i \in 1 .. b.pos : i - 1 \in 0 .. b.cap - 1
  BY DEF BufOK
<1>2. Text(b) \in [1 .. b.pos -> Cell]
  BY <1>1 DEF Text
<1>3. Text(b) \in Seq(Cell) /\ Len(Text(b)) = b.pos
  BY <1>1, <1>2
<1> QED
  BY <1>3 DEF Text

LEMMA Kept ==
  ASSUME NEW b, BufOK(b), NEW c, BufOK(c), Keeps(b, c)
  PROVE  Text(c) = Text(b)
<1>1. b.pos \in Nat /\ c.pos = b.pos /\ \A i \in 1 .. b.pos : i - 1 \in 0 .. b.pos - 1
  BY DEF BufOK, Keeps
<1>2. \A i \in 1 .. b.pos : c.data[i - 1] = b.data[i - 1]
  BY <1>1 DEF Keeps
<1> QED
  BY <1>1, <1>2 DEF Text

LEMMA Appended ==
  ASSUME NEW b, BufOK(b), NEW t \in Seq(Char), Fits(b, t)
  PROVE  Text(aloe_buf_vprintf(b, t)) = Text(b) \o t
<1> DEFINE c == aloe_buf_vprintf(b, t)
<1>1. /\ BufOK(c) /\ c.pos = b.pos + Len(t)
      /\ \A i \in 0 .. b.pos - 1 : c.data[i] = b.data[i]
      /\ \A i \in 1 .. Len(t) : c.data[b.pos + i - 1] = t[i]
  BY Vprintf
<1> HIDE DEF c
<1>2. /\ Text(b) \in Seq(Cell) /\ Len(Text(b)) = b.pos
      /\ \A i \in 1 .. b.pos : Text(b)[i] = b.data[i - 1]
  BY TextIs
<1>3. /\ Text(c) \in Seq(Cell) /\ Len(Text(c)) = c.pos
      /\ \A i \in 1 .. c.pos : Text(c)[i] = c.data[i - 1]
  BY <1>1, TextIs
<1>4. b.pos \in Nat /\ Len(t) \in Nat /\ t \in Seq(Cell)
  BY DEF BufOK, Cell
<1> DEFINE u == Text(b) \o t
<1>5. u \in Seq(Cell) /\ Len(u) = b.pos + Len(t)
  BY <1>2, <1>4
<1>6. ASSUME NEW i \in 1 .. b.pos + Len(t)
      PROVE  Text(c)[i] = u[i]
  <2>1. CASE i <= b.pos
    <3>1. i \in 1 .. b.pos /\ i - 1 \in 0 .. b.pos - 1 /\ i \in 1 .. c.pos
      BY <1>1, <1>4, <2>1
    <3>2. u[i] = Text(b)[i]
      BY <1>2, <1>4, <3>1
    <3> QED
      BY <1>1, <1>2, <1>3, <3>1, <3>2
  <2>2. CASE i > b.pos
    <3>1. /\ i - b.pos \in 1 .. Len(t) /\ b.pos + (i - b.pos) - 1 = i - 1 /\ i \in 1 .. c.pos
      BY <1>1, <1>4, <2>2
    <3>2. u[i] = t[i - b.pos]
      BY <1>2, <1>4, <2>2
    <3>3. c.data[i - 1] = t[i - b.pos]
      BY <1>1, <3>1
    <3> QED
      BY <1>3, <3>1, <3>2, <3>3
  <2>3. i <= b.pos \/ i > b.pos
    BY <1>4
  <2> QED
    BY <2>1, <2>2, <2>3
<1> HIDE DEF u
<1>7. Text(c) = u
  BY <1>1, <1>3, <1>5, <1>6, SeqEqual
<1> QED
  BY <1>7 DEF c, u

\* A text without room leaves what is before pos as it was.
LEMMA LeftAlone ==
  ASSUME NEW b, BufOK(b), NEW t \in Seq(Char), ~ Fits(b, t)
  PROVE  Keeps(b, aloe_buf_vprintf(b, t)) /\ Text(aloe_buf_vprintf(b, t)) = Text(b)
<1>1. BufOK(aloe_buf_vprintf(b, t)) /\ Keeps(b, aloe_buf_vprintf(b, t))
  BY Vprintf DEF Keeps
<1> QED
  BY <1>1, Kept

LEMMA CalledIs ==
  ASSUME NEW t \in Seq(Char), NEW max \in Int
  PROVE  LET o == Called(t, max)
         IN  /\ o.text = t /\ o.max = max /\ o.before = buf
             /\ o \in [text : Seq(Char), max : Int, before : {buf}, nomem : BOOLEAN, ret : {-1, 0, 1, 2}]
  BY DEF Called

-----------------------------------------------------------------------------
(***************************************************************************)
(* The steps of a printf, for every caller.                                *)
(***************************************************************************)

\* What AllOrNothing, FailsForReason and GrowsAsNeeded say of a step.
Whole  == Returned =>
            Text(buf') = Text(io'.before) \o (IF io'.ret = 1 THEN io'.text ELSE <<>>)
Reason == Returned /\ io'.ret = -1 /\ ~ io'.nomem =>
            LET b     == io'.before
                limit == IF io'.max = 0 \/ b.lmt # b.cap THEN b.lmt ELSE io'.max
            IN  b.pos + Len(io'.text) + 1 > limit
Growth == LET b == io'.before
          IN  Returned => /\ io'.max > 0 => buf'.cap <= MaxOf(b.cap, io'.max)
                          /\ buf'.cap <= MaxOf(MaxOf(b.cap, Least), 2 * (b.pos + Len(io'.text)))

\* Of text t printed to b, with all its room, or into what there is.
LEMMA PrintfStep ==
  ASSUME BufInv, NEW t \in Seq(Char), NEW max \in Int, aloe_buf_printf(t, max)
  PROVE  /\ BufInv' /\ Whole /\ Reason /\ Growth
         /\ pc' = "idle" /\ io'.ret = IF Fits(buf, t) THEN 1 ELSE -1
<1> DEFINE c == aloe_buf_vprintf(buf, t)
<1>1. pc = "idle" /\ pc' = "idle" /\ buf' = c /\ (max = 0 \/ buf.lmt # buf.cap)
  BY DEF aloe_buf_printf
<1>2. BufOK(buf) /\ Len(t) \in Nat
  BY DEF BufInv
<1>3. io' = [Called(t, max) EXCEPT !.ret = IF Fits(buf, t) THEN 1 ELSE -1]
  BY DEF aloe_buf_printf
<1>4. /\ BufOK(c) /\ c.cap = buf.cap /\ c.lmt = buf.lmt
      /\ c.pos = IF Fits(buf, t) THEN buf.pos + Len(t) ELSE buf.pos
      /\ Fits(buf, t) => c.data[c.pos] = NUL
      /\ ~ Fits(buf, t) /\ buf.pos < buf.lmt => c.data[buf.lmt - 1] = NUL
  BY <1>2, Vprintf
<1>5. IF Fits(buf, t) THEN Text(c) = Text(buf) \o t ELSE Text(c) = Text(buf)
  BY <1>2, Appended, LeftAlone
<1> HIDE DEF c
<1>6. /\ io'.text = t /\ io'.max = max /\ io'.before = buf /\ io'.nomem = FALSE
      /\ io'.ret = IF Fits(buf, t) THEN 1 ELSE -1
      /\ io' \in [text : Seq(Char), max : Int, before : {io'.before}, nomem : BOOLEAN, ret : {-1, 0, 1, 2}]
  BY <1>3 DEF Called
<1>7. BufOK(buf')
  BY <1>1, <1>4
<1>8. IOOK'
  BY <1>2, <1>6 DEF IOOK
<1>9. TryInv'
  BY <1>1 DEF TryInv
<1>10. Ended'
  <2>1. CASE Fits(buf, t)
    BY <1>1, <1>4, <1>6, <2>1 DEF Ended
  <2>2. CASE ~ Fits(buf, t)
    <3>1. buf'.pos < buf'.lmt => buf'.lmt - 1 \in buf'.pos .. buf'.lmt - 1 /\ buf'.data[buf'.lmt - 1] = NUL
      BY <1>1, <1>4, <2>2 DEF BufOK
    <3> QED
      BY <1>6, <2>2, <3>1 DEF Ended
  <2> QED
    BY <2>1, <2>2
<1>11. Whole
  <2>1. Text(buf) \in Seq(Cell)
    BY <1>2, TextIs
  <2>2. Text(buf) \o <<>> = Text(buf)
    BY <2>1
  <2>3. CASE Fits(buf, t)
    <3>1. Text(buf') = Text(io'.before) \o io'.text /\ io'.ret = 1
      BY <1>1, <1>5, <1>6, <2>3
    <3> QED
      BY <3>1 DEF Whole
  <2>4. CASE ~ Fits(buf, t)
    <3>1. Text(buf') = Text(io'.before) \o <<>> /\ io'.ret # 1
      BY <1>1, <1>5, <1>6, <2>2, <2>4
    <3> QED
      BY <3>1 DEF Whole
  <2> QED
    BY <2>3, <2>4
<1>12. Reason
  BY <1>1, <1>2, <1>6 DEF Reason, Fits, BufOK
<1>13. Growth
  BY <1>1, <1>2, <1>4, <1>6, SizesAssumption DEF Growth, MaxOf, BufOK
<1> QED
  BY <1>1, <1>6, <1>7, <1>8, <1>9, <1>10, <1>11, <1>12, <1>13 DEF BufInv

LEMMA AprintfStep ==
  ASSUME BufInv, NEW t \in Seq(Char), NEW max \in Int, Aprintf(t, max)
  PROVE  BufInv' /\ Whole /\ Reason /\ Growth
<1> DEFINE least == IF max > 0 THEN MinOf(max, Least) ELSE Least
<1>1. /\ pc = "idle" /\ max # 0 /\ buf.lmt = buf.cap
      /\ \E x \in aloe_buf_expand(buf, least) :
           /\ buf' = x.b
           /\ pc' = IF x.ok THEN "try" ELSE "idle"
           /\ io' = [Called(t, max) EXCEPT !.nomem = ~ x.ok, !.ret = IF x.ok THEN 0 ELSE -1]
  BY DEF Aprintf
<1>2. PICK x \in aloe_buf_expand(buf, least) :
        /\ buf' = x.b
        /\ pc' = IF x.ok THEN "try" ELSE "idle"
        /\ io' = [Called(t, max) EXCEPT !.nomem = ~ x.ok, !.ret = IF x.ok THEN 0 ELSE -1]
  BY <1>1
<1>3. BufOK(buf) /\ Len(t) \in Nat
  BY DEF BufInv
<1>4. /\ least \in Int /\ least <= Least /\ (max > 0 => least <= max)
      /\ Least \in Nat
  BY SizesAssumption DEF MinOf
<1> HIDE DEF least
<1>5. /\ x.ok \in BOOLEAN /\ BufOK(x.b) /\ Keeps(buf, x.b)
      /\ ~ x.ok => x.b = buf
      /\ x.ok => x.b.cap = MaxOf(buf.cap, least)
      /\ x.b.lmt = x.b.cap
  BY <1>1, <1>2, <1>3, <1>4, Expand
<1>6. /\ io'.text = t /\ io'.max = max /\ io'.before = buf
      /\ io'.nomem = ~ x.ok /\ io'.ret = IF x.ok THEN 0 ELSE -1
      /\ io' \in [text : Seq(Char), max : Int, before : {io'.before}, nomem : BOOLEAN, ret : {-1, 0, 1, 2}]
  <2> DEFINE m == ~ x.ok
             r == IF x.ok THEN 0 ELSE -1
  <2>1. m \in BOOLEAN /\ r \in {-1, 0, 1}
    BY <1>5
  <2>2. io' = [Called(t, max) EXCEPT !.nomem = m, !.ret = r]
    BY <1>2, Zenon
  <2> DEFINE o == Called(t, max)
  <2> HIDE DEF m, r, o
  <2>3. /\ o.text = t /\ o.max = max /\ o.before = buf
        /\ o \in [text : Seq(Char), max : Int, before : {buf}, nomem : BOOLEAN, ret : {-1, 0, 1, 2}]
    BY CalledIs DEF o
  <2>4. io' = [o EXCEPT !.nomem = m, !.ret = r]
    BY <2>2, Zenon DEF o
  <2>5. /\ io'.text = t /\ io'.max = max /\ io'.before = buf /\ io'.nomem = m /\ io'.ret = r
        /\ io' \in [text : Seq(Char), max : Int, before : {buf}, nomem : BOOLEAN, ret : {-1, 0, 1, 2}]
    BY <2>1, <2>3, <2>4
  <2> QED
    BY <2>5 DEF m, r
<1>7. IOOK'
  BY <1>3, <1>6 DEF IOOK
<1>8. BufOK(buf') /\ pc' \in {"idle", "try"}
  BY <1>2, <1>5
<1>9. CASE x.ok
  <2>1. pc' = "try" /\ io'.ret = 0 /\ ~ io'.nomem
    BY <1>2, <1>6, <1>9
  <2>2. Ended' /\ ~ Returned
    BY <2>1 DEF Ended, Returned
  <2>3. buf.cap \in Nat /\ buf.pos \in Nat
    BY <1>3 DEF BufOK
  <2>4. /\ io'.max > 0 => buf'.cap <= MaxOf(buf.cap, io'.max)
        /\ buf'.cap <= MaxOf(MaxOf(buf.cap, Least), 2 * (buf.pos + Len(io'.text)))
    BY <1>2, <1>3, <1>4, <1>5, <1>6, <1>9, <2>3 DEF MaxOf
  <2>5. TryInv'
    BY <1>1, <1>2, <1>5, <1>6, <2>1, <2>4 DEF TryInv
  <2> QED
    BY <1>7, <1>8, <2>2, <2>5 DEF BufInv, Whole, Reason, Growth
<1>10. CASE ~ x.ok
  <2>1. pc' = "idle" /\ io'.ret = -1 /\ io'.nomem /\ buf' = buf
    BY <1>2, <1>5, <1>6, <1>10
  <2>2. Ended' /\ TryInv' /\ Reason
    BY <2>1 DEF Ended, TryInv, Reason
  <2>3. Whole
    <3>1. Text(buf) \in Seq(Cell)
      BY <1>3, TextIs
    <3>2. Text(buf) \o <<>> = Text(buf)
      BY <3>1
    <3>3. Text(buf') = Text(io'.before) \o <<>> /\ io'.ret # 1
      BY <1>6, <2>1, <3>2
    <3> QED
      BY <3>3 DEF Whole
  <2>4. Growth
    BY <1>3, <1>4, <1>6, <2>1 DEF Growth, MaxOf, BufOK
  <2> QED
    BY <1>7, <1>8, <2>2, <2>3, <2>4 DEF BufInv
<1> QED
  BY <1>9, <1>10

\* Nothing is printed, and the buffer stays as it is.
LEMMA AprintfNothingStep ==
  ASSUME BufInv, AprintfNothing
  PROVE  BufInv' /\ Whole /\ Reason /\ Growth
<1>1. pc' = "idle" /\ buf' = buf /\ BufOK(buf) /\ <<>> \in Seq(Char)
  BY DEF AprintfNothing, BufInv
<1>2. /\ io'.text = <<>> /\ io'.before = buf /\ io'.max = 0 /\ io'.ret = 2
      /\ io' \in [text : Seq(Char), max : Int, before : {buf}, nomem : BOOLEAN, ret : {-1, 0, 1, 2}]
  <2> DEFINE o == Called(<<>>, 0)
  <2>1. /\ o.text = <<>> /\ o.max = 0 /\ o.before = buf
        /\ o \in [text : Seq(Char), max : Int, before : {buf}, nomem : BOOLEAN, ret : {-1, 0, 1, 2}]
    BY <1>1 DEF Called
  <2>2. io' = [o EXCEPT !.ret = 2]
    BY DEF AprintfNothing
  <2> HIDE DEF o
  <2> QED
    BY <2>1, <2>2
<1>3. IOOK'
  BY <1>1, <1>2 DEF IOOK
<1>4. TryInv' /\ Ended' /\ Reason
  BY <1>1, <1>2 DEF TryInv, Ended, Reason
<1>5. Whole
  <2>1. Text(buf) \in Seq(Cell)
    BY <1>1, TextIs
  <2>2. Text(buf) \o <<>> = Text(buf)
    BY <2>1
  <2> QED
    BY <1>1, <1>2, <2>2 DEF Whole
<1>6. Growth
  <2>1. buf.cap \in Nat /\ buf.pos \in Nat /\ Least \in Nat /\ Len(io'.text) \in Nat
    BY <1>1, <1>2, SizesAssumption DEF BufOK
  <2> QED
    BY <1>1, <1>2, <2>1 DEF Growth, MaxOf
<1> QED
  BY <1>1, <1>3, <1>4, <1>5, <1>6 DEF BufInv

LEMMA TryFitsStep ==
  ASSUME BufInv, TryFits
  PROVE  BufInv' /\ Whole /\ Reason /\ Growth
<1> DEFINE c == aloe_buf_vprintf(buf, io.text)
<1>1. pc = "try" /\ pc' = "idle" /\ buf' = c /\ Fits(buf, io.text) /\ io' = [io EXCEPT !.ret = 1]
  BY DEF TryFits
<1>2. BufOK(buf) /\ BufOK(io.before) /\ io.text \in Seq(Char) /\ Len(io.text) \in Nat
  BY DEF BufInv, IOOK
<1>3. /\ Keeps(io.before, buf)
      /\ io.max > 0 => buf.cap <= MaxOf(io.before.cap, io.max)
      /\ buf.cap <= MaxOf(MaxOf(io.before.cap, Least), 2 * (io.before.pos + Len(io.text)))
  BY <1>1 DEF BufInv, TryInv
<1>4. /\ BufOK(c) /\ c.cap = buf.cap /\ c.data[c.pos] = NUL
      /\ Text(c) = Text(buf) \o io.text
  BY <1>1, <1>2, Vprintf, Appended
<1> HIDE DEF c
<1>5. /\ io'.text = io.text /\ io'.max = io.max /\ io'.before = io.before /\ io'.ret = 1
      /\ io' \in [text : Seq(Char), max : Int, before : {io'.before}, nomem : BOOLEAN, ret : {-1, 0, 1, 2}]
  BY <1>1 DEF BufInv, IOOK
<1>6. IOOK' /\ TryInv' /\ Ended'
  BY <1>1, <1>2, <1>4, <1>5 DEF IOOK, TryInv, Ended
<1>7. Whole
  <2>1. Text(io.before) = Text(buf)
    BY <1>2, <1>3, Kept
  <2>2. Text(buf') = Text(io'.before) \o io'.text
    BY <1>1, <1>4, <1>5, <2>1
  <2> QED
    BY <1>5, <2>2 DEF Whole
<1>8. Reason /\ Growth
  BY <1>1, <1>3, <1>4, <1>5 DEF Reason, Growth
<1> QED
  BY <1>1, <1>4, <1>6, <1>7, <1>8 DEF BufInv

LEMMA TryAgainStep ==
  ASSUME BufInv, TryAgain
  PROVE  BufInv' /\ Whole /\ Reason /\ Growth
<1> DEFINE c == aloe_buf_vprintf(buf, io.text)
<1>1. pc = "try" /\ ~ Fits(buf, io.text)
  BY DEF TryAgain
<1>2. /\ BufOK(buf) /\ BufOK(io.before) /\ io.text \in Seq(Char) /\ Len(io.text) \in Nat
      /\ io.max \in Int
  BY DEF BufInv, IOOK
<1>3. /\ io.ret = 0 /\ io.nomem = FALSE /\ io.max # 0
      /\ io.before.lmt = io.before.cap /\ buf.lmt = buf.cap /\ Keeps(io.before, buf)
      /\ io.max > 0 => buf.cap <= MaxOf(io.before.cap, io.max)
      /\ buf.cap <= MaxOf(MaxOf(io.before.cap, Least), 2 * (io.before.pos + Len(io.text)))
  BY <1>1 DEF BufInv, TryInv, IOOK
<1>4. /\ BufOK(c) /\ c.cap = buf.cap /\ c.lmt = buf.lmt /\ c.pos = buf.pos /\ Keeps(buf, c)
      /\ buf.pos < buf.lmt => c.data[buf.lmt - 1] = NUL
  BY <1>1, <1>2, Vprintf, LeftAlone
<1>5. Keeps(io.before, c)
  BY <1>2, <1>3, <1>4 DEF Keeps, BufOK
<1>6. Len(io.text) >= buf.cap - buf.pos /\ buf.cap \in Nat /\ buf.pos \in Nat /\ buf.pos = io.before.pos
  BY <1>1, <1>2, <1>3 DEF Fits, BufOK, Keeps
<1>7. \/ /\ GivesUp(c) /\ pc' = "idle" /\ buf' = c /\ io' = [io EXCEPT !.ret = -1]
      \/ /\ ~ GivesUp(c)
         /\ \E x \in aloe_buf_expand(c, Doubled(c.cap)) :
              /\ buf' = x.b
              /\ pc' = IF x.ok THEN "try" ELSE "idle"
              /\ io' = [io EXCEPT !.nomem = ~ x.ok, !.ret = IF x.ok THEN 0 ELSE -1]
  BY DEF TryAgain
<1> HIDE DEF c
<1>8. ASSUME NEW d, BufOK(d), Keeps(io.before, d)
      PROVE  Text(d) = Text(io.before) \o <<>>
  <2>1. Text(d) = Text(io.before)
    BY <1>2, <1>8, Kept
  <2>2. Text(io.before) \in Seq(Cell)
    BY <1>2, TextIs
  <2> QED
    BY <2>1, <2>2
<1>9. CASE GivesUp(c) /\ pc' = "idle" /\ buf' = c /\ io' = [io EXCEPT !.ret = -1]
  <2>1. /\ io'.text = io.text /\ io'.max = io.max /\ io'.before = io.before /\ io'.ret = -1
        /\ io' \in [text : Seq(Char), max : Int, before : {io'.before}, nomem : BOOLEAN, ret : {-1, 0, 1, 2}]
    BY <1>9 DEF BufInv, IOOK
  <2>2. IOOK' /\ TryInv'
    BY <1>2, <1>9, <2>1 DEF IOOK, TryInv
  <2>3. Ended'
    <3>1. buf'.pos < buf'.lmt => buf'.lmt - 1 \in buf'.pos .. buf'.lmt - 1 /\ buf'.data[buf'.lmt - 1] = NUL
      BY <1>4, <1>9 DEF BufOK
    <3> QED
      BY <2>1, <3>1 DEF Ended
  <2>4. Text(buf') = Text(io'.before) \o <<>>
    BY <1>4, <1>5, <1>8, <1>9, <2>1
  <2>5. Whole
    BY <2>1, <2>4 DEF Whole
  <2>6. Reason
    BY <1>2, <1>3, <1>4, <1>6, <1>9, <2>1 DEF Reason, GivesUp
  <2>7. Growth
    BY <1>3, <1>4, <1>9, <2>1 DEF Growth
  <2> QED
    BY <1>4, <1>9, <2>2, <2>3, <2>5, <2>6, <2>7 DEF BufInv
<1>10. CASE ~ GivesUp(c) /\ \E x \in aloe_buf_expand(c, Doubled(c.cap)) :
              /\ buf' = x.b
              /\ pc' = IF x.ok THEN "try" ELSE "idle"
              /\ io' = [io EXCEPT !.nomem = ~ x.ok, !.ret = IF x.ok THEN 0 ELSE -1]
  <2>1. PICK x \in aloe_buf_expand(c, Doubled(c.cap)) :
              /\ buf' = x.b
              /\ pc' = IF x.ok THEN "try" ELSE "idle"
              /\ io' = [io EXCEPT !.nomem = ~ x.ok, !.ret = IF x.ok THEN 0 ELSE -1]
    BY <1>10
  <2>2. /\ Doubled(c.cap) \in Int /\ Doubled(c.cap) <= 2 * buf.cap
        /\ io.max > 0 => Doubled(c.cap) <= io.max
    BY <1>2, <1>4, <1>6 DEF Doubled, MinOf
  <2>3. /\ x.ok \in BOOLEAN /\ BufOK(x.b) /\ Keeps(c, x.b)
        /\ ~ x.ok => x.b = c
        /\ x.ok => x.b.cap = MaxOf(c.cap, Doubled(c.cap))
        /\ x.b.lmt = x.b.cap
    BY <1>3, <1>4, <2>2, Expand
  <2>4. Keeps(io.before, x.b)
    BY <1>2, <1>5, <2>3 DEF Keeps, BufOK
  <2>5. io.before.cap \in Nat /\ io.before.pos \in Nat /\ Least \in Nat
    BY <1>2, SizesAssumption DEF BufOK
  <2>6. /\ io.max > 0 => x.b.cap <= MaxOf(io.before.cap, io.max)
        /\ x.b.cap <= MaxOf(MaxOf(io.before.cap, Least), 2 * (io.before.pos + Len(io.text)))
    <3>1. CASE x.ok
      <4>1. x.b.cap = buf.cap \/ x.b.cap = Doubled(c.cap)
        BY <1>4, <2>3, <3>1 DEF MaxOf
      <4>2. 2 * buf.cap <= 2 * (io.before.pos + Len(io.text))
        BY <1>2, <1>6
      <4>3. CASE x.b.cap = buf.cap
        BY <1>3, <4>3
      <4>4. CASE x.b.cap = Doubled(c.cap)
        <5>1. io.max > 0 => x.b.cap <= MaxOf(io.before.cap, io.max)
          BY <1>2, <2>2, <2>5, <4>4 DEF MaxOf
        <5>2. x.b.cap <= 2 * (io.before.pos + Len(io.text))
          BY <1>2, <1>6, <2>2, <2>5, <4>2, <4>4
        <5>3. x.b.cap <= MaxOf(MaxOf(io.before.cap, Least), 2 * (io.before.pos + Len(io.text)))
          BY <1>2, <2>2, <2>5, <4>4, <5>2 DEF MaxOf
        <5> QED
          BY <5>1, <5>3
      <4> QED
        BY <4>1, <4>3, <4>4
    <3>2. CASE ~ x.ok
      BY <1>3, <1>4, <2>3, <3>2
    <3> QED
      BY <3>1, <3>2
  <2>7. /\ io'.text = io.text /\ io'.max = io.max /\ io'.before = io.before
        /\ io'.nomem = ~ x.ok /\ io'.ret = IF x.ok THEN 0 ELSE -1
        /\ io' \in [text : Seq(Char), max : Int, before : {io'.before}, nomem : BOOLEAN, ret : {-1, 0, 1, 2}]
    <3> DEFINE m == ~ x.ok
               r == IF x.ok THEN 0 ELSE -1
    <3>1. m \in BOOLEAN /\ r \in {-1, 0, 1}
      BY <2>3
    <3>2. io' = [io EXCEPT !.nomem = m, !.ret = r]
      BY <2>1, Zenon
    <3> HIDE DEF m, r
    <3>3. io \in [text : Seq(Char), max : Int, before : {io.before}, nomem : BOOLEAN, ret : {-1, 0, 1, 2}]
      BY DEF BufInv, IOOK
    <3>4. /\ io'.text = io.text /\ io'.max = io.max /\ io'.before = io.before
          /\ io'.nomem = m /\ io'.ret = r
          /\ io' \in [text : Seq(Char), max : Int, before : {io.before}, nomem : BOOLEAN, ret : {-1, 0, 1, 2}]
      BY <3>1, <3>2, <3>3
    <3> QED
      BY <3>4 DEF m, r
  <2>8. IOOK' /\ BufOK(buf') /\ pc' \in {"idle", "try"}
    BY <1>2, <2>1, <2>3, <2>7 DEF IOOK
  <2>9. CASE x.ok
    <3>1. pc' = "try" /\ io'.ret = 0 /\ ~ io'.nomem
      BY <2>1, <2>7, <2>9
    <3>2. Ended' /\ ~ Returned
      BY <3>1 DEF Ended, Returned
    <3>3. TryInv'
      BY <1>3, <2>1, <2>3, <2>4, <2>6, <2>7, <3>1 DEF TryInv
    <3> QED
      BY <2>8, <3>2, <3>3 DEF BufInv, Whole, Reason, Growth
  <2>10. CASE ~ x.ok
    <3>1. pc' = "idle" /\ io'.ret = -1 /\ io'.nomem
      BY <2>1, <2>7, <2>10
    <3>2. Ended' /\ TryInv' /\ Reason
      BY <3>1 DEF Ended, TryInv, Reason
    <3>3. Text(buf') = Text(io'.before) \o <<>>
      BY <1>8, <2>1, <2>3, <2>4, <2>7
    <3>4. Whole
      BY <3>1, <3>3 DEF Whole
    <3>5. Growth
      BY <2>1, <2>6, <2>7 DEF Growth
    <3> QED
      BY <2>8, <3>2, <3>4, <3>5 DEF BufInv
  <2> QED
    BY <2>9, <2>10
<1> QED
  BY <1>7, <1>9, <1>10

-----------------------------------------------------------------------------
(***************************************************************************)
(* The steps that print nothing.                                           *)
(***************************************************************************)

LEMMA NoIOOK == /\ NoIO \in [text : Seq(Char), max : Int, before : {NoBuf}, nomem : BOOLEAN, ret : {-1, 0, 1, 2}]
                /\ NoIO.ret = 0 /\ NoIO.before = NoBuf /\ BufOK(NoBuf)
  BY NoBufOK DEF NoIO

\* A step that prints nothing has only to leave a buffer.
LEMMA QuietStep ==
  ASSUME BufOK(buf'), pc' = "idle", io' = NoIO
  PROVE  BufInv' /\ Whole /\ Reason /\ Growth
<1>1. io'.ret = 0 /\ io'.before = NoBuf /\ BufOK(io'.before)
  BY NoIOOK
<1>2. IOOK'
  BY <1>1, NoIOOK DEF IOOK
<1>3. TryInv' /\ Ended' /\ ~ Returned
  BY <1>1 DEF TryInv, Ended, Returned
<1> QED
  BY <1>2, <1>3 DEF BufInv, Whole, Reason, Growth

LEMMA StackOK ==
  ASSUME NEW cap \in Nat, NEW pos \in Nat, pos <= cap
  PROVE  LET b == Stack(cap, pos)
         IN  BufOK(b) /\ b.cap = cap /\ b.lmt = cap /\ b.pos = pos
<1> DEFINE d == [i \in 0 .. cap - 1 |-> GARBAGE]
<1>1. d \in [0 .. cap - 1 -> Cell]
  BY DEF Cell
<1>2. Stack(cap, pos) = [data |-> d, cap |-> cap, pos |-> pos, lmt |-> cap]
  BY DEF Stack
<1> HIDE DEF d
<1> QED
  BY <1>1, <1>2, NewBuf

\* clear and flip.
LEMMA IndexStep ==
  ASSUME BufOK(buf), NEW l \in Nat, l <= buf.cap
  PROVE  LET b == [buf EXCEPT !.lmt = l, !.pos = 0]
         IN  BufOK(b) /\ b.cap = buf.cap /\ b.pos = 0 /\ b.lmt = l /\ b.data = buf.data
<1> DEFINE z == 0
           b == [buf EXCEPT !.lmt = l, !.pos = z]
<1>1. buf.data \in [0 .. buf.cap - 1 -> Cell] /\ buf.cap \in Nat /\ z \in Nat /\ z <= l
  BY DEF BufOK
<1> HIDE DEF z
<1>2. b = [data |-> buf.data, cap |-> buf.cap, pos |-> z, lmt |-> l]
  <2> DEFINE c == [buf EXCEPT !.lmt = l]
  <2>1. c = [data |-> buf.data, cap |-> buf.cap, pos |-> buf.pos, lmt |-> l]
    BY DEF BufOK
  <2> HIDE DEF c
  <2>2. [c EXCEPT !.pos = z] = [data |-> buf.data, cap |-> buf.cap, pos |-> z, lmt |-> l]
    BY <2>1
  <2> QED
    BY <2>2 DEF c
<1> HIDE DEF b
<1>3. BufOK(b) /\ b.cap = buf.cap /\ b.pos = z /\ b.lmt = l /\ b.data = buf.data
  BY <1>1, <1>2, NewBuf
<1> QED
  BY <1>3, Zenon DEF b, z

LEMMA MemoryStep ==
  ASSUME BufInv,
         \/ aloe_buf_clear \/ aloe_buf_flip
         \/ \E offset \in 1 .. MaxCap : Shift(offset)
         \/ \E cap \in 1 .. MaxCap : Renew(cap)
  PROVE  BufInv' /\ Whole /\ Reason /\ Growth
<1>1. BufOK(buf) /\ buf.pos \in Nat /\ buf.lmt \in Nat /\ buf.cap \in Nat /\ buf.pos <= buf.cap
  BY DEF BufInv, BufOK
<1>2. CASE aloe_buf_clear
  <2>1. buf' = [buf EXCEPT !.lmt = buf.cap, !.pos = 0] /\ buf.cap <= buf.cap
    BY <1>1, <1>2 DEF aloe_buf_clear
  <2>2. BufOK([buf EXCEPT !.lmt = buf.cap, !.pos = 0])
    BY <1>1, <2>1, IndexStep
  <2> QED
    BY <1>2, <2>1, <2>2, QuietStep DEF aloe_buf_clear
<1>3. CASE aloe_buf_flip
  <2>1. BufOK(buf')
    BY <1>1, <1>3, IndexStep DEF aloe_buf_flip
  <2> QED
    BY <1>3, <2>1, QuietStep DEF aloe_buf_flip
<1>4. CASE \E offset \in 1 .. MaxCap : Shift(offset)
  <2>1. PICK offset \in 1 .. MaxCap : Shift(offset)
    BY <1>4
  <2>2. offset \in Nat /\ offset > 0
    BY SizesAssumption
  <2>3. BufOK(aloe_buf_shift_left(buf, offset))
    BY <1>1, <2>2, ShiftLeft
  <2>4. buf' = aloe_buf_shift_left(buf, offset) /\ io' = NoIO /\ pc' = "idle"
    BY <2>1 DEF Shift
  <2> QED
    BY <2>3, <2>4, QuietStep
<1>5. CASE \E cap \in 1 .. MaxCap : Renew(cap)
  <2>1. PICK cap \in 1 .. MaxCap : Renew(cap)
    BY <1>5
  <2>2. cap \in Nat
    BY SizesAssumption
  <2>3. buf' = Stack(cap, 0) /\ io' = NoIO /\ pc' = "idle"
    BY <2>1 DEF Renew, Stack
  <2>4. BufOK(Stack(cap, 0))
    BY <2>2, StackOK
  <2> QED
    BY <2>3, <2>4, QuietStep
<1> QED
  BY <1>2, <1>3, <1>4, <1>5

LEMMA FiniteTexts ==
  /\ Texts \subseteq Seq(Char)
  /\ \A m, n \in Nat : Sizes(m, n) \subseteq Seq(Char) /\ Same(m, n) \subseteq Seq(Char)
<1>1. ASSUME NEW t \in Texts
      PROVE  t \in Seq(Char)
  <2>1. PICK n \in 0 .. MaxText : t \in [1 .. n -> Char]
    BY DEF Texts
  <2>2. n \in Nat
    BY SizesAssumption
  <2> QED
    BY <2>1, <2>2
<1>2. ASSUME NEW m \in Nat, NEW n \in Nat, NEW t \in Sizes(m, n)
      PROVE  t \in Seq(Char)
  <2>1. PICK i \in m .. n : t \in [1 .. i -> Char]
    BY DEF Sizes
  <2>2. i \in Nat
    OBVIOUS
  <2> QED
    BY <2>1, <2>2
<1>3. ASSUME NEW m \in Nat, NEW n \in Nat, NEW t \in Same(m, n)
      PROVE  t \in Seq(Char)
  <2>1. PICK i \in m .. n, c \in Char : t \in [1 .. i -> {c}]
    BY DEF Same
  <2>2. i \in Nat /\ t \in [1 .. i -> Char]
    BY <2>1
  <2> QED
    BY <2>2
<1> QED
  BY <1>1, <1>2, <1>3

\* Every step of a buffer, whoever takes it.
LEMMA NextStep ==
  ASSUME BufInv, Next
  PROVE  BufInv' /\ Whole /\ Reason /\ Growth
<1>1. CASE \E t \in Texts, max \in Maxima : aloe_buf_printf(t, max) \/ Aprintf(t, max)
  <2>1. PICK t \in Texts, max \in Maxima : aloe_buf_printf(t, max) \/ Aprintf(t, max)
    BY <1>1
  <2>2. t \in Seq(Char) /\ max \in Int
    BY FiniteTexts, SizesAssumption
  <2> QED
    BY <2>1, <2>2, PrintfStep, AprintfStep
<1>2. CASE AprintfNothing \/ TryFits
  BY <1>2, AprintfNothingStep, TryFitsStep
<1>3. CASE TryAgain
  BY <1>3, TryAgainStep
<1>4. CASE \/ aloe_buf_clear \/ aloe_buf_flip
           \/ \E offset \in 1 .. MaxCap : Shift(offset)
           \/ \E cap \in 1 .. MaxCap : Renew(cap)
  BY <1>4, MemoryStep
<1> QED
  BY <1>1, <1>2, <1>3, <1>4 DEF Next

-----------------------------------------------------------------------------
(***************************************************************************)
(* The steps of log_printf.                                                *)
(***************************************************************************)

\* A step of a user, to whom the properties of a printf apply.
Prints == (Whole /\ Reason /\ Growth) \/ UNCHANGED vars

LEMMA RestIs ==
  ASSUME NEW S, NEW p \in [1 .. 4 -> S]
  PROVE  /\ Rest(p, 0) = p /\ Rest(p, 4) = <<>>
         /\ \A k \in 0 .. 3 : /\ Rest(p, k) # <<>> /\ Head(Rest(p, k)) = p[k + 1]
                              /\ Tail(Rest(p, k)) = Rest(p, k + 1)
<1>1. p \in Seq(S) /\ Len(p) = 4
  <2> DEFINE n == 4
  <2>1. n \in Nat /\ p \in [1 .. n -> S]
    OBVIOUS
  <2> HIDE DEF n
  <2>2. p \in Seq(S) /\ Len(p) = n
    BY <2>1
  <2> QED
    BY <2>2 DEF n
<1>2. ASSUME NEW k \in 0 .. 4
      PROVE  /\ Rest(p, k) \in Seq(S) /\ Len(Rest(p, k)) = 4 - k
             /\ \A i \in 1 .. 4 - k : Rest(p, k)[i] = p[k + i]
  BY <1>1 DEF Rest
<1>3. Rest(p, 0) = p
  <2>1. /\ Rest(p, 0) \in Seq(S) /\ Len(Rest(p, 0)) = 4
        /\ \A i \in 1 .. 4 : Rest(p, 0)[i] = p[i]
    BY <1>2
  <2> QED
    BY <1>1, <2>1, SeqEqual
<1>4. Rest(p, 4) = <<>>
  BY <1>2
<1>5. ASSUME NEW k \in 0 .. 3
      PROVE  /\ Rest(p, k) # <<>> /\ Head(Rest(p, k)) = p[k + 1]
             /\ Tail(Rest(p, k)) = Rest(p, k + 1)
  <2> DEFINE q == Rest(p, k)
             r == Rest(p, k + 1)
  <2>1. /\ q \in Seq(S) /\ Len(q) = 4 - k /\ \A i \in 1 .. 4 - k : q[i] = p[k + i]
    <3>1. k \in 0 .. 4
      OBVIOUS
    <3> QED
      BY <1>2, <3>1
  <2>2. /\ r \in Seq(S) /\ Len(r) = 3 - k /\ \A i \in 1 .. 3 - k : r[i] = p[k + 1 + i]
    <3>1. k + 1 \in 0 .. 4 /\ 4 - (k + 1) = 3 - k
      OBVIOUS
    <3> QED
      BY <1>2, <3>1
  <2> HIDE DEF q, r
  <2>3. q # <<>> /\ Head(q) = p[k + 1]
    BY <2>1
  <2>4. Tail(q) \in Seq(S) /\ Len(Tail(q)) = 3 - k
    BY <2>1, <2>3
  <2>5. ASSUME NEW i \in 1 .. 3 - k
        PROVE  Tail(q)[i] = r[i]
    <3>1. i + 1 \in 1 .. 4 - k /\ k + (i + 1) = k + 1 + i
      OBVIOUS
    <3>2. Tail(q)[i] = q[i + 1]
      BY <2>1, <2>3, <2>4
    <3> QED
      BY <2>1, <2>2, <3>1, <3>2
  <2>6. Tail(q) = r
    BY <2>2, <2>4, <2>5, SeqEqual
  <2> QED
    BY <2>3, <2>6 DEF q, r
<1> QED
  BY <1>3, <1>4, <1>5

LEMMA BegunIs ==
  ASSUME NEW p \in [1 .. 4 -> Seq(Char)]
  PROVE  /\ Begun(p, 0) = <<>>
         /\ \A k \in 0 .. 3 : Begun(p, k + 1) = Begun(p, k) \o p[k + 1]
         /\ \A k \in 0 .. 4 : /\ Begun(p, k) \in Seq(Char)
                              /\ Len(Begun(p, k)) <= Len(Begun(p, 4))
         /\ Begun(p, 4) = p[1] \o p[2] \o p[3] \o p[4]
<1> DEFINE a == p[1]
           b == p[2]
           c == p[3]
           d == p[4]
<1>1. a \in Seq(Char) /\ b \in Seq(Char) /\ c \in Seq(Char) /\ d \in Seq(Char)
  OBVIOUS
<1>2. /\ Begun(p, 0) = <<>> /\ Begun(p, 1) = a /\ Begun(p, 2) = a \o b
      /\ Begun(p, 3) = (a \o b) \o c /\ Begun(p, 4) = ((a \o b) \o c) \o d
  BY DEF Begun
<1> HIDE DEF a, b, c, d
<1>3. a \o b \in Seq(Char) /\ Len(a \o b) = Len(a) + Len(b) /\ <<>> \o a = a
  BY <1>1
<1>4. (a \o b) \o c \in Seq(Char) /\ Len((a \o b) \o c) = Len(a \o b) + Len(c)
  BY <1>1, <1>3
<1>5. ((a \o b) \o c) \o d \in Seq(Char) /\ Len(((a \o b) \o c) \o d) = Len((a \o b) \o c) + Len(d)
  BY <1>1, <1>4
<1>6. Len(a) \in Nat /\ Len(b) \in Nat /\ Len(c) \in Nat /\ Len(d) \in Nat /\ Len(<<>>) = 0
  BY <1>1
<1>7. ASSUME NEW k \in 0 .. 3
      PROVE  Begun(p, k + 1) = Begun(p, k) \o p[k + 1]
  <2>1. \/ k = 0 /\ k + 1 = 1
        \/ k = 1 /\ k + 1 = 2
        \/ k = 2 /\ k + 1 = 3
        \/ k = 3 /\ k + 1 = 4
    OBVIOUS
  <2> QED
    BY <1>2, <1>3, <2>1, Zenon DEF a, b, c, d
<1>8. ASSUME NEW k \in 0 .. 4
      PROVE  Begun(p, k) \in Seq(Char) /\ Len(Begun(p, k)) <= Len(Begun(p, 4))
  <2>1. k = 0 \/ k = 1 \/ k = 2 \/ k = 3 \/ k = 4
    OBVIOUS
  <2>2. <<>> \in Seq(Char)
    OBVIOUS
  <2>3. /\ Len(Begun(p, 0)) <= Len(Begun(p, 4)) /\ Len(Begun(p, 1)) <= Len(Begun(p, 4))
        /\ Len(Begun(p, 2)) <= Len(Begun(p, 4)) /\ Len(Begun(p, 3)) <= Len(Begun(p, 4))
        /\ Len(Begun(p, 4)) <= Len(Begun(p, 4))
    <3> DEFINE m == Len(a \o b)
               n == Len((a \o b) \o c)
               o == Len(((a \o b) \o c) \o d)
    <3>1. m = Len(a) + Len(b) /\ n = m + Len(c) /\ o = n + Len(d)
      BY <1>3, <1>4, <1>5
    <3>2. /\ Len(Begun(p, 0)) = 0 /\ Len(Begun(p, 1)) = Len(a) /\ Len(Begun(p, 2)) = m
          /\ Len(Begun(p, 3)) = n /\ Len(Begun(p, 4)) = o
      BY <1>2, <1>6
    <3> HIDE DEF m, n, o
    <3> QED
      BY <1>6, <3>1, <3>2
  <2>4. /\ Begun(p, 0) \in Seq(Char) /\ Begun(p, 1) \in Seq(Char) /\ Begun(p, 2) \in Seq(Char)
        /\ Begun(p, 3) \in Seq(Char) /\ Begun(p, 4) \in Seq(Char)
    BY <1>1, <1>2, <1>3, <1>4, <1>5, <2>2
  <2> QED
    BY <2>1, <2>3, <2>4
<1> QED
  BY <1>2, <1>7, <1>8 DEF a, b, c, d

LEMMA NowhereTo ==
  ASSUME NEW x
  PROVE  LET s == [Nowhere EXCEPT !.to = x] IN s.to = x /\ s = [to |-> x, text |-> <<>>]
  BY DEF Nowhere

LEMMA LogBegins ==
  ASSUME UsersInv, NEW lvl \in 0 .. 4, NEW p \in Lines, log_printf(lvl, p)
  PROVE  UsersInv' /\ Prints
<1> DEFINE to == IF lvl > LogLevel THEN "none" ELSE IF lvl >= 2 THEN "stderr" ELSE "stdout"
<1>1. /\ BufInv /\ pc = "idle" /\ pc' = "idle" /\ user' = "log"
      /\ want' = p /\ left' = p
      /\ shown' = [Nowhere EXCEPT !.to = to]
      /\ IF lvl > LogLevel
         THEN at' = "logged" /\ UNCHANGED <<buf, io>>
         ELSE at' = "log" /\ buf' = Stack(LineCap, 0) /\ io' = NoIO
  BY DEF log_printf, UsersInv, UserInv
<1> HIDE DEF to
<1>2. shown'.to = to /\ shown' = [to |-> to, text |-> <<>>] /\ shown'.text = <<>>
  BY <1>1, NowhereTo
<1>3. p \in [1 .. 4 -> Seq(Char)]
  <2>1. p \in [1 .. 4 -> Same(0, 2)] /\ Same(0, 2) \subseteq Seq(Char)
    BY FiniteTexts DEF Lines
  <2> QED
    BY <2>1
<1>4. CASE lvl > LogLevel
  <2>1. at' = "logged" /\ UNCHANGED vars /\ shown'.to = "none"
    BY <1>1, <1>2, <1>4 DEF vars, to
  <2>2. BufInv'
    BY <1>1, <2>1 DEF vars, BufInv, BufOK, IOOK, TryInv, Keeps, Ended
  <2>3. UserInv' /\ LogInv' /\ ResponseInv' /\ ResponseWhole'
    BY <1>1, <2>1 DEF UserInv, LogInv, ResponseInv, ResponseWhole
  <2>4. LineWhole'
    BY <1>2, <2>1 DEF LineWhole
  <2> QED
    BY <2>1, <2>2, <2>3, <2>4 DEF UsersInv, Prints
<1>5. CASE ~ lvl > LogLevel
  <2>1. /\ at' = "log" /\ buf' = Stack(LineCap, 0) /\ io' = NoIO /\ shown'.to # "none"
        /\ LineCap \in Nat
    BY <1>1, <1>2, <1>5, UsersAssumption DEF to
  <2>2. BufOK(buf') /\ buf'.cap = LineCap /\ buf'.lmt = LineCap /\ buf'.pos = 0
    BY <2>1, StackOK
  <2>3. BufInv' /\ Prints
    BY <1>1, <2>1, <2>2, QuietStep DEF Prints
  <2>4. Text(buf') = <<>>
    BY <2>2, TextIs
  <2>5. Rest(p, 0) = p /\ Begun(p, 0) = <<>>
    BY <1>3, RestIs, BegunIs
  <2>6. \E k \in 0 .. 4 : /\ left' = Rest(want', k) /\ Text(buf') = Begun(want', k)
                          /\ k > 0 => buf'.pos < LineCap
    BY <1>1, <2>4, <2>5
  <2>7. LogInv'
    BY <1>1, <1>2, <1>3, <2>1, <2>2, <2>6 DEF LogInv
  <2>8. UserInv' /\ LineWhole' /\ ResponseInv' /\ ResponseWhole'
    BY <1>1, <2>1 DEF UserInv, LineWhole, ResponseInv, ResponseWhole
  <2> QED
    BY <2>3, <2>7, <2>8 DEF UsersInv
<1> QED
  BY <1>4, <1>5

LEMMA LogPieceStep ==
  ASSUME UsersInv, LogPiece
  PROVE  UsersInv' /\ Prints
<1> DEFINE t == Head(left)
           c == aloe_buf_vprintf(buf, t)
<1>1. /\ at = "log" /\ left # <<>> /\ aloe_buf_printf(t, 0) /\ left' = Tail(left)
      /\ at' = IF io'.ret = 1 THEN "log" ELSE "logged"
      /\ user' = user /\ want' = want /\ shown' = shown /\ buf' = c
  BY DEF LogPiece, AfterPrintf, aloe_buf_printf
<1>2. /\ BufInv /\ UserInv /\ BufOK(buf) /\ want \in [1 .. 4 -> Seq(Char)]
      /\ buf.cap = LineCap /\ buf.lmt = LineCap
      /\ shown.to # "none" /\ shown = [to |-> shown.to, text |-> <<>>]
      /\ \E k \in 0 .. 4 : left = Rest(want, k) /\ Text(buf) = Begun(want, k)
  BY <1>1 DEF UsersInv, LogInv, BufInv
<1>3. PICK k \in 0 .. 4 : left = Rest(want, k) /\ Text(buf) = Begun(want, k)
  BY <1>2
<1>4. k \in 0 .. 3
  <2>1. k # 4
    BY <1>1, <1>2, <1>3, RestIs
  <2> QED
    BY <2>1
<1>5. /\ t = want[k + 1] /\ Tail(left) = Rest(want, k + 1) /\ t \in Seq(Char)
      /\ Begun(want, k + 1) = Text(buf) \o t
  <2>1. t = want[k + 1] /\ Tail(left) = Rest(want, k + 1)
    BY <1>2, <1>3, <1>4, RestIs
  <2>2. Begun(want, k + 1) = Begun(want, k) \o want[k + 1]
    BY <1>2, <1>4, BegunIs
  <2>3. want[k + 1] \in Seq(Char)
    BY <1>2, <1>4
  <2> QED
    BY <1>3, <2>1, <2>2, <2>3
<1>6. /\ BufInv' /\ Whole /\ Reason /\ Growth /\ pc' = "idle"
      /\ io'.ret = IF Fits(buf, t) THEN 1 ELSE -1
  BY <1>1, <1>2, <1>5, PrintfStep
<1>7. /\ BufOK(c) /\ c.cap = LineCap /\ c.lmt = LineCap /\ (Fits(buf, t) => c.pos < LineCap)
  <2> HIDE DEF t
  <2>1. BufOK(buf) /\ t \in Seq(Char) /\ buf.cap = LineCap /\ buf.lmt = LineCap
    BY <1>2, <1>5
  <2> QED
    BY <2>1, Vprintf
<1>8. Fits(buf, t) => Text(c) = Begun(want, k + 1)
  BY <1>2, <1>5, Appended
<1> HIDE DEF c
<1>9. UserInv' /\ ResponseInv' /\ ResponseWhole'
  BY <1>1, <1>2, <1>6 DEF UserInv, ResponseInv, ResponseWhole
<1>10. CASE Fits(buf, t)
  <2>1. at' = "log"
    BY <1>1, <1>6, <1>10
  <2>2. k + 1 \in 0 .. 4 /\ left' = Rest(want', k + 1) /\ Text(buf') = Begun(want', k + 1)
        /\ buf'.pos < LineCap
    BY <1>1, <1>4, <1>5, <1>7, <1>8, <1>10
  <2>3. \E j \in 0 .. 4 : /\ left' = Rest(want', j) /\ Text(buf') = Begun(want', j)
                          /\ j > 0 => buf'.pos < LineCap
    BY <2>2
  <2>4. LogInv'
    BY <1>1, <1>2, <1>7, <2>3 DEF LogInv
  <2>5. LineWhole'
    BY <2>1 DEF LineWhole
  <2> QED
    BY <1>6, <1>9, <2>4, <2>5 DEF UsersInv, Prints
<1>11. CASE ~ Fits(buf, t)
  <2>1. at' = "logged"
    BY <1>1, <1>6, <1>11
  <2>2. Len(Begun(want, 4)) >= LineCap
    <3>1. /\ Len(Text(buf)) = buf.pos /\ Len(t) >= LineCap - buf.pos
          /\ buf.pos \in Nat /\ Len(t) \in Nat /\ LineCap \in Nat
      <4> HIDE DEF t
      <4>1. BufOK(buf) /\ t \in Seq(Char) /\ buf.lmt = LineCap /\ LineCap \in Nat /\ buf.pos \in Nat
        BY <1>2, <1>5, UsersAssumption DEF BufOK
      <4>2. Len(Text(buf)) = buf.pos
        BY <4>1, TextIs
      <4> QED
        BY <1>11, <4>1, <4>2 DEF Fits
    <3>2. Len(Begun(want, k + 1)) = Len(Text(buf)) + Len(t)
      <4>1. Begun(want, k) \in Seq(Char)
        BY <1>2, BegunIs
      <4>2. Len(Text(buf) \o t) = Len(Text(buf)) + Len(t)
        BY <1>3, <1>5, <4>1
      <4> QED
        BY <1>5, <4>2
    <3>3. Begun(want, k + 1) \in Seq(Char) /\ Begun(want, 4) \in Seq(Char)
          /\ Len(Begun(want, k + 1)) <= Len(Begun(want, 4))
      <4>1. k + 1 \in 0 .. 4 /\ 4 \in 0 .. 4 /\ want \in [1 .. 4 -> Seq(Char)]
        BY <1>2, <1>4
      <4> QED
        BY <4>1, BegunIs
    <3>4. Len(Begun(want, 4)) \in Nat
      BY <3>3
    <3> QED
      BY <3>1, <3>2, <3>3, <3>4
  <2>3. Begun(want, 4) = want[1] \o want[2] \o want[3] \o want[4]
    BY <1>2, BegunIs
  <2>4. ~ Len(want[1] \o want[2] \o want[3] \o want[4]) < LineCap
    <3>1. Len(Begun(want, 4)) \in Nat /\ LineCap \in Nat
      <4>1. want \in [1 .. 4 -> Seq(Char)] /\ 4 \in 0 .. 4
        BY <1>2
      <4>2. Begun(want, 4) \in Seq(Char)
        BY <4>1, BegunIs
      <4> QED
        BY <4>2, UsersAssumption
    <3> DEFINE line == want[1] \o want[2] \o want[3] \o want[4]
    <3>2. Len(line) \in Nat /\ Len(line) >= LineCap
      BY <2>2, <2>3, <3>1, Zenon
    <3> HIDE DEF line
    <3>3. ~ Len(line) < LineCap
      BY <3>1, <3>2
    <3> QED
      BY <3>3 DEF line
  <2>5. shown'.text = <<>>
    BY <1>1, <1>2
  <2>6. LineWhole'
    BY <1>1, <2>4, <2>5, Zenon DEF LineWhole
  <2>7. LogInv'
    BY <2>1 DEF LogInv
  <2> QED
    BY <1>6, <1>9, <2>6, <2>7 DEF UsersInv, Prints
<1> QED
  BY <1>10, <1>11

LEMMA LogShowStep ==
  ASSUME UsersInv, LogShow
  PROVE  UsersInv' /\ Prints
<1>1. /\ at = "log" /\ left = <<>> /\ at' = "logged" /\ pc' = "idle" /\ io' = NoIO
      /\ buf' = [buf EXCEPT !.lmt = buf.pos, !.pos = 0]
      /\ shown' = [shown EXCEPT !.text = [i \in 1 .. buf'.lmt |-> buf'.data[i - 1]]]
      /\ user' = user /\ want' = want
  BY DEF LogShow, aloe_buf_flip
<1>2. /\ BufInv /\ UserInv /\ BufOK(buf) /\ want \in [1 .. 4 -> Seq(Char)]
      /\ shown.to # "none" /\ shown = [to |-> shown.to, text |-> <<>>]
      /\ \E k \in 0 .. 4 : left = Rest(want, k) /\ Text(buf) = Begun(want, k)
                           /\ (k > 0 => buf.pos < LineCap)
  BY <1>1 DEF UsersInv, LogInv, BufInv
<1>3. PICK k \in 0 .. 4 : left = Rest(want, k) /\ Text(buf) = Begun(want, k)
                          /\ (k > 0 => buf.pos < LineCap)
  BY <1>2
<1>4. k = 4
  <2>1. k \notin 0 .. 3
    BY <1>1, <1>2, <1>3, RestIs
  <2> QED
    BY <2>1
<1>5. Text(buf) = want[1] \o want[2] \o want[3] \o want[4] /\ buf.pos < LineCap
  <2>1. Begun(want, 4) = want[1] \o want[2] \o want[3] \o want[4]
    BY <1>2, BegunIs
  <2>2. Text(buf) = Begun(want, 4) /\ buf.pos < LineCap
    BY <1>3, <1>4
  <2> QED
    BY <2>1, <2>2, Zenon
<1>6. buf.pos \in Nat /\ buf.pos <= buf.cap
  BY <1>2 DEF BufOK
<1>7. BufOK(buf') /\ buf'.lmt = buf.pos /\ buf'.data = buf.data
  BY <1>1, <1>2, <1>6, IndexStep
<1>8. BufInv' /\ Prints
  BY <1>1, <1>7, QuietStep DEF Prints
<1>9. shown'.text = Text(buf) /\ shown'.to = shown.to
  BY <1>1, <1>2, <1>7 DEF Text
<1>10. Len(Text(buf)) = buf.pos
  BY <1>2, TextIs
<1>11. LineWhole'
  <2>1. shown'.to # "none"
    BY <1>2, <1>9
  <2>2. Len(want[1] \o want[2] \o want[3] \o want[4]) < LineCap
    BY <1>5, <1>10
  <2>3. shown'.text = want[1] \o want[2] \o want[3] \o want[4]
    BY <1>5, <1>9
  <2> QED
    BY <1>1, <2>1, <2>2, <2>3, Zenon DEF LineWhole
<1>12. UserInv' /\ LogInv' /\ ResponseInv' /\ ResponseWhole'
  BY <1>1, <1>2 DEF UserInv, LogInv, ResponseInv, ResponseWhole
<1> QED
  BY <1>8, <1>11, <1>12 DEF UsersInv

-----------------------------------------------------------------------------
(***************************************************************************)
(* The steps of test_buf1.                                                 *)
(***************************************************************************)

LEMMA ResponseBegins ==
  ASSUME UsersInv, NEW p \in Responses, test_buf1(p)
  PROVE  UsersInv' /\ Prints
<1>1. /\ user = "response" /\ at' = "body" /\ want' = p /\ left' = p
      /\ buf' = Stack(RespCap, Gap) /\ hdr' = [pos |-> 0, lmt |-> Gap]
      /\ io' = NoIO /\ pc' = pc /\ user' = user
  BY DEF test_buf1
<1>2. pc' = "idle"
  BY <1>1 DEF UsersInv, UserInv
<1>3. RespCap \in Nat /\ Gap \in Nat /\ Gap <= RespCap /\ RespCap - Gap \in Nat
  BY UsersAssumption
<1>4. p = <<p[1], p[2]>> /\ p[1] \in Seq(Char) /\ p[2] \in Seq(Char)
  <2>1. Sizes(1, RespCap - Gap) \subseteq Seq(Char) /\ Sizes(1, Gap) \subseteq Seq(Char)
    BY <1>3, FiniteTexts
  <2>2. p \in Sizes(1, RespCap - Gap) \X Sizes(1, Gap)
    BY DEF Responses
  <2> QED
    BY <2>1, <2>2
<1>5. BufOK(buf') /\ buf'.cap = RespCap /\ buf'.lmt = RespCap /\ buf'.pos = Gap
  BY <1>1, <1>3, StackOK
<1>6. BufInv' /\ Prints
  BY <1>1, <1>2, <1>5, QuietStep DEF Prints
<1>7. ResponseInv'
  BY <1>1, <1>4, <1>5 DEF ResponseInv
<1>8. UserInv' /\ LogInv' /\ LineWhole' /\ ResponseWhole'
  BY <1>1, <1>2 DEF UserInv, LogInv, LineWhole, ResponseWhole
<1> QED
  BY <1>6, <1>7, <1>8 DEF UsersInv

LEMMA PrintBodyStep ==
  ASSUME UsersInv, PrintBody
  PROVE  UsersInv' /\ Prints
<1> DEFINE t == left[1]
           c == aloe_buf_vprintf(buf, t)
<1>1. /\ at = "body" /\ aloe_buf_printf(t, 0) /\ left' = Tail(left)
      /\ at' = IF io'.ret = 1 THEN "header" ELSE "failed"
      /\ user' = user /\ want' = want /\ hdr' = hdr /\ buf' = c
  BY DEF PrintBody, AfterPrintf, aloe_buf_printf
<1>2. /\ BufInv /\ UserInv /\ BufOK(buf)
      /\ want = <<want[1], want[2]>> /\ want[1] \in Seq(Char) /\ want[2] \in Seq(Char)
      /\ buf.cap = RespCap /\ buf.lmt = RespCap /\ left = want /\ buf.pos = Gap
      /\ hdr = [pos |-> 0, lmt |-> Gap]
  BY <1>1 DEF UsersInv, ResponseInv, BufInv
<1>3. t = want[1] /\ Tail(left) = <<want[2]>>
  <2>1. Tail(<<want[1], want[2]>>) = <<want[2]>>
    OBVIOUS
  <2> QED
    BY <1>2, <2>1
<1>4. /\ RespCap \in Nat /\ Gap \in Nat /\ Gap < RespCap /\ t \in Seq(Char) /\ Len(want[1]) \in Nat
  BY <1>2, <1>3, UsersAssumption
<1>5. /\ BufInv' /\ Whole /\ Reason /\ Growth /\ pc' = "idle"
      /\ io'.ret = IF Fits(buf, t) THEN 1 ELSE -1
  BY <1>1, <1>2, <1>4, PrintfStep
<1> HIDE DEF t
<1>6. /\ BufOK(c) /\ c.cap = buf.cap /\ c.lmt = buf.lmt
      /\ Fits(buf, t) => /\ c.pos = buf.pos + Len(t) /\ c.pos < c.lmt
                         /\ \A i \in 1 .. Len(t) : c.data[buf.pos + i - 1] = t[i]
  <2>1. BufOK(buf)
    BY <1>2
  <2> QED
    BY <1>4, <2>1, Vprintf
<1> HIDE DEF c
<1>7. UserInv' /\ LogInv' /\ LineWhole'
  BY <1>1, <1>2, <1>5 DEF UserInv, LogInv, LineWhole
<1>8. CASE Fits(buf, t)
  <2>1. at' = "header"
    BY <1>1, <1>5, <1>8
  <2>2. /\ buf'.cap = RespCap /\ buf'.lmt = RespCap
        /\ buf'.pos = Gap + Len(want[1]) /\ buf'.pos < RespCap
    BY <1>1, <1>2, <1>3, <1>6, <1>8
  <2>3. \A i \in 1 .. Len(want[1]) : buf'.data[Gap + i - 1] = want[1][i]
    BY <1>1, <1>2, <1>3, <1>6, <1>8
  <2>4. ResponseInv'
    BY <1>1, <1>2, <1>3, <2>1, <2>2, <2>3 DEF ResponseInv
  <2>5. ResponseWhole'
    BY <2>1 DEF ResponseWhole
  <2> QED
    BY <1>5, <1>7, <2>4, <2>5 DEF UsersInv, Prints
<1>9. CASE ~ Fits(buf, t)
  <2>1. at' = "failed"
    BY <1>1, <1>5, <1>9
  <2>2. Len(want'[1]) >= RespCap - Gap
    BY <1>1, <1>2, <1>3, <1>4, <1>9 DEF Fits
  <2>3. ResponseInv' /\ ResponseWhole'
    BY <2>1, <2>2 DEF ResponseInv, ResponseWhole
  <2> QED
    BY <1>5, <1>7, <2>3 DEF UsersInv, Prints
<1> QED
  BY <1>8, <1>9

LEMMA PrintHeaderStep ==
  ASSUME UsersInv, PrintHeader
  PROVE  UsersInv' /\ Prints
<1> DEFINE view == [buf EXCEPT !.pos = hdr.pos, !.lmt = hdr.lmt]
           x    == aloe_buf_vprintf(view, left[1])
<1>1. /\ at = "header" /\ buf' = [buf EXCEPT !.data = x.data]
      /\ hdr' = [pos |-> x.pos, lmt |-> x.lmt]
      /\ at' = IF Fits(view, left[1]) THEN "join" ELSE "failed"
      /\ left' = Tail(left) /\ io' = NoIO
      /\ pc' = pc /\ user' = user /\ want' = want
  BY DEF PrintHeader
<1>2. /\ BufInv /\ UserInv /\ BufOK(buf)
      /\ want = <<want[1], want[2]>> /\ want[1] \in Seq(Char) /\ want[2] \in Seq(Char)
      /\ buf.cap = RespCap /\ buf.lmt = RespCap /\ left = <<want[2]>>
      /\ hdr.pos = 0 /\ hdr.lmt = Gap
      /\ buf.pos = Gap + Len(want[1]) /\ buf.pos < RespCap
      /\ \A i \in 1 .. Len(want[1]) : buf.data[Gap + i - 1] = want[1][i]
  BY <1>1 DEF UsersInv, ResponseInv, BufInv
<1>3. left[1] = want[2]
  BY <1>2
<1>4. /\ RespCap \in Nat /\ Gap \in Nat /\ Gap < RespCap
      /\ Len(want[1]) \in Nat /\ Len(want[2]) \in Nat
      /\ buf.data \in [0 .. RespCap - 1 -> Cell] /\ buf.pos \in Nat /\ pc = "idle"
  BY <1>1, <1>2, UsersAssumption DEF BufOK, UserInv, UsersInv, ResponseInv
<1>5. /\ BufOK(view) /\ view.cap = RespCap /\ view.pos = 0 /\ view.lmt = Gap
      /\ view.data = buf.data
  <2> DEFINE z == hdr.pos
             l == hdr.lmt
             b == [buf EXCEPT !.pos = z]
  <2> HIDE DEF z, l
  <2>1. b = [data |-> buf.data, cap |-> RespCap, pos |-> z, lmt |-> buf.lmt]
    <3>1. buf \in [data : [0 .. buf.cap - 1 -> Cell], cap : Nat, pos : Nat, lmt : Nat] /\ buf.cap = RespCap
      BY <1>2 DEF BufOK
    <3> QED
      BY <3>1
  <2> HIDE DEF b
  <2>2. [b EXCEPT !.lmt = l] = [data |-> buf.data, cap |-> RespCap, pos |-> z, lmt |-> l]
    BY <2>1
  <2>3. view = [data |-> buf.data, cap |-> RespCap, pos |-> z, lmt |-> l]
    BY <2>2, Zenon DEF b, z, l
  <2>4. z = 0 /\ l = Gap /\ z \in Nat /\ l \in Nat /\ z <= l /\ l <= RespCap
    BY <1>2, <1>4 DEF z, l
  <2> HIDE DEF view
  <2> QED
    BY <1>4, <2>3, <2>4, NewBuf
<1> HIDE DEF view
<1>6. /\ BufOK(x) /\ x.cap = RespCap /\ x.lmt = Gap
      /\ \A i \in Gap .. RespCap - 1 : x.data[i] = buf.data[i]
      /\ Fits(view, want[2]) => /\ x.pos = Len(want[2]) /\ x.pos < Gap
                                /\ \A i \in 1 .. Len(want[2]) : x.data[i - 1] = want[2][i]
  <2> DEFINE t == want[2]
  <2>1. x = aloe_buf_vprintf(view, t) /\ t \in Seq(Char) /\ Len(t) \in Nat
    BY <1>2, <1>3
  <2> HIDE DEF x, t
  <2>2. /\ BufOK(x) /\ x.cap = view.cap /\ x.lmt = view.lmt
        /\ \A i \in view.lmt .. view.cap - 1 : x.data[i] = view.data[i]
        /\ Fits(view, t) => /\ x.pos = view.pos + Len(t) /\ x.pos < x.lmt
                            /\ \A i \in 1 .. Len(t) : x.data[view.pos + i - 1] = t[i]
    BY <1>5, <2>1, Vprintf
  <2>3. \A i \in 1 .. Len(t) : view.pos + i - 1 = i - 1
    BY <1>5
  <2>4. x.cap = RespCap /\ x.lmt = Gap /\ \A i \in Gap .. RespCap - 1 : x.data[i] = buf.data[i]
    BY <1>5, <2>2
  <2>5. Fits(view, t) => /\ x.pos = Len(t) /\ x.pos < Gap
                         /\ \A i \in 1 .. Len(t) : x.data[i - 1] = t[i]
    BY <1>5, <2>1, <2>2, <2>3
  <2> QED
    BY <2>2, <2>4, <2>5 DEF t
<1> HIDE DEF x
<1>7. BufOK(buf') /\ buf'.cap = RespCap /\ buf'.lmt = RespCap /\ buf'.pos = buf.pos /\ buf'.data = x.data
  <2>1. x.data \in [0 .. RespCap - 1 -> Cell]
    BY <1>6 DEF BufOK
  <2>2. buf' = [data |-> x.data, cap |-> RespCap, pos |-> buf.pos, lmt |-> RespCap]
    BY <1>1, <1>2 DEF BufOK
  <2>3. RespCap \in Nat /\ buf.pos \in Nat /\ buf.pos <= RespCap
    BY <1>2, <1>4
  <2> QED
    BY <2>1, <2>2, <2>3, NewBuf
<1>8. BufInv' /\ Prints
  BY <1>1, <1>4, <1>7, QuietStep DEF Prints
<1>9. UserInv' /\ LogInv' /\ LineWhole'
  BY <1>1, <1>2 DEF UserInv, LogInv, LineWhole
<1>10. CASE Fits(view, want[2])
  <2>1. at' = "join" /\ hdr' = [pos |-> Len(want[2]), lmt |-> Gap] /\ Len(want[2]) < Gap
    BY <1>1, <1>3, <1>6, <1>10
  <2>2. \A i \in 1 .. Len(want[2]) : buf'.data[i - 1] = want[2][i]
    BY <1>6, <1>7, <1>10
  <2>3. ASSUME NEW i \in 1 .. Len(want[1])
        PROVE  buf'.data[Gap + i - 1] = want[1][i]
    <3>1. Gap + i - 1 \in Gap .. RespCap - 1
      BY <1>2, <1>4
    <3> QED
      BY <1>2, <1>6, <1>7, <3>1
  <2>4. ResponseInv'
    BY <1>1, <1>2, <1>7, <2>1, <2>2, <2>3 DEF ResponseInv
  <2>5. ResponseWhole'
    BY <2>1 DEF ResponseWhole
  <2> QED
    BY <1>8, <1>9, <2>4, <2>5 DEF UsersInv
<1>11. CASE ~ Fits(view, want[2])
  <2>1. at' = "failed"
    BY <1>1, <1>3, <1>11
  <2>2. Len(want'[2]) >= Gap
    BY <1>1, <1>4, <1>5, <1>11 DEF Fits
  <2>3. ResponseInv' /\ ResponseWhole'
    BY <2>1, <2>2 DEF ResponseInv, ResponseWhole
  <2> QED
    BY <1>8, <1>9, <2>3 DEF UsersInv
<1> QED
  BY <1>10, <1>11

LEMMA JoinStep ==
  ASSUME UsersInv, Join
  PROVE  UsersInv' /\ Prints
<1> DEFINE b    == Len(want[1])
           h    == Len(want[2])
           gap  == hdr.lmt - hdr.pos
           from == hdr.pos
           size == buf.pos - from
           copy == [i \in 0 .. size - 1 |-> buf.data[from + i]]
           view == [data |-> copy, cap |-> size, pos |-> size, lmt |-> size]
           x    == aloe_buf_shift_left(view, gap)
           data == [i \in DOMAIN buf.data |->
                      IF i \in from .. buf.pos - 1 THEN x.data[i - from] ELSE buf.data[i]]
           end  == buf.pos - gap
           last == [data EXCEPT ![end] = NUL]
<1>1. /\ at = "join" /\ at' = "responded"
      /\ buf' = [buf EXCEPT !.data = last, !.pos = 0, !.lmt = end]
      /\ io' = NoIO /\ pc' = pc /\ user' = user /\ want' = want
  BY DEF Join
<1>2. /\ BufInv /\ UserInv /\ BufOK(buf)
      /\ want = <<want[1], want[2]>> /\ want[1] \in Seq(Char) /\ want[2] \in Seq(Char)
      /\ buf.cap = RespCap /\ hdr.pos = h /\ hdr.lmt = Gap /\ h < Gap
      /\ buf.pos = Gap + b /\ buf.pos < RespCap
  BY <1>1 DEF UsersInv, ResponseInv, BufInv
<1>3. /\ \A i \in 1 .. b : buf.data[Gap + i - 1] = want[1][i]
      /\ \A i \in 1 .. h : buf.data[i - 1] = want[2][i]
  BY <1>1 DEF UsersInv, ResponseInv
<1>4. /\ b \in Nat /\ h \in Nat /\ RespCap \in Nat /\ Gap \in Nat
      /\ buf.data \in [0 .. RespCap - 1 -> Cell]
  BY <1>2, UsersAssumption DEF BufOK
<1> HIDE DEF b, h
<1>5. /\ b \in Nat /\ h \in Nat /\ RespCap \in Nat /\ Gap \in Nat
       /\ hdr.pos = h /\ hdr.lmt = Gap /\ h < Gap
       /\ buf.pos = Gap + b /\ buf.pos < RespCap
  BY <1>2, <1>4
<1>6. /\ gap \in Nat /\ gap > 0 /\ gap = Gap - h /\ from = h
      /\ size \in Nat /\ size = gap + b /\ gap <= size
      /\ end \in Nat /\ end = h + b /\ end <= RespCap - 1
  BY <1>5
<1>7. pc' = "idle"
  BY <1>1, <1>2 DEF UserInv, ResponseInv, UsersInv
<1> HIDE DEF gap, from, size, end
<1>8. copy \in [0 .. size - 1 -> Cell]
  <2>1. \A i \in 0 .. size - 1 : from + i \in 0 .. RespCap - 1
    BY <1>5, <1>6
  <2> QED
    BY <1>4, <2>1
<1>9. \A i \in 0 .. size - 1 : copy[i] = buf.data[h + i]
  BY <1>6
<1> HIDE DEF copy
<1>10. BufOK(view) /\ view.data = copy /\ view.cap = size /\ view.pos = size /\ view.lmt = size
  BY <1>6, <1>8, NewBuf
<1> HIDE DEF view
<1>11. /\ BufOK(x) /\ x.cap = size /\ x.pos = b
       /\ \A i \in 0 .. b - 1 : x.data[i] = copy[i + gap]
  <2>1. /\ BufOK(x) /\ x.cap = view.cap /\ x.pos = view.pos - gap
        /\ \A i \in 0 .. x.pos - 1 : x.data[i] = view.data[i + gap]
    BY <1>6, <1>10, ShiftLeft
  <2>2. view.pos - gap = b
    BY <1>4, <1>6, <1>10
  <2> HIDE DEF x
  <2> QED
    BY <1>10, <2>1, <2>2
<1> HIDE DEF x
<1>12. x.data \in [0 .. size - 1 -> Cell]
  BY <1>11 DEF BufOK
<1>13. \A i \in 0 .. b - 1 : x.data[i] = want[1][i + 1]
  <2>1. ASSUME NEW i \in 0 .. b - 1
        PROVE  x.data[i] = want[1][i + 1]
    <3>1. i + gap \in 0 .. size - 1 /\ h + (i + gap) = Gap + (i + 1) - 1 /\ i + 1 \in 1 .. b
      BY <1>4, <1>6
    <3>2. x.data[i] = copy[i + gap]
      BY <1>11
    <3>3. copy[i + gap] = buf.data[h + (i + gap)]
      BY <1>9, <3>1
    <3>4. buf.data[Gap + (i + 1) - 1] = want[1][i + 1]
      BY <1>3, <3>1
    <3> QED
      BY <3>1, <3>2, <3>3, <3>4
  <2> QED
    BY <2>1
<1>14. /\ data \in [0 .. RespCap - 1 -> Cell]
       /\ \A i \in 0 .. h - 1 : data[i] = buf.data[i]
       /\ \A i \in 0 .. b - 1 : data[h + i] = x.data[i]
  <2>1. data = [i \in 0 .. RespCap - 1 |->
                  IF i \in h .. Gap + b - 1 THEN x.data[i - h] ELSE buf.data[i]]
    <3>1. DOMAIN buf.data = 0 .. RespCap - 1
      BY <1>4
    <3>2. from = h /\ from .. buf.pos - 1 = h .. Gap + b - 1
      BY <1>5, <1>6
    <3>3. data = [i \in 0 .. RespCap - 1 |->
                    IF i \in h .. Gap + b - 1 THEN x.data[i - from] ELSE buf.data[i]]
      BY <3>1, <3>2, Zenon
    <3> QED
      BY <3>2, <3>3
  <2>2. \A i \in h .. Gap + b - 1 : i - h \in 0 .. size - 1
    BY <1>5, <1>6
  <2> HIDE DEF data
  <2>3. data \in [0 .. RespCap - 1 -> Cell]
    BY <1>4, <1>12, <2>1, <2>2
  <2>4. \A i \in 0 .. h - 1 : data[i] = buf.data[i]
    <3>1. \A i \in 0 .. h - 1 : i \in 0 .. RespCap - 1 /\ i \notin h .. Gap + b - 1
      BY <1>2, <1>4
    <3> QED
      BY <2>1, <3>1
  <2>5. ASSUME NEW i \in 0 .. b - 1
        PROVE  data[h + i] = x.data[i]
    <3>1. h + i \in 0 .. RespCap - 1 /\ h + i \in h .. Gap + b - 1 /\ (h + i) - h = i
      BY <1>2, <1>4
    <3> QED
      BY <2>1, <3>1
  <2> QED
    BY <2>3, <2>4, <2>5
<1> HIDE DEF data
<1>15. /\ last \in [0 .. RespCap - 1 -> Cell] /\ last[end] = NUL
       /\ \A i \in 0 .. end - 1 : last[i] = data[i]
  <2>1. end \in 0 .. RespCap - 1 /\ NUL \in Cell /\ \A i \in 0 .. end - 1 : i \in 0 .. RespCap - 1 /\ i # end
    BY <1>4, <1>6 DEF Cell
  <2> QED
    BY <1>14, <2>1
<1> HIDE DEF last
<1>16. BufOK(buf') /\ buf'.data = last /\ buf'.lmt = end
  <2> DEFINE z == 0
  <2>1. z \in Nat /\ z <= end /\ end <= RespCap
    BY <1>4, <1>6
  <2>2. buf' = [buf EXCEPT !.data = last, !.pos = z, !.lmt = end]
    BY <1>1
  <2> HIDE DEF z
  <2>3. BufOK(buf)
    BY <1>2
  <2>4. buf' = [data |-> last, cap |-> buf.cap, pos |-> z, lmt |-> end]
    BY <2>2, <2>3, Updated, Zenon
  <2>5. buf.cap = RespCap
    BY <1>2
  <2> QED
    BY <1>4, <1>6, <1>15, <2>1, <2>4, <2>5, NewBuf
<1>17. BufInv' /\ Prints
  BY <1>1, <1>7, <1>16, QuietStep DEF Prints
<1>18. ResponseWhole'
  <2> DEFINE text == want[2] \o want[1]
  <2>1. Len(text) = end
    BY <1>2, <1>6 DEF b, h
  <2>2. ASSUME NEW i \in 1 .. end
        PROVE  last[i - 1] = text[i]
    <3>1. i - 1 \in 0 .. end - 1 /\ last[i - 1] = data[i - 1]
      BY <1>4, <1>6, <1>15
    <3>2. CASE i <= h
      <4>1. i \in 1 .. h /\ i - 1 \in 0 .. h - 1
        BY <1>4, <3>2
      <4>2. text[i] = want[2][i]
        BY <1>2, <4>1 DEF h
      <4> QED
        BY <1>3, <1>14, <3>1, <4>1, <4>2
    <3>3. CASE i > h
      <4>1. /\ i - 1 - h \in 0 .. b - 1 /\ h + (i - 1 - h) = i - 1 /\ (i - 1 - h) + 1 = i - h
            /\ i \in h + 1 .. h + b
        BY <1>4, <1>6, <3>3
      <4>2. text[i] = want[1][i - h]
        BY <1>2, <1>4, <4>1 DEF h, b
      <4>3. data[i - 1] = x.data[i - 1 - h]
        BY <1>14, <4>1
      <4>4. x.data[i - 1 - h] = want[1][i - h]
        BY <1>13, <4>1
      <4> QED
        BY <3>1, <4>2, <4>3, <4>4
    <3>4. i <= h \/ i > h
      BY <1>5, <1>6
    <3> QED
      BY <3>2, <3>3, <3>4
  <2> HIDE DEF text
  <2>3. /\ buf'.lmt = Len(text) /\ buf'.data[buf'.lmt] = NUL
        /\ \A i \in 1 .. Len(text) : buf'.data[i - 1] = text[i]
    BY <1>15, <1>16, <2>1, <2>2
  <2> QED
    BY <1>1, <2>3 DEF ResponseWhole, text
<1>19. UserInv' /\ LogInv' /\ LineWhole' /\ ResponseInv'
  BY <1>1, <1>2 DEF UserInv, LogInv, LineWhole, ResponseInv
<1> QED
  BY <1>17, <1>18, <1>19 DEF UsersInv

-----------------------------------------------------------------------------
(***************************************************************************)
(* The theorems.                                                           *)
(***************************************************************************)

LEMMA UsersInitially == UsersInit => UsersInv
<1> SUFFICES ASSUME UsersInit
             PROVE  UsersInv
  OBVIOUS
<1>1. buf = NoBuf /\ pc = "idle" /\ io = NoIO /\ at = "idle"
  BY DEF UsersInit, Init
<1>2. IOOK /\ io.ret = 0
  BY <1>1, NoIOOK DEF IOOK
<1>3. BufInv
  BY <1>1, <1>2, NoIOOK DEF BufInv, TryInv, Ended
<1>4. UserInv /\ LogInv /\ LineWhole /\ ResponseInv /\ ResponseWhole
  BY <1>1 DEF UserInv, LogInv, LineWhole, ResponseInv, ResponseWhole
<1> QED
  BY <1>3, <1>4 DEF UsersInv

LEMMA UsersStep == UsersInv /\ [UsersNext]_all => UsersInv' /\ Prints
<1> SUFFICES ASSUME UsersInv, [UsersNext]_all
             PROVE  UsersInv' /\ Prints
  OBVIOUS
<1>1. CASE user = "any" /\ Next /\ UNCHANGED <<user, at, mine>>
  <2>1. BufInv' /\ Whole /\ Reason /\ Growth
    BY <1>1, NextStep DEF UsersInv
  <2>2. user' = "any" /\ at' = "idle"
    BY <1>1 DEF UsersInv, UserInv
  <2>3. UserInv' /\ LogInv' /\ LineWhole' /\ ResponseInv' /\ ResponseWhole'
    BY <2>2 DEF UserInv, LogInv, LineWhole, ResponseInv, ResponseWhole
  <2> QED
    BY <2>1, <2>3 DEF UsersInv, Prints
<1>2. CASE \E lvl \in 0 .. 4, p \in Lines : log_printf(lvl, p)
  BY <1>2, LogBegins
<1>3. CASE LogPiece
  BY <1>3, LogPieceStep
<1>4. CASE LogShow
  BY <1>4, LogShowStep
<1>5. CASE \E p \in Responses : test_buf1(p)
  BY <1>5, ResponseBegins
<1>6. CASE PrintBody
  BY <1>6, PrintBodyStep
<1>7. CASE PrintHeader
  BY <1>7, PrintHeaderStep
<1>8. CASE Join
  BY <1>8, JoinStep
<1>9. CASE Return
  <2>1. /\ buf' = NoBuf /\ io' = NoIO /\ at' = "idle" /\ pc' = "idle" /\ user' = user
    BY <1>9 DEF Return, UsersInv, UserInv
  <2>2. BufInv' /\ Prints
    BY <2>1, NoIOOK, QuietStep DEF Prints
  <2>3. UserInv' /\ LogInv' /\ LineWhole' /\ ResponseInv' /\ ResponseWhole'
    BY <2>1 DEF UserInv, LogInv, LineWhole, ResponseInv, ResponseWhole
  <2> QED
    BY <2>2, <2>3 DEF UsersInv
<1>10. CASE UNCHANGED all
  <2>1. UNCHANGED <<buf, pc, io, user, at, want, left, hdr, shown>>
    BY <1>10 DEF all, vars, mine
  <2>2. BufInv' /\ UNCHANGED vars
    BY <2>1 DEF UsersInv, BufInv, BufOK, IOOK, TryInv, Keeps, Ended, vars
  <2>3. UserInv' /\ LogInv' /\ LineWhole' /\ ResponseInv' /\ ResponseWhole'
    BY <2>1 DEF UsersInv, UserInv, LogInv, Text, LineWhole, ResponseInv, ResponseWhole
  <2> QED
    BY <2>2, <2>3 DEF UsersInv, Prints
<1> QED
  BY <1>1, <1>2, <1>3, <1>4, <1>5, <1>6, <1>7, <1>8, <1>9, <1>10 DEF UsersNext

LEMMA UsersAlways == UsersSpec => []UsersInv
  BY UsersInitially, UsersStep, PTL DEF UsersSpec

\* The indexes are in order and within the memory, and after every printf of a format that
\* is not empty (misc.c:136) the buffer is a string, for all that aloe_buf_vaprintf, clear,
\* flip, shift_left and expand do (misc.c:83-168) in any order.
THEOREM StringEndsCorrect == UsersSpec => []StringEnds
<1>1. UsersInv => StringEnds
  <2> SUFFICES ASSUME UsersInv
               PROVE  StringEnds
    OBVIOUS
  <2>1. 0 <= buf.pos /\ buf.pos <= buf.lmt /\ buf.lmt <= buf.cap /\ DOMAIN buf.data = 0 .. buf.cap - 1
    BY DEF UsersInv, BufInv, BufOK
  <2> QED
    BY <2>1 DEF UsersInv, BufInv, Ended, StringEnds
<1> QED
  BY <1>1, UsersAlways, PTL

\* The text of a printf is appended whole or not at all, however often the memory is
\* replaced, for every text and maximum.
THEOREM AllOrNothingCorrect == UsersSpec => AllOrNothing
<1>1. UsersInv /\ [UsersNext]_all => [Whole]_vars
  BY UsersStep DEF Prints
<1> QED
  BY <1>1, UsersAlways, PTL DEF UsersSpec, AllOrNothing, Whole

\* A printf that fails had no room below the limit or the maximum, or no memory.
THEOREM FailsForReasonCorrect == UsersSpec => FailsForReason
<1>1. UsersInv /\ [UsersNext]_all => [Reason]_vars
  BY UsersStep DEF Prints
<1> QED
  BY <1>1, UsersAlways, PTL DEF UsersSpec, FailsForReason, Reason

\* The memory grows within the maximum, and to less than twice what the text needs.
THEOREM GrowsAsNeededCorrect == UsersSpec => GrowsAsNeeded
<1>1. UsersInv /\ [UsersNext]_all => [Growth]_vars
  BY UsersStep DEF Prints
<1> QED
  BY <1>1, UsersAlways, PTL DEF UsersSpec, GrowsAsNeeded, Growth

\* A line of log_printf is shown whole or not at all, for every size of a line and every
\* four pieces.
THEOREM LineWholeCorrect == UsersSpec => []LineWhole
<1>1. UsersInv => LineWhole
  BY DEF UsersInv
<1> QED
  BY <1>1, UsersAlways, PTL

\* A response of test_buf1 is the header and right behind it the body, for every gap and
\* every size of a response.
THEOREM ResponseWholeCorrect == UsersSpec => []ResponseWhole
<1>1. UsersInv => ResponseWhole
  BY DEF UsersInv
<1> QED
  BY <1>1, UsersAlways, PTL

=============================================================================
