------------------------------ MODULE CfgProofs ------------------------------
(***************************************************************************)
(* Proofs about the configuration store of cfg.c, for any records, memory, *)
(* keys, numbers and texts: the properties of CfgProps.                    *)
(*                                                                         *)
(* Memory is accounted for by what the records in the tree hold, and what  *)
(* was lost.  What cfg_set_val does to one record is stated for every      *)
(* function it calls as a relation of the outcome to that before it        *)
(* (Turned), of an outcome in which the record's data is its own and large *)
(* enough (Sane).                                                          *)
(***************************************************************************)
EXTENDS CfgProps, FiniteSetTheorems, TLAPS

\* What the fields of a record and of an outcome of cfg_set_val may be.
Fields   == [key : Key \union {NULL}, type : Types \union {"void"},
             word : Addr \union Number \union {NULL}, cap : Nat, lmt : Nat]
Contents == [Addr -> Texts \union {EMPTY, CUT}]
Outcomes == [v : Fields, live : SUBSET Addr, mem : Contents, ok : BOOLEAN, dead : BOOLEAN]

CfgTypes ==
  /\ tree \subseteq Rec /\ IsFiniteSet(tree) /\ spare \in Seq(Rec) /\ rec \in [Rec -> Fields]
  /\ live \subseteq Addr /\ mem \in Contents /\ lost \subseteq Addr
  /\ st \in {"running", "gone", "dead"} /\ ret \in Rec \union {NULL}
  /\ careless \in BOOLEAN /\ format \in BOOLEAN

\* A record that never had data has no capacity and no limit, so that the next text obtains
\* memory; one that is not in the tree has no type, so that what it once held is not freed
\* with it.
NoData ==
  /\ \A r \in Rec : rec[r].word = NULL => rec[r].cap = 0 /\ rec[r].lmt = 0
  /\ \A r \in Rec \ tree : rec[r].type = "void"

\* What is in the memory m at w, of that capacity and limit, is no more than it can hold.
Held(m, w, cap, lmt) == cap # 0 /\ lmt <= cap /\ (m[w] \in Texts => Length[m[w]] < cap)

\* The data of every record that holds some, whether it is shown (lmt) or not, is live, its
\* own and large enough; memory that is not live has no text.
Owned ==
  ~ careless =>
    /\ st = "dead" => format
    /\ \A r \in Holding :
         rec[r].word \in live /\ Held(mem, rec[r].word, rec[r].cap, rec[r].lmt)
    /\ \A r \in tree : rec[r].type = "number" => rec[r].word \in Number
    /\ \A q, r \in Holding : rec[q].word = rec[r].word => q = r
    /\ \A a \in Addr \ live : mem[a] \notin Texts

CfgInv == CfgTypes /\ RecordsOnce /\ NoData /\ Owned /\ NothingLeaks

-----------------------------------------------------------------------------
\* A finite set of records with different keys has an order by their keys: the record of
\* rank i is that which i records do not exceed.
LEMMA InOrderExists ==
  ASSUME NEW R, IsFiniteSet(R), \A r \in R : rec[r].key \in Int,
         \A q, r \in R : rec[q].key = rec[r].key => q = r
  PROVE  /\ InOrder(R) \in [1 .. Cardinality(R) -> R]
         /\ \A i, j \in DOMAIN InOrder(R) : i < j => rec[InOrder(R)[i]].key < rec[InOrder(R)[j]].key
<1> DEFINE n == Cardinality(R)
           Upto(r) == { q \in R : rec[q].key <= rec[r].key }
           rank == [r \in R |-> Cardinality(Upto(r))]
<1>1. n \in Nat
  BY FS_CardinalityType
<1>2. ASSUME NEW r \in R PROVE IsFiniteSet(Upto(r)) /\ Cardinality(Upto(r)) \in 1 .. n
  <2>1. Upto(r) \in SUBSET R
    OBVIOUS
  <2>2. IsFiniteSet(Upto(r)) /\ Cardinality(Upto(r)) <= n
    BY <2>1, FS_Subset
  <2>3. r \in Upto(r)
    OBVIOUS
  <2>4. Cardinality(Upto(r)) # 0
    BY <2>2, <2>3, FS_EmptySet
  <2>5. Cardinality(Upto(r)) \in Nat
    BY <2>2, FS_CardinalityType
  <2> HIDE DEF Upto
  <2> QED
    BY <1>1, <2>2, <2>4, <2>5
<1>3. ASSUME NEW q \in R, NEW r \in R, rec[q].key < rec[r].key
      PROVE  Cardinality(Upto(q)) < Cardinality(Upto(r))
  <2>1. Upto(q) \in SUBSET Upto(r)
    BY <1>3
  <2>2. r \in Upto(r) /\ r \notin Upto(q)
    BY <1>3
  <2>3. /\ Cardinality(Upto(q)) <= Cardinality(Upto(r))
        /\ Cardinality(Upto(q)) # Cardinality(Upto(r))
    BY <2>1, <2>2, <1>2, FS_Subset
  <2> HIDE DEF Upto, n
  <2>4. Cardinality(Upto(q)) \in 1 .. n /\ Cardinality(Upto(r)) \in 1 .. n
    BY <1>2
  <2> QED
    BY <1>1, <2>3, <2>4
<1> HIDE DEF Upto
<1>4. rank \in [R -> 1 .. n]
  <2>1. \A r \in R : Cardinality(Upto(r)) \in 1 .. n
    BY <1>2
  <2> HIDE DEF n
  <2> QED
    BY <2>1
<1>5. ASSUME NEW q \in R, NEW r \in R, q # r PROVE rank[q] # rank[r]
  <2>1. rec[q].key < rec[r].key \/ rec[r].key < rec[q].key
    BY <1>5
  <2>2. rank[q] < rank[r] \/ rank[r] < rank[q]
    BY <2>1, <1>3
  <2>3. rank[q] \in Int /\ rank[r] \in Int
    BY <1>4
  <2> HIDE DEF rank
  <2> QED
    BY <2>2, <2>3
<1>6. rank \in Injection(R, 1 .. n)
  BY <1>4, <1>5 DEF Injection, IsInjective
<1>7. IsFiniteSet(1 .. n) /\ Cardinality(1 .. n) = n
  BY <1>1, FS_Interval
<1>8. rank \in Surjection(R, 1 .. n)
  BY <1>6, <1>7, FS_Injection
<1> DEFINE s == [i \in 1 .. n |-> CHOOSE r \in R : rank[r] = i]
<1>9. ASSUME NEW i \in 1 .. n PROVE s[i] \in R /\ rank[s[i]] = i
  <2>1. \E r \in R : rank[r] = i
    BY <1>8 DEF Surjection
  <2> HIDE DEF rank
  <2> QED
    BY <2>1
<1>10. s \in [1 .. n -> R]
  BY <1>9
<1>11. ASSUME NEW i \in 1 .. n, NEW j \in 1 .. n, i < j PROVE rec[s[i]].key < rec[s[j]].key
  <2> HIDE DEF s, rank
  <2>1. s[i] \in R /\ s[j] \in R /\ s[i] # s[j] /\ rank[s[i]] = i /\ rank[s[j]] = j
    BY <1>1, <1>9, <1>11
  <2>2. CASE rec[s[j]].key < rec[s[i]].key
    <3>1. rank[s[j]] < rank[s[i]]
      BY <2>1, <2>2, <1>3 DEF rank
    <3> QED
      BY <2>1, <3>1, <1>11
  <2>3. rec[s[i]].key \in Int /\ rec[s[j]].key \in Int /\ rec[s[i]].key # rec[s[j]].key
    BY <2>1
  <2> QED
    BY <2>2, <2>3
<1>12. \E t \in [1 .. n -> R] : \A i, j \in DOMAIN t : i < j => rec[t[i]].key < rec[t[j]].key
  <2>1. DOMAIN s = 1 .. n
    OBVIOUS
  <2> HIDE DEF s
  <2> QED
    BY <1>10, <1>11, <2>1
<1> QED
  BY <1>12 DEF InOrder

\* The records in the order of their keys are a sequence of them, none twice.
LEMMA InOrderOnce ==
  ASSUME NEW R, IsFiniteSet(R), \A r \in R : rec[r].key \in Int,
         \A q, r \in R : rec[q].key = rec[r].key => q = r
  PROVE  /\ InOrder(R) \in Seq(R)
         /\ \A i, j \in 1 .. Len(InOrder(R)) : InOrder(R)[i] = InOrder(R)[j] => i = j
<1> DEFINE n == Cardinality(R)
           s == InOrder(R)
<1>1. n \in Nat
  BY FS_CardinalityType
<1>2. s \in [1 .. n -> R] /\ \A i, j \in DOMAIN s : i < j => rec[s[i]].key < rec[s[j]].key
  BY InOrderExists
<1> HIDE DEF n, s
<1>3. s \in Seq(R) /\ Len(s) = n /\ DOMAIN s = 1 .. n
  BY <1>1, <1>2
<1>4. ASSUME NEW i \in 1 .. n, NEW j \in 1 .. n, i < j PROVE s[i] # s[j]
  <2>1. rec[s[i]].key < rec[s[j]].key /\ rec[s[i]].key \in Int /\ rec[s[j]].key \in Int
    BY <1>2, <1>3, <1>4
  <2> QED
    BY <2>1
<1>5. ASSUME NEW i \in 1 .. n, NEW j \in 1 .. n, s[i] = s[j] PROVE i = j
  <2>1. i < j \/ j < i \/ i = j
    BY <1>1
  <2> QED
    BY <1>4, <1>5, <2>1
<1> QED
  BY <1>3, <1>5 DEF s

-----------------------------------------------------------------------------
\* An outcome in which the record's data, if it has some, is live memory that is large enough
\* for the text in it, and no other memory than live one has a text.
NoCapacity(o) == o.v.word = NULL => o.v.cap = 0 /\ o.v.lmt = 0
Housed(o) ==
  /\ o \in Outcomes /\ NoCapacity(o)
  /\ o.v.word # NULL => o.v.word \in o.live /\ Held(o.mem, o.v.word, o.v.cap, o.v.lmt)
  /\ \A a \in Addr \ o.live : o.mem[a] \notin Texts
Sane(o) == Housed(o) /\ ~ o.dead

\* What may become of an outcome: the record has the same key and type; it may have data in
\* another place; the other memory is as it was.
Named(o, x)  == x.v.key = o.v.key /\ x.v.type = o.v.type
Turned(o, x) ==
  /\ Named(o, x)
  /\ o.v.word # NULL => x.v.word # NULL
  /\ o.live \ {o.v.word} = x.live \ {x.v.word}
  /\ \A a \in o.live \ {o.v.word} : x.mem[a] = o.mem[a]

\* Data that was obtained in vain is the beginning of a string.
Spilt(o, x) == x.v.word = o.v.word \/ x.mem[x.v.word] = CUT

\* What the record shows as the content of its buffer.
Shown(o) == IF o.v.word \notin Addr THEN EMPTY ELSE Below(o.v.lmt, o.mem[o.v.word])

LEMMA LengthIs ==
  ASSUME NEW text \in Texts \union {EMPTY}
  PROVE  /\ Length[text] \in Nat /\ Least \in Nat \ {0}
         /\ text \in Texts => Length[text] # 0 /\ Length[text] < 2 * Least
  BY SizesAssumption

LEMMA TurnedTwice ==
  ASSUME NEW o, NEW x, NEW y, Turned(o, x), Turned(x, y)
  PROVE  Turned(o, y)
<1>1. Named(o, y)
  BY DEF Turned, Named
<1>2. o.v.word # NULL => y.v.word # NULL
  BY DEF Turned
<1>3. o.live \ {o.v.word} = y.live \ {y.v.word}
  BY DEF Turned
<1>4. \A a \in o.live \ {o.v.word} : y.mem[a] = o.mem[a]
  BY DEF Turned
<1> QED
  BY <1>1, <1>2, <1>3, <1>4 DEF Turned

\* An outcome with another limit.
Limited(o, n) == [o EXCEPT !.v.lmt = n]

LEMMA LimitedFields ==
  ASSUME NEW o \in Outcomes, NEW n \in Nat
  PROVE  LET c == Limited(o, n)
         IN  /\ c \in Outcomes /\ Named(o, c)
             /\ c.v.word = o.v.word /\ c.v.cap = o.v.cap /\ c.v.lmt = n
             /\ c.live = o.live /\ c.mem = o.mem /\ c.ok = o.ok /\ c.dead = o.dead
<1> DEFINE v == [o.v EXCEPT !.lmt = n]
<1>1. v \in Fields /\ v.key = o.v.key /\ v.type = o.v.type /\ v.word = o.v.word /\ v.cap = o.v.cap
      /\ v.lmt = n
  BY DEF Fields, Outcomes
<1>2. Limited(o, n) = [o EXCEPT !.v = v]
  BY DEF Limited, Outcomes
<1> HIDE DEF v
<1>3. /\ Limited(o, n) \in Outcomes /\ Limited(o, n).v = v /\ Limited(o, n).live = o.live
      /\ Limited(o, n).mem = o.mem /\ Limited(o, n).ok = o.ok /\ Limited(o, n).dead = o.dead
  BY <1>1, <1>2 DEF Outcomes
<1> QED
  BY <1>1, <1>3 DEF Named

\* Something is written where the record's data is, if that is live.
LEMMA PutFields ==
  ASSUME NEW o \in Outcomes, NEW content \in Texts \union {EMPTY, CUT}
  PROVE  LET w == Put(o, content)
         IN  /\ w \in Outcomes /\ w.v = o.v /\ w.live = o.live /\ w.ok = o.ok
             /\ o.v.word \in o.live => /\ w.dead = o.dead
                                       /\ w.mem = [o.mem EXCEPT ![o.v.word] = content]
<1>1. o.v \in Fields /\ o.mem \in Contents /\ o.live \subseteq Addr
  BY DEF Outcomes
<1>2. CASE o.v.word \in o.live
  <2> DEFINE m == [o.mem EXCEPT ![o.v.word] = content]
             w == [o EXCEPT !.mem = m]
  <2>1. m \in Contents
    BY <1>1, <1>2 DEF Contents
  <2>2. Put(o, content) = w
    BY <1>2 DEF Put, Outcomes
  <2> HIDE DEF m
  <2>3. w \in Outcomes /\ w.v = o.v /\ w.mem = m /\ w.live = o.live /\ w.ok = o.ok /\ w.dead = o.dead
    BY <2>1 DEF Outcomes
  <2> HIDE DEF w
  <2> QED
    BY <2>2, <2>3, <1>2 DEF m
<1>3. CASE o.v.word \notin o.live
  <2>1. Put(o, content) = [o EXCEPT !.dead = TRUE]
    BY <1>3 DEF Put
  <2> QED
    BY <2>1, <1>3 DEF Outcomes
<1> QED
  BY <1>2, <1>3

LEMMA WriteFields ==
  ASSUME NEW o \in Outcomes, NEW text \in Texts \union {EMPTY}
  PROVE  LET w == Write(o, text)
         IN  /\ w \in Outcomes /\ Named(o, w)
             /\ w.v.word = o.v.word /\ w.v.cap = o.v.cap /\ w.v.lmt = Length[text]
             /\ w.live = o.live /\ w.ok = o.ok
             /\ o.v.word \in o.live => /\ w.dead = o.dead
                                       /\ w.mem = [o.mem EXCEPT ![o.v.word] = text]
<1> DEFINE c == Limited(o, Length[text])
<1>1. Length[text] \in Nat
  BY LengthIs
<1>2. /\ c \in Outcomes /\ Named(o, c)
      /\ c.v.word = o.v.word /\ c.v.cap = o.v.cap /\ c.v.lmt = Length[text]
      /\ c.live = o.live /\ c.mem = o.mem /\ c.ok = o.ok /\ c.dead = o.dead
  BY <1>1, LimitedFields
<1>3. Write(o, text) = Put(c, text)
  BY DEF Write, Limited
<1> HIDE DEF c
<1> DEFINE w == Put(c, text)
<1>4. /\ w \in Outcomes /\ w.v = c.v /\ w.live = c.live /\ w.ok = c.ok
      /\ c.v.word \in c.live => w.dead = c.dead /\ w.mem = [c.mem EXCEPT ![c.v.word] = text]
  BY <1>2, PutFields
<1> HIDE DEF w
<1>5. w.ok = o.ok
  BY <1>2, <1>4, Zenon
<1>6. o.v.word \in o.live => w.dead = o.dead
  <2>1. o.v.word \in o.live => c.v.word \in c.live
    BY <1>2
  <2> QED
    BY <1>2, <1>4, <2>1, Zenon
<1>7. o.v.word \in o.live => w.mem = [o.mem EXCEPT ![o.v.word] = text]
  BY <1>2, <1>4
<1>8. w \in Outcomes /\ Named(o, w) /\ w.v.word = o.v.word /\ w.v.cap = o.v.cap
      /\ w.v.lmt = Length[text] /\ w.live = o.live
  BY <1>2, <1>4 DEF Named
<1> QED
  BY <1>3, <1>5, <1>6, <1>7, <1>8 DEF w


\* More memory is not needed, or not to be had, or other memory is taken for what there was.
Larger(o, x, cap) ==
  \E a \in Addr \ o.live :
    /\ x.v.word = a /\ x.v.cap = cap /\ x.v.lmt = o.v.lmt
    /\ x.live = (o.live \ {o.v.word}) \union {a}
    /\ x.mem = Forget(o.mem, {o.v.word})
    /\ x.ok = o.ok
    /\ x.dead = (o.dead \/ (o.v.word # NULL /\ o.v.word \notin o.live))

LEMMA ExpandFields ==
  ASSUME NEW o \in Outcomes, NEW cap \in Nat, NEW x \in Expand(o, cap)
  PROVE  /\ x \in Outcomes /\ Named(o, x)
         /\ \/ o.v.cap >= cap /\ x = o
            \/ o.v.cap < cap /\ x = [o EXCEPT !.ok = FALSE]
            \/ o.v.cap < cap /\ Larger(o, x, cap)
<1>1. o.v \in Fields /\ o.mem \in Contents /\ o.live \subseteq Addr /\ o.dead \in BOOLEAN /\ o.v.cap \in Nat
  BY DEF Outcomes, Fields
<1>2. CASE o.v.cap >= cap
  BY <1>2 DEF Expand, Named
<1>3. CASE o.v.cap < cap /\ x = [o EXCEPT !.ok = FALSE]
  BY <1>3 DEF Outcomes, Named
<1>4. ASSUME o.v.cap < cap, x # [o EXCEPT !.ok = FALSE]
      PROVE  x \in Outcomes /\ Named(o, x) /\ Larger(o, x, cap)
  <2> DEFINE l(a) == (o.live \ {o.v.word}) \union {a}
             m == Forget(o.mem, {o.v.word})
             d == o.dead \/ (o.v.word # NULL /\ o.v.word \notin o.live)
  <2>1. ~ (o.v.cap >= cap)
    BY <1>1, <1>4
  <2>2. PICK a \in Addr \ o.live :
          x = [o EXCEPT !.v.word = a, !.v.cap = cap, !.live = (@ \ {o.v.word}) \union {a},
                        !.mem = Forget(@, {o.v.word}),
                        !.dead = @ \/ (o.v.word # NULL /\ o.v.word \notin o.live)]
    BY <1>4, <2>1 DEF Expand
  <2> DEFINE v == [[o.v EXCEPT !.word = a] EXCEPT !.cap = cap]
  <2>3. v \in Fields /\ v.key = o.v.key /\ v.type = o.v.type /\ v.word = a /\ v.cap = cap
        /\ v.lmt = o.v.lmt
    BY <1>1 DEF Fields
  <2>4. m \in Contents
    BY <1>1 DEF Contents, Forget
  <2>5. d \in BOOLEAN /\ l(a) \subseteq Addr
    BY <1>1
  <2>6. x = [[[[o EXCEPT !.v = v] EXCEPT !.live = l(a)] EXCEPT !.mem = m] EXCEPT !.dead = d]
    BY <2>2 DEF Outcomes
  <2> HIDE DEF v, m, d, l
  <2>7. x \in Outcomes /\ x.v = v /\ x.live = l(a) /\ x.mem = m /\ x.ok = o.ok /\ x.dead = d
    BY <2>3, <2>4, <2>5, <2>6 DEF Outcomes
  <2>8. Named(o, x)
    BY <2>3, <2>7 DEF Named
  <2>9. Larger(o, x, cap)
    BY <2>2, <2>3, <2>7 DEF Larger, l, m, d
  <2> QED
    BY <2>7, <2>8, <2>9
<1> QED
  BY <1>1, <1>2, <1>3, <1>4

\* Whatever the memory, the record is the one that was to be set, and has a capacity only
\* with a word.
LEMMA ExpandNamed ==
  ASSUME NEW o \in Outcomes, NoCapacity(o), NEW cap \in Nat, NEW x \in Expand(o, cap)
  PROVE  x \in Outcomes /\ Named(o, x) /\ NoCapacity(x)
<1>1. x \in Outcomes /\ Named(o, x)
  BY ExpandFields
<1>2. CASE x = o \/ x = [o EXCEPT !.ok = FALSE]
  <2>1. x.v = o.v
    BY <1>2 DEF Outcomes
  <2> QED
    BY <1>1, <2>1 DEF NoCapacity
<1>3. CASE Larger(o, x, cap)
  <2>1. x.v.word \in Addr
    BY <1>3 DEF Larger
  <2> QED
    BY <1>1, <2>1, MemoryAssumption DEF NoCapacity
<1> QED
  BY <1>1, <1>2, <1>3, ExpandFields

\* More memory, or none, and the limit at its end.
LEMMA RoomFields ==
  ASSUME NEW o \in Outcomes, NEW cap \in Nat, NEW x \in Room(o, cap)
  PROVE  \E e \in Expand(o, cap) :
           /\ e \in Outcomes /\ x \in Outcomes /\ Named(e, x)
           /\ x.v.word = e.v.word /\ x.v.cap = e.v.cap /\ x.v.lmt = e.v.cap
           /\ x.live = e.live /\ x.mem = e.mem /\ x.ok = e.ok /\ x.dead = e.dead
<1>1. PICK e \in Expand(o, cap) : x = Limited(e, e.v.cap)
  BY DEF Room, Cleared, Limited
<1>2. e \in Outcomes /\ e.v.cap \in Nat
  <2>1. e \in Outcomes
    BY ExpandFields
  <2> QED
    BY <2>1 DEF Outcomes, Fields
<1>3. LET c == Limited(e, e.v.cap)
      IN  /\ c \in Outcomes /\ Named(e, c)
          /\ c.v.word = e.v.word /\ c.v.cap = e.v.cap /\ c.v.lmt = e.v.cap
          /\ c.live = e.live /\ c.mem = e.mem /\ c.ok = e.ok /\ c.dead = e.dead
  BY <1>2, LimitedFields
<1> QED
  BY <1>1, <1>2, <1>3, Zenon

LEMMA RoomNamed ==
  ASSUME NEW o \in Outcomes, NoCapacity(o), NEW cap \in Nat, NEW x \in Room(o, cap)
  PROVE  x \in Outcomes /\ Named(o, x) /\ NoCapacity(x)
<1>1. PICK e \in Expand(o, cap) :
           /\ e \in Outcomes /\ x \in Outcomes /\ Named(e, x)
           /\ x.v.word = e.v.word /\ x.v.cap = e.v.cap /\ x.v.lmt = e.v.cap
  BY RoomFields, Zenon
<1>2. e \in Outcomes /\ Named(o, e) /\ NoCapacity(e)
  BY ExpandNamed
<1> QED
  BY <1>1, <1>2 DEF Named, NoCapacity

LEMMA PutNamed ==
  ASSUME NEW o \in Outcomes, NoCapacity(o), NEW content \in Texts \union {EMPTY, CUT}
  PROVE  Put(o, content) \in Outcomes /\ Named(o, Put(o, content)) /\ NoCapacity(Put(o, content))
<1> DEFINE w == Put(o, content)
<1>1. w \in Outcomes /\ w.v = o.v
  BY PutFields
<1> HIDE DEF w
<1>2. w \in Outcomes /\ Named(o, w) /\ NoCapacity(w)
  BY <1>1 DEF Named, NoCapacity
<1> QED
  BY <1>2 DEF w

\* A text is written only where there is memory.
LEMMA WriteNamed ==
  ASSUME NEW o \in Outcomes, o.v.word # NULL, NEW text \in Texts \union {EMPTY}
  PROVE  Write(o, text) \in Outcomes /\ Named(o, Write(o, text)) /\ NoCapacity(Write(o, text))
<1> DEFINE w == Write(o, text)
<1>1. w \in Outcomes /\ Named(o, w) /\ w.v.word = o.v.word
  BY WriteFields
<1> HIDE DEF w
<1>2. w \in Outcomes /\ Named(o, w) /\ NoCapacity(w)
  BY <1>1 DEF NoCapacity
<1> QED
  BY <1>2 DEF w

\* There is memory when what was asked for is had.
LEMMA ExpandHas ==
  ASSUME NEW o \in Outcomes, o.ok, NoCapacity(o), NEW cap \in Nat \ {0}, NEW x \in Expand(o, cap), x.ok
  PROVE  x.v.word # NULL
<1>1. o.v.cap \in Nat
  BY DEF Outcomes, Fields
<1>2. CASE o.v.cap >= cap /\ x = o
  BY <1>1, <1>2 DEF NoCapacity
<1>3. CASE x = [o EXCEPT !.ok = FALSE]
  BY <1>3 DEF Outcomes
<1>4. CASE Larger(o, x, cap)
  BY <1>4, MemoryAssumption DEF Larger
<1> QED
  BY <1>2, <1>3, <1>4, ExpandFields

LEMMA RoomHas ==
  ASSUME NEW o \in Outcomes, o.ok, NoCapacity(o), NEW cap \in Nat \ {0}, NEW x \in Room(o, cap), x.ok
  PROVE  x.v.word # NULL
<1>1. PICK e \in Expand(o, cap) : x.v.word = e.v.word /\ x.ok = e.ok
  BY RoomFields, Zenon
<1>2. e.ok
  BY <1>1, Zenon
<1> QED
  BY <1>1, <1>2, ExpandHas

LEMMA SetNothingNamed ==
  ASSUME NEW o \in Outcomes, NoCapacity(o), NEW x \in SetNothing(o)
  PROVE  x \in Outcomes /\ Named(o, x) /\ NoCapacity(x)
<1>1. x = Limited(o, 0)
  BY DEF SetNothing, Limited
<1>2. LET c == Limited(o, 0)
      IN  c \in Outcomes /\ Named(o, c) /\ c.v.word = o.v.word /\ c.v.cap = o.v.cap /\ c.v.lmt = 0
  BY LimitedFields
<1> QED
  BY <1>1, <1>2 DEF NoCapacity

LEMMA SetDataNamed ==
  ASSUME NEW o \in Outcomes, o.ok, NoCapacity(o), NEW text \in Text \union {NULL, EMPTY},
         NEW x \in SetData(o, text)
  PROVE  x \in Outcomes /\ Named(o, x) /\ NoCapacity(x)
<1>1. CASE text = NULL
  BY <1>1, SetNothingNamed DEF SetData
<1>2. CASE text # NULL
  <2>1. PICK y \in Expand(o, Length[text] + 1) : x = IF y.ok THEN Write(y, text) ELSE y
    BY <1>2 DEF SetData
  <2>2. text \in Texts \union {EMPTY}
    BY <1>2 DEF Texts
  <2>3. Length[text] + 1 \in Nat \ {0}
    BY <2>2, LengthIs
  <2>4. y \in Outcomes /\ Named(o, y) /\ NoCapacity(y)
    BY <2>3, ExpandNamed
  <2>5. CASE y.ok
    <3>1. y.v.word # NULL
      BY <2>3, <2>5, ExpandHas
    <3>2. x \in Outcomes /\ Named(y, x) /\ NoCapacity(x)
      BY <2>1, <2>2, <2>4, <2>5, <3>1, WriteNamed
    <3> QED
      BY <2>4, <3>2 DEF Named
  <2> QED
    BY <2>1, <2>4, <2>5
<1> QED
  BY <1>1, <1>2

\* The ways a text may be printed: no memory; printed; or cut off, and printed again in twice
\* the memory, if there is.
LEMMA PrintedWays ==
  ASSUME NEW o \in Outcomes, NEW text \in Texts, NEW x \in Printed(o, text)
  PROVE  \E y \in Room(o, Least) :
           \/ ~ y.ok /\ x = y
           \/ y.ok /\ Length[text] < y.v.cap /\ x = Write(y, text)
           \/ /\ y.ok /\ ~ (Length[text] < y.v.cap)
              /\ \E z \in Room(Put(y, CUT), 2 * y.v.cap) :
                   \/ ~ z.ok /\ x = z
                   \/ z.ok /\ x = Write(z, text)
<1> DEFINE again(y) == { IF z.ok THEN Write(z, text) ELSE z : z \in Room(Put(y, CUT), 2 * y.v.cap) }
<1>1. PICK y \in Room(o, Least) :
        x \in IF ~ y.ok THEN {y}
              ELSE IF Length[text] < y.v.cap THEN { Write(y, text) } ELSE again(y)
  BY DEF Printed
<1>2. CASE ~ y.ok
  BY <1>1, <1>2
<1>3. CASE y.ok /\ Length[text] < y.v.cap
  BY <1>1, <1>3
<1>4. CASE y.ok /\ ~ (Length[text] < y.v.cap)
  <2>1. \E z \in Room(Put(y, CUT), 2 * y.v.cap) : x = IF z.ok THEN Write(z, text) ELSE z
    BY <1>1, <1>4
  <2> QED
    BY <1>4, <2>1
<1> QED
  BY <1>2, <1>3, <1>4

LEMMA PrintedNamed ==
  ASSUME NEW o \in Outcomes, o.ok, NoCapacity(o), NEW text \in Texts, NEW x \in Printed(o, text)
  PROVE  x \in Outcomes /\ Named(o, x) /\ NoCapacity(x)
<1>1. PICK y \in Room(o, Least) :
           \/ ~ y.ok /\ x = y
           \/ y.ok /\ Length[text] < y.v.cap /\ x = Write(y, text)
           \/ /\ y.ok /\ ~ (Length[text] < y.v.cap)
              /\ \E z \in Room(Put(y, CUT), 2 * y.v.cap) :
                   \/ ~ z.ok /\ x = z
                   \/ z.ok /\ x = Write(z, text)
  BY PrintedWays
<1>2. Least \in Nat \ {0}
  BY SizesAssumption
<1>3. y \in Outcomes /\ Named(o, y) /\ NoCapacity(y) /\ y.v.cap \in Nat
  <2>1. y \in Outcomes /\ Named(o, y) /\ NoCapacity(y)
    BY <1>2, RoomNamed
  <2> QED
    BY <2>1 DEF Outcomes, Fields
<1>4. CASE x = y
  BY <1>3, <1>4
<1>5. CASE y.ok /\ x = Write(y, text)
  <2>1. y.v.word # NULL
    BY <1>2, <1>5, RoomHas
  <2>2. x \in Outcomes /\ Named(y, x) /\ NoCapacity(x)
    BY <1>3, <1>5, <2>1, WriteNamed
  <2> QED
    BY <1>3, <2>2 DEF Named
<1>6. ASSUME y.ok, NEW z \in Room(Put(y, CUT), 2 * y.v.cap), x = z \/ (z.ok /\ x = Write(z, text))
      PROVE  x \in Outcomes /\ Named(o, x) /\ NoCapacity(x)
  <2> DEFINE w == Put(y, CUT)
  <2>1. w \in Outcomes /\ Named(y, w) /\ NoCapacity(w) /\ w.v = y.v
    BY <1>3, PutNamed, PutFields
  <2>2. 2 * y.v.cap \in Nat
    BY <1>3
  <2> HIDE DEF w
  <2>3. z \in Outcomes /\ Named(w, z) /\ NoCapacity(z)
    BY <2>1, <2>2, <1>6, RoomNamed DEF w
  <2>4. z.v.word # NULL
    <3>1. y.v.word # NULL
      BY <1>2, <1>6, RoomHas
    <3>2. PICK e \in Expand(w, 2 * y.v.cap) : z.v.word = e.v.word
      BY <1>6, <2>1, <2>2, RoomFields, Zenon DEF w
    <3>3. e.v.word = w.v.word \/ e.v.word \in Addr
      <4>1. CASE e = w \/ e = [w EXCEPT !.ok = FALSE]
        BY <2>1, <4>1 DEF Outcomes
      <4>2. CASE Larger(w, e, 2 * y.v.cap)
        BY <4>2 DEF Larger
      <4> QED
        BY <2>1, <2>2, <4>1, <4>2, ExpandFields
    <3> QED
      BY <2>1, <3>1, <3>2, <3>3, MemoryAssumption
  <2>5. Write(z, text) \in Outcomes /\ Named(z, Write(z, text)) /\ NoCapacity(Write(z, text))
    BY <2>3, <2>4, WriteNamed
  <2> QED
    BY <1>3, <1>6, <2>1, <2>3, <2>5 DEF Named
<1> QED
  BY <1>1, <1>4, <1>5, <1>6

\* A format prints something, or ends the program.
LEMMA SetFormatWays ==
  ASSUME NEW o, NEW x \in SetFormat(o)
  PROVE  (\E text \in Junk : x \in Printed(o, text)) \/ x = [o EXCEPT !.dead = TRUE]
<1> DEFINE S == { Printed(o, text) : text \in Junk }
<1>1. x \in UNION S \/ x = [o EXCEPT !.dead = TRUE]
  BY DEF SetFormat
<1>2. \A y \in S : \E text \in Junk : y = Printed(o, text)
  OBVIOUS
<1> HIDE DEF S
<1>3. x \in UNION S => \E y \in S : x \in y
  OBVIOUS
<1> QED
  BY <1>1, <1>2, <1>3

LEMMA Ended ==
  ASSUME NEW o \in Outcomes, NEW x, x = [o EXCEPT !.dead = TRUE]
  PROVE  x \in Outcomes /\ x.v = o.v /\ x.live = o.live /\ x.mem = o.mem /\ x.ok = o.ok
  BY DEF Outcomes

LEMMA SetStringNamed ==
  ASSUME NEW o \in Outcomes, o.ok, NoCapacity(o), NEW fmt \in Text \union {NULL} \union Format,
         NEW x \in SetString(o, fmt)
  PROVE  x \in Outcomes /\ Named(o, x) /\ NoCapacity(x)
<1>1. CASE fmt = NULL
  BY <1>1, SetNothingNamed DEF SetString
<1>2. CASE x = [o EXCEPT !.dead = TRUE]
  <2>1. x \in Outcomes /\ x.v = o.v
    BY <1>2, Ended
  <2> QED
    BY <2>1 DEF Named, NoCapacity
<1>3. CASE \E text \in Texts : x \in Printed(o, text)
  BY <1>3, PrintedNamed
<1>4. fmt # NULL => x = [o EXCEPT !.dead = TRUE] \/ \E text \in Texts : x \in Printed(o, text)
  BY SetFormatWays DEF SetString, Texts
<1> QED
  BY <1>1, <1>2, <1>3, <1>4

\* A text is written into memory that is large enough.
LEMMA WriteSane ==
  ASSUME NEW o, Sane(o), o.v.word # NULL, NEW text \in Texts \union {EMPTY}, Length[text] < o.v.cap
  PROVE  LET w == Write(o, text)
         IN  Sane(w) /\ Turned(o, w) /\ Shown(w) = text /\ w.ok = o.ok /\ w.v.word = o.v.word
<1> DEFINE w == Write(o, text)
<1>1. o \in Outcomes /\ o.v.word \in o.live /\ o.v.cap # 0 /\ ~ o.dead
  BY DEF Sane, Housed, Held
<1>2. o.v.word \in Addr /\ o.mem \in Contents /\ o.live \subseteq Addr /\ o.v.cap \in Nat
  BY <1>1 DEF Outcomes, Fields
<1>3. /\ w \in Outcomes /\ Named(o, w)
      /\ w.v.word = o.v.word /\ w.v.cap = o.v.cap /\ w.live = o.live /\ w.ok = o.ok
      /\ w.dead = o.dead /\ w.v.lmt = Length[text] /\ w.mem = [o.mem EXCEPT ![o.v.word] = text]
  BY <1>1, WriteFields
<1> HIDE DEF w
<1>4. /\ w.mem[w.v.word] = text
      /\ \A a \in Addr : a # o.v.word => w.mem[a] = o.mem[a]
  BY <1>2, <1>3 DEF Contents
<1>5. Shown(w) = text
  <2>1. text = EMPTY \/ (text \in Texts /\ Length[text] # 0)
    BY LengthIs
  <2>2. Length[EMPTY] = 0
    BY SizesAssumption
  <2> QED
    BY <1>2, <1>3, <1>4, <2>1, <2>2 DEF Shown, Below
<1>6. Turned(o, w)
  BY <1>2, <1>3, <1>4 DEF Turned
<1>7. Sane(w)
  <2>1. Held(w.mem, w.v.word, w.v.cap, w.v.lmt)
    <3>1. Length[text] <= o.v.cap
      BY <1>2, LengthIs
    <3> QED
      BY <1>1, <1>3, <1>4, <3>1 DEF Held
  <2>2. \A a \in Addr \ w.live : w.mem[a] \notin Texts
    BY <1>1, <1>3, <1>4 DEF Sane, Housed
  <2>3. NoCapacity(w)
    BY <1>3 DEF NoCapacity
  <2>4. ~ w.dead
    BY <1>1, <1>3, Zenon
  <2>5. w.v.word \in w.live
    BY <1>1, <1>3
  <2> QED
    BY <1>3, <2>1, <2>2, <2>3, <2>4, <2>5 DEF Sane, Housed
<1> QED
  BY <1>3, <1>5, <1>6, <1>7 DEF w

\* A text is cut off in memory that is not large enough, up to its end.
LEMMA PutSane ==
  ASSUME NEW o, Sane(o), o.v.word # NULL, o.v.lmt = o.v.cap
  PROVE  LET w == Put(o, CUT)
         IN  Sane(w) /\ Turned(o, w) /\ w.ok = o.ok /\ w.v = o.v /\ w.mem[w.v.word] = CUT
<1> DEFINE w == Put(o, CUT)
<1>1. o \in Outcomes /\ o.v.word \in o.live /\ o.v.cap # 0 /\ ~ o.dead
  BY DEF Sane, Housed, Held
<1>2. o.v.word \in Addr /\ o.mem \in Contents /\ o.live \subseteq Addr /\ o.v.cap \in Nat
  BY <1>1 DEF Outcomes, Fields
<1>3. /\ w \in Outcomes /\ w.v = o.v /\ w.live = o.live /\ w.ok = o.ok
      /\ w.dead = o.dead /\ w.mem = [o.mem EXCEPT ![o.v.word] = CUT]
  BY <1>1, PutFields
<1> HIDE DEF w
<1>4. /\ w.mem[w.v.word] = CUT
      /\ \A a \in Addr : a # o.v.word => w.mem[a] = o.mem[a]
  BY <1>2, <1>3 DEF Contents
<1>5. Turned(o, w)
  BY <1>2, <1>3, <1>4 DEF Turned, Named
<1>6. Sane(w)
  <2>1. CUT \notin Texts
    BY MemoryAssumption
  <2>2. Held(w.mem, w.v.word, w.v.cap, w.v.lmt)
    BY <1>1, <1>2, <1>3, <1>4, <2>1 DEF Held
  <2>3. \A a \in Addr \ w.live : w.mem[a] \notin Texts
    BY <1>1, <1>3, <1>4 DEF Sane, Housed
  <2>4. NoCapacity(w)
    BY <1>1, <1>2, <1>3, MemoryAssumption DEF NoCapacity
  <2>5. ~ w.dead
    BY <1>1, <1>3, Zenon
  <2>6. w.v.word \in w.live
    BY <1>1, <1>3
  <2> QED
    BY <1>3, <2>2, <2>3, <2>4, <2>5, <2>6 DEF Sane, Housed
<1> QED
  BY <1>3, <1>4, <1>5, <1>6 DEF w

\* Without memory nothing changes; with it the record has what it asked for.
LEMMA ExpandSane ==
  ASSUME NEW o, Sane(o), o.ok, NEW cap \in Nat \ {0}, NEW x \in Expand(o, cap)
  PROVE  /\ Sane(x) /\ Turned(o, x)
         /\ x.ok => x.v.word # NULL /\ x.v.cap >= cap
         /\ ~ x.ok => x.v = o.v /\ x.mem = o.mem
<1>1. o \in Outcomes /\ ~ o.dead
  BY DEF Sane, Housed
<1>2. o.v.word \in Addr \union Number \union {NULL} /\ o.mem \in Contents /\ o.live \subseteq Addr
      /\ o.v.cap \in Nat /\ o.v.lmt \in Nat
  BY <1>1 DEF Outcomes, Fields
<1>3. x \in Outcomes /\ Named(o, x)
  BY <1>1, ExpandFields
<1>4. CASE o.v.cap >= cap /\ x = o
  <2>1. x.v.word # NULL
    BY <1>2, <1>4 DEF Sane, Housed, NoCapacity
  <2> QED
    BY <1>4, <2>1 DEF Turned, Named
<1>5. CASE o.v.cap < cap /\ x = [o EXCEPT !.ok = FALSE]
  <2>1. x.v = o.v /\ x.live = o.live /\ x.mem = o.mem /\ x.dead = o.dead /\ ~ x.ok
    BY <1>1, <1>5 DEF Outcomes
  <2>2. ~ x.dead
    BY <1>1, <2>1, Zenon
  <2>3. Sane(x)
    BY <1>3, <2>1, <2>2 DEF Sane, Housed, NoCapacity
  <2>4. Turned(o, x)
    BY <1>3, <2>1 DEF Turned
  <2> QED
    BY <1>5, <2>1, <2>3, <2>4
<1>6. CASE Larger(o, x, cap)
  <2>1. PICK a \in Addr \ o.live :
          /\ x.v.word = a /\ x.v.cap = cap /\ x.v.lmt = o.v.lmt
          /\ x.live = (o.live \ {o.v.word}) \union {a}
          /\ x.mem = Forget(o.mem, {o.v.word})
          /\ x.ok = o.ok
          /\ x.dead = (o.dead \/ (o.v.word # NULL /\ o.v.word \notin o.live))
    BY <1>6 DEF Larger
  <2>2. \A b \in Addr : x.mem[b] = IF b = o.v.word THEN EMPTY ELSE o.mem[b]
    BY <2>1 DEF Forget
  <2>3. a # NULL /\ EMPTY \notin Texts
    BY MemoryAssumption
  <2>4. o.v.word # NULL => o.v.word \in o.live
    BY DEF Sane, Housed
  <2>5. \A b \in Addr \ o.live : o.mem[b] \notin Texts
    BY DEF Sane, Housed
  <2>6. Turned(o, x)
    BY <1>2, <1>3, <2>1, <2>2, <2>3 DEF Turned
  <2>7. x.mem[a] \notin Texts
    BY <2>2, <2>3, <2>5
  <2>8. \A b \in Addr \ x.live : x.mem[b] \notin Texts
    BY <2>1, <2>2, <2>3, <2>5
  <2>9. ~ x.dead
    <3>1. x.dead <=> o.dead \/ (o.v.word # NULL /\ o.v.word \notin o.live)
      BY <2>1, Zenon
    <3> QED
      BY <1>1, <2>4, <3>1
  <2>10. o.v.lmt <= o.v.cap /\ o.v.cap < cap
    <3>1. o.v.lmt <= o.v.cap
      BY <1>2 DEF Sane, Housed, NoCapacity, Held
    <3>2. x.v.cap # o.v.cap \/ x.v.word # o.v.word
      BY <2>1, <2>3, <2>4
    <3>3. o.v.cap < cap
      <4>1. ~ (x = o) /\ ~ (x = [o EXCEPT !.ok = FALSE])
        BY <1>1, <3>2 DEF Outcomes
      <4> QED
        BY <1>1, <4>1, ExpandFields
    <3> QED
      BY <3>1, <3>3
  <2>11. Held(x.mem, x.v.word, x.v.cap, x.v.lmt)
    BY <1>2, <2>1, <2>7, <2>10 DEF Held
  <2>12. Sane(x)
    BY <1>3, <2>1, <2>3, <2>8, <2>9, <2>11 DEF Sane, Housed, NoCapacity
  <2>13. x.ok
    BY <2>1, Zenon
  <2> QED
    BY <2>1, <2>3, <2>6, <2>12, <2>13
<1> QED
  BY <1>1, <1>4, <1>5, <1>6, ExpandFields

\* With the limit at the end of the memory the record shows none of the texts it may have.
LEMMA RoomSane ==
  ASSUME NEW o, Sane(o), o.ok, NEW cap \in Nat \ {0}, NEW x \in Room(o, cap)
  PROVE  /\ Sane(x) /\ Turned(o, x) /\ x.v.lmt = x.v.cap
         /\ x.ok => x.v.word # NULL /\ x.v.cap >= cap
         /\ ~ x.ok => /\ x.v.word = o.v.word /\ x.mem = o.mem
                      /\ Shown(x) \in {Shown(o), CUT}
<1>1. o \in Outcomes
  BY DEF Sane, Housed
<1>2. PICK e \in Expand(o, cap) :
           /\ e \in Outcomes /\ x \in Outcomes /\ Named(e, x)
           /\ x.v.word = e.v.word /\ x.v.cap = e.v.cap /\ x.v.lmt = e.v.cap
           /\ x.live = e.live /\ x.mem = e.mem /\ x.ok = e.ok /\ x.dead = e.dead
  BY <1>1, RoomFields, Zenon
<1>3. /\ Sane(e) /\ Turned(o, e)
      /\ e.ok => e.v.word # NULL /\ e.v.cap >= cap
      /\ ~ e.ok => e.v = o.v /\ e.mem = o.mem
  BY ExpandSane
<1>4. e.v.cap \in Nat /\ ~ e.dead /\ (x.ok <=> e.ok) /\ ~ x.dead
  <2>1. ~ e.dead
    BY <1>3 DEF Sane
  <2>2. ~ x.dead /\ (x.ok <=> e.ok)
    BY <1>2, <2>1, Zenon
  <2> QED
    BY <1>2, <2>1, <2>2 DEF Outcomes, Fields
<1>5. Sane(x)
  <2>1. NoCapacity(x)
    BY <1>2, <1>3 DEF Sane, Housed, NoCapacity
  <2>2. x.v.word # NULL => x.v.word \in x.live /\ Held(x.mem, x.v.word, x.v.cap, x.v.lmt)
    BY <1>2, <1>3, <1>4 DEF Sane, Housed, Held
  <2>3. \A a \in Addr \ x.live : x.mem[a] \notin Texts
    BY <1>2, <1>3 DEF Sane, Housed
  <2> QED
    BY <1>2, <1>4, <2>1, <2>2, <2>3 DEF Sane, Housed
<1>6. Turned(o, x)
  <2>1. Turned(e, x)
    BY <1>2 DEF Turned
  <2> QED
    BY <1>3, <2>1, TurnedTwice
<1>7. ASSUME ~ x.ok PROVE Shown(x) \in {Shown(o), CUT}
  <2>1. x.v.word = o.v.word /\ x.mem = o.mem /\ x.v.lmt = o.v.cap
    BY <1>2, <1>3, <1>4, <1>7
  <2>2. CASE o.v.word = NULL
    BY <2>1, <2>2, MemoryAssumption DEF Shown
  <2>3. CASE o.v.word # NULL
    <3>1. Held(o.mem, o.v.word, o.v.cap, o.v.lmt) /\ o.v.cap \in Nat /\ o.v.word \in Addr
      BY <1>1, <2>3 DEF Sane, Housed, Outcomes, Fields
    <3>2. ~ (o.mem[o.v.word] \in Texts /\ o.v.cap = Length[o.mem[o.v.word]])
      BY <3>1 DEF Held
    <3> QED
      BY <2>1, <3>1, <3>2 DEF Shown, Below, Held
  <2> QED
    BY <2>2, <2>3
<1> QED
  BY <1>2, <1>3, <1>4, <1>5, <1>6, <1>7

\* Without data, or a format, the record shows nothing.
LEMMA SetNothingSane ==
  ASSUME NEW o, Sane(o), o.ok, NEW x \in SetNothing(o)
  PROVE  Sane(x) /\ Turned(o, x) /\ x.ok /\ Shown(x) = EMPTY
<1>1. o \in Outcomes /\ o.v.cap \in Nat
  BY DEF Sane, Housed, Outcomes, Fields
<1>2. x = Limited(o, 0)
  BY DEF SetNothing, Limited
<1>3. LET c == Limited(o, 0)
      IN  /\ c \in Outcomes /\ Named(o, c)
          /\ c.v.word = o.v.word /\ c.v.cap = o.v.cap /\ c.v.lmt = 0
          /\ c.live = o.live /\ c.mem = o.mem /\ c.ok = o.ok /\ c.dead = o.dead
  BY <1>1, LimitedFields
<1>4. /\ x \in Outcomes /\ Named(o, x)
      /\ x.v.word = o.v.word /\ x.v.cap = o.v.cap /\ x.v.lmt = 0
      /\ x.live = o.live /\ x.mem = o.mem /\ x.ok = o.ok /\ x.dead = o.dead
  BY <1>2, <1>3, Zenon
<1>5. x.ok /\ ~ x.dead
  <2>1. ~ o.dead
    BY DEF Sane
  <2> QED
    BY <1>4, <2>1, Zenon
<1>6. Sane(x)
  <2>1. NoCapacity(x)
    BY <1>4 DEF Sane, Housed, NoCapacity
  <2>2. x.v.word # NULL => x.v.word \in x.live /\ Held(x.mem, x.v.word, x.v.cap, x.v.lmt)
    BY <1>1, <1>4 DEF Sane, Housed, Held
  <2>3. \A a \in Addr \ x.live : x.mem[a] \notin Texts
    BY <1>4 DEF Sane, Housed
  <2> QED
    BY <1>4, <1>5, <2>1, <2>2, <2>3 DEF Sane, Housed
<1>7. Turned(o, x)
  BY <1>4 DEF Turned
<1>8. Shown(x) = EMPTY
  BY <1>4 DEF Shown, Below
<1> QED
  BY <1>5, <1>6, <1>7, <1>8

\* A data value is set, or stays as it was.
LEMMA SetDataSane ==
  ASSUME NEW o, Sane(o), o.ok, NEW text \in Text \union {NULL, EMPTY}, NEW x \in SetData(o, text)
  PROVE  /\ Sane(x) /\ Turned(o, x)
         /\ Shown(x) = IF ~ x.ok THEN Shown(o) ELSE IF text = NULL THEN EMPTY ELSE text
         /\ ~ x.ok => Spilt(o, x)
<1>1. CASE text = NULL
  <2>1. x \in SetNothing(o)
    BY <1>1 DEF SetData
  <2> QED
    BY <1>1, <2>1, SetNothingSane
<1>2. CASE text # NULL
  <2>1. PICK y \in Expand(o, Length[text] + 1) : x = IF y.ok THEN Write(y, text) ELSE y
    BY <1>2 DEF SetData
  <2>2. text \in Texts \union {EMPTY}
    BY <1>2 DEF Texts
  <2>3. Length[text] + 1 \in Nat \ {0} /\ Length[text] \in Nat
    BY <2>2, LengthIs
  <2>4. /\ Sane(y) /\ Turned(o, y)
        /\ y.ok => y.v.word # NULL /\ y.v.cap >= Length[text] + 1
        /\ ~ y.ok => y.v = o.v /\ y.mem = o.mem
    BY <2>3, ExpandSane
  <2>5. CASE ~ y.ok
    <3>1. Shown(y) = Shown(o) /\ Spilt(o, y)
      BY <2>4, <2>5 DEF Shown, Spilt
    <3> QED
      BY <2>1, <2>4, <2>5, <3>1
  <2>6. CASE y.ok
    <3>1. x = Write(y, text)
      BY <2>1, <2>6
    <3>2. Length[text] < y.v.cap
      <4>1. y.v.cap \in Int
        BY <2>4 DEF Sane, Housed, Outcomes, Fields
      <4> QED
        BY <2>3, <2>4, <2>6, <4>1
    <3>3. Sane(x) /\ Turned(y, x) /\ Shown(x) = text /\ x.ok = y.ok
      BY <2>2, <2>4, <2>6, <3>1, <3>2, WriteSane
    <3>4. x.ok
      BY <2>6, <3>3, Zenon
    <3>5. Turned(o, x)
      BY <2>4, <3>3, TurnedTwice
    <3> QED
      BY <1>2, <3>3, <3>4, <3>5
  <2> QED
    BY <2>5, <2>6
<1> QED
  BY <1>1, <1>2

\* A text is printed; or the value stays as it was, or is cut off.
LEMMA PrintedSane ==
  ASSUME NEW o, Sane(o), o.ok, NEW text \in Texts, NEW x \in Printed(o, text)
  PROVE  /\ Sane(x) /\ Turned(o, x)
         /\ IF x.ok THEN Shown(x) = text ELSE Shown(x) \in {Shown(o), CUT} /\ Spilt(o, x)
<1>1. o \in Outcomes
  BY DEF Sane, Housed
<1>2. PICK y \in Room(o, Least) :
           \/ ~ y.ok /\ x = y
           \/ y.ok /\ Length[text] < y.v.cap /\ x = Write(y, text)
           \/ /\ y.ok /\ ~ (Length[text] < y.v.cap)
              /\ \E z \in Room(Put(y, CUT), 2 * y.v.cap) :
                   \/ ~ z.ok /\ x = z
                   \/ z.ok /\ x = Write(z, text)
  BY <1>1, PrintedWays
<1>3. /\ Least \in Nat \ {0} /\ Length[text] \in Nat /\ Length[text] < 2 * Least
  BY LengthIs
<1>4. /\ Sane(y) /\ Turned(o, y) /\ y.v.lmt = y.v.cap
      /\ y.ok => y.v.word # NULL /\ y.v.cap >= Least
      /\ ~ y.ok => /\ y.v.word = o.v.word /\ y.mem = o.mem
                   /\ Shown(y) \in {Shown(o), CUT}
  BY <1>3, RoomSane
<1>5. y.v.cap \in Nat
  BY <1>4 DEF Sane, Housed, Outcomes, Fields
<1>6. CASE ~ y.ok /\ x = y
  BY <1>4, <1>6 DEF Spilt
<1>7. CASE y.ok /\ Length[text] < y.v.cap /\ x = Write(y, text)
  <2>1. Sane(x) /\ Turned(y, x) /\ Shown(x) = text /\ x.ok = y.ok
    BY <1>4, <1>7, WriteSane
  <2>2. x.ok
    BY <1>7, <2>1, Zenon
  <2>3. Turned(o, x)
    BY <1>4, <2>1, TurnedTwice
  <2> QED
    BY <2>1, <2>2, <2>3
<1>8. ASSUME y.ok, NEW z \in Room(Put(y, CUT), 2 * y.v.cap),
             (~ z.ok /\ x = z) \/ (z.ok /\ x = Write(z, text))
      PROVE  /\ Sane(x) /\ Turned(o, x)
             /\ IF x.ok THEN Shown(x) = text ELSE Shown(x) \in {Shown(o), CUT} /\ Spilt(o, x)
  <2> DEFINE w == Put(y, CUT)
  <2>1. Sane(w) /\ Turned(y, w) /\ w.ok = y.ok /\ w.v = y.v /\ w.mem[w.v.word] = CUT
    BY <1>4, <1>8, PutSane
  <2> HIDE DEF w
  <2>2. w.ok
    BY <1>8, <2>1, Zenon
  <2>3. 2 * y.v.cap \in Nat \ {0} /\ Length[text] < 2 * y.v.cap
    BY <1>3, <1>4, <1>5, <1>8
  <2>4. /\ Sane(z) /\ Turned(w, z) /\ z.v.lmt = z.v.cap
        /\ z.ok => z.v.word # NULL /\ z.v.cap >= 2 * y.v.cap
        /\ ~ z.ok => z.v.word = w.v.word /\ z.mem = w.mem
    BY <1>8, <2>1, <2>2, <2>3, RoomSane DEF w
  <2>5. Turned(o, w)
    BY <1>4, <2>1, TurnedTwice
  <2>6. Turned(o, z)
    BY <2>4, <2>5, TurnedTwice
  <2>7. CASE ~ z.ok /\ x = z
    <3>1. x.mem[x.v.word] = CUT /\ x.v.word # NULL
      BY <1>4, <1>8, <2>1, <2>4, <2>7
    <3>2. x.v.lmt # 0 /\ CUT \notin Texts
      BY <2>4, <2>7, <3>1, MemoryAssumption DEF Sane, Housed, Held
    <3>3. x.v.word \in Addr
      BY <2>4, <2>7, <3>1 DEF Sane, Housed, Outcomes
    <3>4. Shown(x) = CUT
      BY <3>1, <3>2, <3>3 DEF Shown, Below
    <3> QED
      BY <2>4, <2>6, <2>7, <3>1, <3>4 DEF Spilt
  <2>8. CASE z.ok /\ x = Write(z, text)
    <3>1. Length[text] < z.v.cap
      <4>1. z.v.cap \in Int
        BY <2>4 DEF Sane, Housed, Outcomes, Fields
      <4> QED
        BY <1>3, <1>5, <2>3, <2>4, <2>8, <4>1
    <3>2. Sane(x) /\ Turned(z, x) /\ Shown(x) = text /\ x.ok = z.ok
      BY <2>4, <2>8, <3>1, WriteSane
    <3>3. x.ok
      BY <2>8, <3>2, Zenon
    <3>4. Turned(o, x)
      BY <2>6, <3>2, TurnedTwice
    <3> QED
      BY <3>2, <3>3, <3>4
  <2> QED
    BY <1>8, <2>7, <2>8
<1>9. CASE /\ y.ok
           /\ \E z \in Room(Put(y, CUT), 2 * y.v.cap) :
                \/ ~ z.ok /\ x = z
                \/ z.ok /\ x = Write(z, text)
  <2>1. PICK z \in Room(Put(y, CUT), 2 * y.v.cap) :
          (~ z.ok /\ x = z) \/ (z.ok /\ x = Write(z, text))
    BY <1>9
  <2> QED
    BY <1>9, <2>1, <1>8
<1> QED
  BY <1>2, <1>6, <1>7, <1>9

\* What a string may do to the record: that it ends the program can only be of a format with
\* conversions, and only without one is it what was asked for.
LEMMA SetStringSane ==
  ASSUME NEW o, Sane(o), o.ok, NEW fmt \in Text \union {NULL} \union Format,
         NEW x \in SetString(o, fmt)
  PROVE  /\ Housed(x) /\ Turned(o, x) /\ (x.dead => fmt \in Format)
         /\ fmt \notin Format =>
              IF x.ok THEN Shown(x) = IF fmt = NULL THEN EMPTY ELSE fmt
                      ELSE Shown(x) \in {Shown(o), CUT}
         /\ ~ x.ok => Spilt(o, x)
<1>1. NULL \notin Format
  BY MemoryAssumption
<1>2. CASE fmt = NULL
  <2>1. Sane(x) /\ Turned(o, x) /\ x.ok /\ Shown(x) = EMPTY
    BY <1>2, SetNothingSane DEF SetString
  <2> QED
    BY <1>2, <2>1 DEF Sane
<1>3. CASE fmt \in Format /\ x = [o EXCEPT !.dead = TRUE]
  <2>1. o \in Outcomes
    BY DEF Sane, Housed
  <2>2. x \in Outcomes /\ x.v = o.v /\ x.live = o.live /\ x.mem = o.mem
    BY <1>3, <2>1, Ended
  <2>3. Housed(x)
    BY <2>2 DEF Sane, Housed, NoCapacity
  <2>4. Turned(o, x) /\ Spilt(o, x)
    BY <2>2 DEF Turned, Named, Spilt
  <2> QED
    BY <1>3, <2>3, <2>4
<1>4. CASE fmt \in Format /\ \E text \in Junk : x \in Printed(o, text)
  <2>1. PICK text \in Texts : x \in Printed(o, text)
    BY <1>4 DEF Texts
  <2>2. Sane(x) /\ Turned(o, x) /\ (~ x.ok => Spilt(o, x))
    BY <2>1, PrintedSane
  <2> QED
    BY <1>4, <2>2 DEF Sane
<1>5. CASE fmt \notin Format /\ fmt # NULL
  <2>1. fmt \in Texts /\ x \in Printed(o, fmt)
    BY <1>5 DEF SetString, Texts
  <2>2. /\ Sane(x) /\ Turned(o, x)
        /\ IF x.ok THEN Shown(x) = fmt ELSE Shown(x) \in {Shown(o), CUT} /\ Spilt(o, x)
    BY <2>1, PrintedSane
  <2> QED
    BY <1>5, <2>2 DEF Sane
<1>6. fmt \in Format => x = [o EXCEPT !.dead = TRUE] \/ \E text \in Junk : x \in Printed(o, text)
  BY <1>1, SetFormatWays DEF SetString
<1> QED
  BY <1>2, <1>3, <1>4, <1>5, <1>6


-----------------------------------------------------------------------------
\* What cfg_set_val begins with, and how it ends: the type is set when the value is.
Before(r)      == [v |-> rec[r], live |-> live, mem |-> mem, ok |-> TRUE, dead |-> FALSE]
Retyped(y, type) == [y EXCEPT !.v.type = IF y.ok THEN type ELSE @]

LEMMA BeforeFields ==
  ASSUME CfgTypes, NoData, NEW r \in Rec
  PROVE  /\ Before(r) \in Outcomes /\ NoCapacity(Before(r)) /\ Before(r).ok
         /\ Before(r).v = rec[r] /\ Before(r).live = live /\ Before(r).mem = mem
<1>1. rec[r] \in Fields /\ live \subseteq Addr /\ mem \in Contents
  BY DEF CfgTypes
<1>2. rec[r].word = NULL => rec[r].cap = 0 /\ rec[r].lmt = 0
  BY DEF NoData
<1> QED
  BY <1>1, <1>2 DEF Before, Outcomes, NoCapacity

LEMMA RetypedFields ==
  ASSUME NEW y \in Outcomes, NEW type \in Types
  PROVE  LET x == Retyped(y, type)
         IN  /\ x \in Outcomes /\ x.v.key = y.v.key /\ x.v.type = (IF y.ok THEN type ELSE y.v.type)
             /\ x.v.word = y.v.word /\ x.v.cap = y.v.cap /\ x.v.lmt = y.v.lmt
             /\ x.live = y.live /\ x.mem = y.mem /\ x.ok = y.ok /\ x.dead = y.dead
<1> DEFINE t == IF y.ok THEN type ELSE y.v.type
           v == [y.v EXCEPT !.type = t]
<1>1. t \in Types \union {"void"} /\ y.v \in Fields
  BY DEF Outcomes, Fields
<1>2. Retyped(y, type) = [y EXCEPT !.v = v]
  BY DEF Retyped, Outcomes
<1> HIDE DEF t
<1>3. v \in Fields /\ v.key = y.v.key /\ v.type = t /\ v.word = y.v.word /\ v.cap = y.v.cap
      /\ v.lmt = y.v.lmt
  BY <1>1 DEF Fields
<1> HIDE DEF v
<1>4. LET x == Retyped(y, type)
      IN  /\ x \in Outcomes /\ x.v = v
          /\ x.live = y.live /\ x.mem = y.mem /\ x.ok = y.ok /\ x.dead = y.dead
  BY <1>2, <1>3 DEF Outcomes
<1> QED
  BY <1>3, <1>4 DEF t

\* The outcomes of cfg_set_val are those of the three functions.
LEMMA SetValWays ==
  ASSUME NEW r, NEW type \in Types, NEW value, NEW x \in cfg_set_val(r, type, value)
  PROVE  \E y \in IF type = "number" THEN SetNumber(Before(r), value)
                  ELSE IF type = "data" THEN SetData(Before(r), value)
                  ELSE SetString(Before(r), value) :
           x = Retyped(y, type)
<1> DEFINE set == CASE type = "number" -> SetNumber(Before(r), value)
                    [] type = "data"   -> SetData(Before(r), value)
                    [] type = "string" -> SetString(Before(r), value)
<1>1. x \in { Retyped(y, type) : y \in set }
  BY DEF cfg_set_val, Retyped, Before
<1>2. type \in {"number", "data", "string"}
  BY DEF Types, Buffers
<1>3. set = IF type = "number" THEN SetNumber(Before(r), value)
            ELSE IF type = "data" THEN SetData(Before(r), value)
            ELSE SetString(Before(r), value)
  BY <1>2
<1> HIDE DEF set
<1> QED
  BY <1>1, <1>3

LEMMA SetNumberFields ==
  ASSUME NEW o \in Outcomes, NEW n \in Number, NEW x \in SetNumber(o, n)
  PROVE  /\ x \in Outcomes /\ Named(o, x) /\ NoCapacity(x)
         /\ x.v.word = n /\ x.live = o.live /\ x.mem = o.mem /\ x.ok = o.ok /\ x.dead = o.dead
<1> DEFINE v == [o.v EXCEPT !.word = n]
<1>1. v \in Fields /\ v.key = o.v.key /\ v.type = o.v.type /\ v.word = n
  BY DEF Fields, Outcomes
<1>2. x = [o EXCEPT !.v = v]
  BY DEF SetNumber, Outcomes
<1> HIDE DEF v
<1>3. x \in Outcomes /\ x.v = v /\ x.live = o.live /\ x.mem = o.mem /\ x.ok = o.ok /\ x.dead = o.dead
  BY <1>1, <1>2 DEF Outcomes
<1>4. x.v.word # NULL
  BY <1>1, <1>3, MemoryAssumption
<1> QED
  BY <1>1, <1>3, <1>4 DEF Named, NoCapacity

\* Whatever happens, the record that is set keeps its key, and its type or has the new one.
LEMMA SetValNamed ==
  ASSUME CfgTypes, NoData, NEW r \in Rec, NEW type \in Types, NEW value \in Values(type),
         NEW x \in cfg_set_val(r, type, value)
  PROVE  /\ x \in Outcomes /\ NoCapacity(x)
         /\ x.v.key = rec[r].key /\ x.v.type = IF x.ok THEN type ELSE rec[r].type
<1> DEFINE o == Before(r)
<1>1. o \in Outcomes /\ NoCapacity(o) /\ o.ok /\ o.v = rec[r]
  BY BeforeFields
<1>2. PICK y \in IF type = "number" THEN SetNumber(o, value)
                 ELSE IF type = "data" THEN SetData(o, value)
                 ELSE SetString(o, value) :
             x = Retyped(y, type)
  BY SetValWays
<1> HIDE DEF o
<1>3. y \in Outcomes /\ Named(o, y) /\ NoCapacity(y)
  <2>1. CASE type = "number"
    <3>1. value \in Number /\ y \in SetNumber(o, value)
      BY <1>2, <2>1 DEF Values
    <3> QED
      BY <1>1, <3>1, SetNumberFields
  <2>2. CASE type = "data"
    <3>1. value \in Text \union {NULL, EMPTY} /\ y \in SetData(o, value)
      BY <1>2, <2>2 DEF Values
    <3> QED
      BY <1>1, <3>1, SetDataNamed
  <2>3. CASE type = "string"
    <3>1. value \in Text \union {NULL} \union Format /\ y \in SetString(o, value)
      BY <1>2, <2>3 DEF Values
    <3> QED
      BY <1>1, <3>1, SetStringNamed
  <2> QED
    BY <2>1, <2>2, <2>3 DEF Types, Buffers
<1>4. /\ x \in Outcomes /\ x.v.key = y.v.key /\ x.v.type = (IF y.ok THEN type ELSE y.v.type)
      /\ x.v.word = y.v.word /\ x.v.cap = y.v.cap /\ x.v.lmt = y.v.lmt /\ x.ok = y.ok
  BY <1>2, <1>3, RetypedFields
<1>5. NoCapacity(x)
  BY <1>3, <1>4 DEF NoCapacity
<1>6. x.v.type = IF x.ok THEN type ELSE y.v.type
  <2>1. x.ok <=> y.ok
    BY <1>4, Zenon
  <2> QED
    BY <1>4, <2>1
<1> QED
  BY <1>1, <1>3, <1>4, <1>5, <1>6 DEF Named

\* What cfg_set_val promises a client that is not careless, of the memory and of the value.
Given(r) == IF rec[r].type \in Buffers THEN {rec[r].word} ELSE {}

OwnData(x) ==
  /\ x.v.type \in Buffers /\ x.v.word # NULL =>
       x.v.word \in x.live /\ Held(x.mem, x.v.word, x.v.cap, x.v.lmt)
  /\ x.v.type = "number" => x.v.word \in Number
  /\ \A a \in Addr \ x.live : x.mem[a] \notin Texts

OthersKept(r, type, x) ==
  /\ \A a \in live \ Given(r) : a \in x.live /\ x.mem[a] = mem[a] /\ a # x.v.word
  /\ \A a \in x.live : a \in live \ Given(r) \/ (a = x.v.word /\ type \in Buffers)

\* A record in the tree has a buffer whether it could be set or not; what a new one that
\* could not be set has is the beginning of a string.
StillHolds(r, type, x) ==
  /\ r \in tree \/ x.ok => (type \in Buffers => x.v.type \in Buffers)
  /\ ~ x.ok /\ r \notin tree => x.v.word = NULL \/ x.mem[x.v.word] = CUT

ValueSet(r, type, value, x) ==
  IF type = "number" THEN x.ok /\ x.v.word = value
  ELSE IF x.ok THEN Shown(x) = IF value = NULL THEN EMPTY ELSE value
  ELSE /\ Shown(x) \in {Shown(Before(r)), CUT}
       /\ r \in tree => rec[r].type \in Buffers

LEMMA SetValRight ==
  ASSUME CfgInv, ~ careless, NEW r \in Rec, NEW type \in Types, NEW value \in Values(type),
         ~ Careless(r, type), NEW x \in cfg_set_val(r, type, value)
  PROVE  /\ OwnData(x) /\ OthersKept(r, type, x) /\ StillHolds(r, type, x)
         /\ x.dead => value \in Format
         /\ value \notin Format => ValueSet(r, type, value, x)
<1> DEFINE o == Before(r)
<1>1. /\ o \in Outcomes /\ NoCapacity(o) /\ o.ok /\ o.v = rec[r] /\ o.live = live /\ o.mem = mem
      /\ o = Before(r)
  BY BeforeFields DEF CfgInv
<1>2. PICK y \in IF type = "number" THEN SetNumber(o, value)
                 ELSE IF type = "data" THEN SetData(o, value)
                 ELSE SetString(o, value) :
             x = Retyped(y, type)
  BY SetValWays
<1>3. ~ o.dead
  BY DEF Before
<1> HIDE DEF o
<1>4. /\ o.v.word \in Addr \union Number \union {NULL} /\ o.v.type \in Types \union {"void"}
      /\ o.live \subseteq Addr
  BY <1>1 DEF Outcomes, Fields
<1>5. \A a \in Addr \ o.live : o.mem[a] \notin Texts
  BY <1>1 DEF CfgInv, Owned
<1>6. r \notin tree => o.v.type = "void"
  BY <1>1 DEF CfgInv, NoData
<1>7. r \in tree => o.v.type # "void" /\ (o.v.type = "number" => o.v.word \in Number)
  BY <1>1 DEF CfgInv, Owned, RecordsOnce
<1>8. CASE type = "number"
  <2>1. value \in Number /\ y \in SetNumber(o, value)
    BY <1>2, <1>8 DEF Values
  <2>2. /\ y \in Outcomes /\ Named(o, y)
        /\ y.v.word = value /\ y.live = o.live /\ y.mem = o.mem /\ y.ok = o.ok /\ y.dead = o.dead
    <3>1. o \in Outcomes
      BY <1>1
    <3> QED
      BY <3>1, <2>1, SetNumberFields
  <2>3. y.ok /\ ~ y.dead
    BY <1>1, <1>3, <2>2, Zenon
  <2>4. /\ x.v.type = (IF y.ok THEN type ELSE y.v.type)
        /\ x.v.word = y.v.word /\ x.live = y.live /\ x.mem = y.mem /\ x.ok = y.ok /\ x.dead = y.dead
    BY <1>2, <2>2, RetypedFields
  <2>5. x.v.type = "number" /\ x.v.word = value /\ x.live = live /\ x.mem = mem
    BY <1>1, <1>8, <2>2, <2>3, <2>4
  <2>6. x.ok /\ ~ x.dead
    BY <2>3, <2>4, Zenon
  <2>7. value \notin Addr
    BY <2>1, MemoryAssumption
  <2>8. \A a \in live : a \notin Given(r)
    <3>1. o.v.type \in Buffers => o.v.word = NULL
      BY <1>1, <1>8 DEF Careless, Buffers
    <3> QED
      BY <1>1, <1>4, <3>1, MemoryAssumption DEF Given
  <2>9. OwnData(x) /\ StillHolds(r, type, x)
    BY <1>1, <1>5, <1>8, <2>1, <2>5, <2>6 DEF OwnData, StillHolds, Buffers
  <2>10. OthersKept(r, type, x)
    BY <1>1, <1>4, <2>5, <2>7, <2>8 DEF OthersKept
  <2>11. ValueSet(r, type, value, x)
    BY <1>8, <2>5, <2>6 DEF ValueSet
  <2> QED
    BY <2>6, <2>9, <2>10, <2>11
<1>9. CASE type \in Buffers
  <2>1. o.v.word = NULL \/ o.v.type \in Buffers
    BY <1>1, <1>9 DEF Careless
  <2>2. o.v.word # NULL => r \in tree /\ o.v.type \in Buffers
    BY <1>6, <2>1 DEF Buffers
  <2>3. Sane(o)
    <3>1. o.v.word # NULL => r \in Holding
      BY <1>1, <2>2 DEF Holding
    <3>2. ASSUME o.v.word # NULL
          PROVE  o.v.word \in o.live /\ Held(o.mem, o.v.word, o.v.cap, o.v.lmt)
      BY <1>1, <3>1, <3>2 DEF CfgInv, Owned
    <3> QED
      BY <1>1, <1>3, <1>5, <3>2 DEF Sane, Housed
  <2>4. /\ Housed(y) /\ Turned(o, y) /\ (y.dead => value \in Format)
        /\ value \notin Format =>
             IF y.ok THEN Shown(y) = IF value = NULL THEN EMPTY ELSE value
                     ELSE Shown(y) \in {Shown(o), CUT}
        /\ ~ y.ok => Spilt(o, y)
    <3>1. CASE type = "data"
      <4>1. value \in Text \union {NULL, EMPTY} /\ y \in SetData(o, value)
        BY <1>2, <3>1 DEF Values
      <4>2. /\ Sane(y) /\ Turned(o, y)
            /\ Shown(y) = IF ~ y.ok THEN Shown(o) ELSE IF value = NULL THEN EMPTY ELSE value
            /\ ~ y.ok => Spilt(o, y)
        BY <1>1, <2>3, <4>1, SetDataSane
      <4> QED
        BY <4>2 DEF Sane
    <3>2. CASE type = "string"
      <4>1. value \in Text \union {NULL} \union Format /\ y \in SetString(o, value)
        BY <1>2, <3>2 DEF Values
      <4> QED
        BY <1>1, <2>3, <4>1, SetStringSane
    <3> QED
      BY <1>9, <3>1, <3>2 DEF Buffers
  <2>5. y \in Outcomes
    BY <2>4 DEF Housed
  <2>6. /\ x.v.type = (IF y.ok THEN type ELSE y.v.type)
        /\ x.v.word = y.v.word /\ x.v.cap = y.v.cap /\ x.v.lmt = y.v.lmt
        /\ x.live = y.live /\ x.mem = y.mem /\ x.ok = y.ok /\ x.dead = y.dead
    BY <1>2, <2>5, RetypedFields
  <2>7. x.dead => value \in Format
    <3>1. x.dead => y.dead
      BY <2>6, Zenon
    <3> QED
      BY <2>4, <3>1
  <2>8. x.ok <=> y.ok
    BY <2>6, Zenon
  <2>9. y.v.type = o.v.type
    BY <2>4 DEF Turned, Named
  <2>10. x.v.type # "number"
    <3>1. o.v.type # "number"
      <4>1. CASE r \in tree
        BY <1>7, <2>1, <4>1, MemoryAssumption DEF Buffers
      <4> QED
        BY <1>6, <4>1
    <3> QED
      BY <1>9, <2>6, <2>9, <3>1 DEF Buffers
  <2>11. OwnData(x)
    <3>1. y.v.word # NULL => y.v.word \in y.live /\ Held(y.mem, y.v.word, y.v.cap, y.v.lmt)
      BY <2>4 DEF Housed
    <3>2. \A a \in Addr \ y.live : y.mem[a] \notin Texts
      BY <2>4 DEF Housed
    <3> QED
      BY <2>6, <2>10, <3>1, <3>2 DEF OwnData
  <2>12. OthersKept(r, type, x)
    <3>1. live \ Given(r) = o.live \ {o.v.word}
      BY <1>1, <1>4, <2>1, MemoryAssumption DEF Given
    <3>2. o.live \ {o.v.word} = y.live \ {y.v.word} /\ \A a \in o.live \ {o.v.word} : y.mem[a] = o.mem[a]
      BY <2>4 DEF Turned
    <3> QED
      BY <1>1, <1>9, <2>6, <3>1, <3>2 DEF OthersKept
  <2>13. r \in tree => rec[r].type \in Buffers
    BY <1>1, <1>4, <1>7, <2>1, MemoryAssumption DEF Types, Buffers
  <2>14. StillHolds(r, type, x)
    <3>1. r \in tree \/ x.ok => x.v.type \in Buffers
      BY <1>1, <1>9, <2>6, <2>8, <2>9, <2>13
    <3>2. ~ x.ok /\ r \notin tree => x.v.word = NULL \/ x.mem[x.v.word] = CUT
      BY <2>2, <2>4, <2>6, <2>8 DEF Spilt
    <3> QED
      BY <3>1, <3>2 DEF StillHolds
  <2>15. value \notin Format => ValueSet(r, type, value, x)
    <3>1. Shown(x) = Shown(y)
      BY <2>6 DEF Shown
    <3>2. type # "number"
      BY <1>9 DEF Buffers
    <3> QED
      BY <1>1, <2>4, <2>8, <2>13, <3>1, <3>2 DEF ValueSet
  <2> QED
    BY <2>7, <2>11, <2>12, <2>14, <2>15
<1> QED
  BY <1>8, <1>9 DEF Types

-----------------------------------------------------------------------------
\* A record in the tree that holds what the record r does not is as it was.
LEMMA HeldByOthers ==
  ASSUME CfgInv, ~ careless, NEW r \in Rec, NEW q \in Holding, q # r
  PROVE  rec[q].word \in live \ Given(r)
<1>1. rec[q].word \in live /\ rec[q].word # NULL
  BY DEF CfgInv, Owned, Holding
<1>2. r \in Rec \ tree => rec[r].type \notin Buffers
  BY DEF CfgInv, NoData, Buffers
<1>3. rec[r].type \in Buffers /\ rec[r].word = rec[q].word /\ r \in tree => r \in Holding
  BY <1>1 DEF Holding
<1>4. rec[r].type \in Buffers /\ rec[r].word = rec[q].word /\ r \in tree => q = r
  BY <1>3 DEF CfgInv, Owned
<1> QED
  BY <1>1, <1>2, <1>4 DEF Given

\* A record that is set, and is in the tree then, has data of its own; the others keep theirs.
LEMMA SetKeepsOwned ==
  ASSUME CfgInv, ~ careless, st = "running", NEW r \in Rec, NEW type, NEW x \in Outcomes, NEW v,
         OwnData(x), OthersKept(r, type, x),
         v.type = x.v.type, v.word = x.v.word, v.cap = x.v.cap, v.lmt = x.v.lmt,
         tree' = tree \union {r}, rec' = [rec EXCEPT ![r] = v],
         live' = x.live, mem' = x.mem, lost' = lost, st' = "dead" => format',
         type \in Buffers => x.v.type \in Buffers
  PROVE  Owned' /\ NothingLeaks'
<1>1. tree \subseteq Rec /\ rec \in [Rec -> Fields] /\ live \subseteq Addr /\ NULL \notin Addr
  BY MemoryAssumption DEF CfgInv, CfgTypes
<1>2. rec'[r] = v /\ \A q \in Rec \ {r} : rec'[q] = rec[q]
  BY <1>1
<1>4. \A q \in Holding' : q \in Rec /\ (q # r => q \in Holding)
  BY <1>1, <1>2 DEF Holding
<1>5. ASSUME NEW q \in Holding', q # r
      PROVE  /\ rec'[q] = rec[q] /\ rec[q].word \in live' /\ rec[q].word # v.word
             /\ Held(mem', rec[q].word, rec[q].cap, rec[q].lmt)
  <2>1. q \in Holding /\ rec'[q] = rec[q]
    BY <1>2, <1>4, <1>5
  <2>2. rec[q].word \in live \ Given(r)
    BY <1>5, <2>1, HeldByOthers
  <2>3. rec[q].word \in x.live /\ x.mem[rec[q].word] = mem[rec[q].word] /\ rec[q].word # x.v.word
    BY <2>2 DEF OthersKept
  <2>4. Held(mem, rec[q].word, rec[q].cap, rec[q].lmt)
    BY <2>1 DEF CfgInv, Owned
  <2> QED
    BY <2>1, <2>3, <2>4 DEF Held
<1>6. r \in Holding' => x.v.type \in Buffers /\ x.v.word # NULL
  BY <1>2 DEF Holding
<1>7. r \in Holding' => v.word \in live' /\ Held(mem', v.word, v.cap, v.lmt)
  BY <1>6 DEF OwnData
<1>8. \A q \in Holding' :
         rec'[q].word \in live' /\ Held(mem', rec'[q].word, rec'[q].cap, rec'[q].lmt)
  <2> TAKE q \in Holding'
  <2>1. CASE q = r
    BY <1>2, <1>7, <2>1
  <2>2. CASE q # r
    BY <1>5, <2>2
  <2> QED
    BY <2>1, <2>2
<1>9. \A q \in tree' : rec'[q].type = "number" => rec'[q].word \in Number
  <2> TAKE q \in tree'
  <2>1. CASE q = r
    BY <1>2, <2>1 DEF OwnData
  <2>2. CASE q # r
    <3>1. q \in tree /\ rec'[q] = rec[q]
      BY <1>1, <1>2, <2>2
    <3> QED
      BY <3>1 DEF CfgInv, Owned
  <2> QED
    BY <2>1, <2>2
<1>10. \A p, q \in Holding' : rec'[p].word = rec'[q].word => p = q
  <2> SUFFICES ASSUME NEW p \in Holding', NEW q \in Holding', rec'[p].word = rec'[q].word
               PROVE  p = q
    OBVIOUS
  <2>1. CASE p # r /\ q # r
    <3>1. rec[p].word = rec[q].word /\ p \in Holding /\ q \in Holding
      BY <1>4, <1>5, <2>1
    <3> QED
      BY <3>1 DEF CfgInv, Owned
  <2>2. CASE p = r /\ q # r
    BY <1>2, <1>5, <2>2
  <2>3. CASE p # r /\ q = r
    BY <1>2, <1>5, <2>3
  <2> QED
    BY <2>1, <2>2, <2>3
<1>11. \A a \in Addr \ live' : mem'[a] \notin Texts
  BY DEF OwnData
<1>12. Owned'
  BY <1>8, <1>9, <1>10, <1>11 DEF Owned
<1>13. /\ live = { rec[q].word : q \in Holding } \union lost
       /\ \A q \in Holding : rec[q].word \notin lost
       /\ \A a \in lost : mem[a] = CUT
  BY DEF CfgInv, NothingLeaks
<1>14. lost \subseteq live \ Given(r)
  <2>1. rec[r].type \in Buffers /\ rec[r].word \in lost => r \in Holding
    <3>1. r \notin tree => rec[r].type \notin Buffers
      BY DEF CfgInv, NoData, Buffers
    <3> QED
      BY <1>1, <1>13, <3>1 DEF Holding
  <2> QED
    BY <1>13, <2>1 DEF Given
<1>15. \A a \in lost : a \in live' /\ mem'[a] = CUT /\ a # v.word
  BY <1>13, <1>14 DEF OthersKept
<1>16. ASSUME NEW a \in live' PROVE a \in lost \/ \E q \in Holding' : a = rec'[q].word
  <2>1. a \in Addr
    BY <1>16 DEF Outcomes
  <2>2. CASE a \in live \ Given(r) /\ a \notin lost
    <3>1. PICK q \in Holding : a = rec[q].word
      BY <1>13, <2>2
    <3>2. q \in tree /\ rec[q].type \in Buffers /\ a # NULL
      BY <1>1, <2>1, <3>1 DEF Holding
    <3>3. q # r
      BY <2>2, <3>1, <3>2 DEF Given
    <3>4. rec'[q] = rec[q] /\ q \in tree'
      BY <1>1, <1>2, <3>2, <3>3
    <3>5. q \in Holding'
      BY <3>1, <3>2, <3>4 DEF Holding
    <3> QED
      BY <3>1, <3>4, <3>5
  <2>3. CASE a = x.v.word /\ type \in Buffers
    <3>1. r \in tree' /\ rec'[r] = v /\ v.type \in Buffers /\ v.word # NULL
      BY <1>1, <1>2, <2>1, <2>3
    <3>2. r \in Holding'
      BY <3>1 DEF Holding
    <3> QED
      BY <2>3, <3>1, <3>2
  <2> QED
    BY <1>16, <2>2, <2>3 DEF OthersKept
<1>17. live' = { rec'[q].word : q \in Holding' } \union lost'
  BY <1>8, <1>15, <1>16
<1>18. \A q \in Holding' : rec'[q].word \notin lost'
  <2> TAKE q \in Holding'
  <2>1. CASE q = r
    BY <1>2, <1>15, <2>1
  <2>2. CASE q # r
    BY <1>4, <1>5, <1>13, <2>2
  <2> QED
    BY <2>1, <2>2
<1>19. NothingLeaks'
  BY <1>15, <1>17, <1>18 DEF NothingLeaks
<1> QED
  BY <1>12, <1>19

\* The value of a key that is there is set, or cannot be set.
LEMMA SetExistingKeeps ==
  ASSUME CfgInv, st = "running", NEW key \in Key, NEW type \in Types, NEW value \in Values(type),
         SetExisting(key, type, value)
  PROVE  CfgInv'
<1>1. PICK r \in cfg_rb_find(key) :
        /\ \E o \in cfg_set_val(r, type, value) :
             SetOutcome(o) /\ rec' = [rec EXCEPT ![r] = o.v]
        /\ ret' = r
        /\ careless' = (careless \/ Careless(r, type))
        /\ format' = (value \in Format)
        /\ UNCHANGED <<tree, spare, lost>>
  BY DEF SetExisting
<1>2. PICK o \in cfg_set_val(r, type, value) : SetOutcome(o) /\ rec' = [rec EXCEPT ![r] = o.v]
  BY <1>1
<1>3. r \in tree /\ r \in Rec /\ rec \in [Rec -> Fields]
  BY DEF CfgInv, CfgTypes, cfg_rb_find
<1>4. /\ o \in Outcomes /\ NoCapacity(o)
      /\ o.v.key = rec[r].key /\ o.v.type = IF o.ok THEN type ELSE rec[r].type
  BY <1>3, SetValNamed DEF CfgInv
<1>5. o.v \in Fields /\ o.live \subseteq Addr /\ o.mem \in Contents /\ o.ok \in BOOLEAN /\ o.dead \in BOOLEAN
  BY <1>4 DEF Outcomes
<1>6. rec'[r] = o.v /\ \A q \in Rec \ {r} : rec'[q] = rec[q]
  BY <1>2, <1>3
<1>7. live' = o.live /\ mem' = o.mem /\ st' = (IF o.dead THEN "dead" ELSE st)
  BY <1>2 DEF SetOutcome
<1>8. CfgTypes'
  <2>1. careless' \in BOOLEAN
    BY <1>1, Zenon
  <2>2. format' \in BOOLEAN
    <3>1. format' = (value \in Format)
      BY <1>1, Zenon
    <3>2. (value \in Format) \in BOOLEAN
      OBVIOUS
    <3> QED
      BY <3>1, <3>2, Zenon
  <2>3. rec' \in [Rec -> Fields]
    BY <1>2, <1>3, <1>5
  <2>4. ret' \in Rec \union {NULL} /\ st' \in {"running", "gone", "dead"}
    BY <1>1, <1>3, <1>7
  <2>5. tree' \subseteq Rec /\ IsFiniteSet(tree') /\ spare' \in Seq(Rec) /\ lost' \subseteq Addr
    BY <1>1 DEF CfgInv, CfgTypes
  <2> QED
    BY <1>5, <1>7, <2>1, <2>2, <2>3, <2>4, <2>5 DEF CfgTypes
<1>9. RecordsOnce'
  <2>1. tree' = tree /\ spare' = spare /\ ret' = r /\ Items(spare') = Items(spare)
    BY <1>1 DEF Items
  <2>2. \A i, j \in 1 .. Len(spare) : spare[i] = spare[j] => i = j
    BY DEF CfgInv, RecordsOnce
  <2>3. tree \cap Items(spare) = {}
    BY DEF CfgInv, RecordsOnce
  <2>4. \A q \in tree : q \in Rec /\ rec'[q].key = rec[q].key
    BY <1>4, <1>6 DEF CfgInv, CfgTypes
  <2>5. \A p, q \in tree : rec'[p].key = rec'[q].key => p = q
    BY <2>4 DEF CfgInv, RecordsOnce
  <2>6. \A q \in tree : rec'[q].type # "void" /\ rec'[q].key # NULL
    <3>1. \A q \in tree : rec[q].type # "void" /\ rec[q].key # NULL
      BY DEF CfgInv, RecordsOnce
    <3>2. type # "void"
      BY DEF Types, Buffers
    <3> QED
      BY <1>3, <1>4, <1>6, <2>4, <3>1, <3>2
  <2>7. \A q \in Items(spare) : q \in Rec \ {r}
    <3>1. spare \in Seq(Rec)
      BY DEF CfgInv, CfgTypes
    <3> QED
      BY <1>3, <2>3, <3>1 DEF Items
  <2>8. \A q \in Items(spare) : rec'[q].type = "void"
    BY <1>6, <2>7 DEF CfgInv, RecordsOnce
  <2> QED
    BY <1>3, <2>1, <2>2, <2>3, <2>5, <2>6, <2>8 DEF RecordsOnce
<1>10. NoData'
  <2>1. tree' = tree
    BY <1>1
  <2>2. \A q \in Rec : rec'[q].word = NULL => rec'[q].cap = 0 /\ rec'[q].lmt = 0
    BY <1>4, <1>6 DEF CfgInv, NoData, NoCapacity
  <2>3. \A q \in Rec \ tree : rec'[q].type = "void"
    BY <1>3, <1>6 DEF CfgInv, NoData
  <2> QED
    BY <2>1, <2>2, <2>3 DEF NoData
<1>11. careless' \/ (Owned' /\ NothingLeaks')
  <2> SUFFICES ASSUME ~ careless' PROVE Owned' /\ NothingLeaks'
    OBVIOUS
  <2>1. ~ careless /\ ~ Careless(r, type)
    BY <1>1, Zenon
  <2>2. /\ OwnData(o) /\ OthersKept(r, type, o) /\ StillHolds(r, type, o)
        /\ o.dead => value \in Format
    BY <1>3, <2>1, SetValRight
  <2>3. st' = "dead" => format'
    <3>1. st' = "dead" => o.dead
      BY <1>7
    <3>2. value \in Format => format'
      BY <1>1, Zenon
    <3> QED
      BY <2>2, <3>1, <3>2
  <2>4. tree' = tree \union {r} /\ lost' = lost
    BY <1>1, <1>3
  <2>5. type \in Buffers => o.v.type \in Buffers
    BY <1>3, <2>2 DEF StillHolds
  <2> QED
    BY <1>2, <1>3, <1>4, <1>7, <2>1, <2>2, <2>3, <2>4, <2>5, SetKeepsOwned
<1>12. Owned' /\ NothingLeaks'
  BY <1>11 DEF Owned, NothingLeaks
<1> QED
  BY <1>8, <1>9, <1>10, <1>12 DEF CfgInv

\* A record that is obtained is not in the tree, and no longer on spare_q then.
LEMMA ObtainedFields ==
  ASSUME CfgInv, NEW r \in Obtained
  PROVE  /\ r \in Rec \ tree /\ rec[r].type = "void" /\ Others(r) \in Seq(Rec)
         /\ Items(Others(r)) \subseteq Items(spare) \ {r}
         /\ \A i, j \in 1 .. Len(Others(r)) : Others(r)[i] = Others(r)[j] => i = j
<1>1. spare \in Seq(Rec) /\ \A i, j \in 1 .. Len(spare) : spare[i] = spare[j] => i = j
  BY DEF CfgInv, CfgTypes, RecordsOnce
<1>2. tree \cap Items(spare) = {}
  BY DEF CfgInv, RecordsOnce
<1>3. CASE spare = <<>>
  <2>1. Rec \ tree # {} /\ r = CHOOSE q \in Rec \ tree : TRUE
    BY <1>3 DEF Obtained
  <2>2. r \in Rec \ tree
    BY <2>1
  <2>3. Others(r) = <<>> /\ Items(Others(r)) = {}
    BY <1>3 DEF Others, Items
  <2> QED
    BY <2>2, <2>3 DEF CfgInv, NoData
<1>4. CASE spare # <<>>
  <2>1. r = spare[1] /\ Others(r) = Tail(spare) /\ Len(spare) \in Nat /\ Len(spare) # 0
    BY <1>1, <1>4 DEF Obtained, Others
  <2>2. r \in Rec /\ r \in Items(spare)
    BY <1>1, <2>1 DEF Items
  <2>3. /\ Tail(spare) \in Seq(Rec) /\ Len(Tail(spare)) = Len(spare) - 1
        /\ \A i \in 1 .. Len(spare) - 1 : Tail(spare)[i] = spare[i + 1]
    BY <1>1, <1>4
  <2>4. \A i, j \in 1 .. Len(spare) - 1 : Tail(spare)[i] = Tail(spare)[j] => i = j
    BY <1>1, <2>1, <2>3
  <2>5. \A i \in 1 .. Len(spare) - 1 : spare[i + 1] \in Items(spare) /\ spare[i + 1] # r
    BY <1>1, <2>1 DEF Items
  <2>6. Items(Tail(spare)) \subseteq Items(spare) \ {r}
    BY <2>3, <2>5 DEF Items
  <2> QED
    BY <1>2, <2>1, <2>2, <2>3, <2>4, <2>6 DEF CfgInv, NoData
<1> QED
  BY <1>3, <1>4

\* A record that could not be used is freed.
LEMMA FreedRecordKeeps ==
  ASSUME CfgInv, NEW r \in Obtained, FreedRecord(r), tree' = tree, ret' = NULL
  PROVE  /\ rec' \in [Rec -> Fields] /\ spare' \in Seq(Rec)
         /\ RecordsOnce' /\ NoData' /\ Holding' = Holding
         /\ \A q \in tree : rec'[q] = rec[q]
<1>1. /\ r \in Rec \ tree /\ spare' \in Seq(Rec)
      /\ Items(spare') \subseteq Items(spare) \ {r}
      /\ \A i, j \in 1 .. Len(spare') : spare'[i] = spare'[j] => i = j
  <2>1. spare' = Others(r)
    BY DEF FreedRecord
  <2>2. /\ r \in Rec \ tree /\ Others(r) \in Seq(Rec)
        /\ Items(Others(r)) \subseteq Items(spare) \ {r}
        /\ \A i, j \in 1 .. Len(Others(r)) : Others(r)[i] = Others(r)[j] => i = j
    BY ObtainedFields
  <2>3. Items(spare') = Items(Others(r))
    BY <2>1 DEF Items
  <2> QED
    BY <2>1, <2>2, <2>3
<1>2. rec' = [rec EXCEPT ![r] = Zero] /\ rec \in [Rec -> Fields] /\ tree \subseteq Rec
  BY DEF FreedRecord, CfgInv, CfgTypes
<1>3. Zero \in Fields /\ Zero.type = "void" /\ Zero.cap = 0 /\ Zero.lmt = 0
  BY DEF Zero, Fields
<1>4. rec' \in [Rec -> Fields] /\ rec'[r] = Zero /\ \A q \in Rec \ {r} : rec'[q] = rec[q]
  BY <1>1, <1>2, <1>3
<1>5. \A q \in tree : rec'[q] = rec[q]
  BY <1>1, <1>2, <1>4
<1>6. Holding' = Holding
  BY <1>5 DEF Holding
<1>7. spare \in Seq(Rec) /\ Items(spare) \subseteq Rec
  BY DEF CfgInv, CfgTypes, Items
<1>8. RecordsOnce'
  <2>1. tree' \cap Items(spare') = {}
    BY <1>1 DEF CfgInv, RecordsOnce
  <2>2. \A p, q \in tree' : rec'[p].key = rec'[q].key => p = q
    BY <1>5 DEF CfgInv, RecordsOnce
  <2>3. \A q \in tree' : rec'[q].type # "void" /\ rec'[q].key # NULL
    BY <1>5 DEF CfgInv, RecordsOnce
  <2>4. \A q \in Items(spare') : rec'[q].type = "void"
    BY <1>1, <1>4, <1>7 DEF CfgInv, RecordsOnce
  <2> QED
    BY <1>1, <2>1, <2>2, <2>3, <2>4 DEF RecordsOnce
<1>9. NoData'
  <2>1. \A q \in Rec : rec'[q].word = NULL => rec'[q].cap = 0 /\ rec'[q].lmt = 0
    BY <1>3, <1>4 DEF CfgInv, NoData
  <2>2. \A q \in Rec \ tree : rec'[q].type = "void"
    BY <1>3, <1>4 DEF CfgInv, NoData
  <2> QED
    BY <2>1, <2>2 DEF NoData
<1> QED
  BY <1>1, <1>4, <1>5, <1>6, <1>8, <1>9

\* The value of a key that is not there is set in a record that is spare or new, or cannot
\* be set, and the record is freed.
LEMMA SetNewKeeps ==
  ASSUME CfgInv, st = "running", NEW key \in Key, NEW type \in Types, NEW value \in Values(type),
         SetNew(key, type, value)
  PROVE  CfgInv'
<1> DEFINE Ends(r, o) ==
             /\ SetOutcome(o)
             /\ IF o.ok
                THEN /\ rec' = [rec EXCEPT ![r] = [o.v EXCEPT !.key = key]]
                     /\ spare' = Others(r) /\ tree' = tree \union {r} /\ ret' = r
                     /\ UNCHANGED lost
                ELSE /\ FreedRecord(r)
                     /\ lost' = lost \union ({o.v.word} \cap o.live)
                     /\ ret' = NULL
                     /\ UNCHANGED tree
<1>0. PICK r \in Obtained :
        /\ \E o \in cfg_set_val(r, type, value) : Ends(r, o)
        /\ careless' = (careless \/ Careless(r, type))
        /\ format' = (value \in Format)
  BY DEF SetNew
<1>1. PICK o \in cfg_set_val(r, type, value) : Ends(r, o)
  BY <1>0
<1>2. /\ r \in Rec \ tree /\ rec[r].type = "void" /\ Others(r) \in Seq(Rec)
      /\ Items(Others(r)) \subseteq Items(spare) \ {r}
      /\ \A i, j \in 1 .. Len(Others(r)) : Others(r)[i] = Others(r)[j] => i = j
  BY ObtainedFields
<1>3. /\ o \in Outcomes /\ NoCapacity(o)
      /\ o.v.key = rec[r].key /\ o.v.type = IF o.ok THEN type ELSE rec[r].type
  BY <1>2, SetValNamed DEF CfgInv
<1>4. o.v \in Fields /\ o.live \subseteq Addr /\ o.mem \in Contents /\ o.ok \in BOOLEAN /\ o.dead \in BOOLEAN
  BY <1>3 DEF Outcomes
<1>5. live' = o.live /\ mem' = o.mem /\ st' = (IF o.dead THEN "dead" ELSE st)
  BY <1>1 DEF SetOutcome
<1>6. /\ careless' \in BOOLEAN /\ (~ careless' => ~ careless /\ ~ Careless(r, type))
      /\ format' \in BOOLEAN /\ (value \in Format => format')
  <2>1. careless' \in BOOLEAN /\ (~ careless' => ~ careless /\ ~ Careless(r, type))
    BY <1>0, Zenon
  <2>2. format' \in BOOLEAN /\ (value \in Format => format')
    <3>1. format' = (value \in Format)
      BY <1>0, Zenon
    <3>2. (value \in Format) \in BOOLEAN
      OBVIOUS
    <3> QED
      BY <3>1, <3>2, Zenon
  <2> QED
    BY <2>1, <2>2
<1>7. ~ careless' => /\ OwnData(o) /\ OthersKept(r, type, o) /\ StillHolds(r, type, o)
                     /\ st' = "dead" => format'
  <2>1. ~ careless' => /\ OwnData(o) /\ OthersKept(r, type, o) /\ StillHolds(r, type, o)
                       /\ o.dead => value \in Format
    BY <1>2, <1>6, SetValRight
  <2>2. st' = "dead" => o.dead
    BY <1>5
  <2> QED
    BY <1>6, <2>1, <2>2
<1>8. rec \in [Rec -> Fields] /\ tree \subseteq Rec /\ IsFiniteSet(tree)
      /\ spare \in Seq(Rec) /\ Items(spare) \subseteq Rec /\ lost \subseteq Addr
  BY DEF CfgInv, CfgTypes, Items
<1>9. CASE o.ok
  <2> DEFINE v == [o.v EXCEPT !.key = key]
  <2>1. /\ v \in Fields /\ v.key = key /\ v.type = o.v.type /\ v.word = o.v.word /\ v.cap = o.v.cap
        /\ v.lmt = o.v.lmt
    BY <1>4 DEF Fields
  <2>2. /\ rec' = [rec EXCEPT ![r] = v] /\ spare' = Others(r) /\ tree' = tree \union {r}
        /\ ret' = r /\ lost' = lost
    BY <1>1, <1>9
  <2> HIDE DEF v
  <2>3. rec' \in [Rec -> Fields] /\ rec'[r] = v /\ \A q \in Rec \ {r} : rec'[q] = rec[q]
    BY <1>2, <1>8, <2>1, <2>2
  <2>4. CfgTypes'
    <3>1. IsFiniteSet(tree') /\ tree' \subseteq Rec
      BY <1>2, <1>8, <2>2, FS_AddElement
    <3>2. ret' \in Rec \union {NULL} /\ st' \in {"running", "gone", "dead"}
      BY <1>2, <1>5, <2>2
    <3> QED
      BY <1>2, <1>4, <1>5, <1>6, <1>8, <2>2, <2>3, <3>1, <3>2 DEF CfgTypes
  <2>5. \A q \in tree : q \in Rec \ {r} /\ rec'[q] = rec[q] /\ rec[q].key # key
    <3>1. \A q \in tree : rec[q].key # key
      BY DEF SetNew, cfg_rb_find
    <3> QED
      BY <1>2, <1>8, <2>3, <3>1
  <2>6. v.type = type /\ type # "void" /\ key # NULL
    BY <1>3, <1>9, <2>1, MemoryAssumption DEF Types, Buffers
  <2>7. RecordsOnce'
    <3>1. \A p, q \in tree' : rec'[p].key = rec'[q].key => p = q
      <4>1. \A p, q \in tree : rec'[p].key = rec'[q].key => p = q
        BY <2>5 DEF CfgInv, RecordsOnce
      <4> QED
        BY <2>1, <2>2, <2>3, <2>5, <4>1
    <3>2. \A q \in tree' : rec'[q].type # "void" /\ rec'[q].key # NULL
      BY <2>1, <2>2, <2>3, <2>5, <2>6 DEF CfgInv, RecordsOnce
    <3>3. Items(spare') \subseteq Items(spare) \ {r}
      BY <1>2, <2>2 DEF Items
    <3>4. tree' \cap Items(spare') = {}
      BY <2>2, <3>3 DEF CfgInv, RecordsOnce
    <3>5. \A q \in Items(spare') : rec'[q].type = "void"
      BY <1>8, <2>3, <3>3 DEF CfgInv, RecordsOnce
    <3>6. ret' \in tree'
      BY <2>2
    <3> QED
      BY <1>2, <2>2, <3>1, <3>2, <3>4, <3>5, <3>6 DEF RecordsOnce
  <2>8. NoData'
    <3>1. \A q \in Rec : rec'[q].word = NULL => rec'[q].cap = 0 /\ rec'[q].lmt = 0
      BY <1>3, <2>1, <2>3 DEF CfgInv, NoData, NoCapacity
    <3>2. \A q \in Rec \ tree' : rec'[q].type = "void"
      BY <2>2, <2>3 DEF CfgInv, NoData
    <3> QED
      BY <3>1, <3>2 DEF NoData
  <2>9. ~ careless' => Owned' /\ NothingLeaks'
    <3> SUFFICES ASSUME ~ careless' PROVE Owned' /\ NothingLeaks'
      OBVIOUS
    <3>1. type \in Buffers => o.v.type \in Buffers
      BY <2>1, <2>6
    <3> QED
      BY <1>2, <1>3, <1>5, <1>6, <1>7, <2>1, <2>2, <3>1, SetKeepsOwned
  <2> QED
    BY <2>4, <2>7, <2>8, <2>9 DEF CfgInv, Owned, NothingLeaks
<1>10. CASE ~ o.ok
  <2>1. /\ FreedRecord(r) /\ ret' = NULL /\ tree' = tree
        /\ lost' = lost \union ({o.v.word} \cap o.live)
    BY <1>1, <1>10
  <2>2. /\ rec' \in [Rec -> Fields] /\ spare' \in Seq(Rec)
        /\ RecordsOnce' /\ NoData' /\ Holding' = Holding
        /\ \A q \in tree : rec'[q] = rec[q]
    BY <2>1, FreedRecordKeeps
  <2>3. CfgTypes'
    <3>1. st' \in {"running", "gone", "dead"}
      BY <1>5
    <3> QED
      BY <1>4, <1>5, <1>6, <1>8, <2>1, <2>2, <3>1 DEF CfgTypes
  <2>4. Given(r) = {} /\ \A q \in Holding : q \in tree /\ rec'[q] = rec[q]
    BY <1>2, <2>2 DEF Given, Holding, Buffers
  <2>5. Owned'
    <3> SUFFICES ASSUME ~ careless' PROVE Owned'
      BY DEF Owned
    <3>1. ~ careless /\ (st' = "dead" => format') /\ \A a \in Addr \ live' : mem'[a] \notin Texts
      BY <1>5, <1>6, <1>7 DEF OwnData
    <3>2. /\ \A q \in Holding : rec[q].word \in live /\ Held(mem, rec[q].word, rec[q].cap, rec[q].lmt)
          /\ \A q \in tree : rec[q].type = "number" => rec[q].word \in Number
          /\ \A p, q \in Holding : rec[p].word = rec[q].word => p = q
      BY <3>1 DEF CfgInv, Owned
    <3>3. ASSUME NEW q \in Holding
          PROVE  /\ rec'[q] = rec[q] /\ rec[q].word \in live'
                 /\ Held(mem', rec[q].word, rec[q].cap, rec[q].lmt)
      <4>1. rec[q].word \in live' /\ mem'[rec[q].word] = mem[rec[q].word]
        BY <1>5, <1>7, <2>4, <3>2 DEF OthersKept
      <4> QED
        BY <2>4, <3>2, <4>1 DEF Held
    <3> QED
      BY <2>1, <2>2, <3>1, <3>2, <3>3 DEF Owned
  <2>6. NothingLeaks'
    <3> SUFFICES ASSUME ~ careless' PROVE NothingLeaks'
      BY DEF NothingLeaks
    <3>1. /\ live = { rec[q].word : q \in Holding } \union lost
          /\ \A q \in Holding : rec[q].word \notin lost
          /\ \A a \in lost : mem[a] = CUT
      BY <1>6 DEF CfgInv, NothingLeaks
    <3>2. /\ \A a \in live : a \in live' /\ mem'[a] = mem[a] /\ a # o.v.word
          /\ \A a \in live' : a \in live \/ a = o.v.word
      BY <1>5, <1>7, <2>4 DEF OthersKept
    <3>3. NULL \notin live' /\ (o.v.word \in live' => mem'[o.v.word] = CUT)
      BY <1>2, <1>4, <1>5, <1>7, <1>10, MemoryAssumption DEF StillHolds
    <3>4. lost' = lost \union ({o.v.word} \cap live')
      BY <1>5, <2>1
    <3>5. live' = live \union ({o.v.word} \cap live')
      BY <3>2
    <3>6. { rec'[q].word : q \in Holding' } = { rec[q].word : q \in Holding }
      BY <2>2, <2>4
    <3>7. live' = { rec'[q].word : q \in Holding' } \union lost'
      BY <3>1, <3>4, <3>5, <3>6
    <3>8. \A q \in Holding' : rec'[q].word \notin lost'
      BY <2>2, <2>4, <3>1, <3>2, <3>4
    <3>9. \A a \in lost' : mem'[a] = CUT
      BY <3>1, <3>2, <3>3, <3>4
    <3> QED
      BY <3>7, <3>8, <3>9 DEF NothingLeaks
  <2> QED
    BY <2>2, <2>3, <2>5, <2>6 DEF CfgInv
<1> QED
  BY <1>9, <1>10

\* The key cannot be kept: a record that was obtained for it is freed.
LEMMA SetNoKeyKeeps ==
  ASSUME CfgInv, st = "running", NEW key, SetNoKey(key)
  PROVE  CfgInv'
<1>1. /\ tree' = tree /\ ret' = NULL /\ format' = FALSE
      /\ UNCHANGED <<live, mem, st, careless, lost>>
  BY DEF SetNoKey
<1>2. /\ rec' \in [Rec -> Fields] /\ spare' \in Seq(Rec)
      /\ RecordsOnce' /\ NoData' /\ Holding' = Holding
      /\ \A q \in tree : rec'[q] = rec[q]
  <2>1. ASSUME NEW r \in Obtained, FreedRecord(r)
        PROVE  /\ rec' \in [Rec -> Fields] /\ spare' \in Seq(Rec)
               /\ RecordsOnce' /\ NoData' /\ Holding' = Holding
               /\ \A q \in tree : rec'[q] = rec[q]
    BY <1>1, <2>1, FreedRecordKeeps
  <2>2. CASE UNCHANGED <<spare, rec>>
    <3>1. rec' \in [Rec -> Fields] /\ spare' \in Seq(Rec)
      BY <2>2 DEF CfgInv, CfgTypes
    <3>2. RecordsOnce'
      BY <1>1, <2>2 DEF CfgInv, RecordsOnce, Items
    <3>3. NoData'
      BY <1>1, <2>2 DEF CfgInv, NoData
    <3>4. Holding' = Holding
      BY <1>1, <2>2 DEF Holding
    <3> QED
      BY <2>2, <3>1, <3>2, <3>3, <3>4
  <2> QED
    BY <2>1, <2>2 DEF SetNoKey
<1>3. CfgTypes'
  BY <1>1, <1>2 DEF CfgInv, CfgTypes
<1>4. Holding \subseteq tree
  BY DEF Holding
<1>5. Owned'
  BY <1>1, <1>2, <1>4 DEF CfgInv, Owned
<1>6. NothingLeaks'
  <2>1. { rec'[r].word : r \in Holding' } = { rec[r].word : r \in Holding }
    BY <1>2, <1>4
  <2> QED
    BY <1>1, <1>2, <1>4, <2>1 DEF CfgInv, NothingLeaks
<1> QED
  BY <1>2, <1>3, <1>5, <1>6 DEF CfgInv

\* The data of records of the tree may be freed, as long as the client is not careless.
LEMMA SoundReset ==
  ASSUME CfgInv, ~ careless, NEW R \in SUBSET tree
  PROVE  Sound(R)
<1>1. \A r \in R : rec[r].type \in Buffers /\ rec[r].word # NULL => r \in Holding
  BY DEF Holding
<1>2. Freed(R) \subseteq live
  <2>1. \A r \in Holding : rec[r].word \in live
    BY DEF CfgInv, Owned
  <2> QED
    BY <1>1, <2>1 DEF Freed
<1>3. \A q, r \in Holding : rec[q].word = rec[r].word => q = r
  BY DEF CfgInv, Owned
<1> QED
  BY <1>1, <1>2, <1>3 DEF Sound

\* What is freed is what the records of R hold, and no other record holds it.
LEMMA FreedFields ==
  ASSUME CfgInv, ~ careless, NEW R \in SUBSET tree
  PROVE  /\ \A r \in Holding : rec[r].word \in Freed(R) <=> r \in R
         /\ Freed(R) \subseteq { rec[r].word : r \in Holding }
<1>1. \A r \in R : rec[r].type \in Buffers /\ rec[r].word # NULL => r \in Holding
  BY DEF Holding
<1>2. \A r \in Holding : rec[r].type \in Buffers /\ rec[r].word # NULL
  BY DEF Holding
<1>3. \A q, r \in Holding : rec[q].word = rec[r].word => q = r
  BY DEF CfgInv, Owned
<1>4. \A w \in Freed(R) : \E r \in R : rec[r].type \in Buffers /\ rec[r].word = w /\ w # NULL
  BY DEF Freed
<1>5. \A r \in R : rec[r].type \in Buffers /\ rec[r].word # NULL => rec[r].word \in Freed(R)
  BY DEF Freed
<1> QED
  BY <1>1, <1>2, <1>3, <1>4, <1>5

\* The memory that is live when the records of R have been freed is held by the others.
LEMMA FreeingKeeps ==
  ASSUME CfgInv, NEW R \in SUBSET tree,
         live' = live \ Freed(R), mem' = Forget(mem, Freed(R)), UNCHANGED <<careless, lost>>,
         tree' = tree \ R, \A r \in tree \ R : rec'[r] = rec[r],
         Sound(R) => st' # "dead"
  PROVE  Owned' /\ NothingLeaks'
<1>1. Holding' = Holding \ R /\ \A r \in Holding' : r \in tree \ R /\ rec'[r] = rec[r]
  BY DEF Holding
<1>2. \A a \in Addr : mem'[a] = IF a \in Freed(R) THEN EMPTY ELSE mem[a]
  BY DEF Forget
<1>3. ASSUME ~ careless PROVE Owned'
  <2>1. st' # "dead"
    BY <1>3, SoundReset
  <2>2. \A r \in Holding' :
          /\ rec[r].word \in live /\ rec[r].word \notin Freed(R)
          /\ Held(mem, rec[r].word, rec[r].cap, rec[r].lmt)
    <3>1. \A r \in Holding : rec[r].word \in Freed(R) <=> r \in R
      BY <1>3, FreedFields
    <3>2. \A r \in Holding : rec[r].word \in live /\ Held(mem, rec[r].word, rec[r].cap, rec[r].lmt)
      BY <1>3 DEF CfgInv, Owned
    <3> QED
      BY <1>1, <3>1, <3>2
  <2>3. live \subseteq Addr
    BY DEF CfgInv, CfgTypes
  <2>4. \A r \in Holding' : mem'[rec[r].word] = mem[rec[r].word]
    BY <1>2, <2>2, <2>3
  <2>5. \A r \in Holding' :
          rec'[r].word \in live' /\ Held(mem', rec'[r].word, rec'[r].cap, rec'[r].lmt)
    BY <1>1, <2>2, <2>4 DEF Held
  <2>6. \A r \in tree' : rec'[r].type = "number" => rec'[r].word \in Number
    BY <1>3 DEF CfgInv, Owned
  <2>7. \A q, r \in Holding' : rec'[q].word = rec'[r].word => q = r
    <3>1. \A q, r \in Holding : rec[q].word = rec[r].word => q = r
      BY <1>3 DEF CfgInv, Owned
    <3> QED
      BY <1>1, <3>1
  <2>8. \A a \in Addr \ live' : mem'[a] \notin Texts
    <3>1. EMPTY \notin Texts
      BY MemoryAssumption
    <3>2. \A a \in Addr \ live : mem[a] \notin Texts
      BY <1>3 DEF CfgInv, Owned
    <3> QED
      BY <1>2, <3>1, <3>2
  <2> QED
    BY <2>1, <2>5, <2>6, <2>7, <2>8 DEF Owned
<1>4. ASSUME ~ careless PROVE NothingLeaks'
  <2>1. /\ live = { rec[r].word : r \in Holding } \union lost
        /\ \A r \in Holding : rec[r].word \notin lost
        /\ \A a \in lost : mem[a] = CUT
    BY <1>4 DEF CfgInv, NothingLeaks
  <2>2. /\ \A r \in Holding : rec[r].word \in Freed(R) <=> r \in R
        /\ Freed(R) \subseteq { rec[r].word : r \in Holding }
    BY <1>4, FreedFields
  <2>3. \A a \in lost : a \notin Freed(R)
    BY <2>1, <2>2
  <2>4. live' = { rec'[r].word : r \in Holding' } \union lost'
    <3>1. { rec'[r].word : r \in Holding' } = { rec[r].word : r \in Holding \ R }
      BY <1>1
    <3>2. { rec[r].word : r \in Holding \ R } = { rec[r].word : r \in Holding } \ Freed(R)
      BY <2>2
    <3> QED
      BY <2>1, <2>3, <3>1, <3>2
  <2>5. \A r \in Holding' : rec'[r].word \notin lost'
    BY <1>1, <2>1
  <2>6. \A a \in lost' : mem'[a] = CUT
    <3>1. lost \subseteq Addr
      BY DEF CfgInv, CfgTypes
    <3> QED
      BY <1>2, <2>1, <2>3, <3>1
  <2> QED
    BY <2>4, <2>5, <2>6 DEF NothingLeaks
<1> QED
  BY <1>3, <1>4 DEF Owned, NothingLeaks

\* Sequences of different items one after the other.
LEMMA JoinOnce ==
  ASSUME NEW S, NEW s \in Seq(S), NEW t \in Seq(S), Items(s) \cap Items(t) = {},
         \A i, j \in 1 .. Len(s) : s[i] = s[j] => i = j,
         \A i, j \in 1 .. Len(t) : t[i] = t[j] => i = j
  PROVE  /\ s \o t \in Seq(S) /\ Items(s \o t) \subseteq Items(s) \union Items(t)
         /\ \A i, j \in 1 .. Len(s \o t) : (s \o t)[i] = (s \o t)[j] => i = j
<1> DEFINE u == s \o t
           m == Len(s)
           n == Len(t)
<1>1. /\ u \in Seq(S) /\ Len(u) = m + n /\ m \in Nat /\ n \in Nat
      /\ \A i \in 1 .. m + n : u[i] = IF i <= m THEN s[i] ELSE t[i - m]
  OBVIOUS
<1>2. /\ \A i \in 1 .. m : s[i] \in Items(s)
      /\ \A i \in 1 .. n : t[i] \in Items(t)
  BY DEF Items
<1> HIDE DEF u, m, n
<1>3. ASSUME NEW i \in 1 .. m + n
      PROVE  IF i <= m THEN i \in 1 .. m /\ u[i] = s[i] ELSE i - m \in 1 .. n /\ u[i] = t[i - m]
  BY <1>1
<1>4. \A i \in 1 .. m + n : u[i] \in Items(s) \union Items(t)
  BY <1>2, <1>3
<1>5. ASSUME NEW i \in 1 .. m + n, NEW j \in 1 .. m + n, u[i] = u[j] PROVE i = j
  <2>1. CASE i <= m /\ j <= m
    BY <1>3, <1>5, <2>1 DEF m
  <2>2. CASE ~ (i <= m) /\ ~ (j <= m)
    <3>1. i - m \in 1 .. n /\ j - m \in 1 .. n /\ t[i - m] = t[j - m]
      BY <1>3, <1>5, <2>2
    <3>2. i - m = j - m
      BY <3>1 DEF n
    <3> QED
      BY <1>1, <3>2
  <2>3. CASE i <= m /\ ~ (j <= m)
    BY <1>2, <1>3, <1>5, <2>3
  <2>4. CASE ~ (i <= m) /\ j <= m
    BY <1>2, <1>3, <1>5, <2>4
  <2> QED
    BY <2>1, <2>2, <2>3, <2>4
<1>6. Items(u) \subseteq Items(s) \union Items(t)
  <2>1. Items(u) = { u[i] : i \in 1 .. m + n }
    BY <1>1 DEF Items
  <2> QED
    BY <1>4, <2>1
<1> QED
  BY <1>1, <1>5, <1>6 DEF u

\* Records of the tree become spare, in the order of their keys.
LEMMA ResetKeeps ==
  ASSUME CfgInv, NEW R \in SUBSET tree, Reset(R)
  PROVE  CfgInv'
<1>1. /\ st = "running" /\ st' = (IF Sound(R) THEN st ELSE "dead")
      /\ tree' = tree \ R /\ spare' = spare \o InOrder(R)
      /\ rec' = [r \in Rec |-> IF r \in R THEN Voided(r) ELSE rec[r]]
      /\ live' = live \ Freed(R) /\ mem' = Forget(mem, Freed(R))
      /\ ret' = NULL /\ format' = FALSE /\ UNCHANGED <<careless, lost>>
  BY DEF Reset
<1>2. /\ tree \subseteq Rec /\ IsFiniteSet(tree) /\ spare \in Seq(Rec) /\ rec \in [Rec -> Fields]
      /\ live \subseteq Addr /\ mem \in Contents
      /\ careless \in BOOLEAN /\ lost \subseteq Addr
  BY DEF CfgInv, CfgTypes
<1>3. /\ \A i, j \in 1 .. Len(spare) : spare[i] = spare[j] => i = j
      /\ tree \cap Items(spare) = {}
      /\ \A q, r \in tree : rec[q].key = rec[r].key => q = r
      /\ \A r \in tree : rec[r].type # "void" /\ rec[r].key # NULL
      /\ \A r \in Items(spare) : rec[r].type = "void"
  BY DEF CfgInv, RecordsOnce
<1>4. IsFiniteSet(R) /\ IsFiniteSet(tree \ R)
  BY <1>2, FS_Subset
<1>5. \A r \in R : rec[r].key \in Int
  <2>1. \A r \in R : rec[r].key \in Key \union {NULL} /\ rec[r].key # NULL
    BY <1>2, <1>3 DEF Fields
  <2> QED
    BY <2>1, KeysAssumption
<1>6. /\ InOrder(R) \in Seq(R)
      /\ \A i, j \in 1 .. Len(InOrder(R)) : InOrder(R)[i] = InOrder(R)[j] => i = j
  BY <1>3, <1>4, <1>5, InOrderOnce
<1>7. InOrder(R) \in Seq(Rec) /\ Items(InOrder(R)) \subseteq R
  <2> DEFINE s == InOrder(R)
  <2>1. s \in Seq(R)
    BY <1>6
  <2> HIDE DEF s
  <2>2. s \in Seq(Rec) /\ Items(s) \subseteq R
    BY <1>2, <2>1 DEF Items
  <2> QED
    BY <2>2 DEF s
<1>8. /\ spare' \in Seq(Rec) /\ Items(spare') \subseteq Items(spare) \union R
      /\ \A i, j \in 1 .. Len(spare') : spare'[i] = spare'[j] => i = j
  <2> DEFINE s == InOrder(R)
  <2>1. /\ s \in Seq(Rec) /\ Items(spare) \cap Items(s) = {} /\ spare' = spare \o s
        /\ Items(s) \subseteq R
        /\ \A i, j \in 1 .. Len(s) : s[i] = s[j] => i = j
    BY <1>1, <1>3, <1>6, <1>7
  <2> HIDE DEF s
  <2>2. /\ spare \o s \in Seq(Rec) /\ Items(spare \o s) \subseteq Items(spare) \union Items(s)
        /\ \A i, j \in 1 .. Len(spare \o s) : (spare \o s)[i] = (spare \o s)[j] => i = j
    BY <1>2, <1>3, <2>1, JoinOnce
  <2>3. Items(spare') = Items(spare \o s)
    BY <2>1 DEF Items
  <2> QED
    BY <2>1, <2>2, <2>3
<1>9. \A r \in R : /\ Voided(r) \in Fields /\ Voided(r).type = "void"
                   /\ Voided(r).word = rec[r].word /\ Voided(r).cap = rec[r].cap
                   /\ Voided(r).lmt = rec[r].lmt
  <2> TAKE r \in R
  <2>1. rec[r] \in Fields
    BY <1>2
  <2> QED
    BY <2>1 DEF Voided, Fields
<1>10. /\ rec' \in [Rec -> Fields]
       /\ \A r \in R : rec'[r] = Voided(r)
       /\ \A r \in Rec \ R : rec'[r] = rec[r]
  BY <1>1, <1>2, <1>9
<1>11. CfgTypes'
  <2>1. mem' \in Contents
    BY <1>1, <1>2 DEF Contents, Forget
  <2> QED
    BY <1>1, <1>2, <1>4, <1>8, <1>10, <2>1 DEF CfgTypes
<1>12. RecordsOnce'
  <2>1. \A q, r \in tree' : rec'[q].key = rec'[r].key => q = r
    BY <1>1, <1>2, <1>3, <1>10
  <2>2. \A r \in tree' : rec'[r].type # "void" /\ rec'[r].key # NULL
    BY <1>1, <1>2, <1>3, <1>10
  <2>3. \A r \in Items(spare') : rec'[r].type = "void"
    <3>1. Items(spare) \subseteq Rec \ R
      BY <1>2, <1>3 DEF Items
    <3> QED
      BY <1>3, <1>8, <1>9, <1>10, <3>1
  <2>4. tree' \cap Items(spare') = {}
    BY <1>1, <1>3, <1>8
  <2> QED
    BY <1>1, <1>8, <2>1, <2>2, <2>3, <2>4 DEF RecordsOnce
<1>13. NoData'
  <2>1. \A r \in Rec : rec'[r].word = NULL => rec'[r].cap = 0 /\ rec'[r].lmt = 0
    BY <1>9, <1>10 DEF CfgInv, NoData
  <2>2. \A r \in Rec \ tree' : rec'[r].type = "void"
    BY <1>1, <1>9, <1>10 DEF CfgInv, NoData
  <2> QED
    BY <2>1, <2>2 DEF NoData
<1>14. Owned' /\ NothingLeaks'
  <2>1. \A r \in tree \ R : rec'[r] = rec[r]
    BY <1>2, <1>10
  <2>2. Sound(R) => st' # "dead"
    BY <1>1
  <2> QED
    BY <1>1, <2>1, <2>2, FreeingKeeps
<1> QED
  BY <1>11, <1>12, <1>13, <1>14 DEF CfgInv

\* At the end every record, and what they hold, is freed.
LEMMA DestroyKeeps ==
  ASSUME CfgInv, aloe_cfg_destroy
  PROVE  CfgInv'
<1>1. /\ st' = (IF Sound(tree) THEN "gone" ELSE "dead")
      /\ tree' = {} /\ spare' = <<>> /\ rec' = [r \in Rec |-> Zero]
      /\ live' = live \ Freed(tree) /\ mem' = Forget(mem, Freed(tree))
      /\ format' = FALSE /\ UNCHANGED <<ret, careless, lost>>
  BY DEF aloe_cfg_destroy
<1>2. Zero \in Fields /\ Zero.type = "void" /\ Zero.cap = 0 /\ Zero.lmt = 0
  BY DEF Zero, Fields
<1>3. rec' \in [Rec -> Fields] /\ \A r \in Rec : rec'[r].type = "void" /\ rec'[r].cap = 0 /\ rec'[r].lmt = 0
  BY <1>1, <1>2
<1>4. CfgTypes'
  <2>1. mem' \in Contents
    BY <1>1 DEF CfgInv, CfgTypes, Contents, Forget
  <2>2. IsFiniteSet(tree') /\ spare' \in Seq(Rec) /\ tree' \subseteq Rec
    BY <1>1, FS_EmptySet
  <2>3. live' \subseteq Addr /\ ret' \in Rec \union {NULL} /\ careless' \in BOOLEAN /\ lost' \subseteq Addr
        /\ format' \in BOOLEAN
    BY <1>1 DEF CfgInv, CfgTypes
  <2> QED
    BY <1>1, <1>3, <2>1, <2>2, <2>3 DEF CfgTypes
<1>5. RecordsOnce' /\ NoData'
  <2>1. Items(spare') = {}
    BY <1>1 DEF Items
  <2> QED
    BY <1>1, <1>3, <2>1 DEF RecordsOnce, NoData
<1>6. Owned' /\ NothingLeaks'
  <2>1. tree' = tree \ tree /\ (Sound(tree) => st' # "dead")
    BY <1>1
  <2> QED
    BY <1>1, <2>1, FreeingKeeps
<1> QED
  BY <1>4, <1>5, <1>6 DEF CfgInv

-----------------------------------------------------------------------------
LEMMA InitCfgInv == Init => CfgInv
<1> SUFFICES ASSUME Init PROVE CfgInv
  OBVIOUS
<1>1. Zero \in Fields /\ Zero.type = "void" /\ Zero.cap = 0 /\ Zero.lmt = 0
  BY DEF Zero, Fields
<1>2. /\ tree = {} /\ spare = <<>> /\ rec = [r \in Rec |-> Zero]
      /\ live = {} /\ mem = [a \in Addr |-> EMPTY]
      /\ st = "running" /\ ret = NULL /\ careless = FALSE /\ format = FALSE /\ lost = {}
  BY DEF Init
<1>3. CfgTypes
  <2>1. rec \in [Rec -> Fields] /\ mem \in Contents /\ live \subseteq Addr
    BY <1>1, <1>2 DEF Contents
  <2>2. IsFiniteSet(tree) /\ tree \subseteq Rec /\ spare \in Seq(Rec)
    BY <1>2, FS_EmptySet
  <2> QED
    BY <1>2, <2>1, <2>2 DEF CfgTypes
<1>4. RecordsOnce /\ NoData
  BY <1>1, <1>2 DEF RecordsOnce, NoData, Items
<1>5. Owned /\ NothingLeaks
  <2>1. EMPTY \notin Texts
    BY MemoryAssumption
  <2> QED
    BY <1>2, <2>1 DEF Owned, NothingLeaks, Holding
<1> QED
  BY <1>3, <1>4, <1>5 DEF CfgInv

LEMMA NextCfgInv == CfgInv /\ [Next]_vars => CfgInv'
<1> SUFFICES ASSUME CfgInv, [Next]_vars PROVE CfgInv'
  OBVIOUS
<1>1. ASSUME NEW key \in Key, NEW type \in Types, NEW value \in Values(type),
             aloe_cfg_set(key, type, value)
      PROVE  CfgInv'
  BY <1>1, SetExistingKeeps, SetNewKeeps, SetNoKeyKeeps DEF aloe_cfg_set
<1>2. ASSUME NEW key \in Key, Reset(cfg_rb_find(key)) PROVE CfgInv'
  <2>1. cfg_rb_find(key) \in SUBSET tree
    BY DEF cfg_rb_find
  <2> QED
    BY <1>2, <2>1, ResetKeeps
<1>3. CASE Reset(tree)
  BY <1>3, ResetKeeps
<1>4. CASE aloe_cfg_destroy
  BY <1>4, DestroyKeeps
<1>5. CASE UNCHANGED vars
  <2>1. /\ tree' = tree /\ spare' = spare /\ rec' = rec /\ live' = live /\ mem' = mem
        /\ st' = st /\ ret' = ret /\ careless' = careless /\ format' = format
        /\ lost' = lost
    BY <1>5 DEF vars
  <2>2. Holding' = Holding /\ Items(spare') = Items(spare)
    BY <2>1 DEF Holding, Items
  <2>3. CfgTypes' /\ NoData'
    BY <2>1 DEF CfgInv, CfgTypes, NoData
  <2>4. RecordsOnce'
    BY <2>1, <2>2 DEF CfgInv, RecordsOnce
  <2>5. Owned' /\ NothingLeaks'
    BY <2>1, <2>2 DEF CfgInv, Owned, NothingLeaks
  <2> QED
    BY <2>3, <2>4, <2>5 DEF CfgInv
<1> QED
  BY <1>1, <1>2, <1>3, <1>4, <1>5 DEF Next, Stopped

\* The invariant holds of every state.
THEOREM Invariant == Spec => []CfgInv
<1> QED
  BY InitCfgInv, NextCfgInv, PTL DEF Spec

\* RecordsOnce (cfg.c:153-195), for any records and keys: no record is in the tree and spare, or
\* in one of them twice, and no key has two.
THEOREM RecordsOnceAlways == Spec => []RecordsOnce
<1>1. CfgInv => RecordsOnce
  BY DEF CfgInv
<1> QED
  BY <1>1, Invariant, PTL

\* OwnBuffers (cfg.c:44-113), for any memory and texts: as long as the client is not careless, no
\* program dies but in printing a format with conversions (cfg.c:108), no two records have one
\* buffer, and every text fits into its memory with its NUL.
THEOREM OwnBuffersAlways == Spec => []OwnBuffers
<1>1. CfgInv => OwnBuffers
  BY DEF CfgInv, Owned, OwnBuffers, Held
<1> QED
  BY <1>1, Invariant, PTL

\* NothingLeaks (cfg.c:44-57, 183-190), for any memory and texts: as long as the client is not
\* careless, all memory is held by records of the tree, but for the beginnings of strings that
\* were lost with the records of new keys.
THEOREM NothingLeaksAlways == Spec => []NothingLeaks
<1>1. CfgInv => NothingLeaks
  BY DEF CfgInv
<1> QED
  BY <1>1, Invariant, PTL

-----------------------------------------------------------------------------
\* A key that no record has is absent; the value of a key is the content of its record.
StoredRight ==
  /\ Stored = [k \in Key |-> Stored[k]]
  /\ \A k \in Key : (\A r \in tree : rec[r].key # k) => Stored[k] = ABSENT
  /\ \A r \in tree : rec[r].key \in Key /\ Stored[rec[r].key] = Content(r)

LEMMA StoredFields == CfgInv => StoredRight
<1> SUFFICES ASSUME CfgInv PROVE StoredRight
  OBVIOUS
<1>1. Stored = [k \in Key |-> Stored[k]]
  BY DEF Stored
<1>2. ASSUME NEW k \in Key, \A r \in tree : rec[r].key # k PROVE Stored[k] = ABSENT
  BY <1>2 DEF Stored, cfg_rb_find
<1>3. ASSUME NEW r \in tree PROVE rec[r].key \in Key /\ Stored[rec[r].key] = Content(r)
  <2>1. rec[r].key \in Key
    BY DEF CfgInv, CfgTypes, Fields, RecordsOnce
  <2>2. cfg_rb_find(rec[r].key) = {r}
    BY DEF CfgInv, RecordsOnce, cfg_rb_find
  <2>3. (CHOOSE q \in {r} : TRUE) = r
    OBVIOUS
  <2>4. Stored[rec[r].key] = Content(CHOOSE q \in cfg_rb_find(rec[r].key) : TRUE)
    BY <2>1, <2>2 DEF Stored
  <2> QED
    BY <2>1, <2>2, <2>3, <2>4
<1> QED
  BY <1>1, <1>2, <1>3 DEF StoredRight

LEMMA StoredFieldsNext == CfgInv' => StoredRight'
<1> QED
  BY StoredFields, PTL

\* The content of a record, and what of it another record's data could change.
LEMMA ContentIsShown ==
  ASSUME CfgInv, NEW r \in tree
  PROVE  Content(r) = [type  |-> rec[r].type,
                       value |-> IF rec[r].type = "number" THEN rec[r].word ELSE Shown(Before(r))]
  BY DEF Content, Shown, Before

LEMMA ContentKept ==
  ASSUME CfgInv, NEW q \in tree, rec'[q] = rec[q], q \in Holding => mem'[rec[q].word] = mem[rec[q].word]
  PROVE  Content(q)' = Content(q)
<1>1. rec[q].type \in Types
  BY DEF CfgInv, CfgTypes, Fields, RecordsOnce
<1>2. rec[q].type # "number" /\ rec[q].word \in Addr => q \in Holding
  BY <1>1, MemoryAssumption DEF Holding, Types
<1> QED
  BY <1>2 DEF Content

\* An item is not nothing.
LEMMA ContentPresent ==
  ASSUME CfgInv, NEW r \in tree, ~ careless
  PROVE  Content(r) # ABSENT
<1>1. rec[r].type \in Types
  BY DEF CfgInv, CfgTypes, Fields, RecordsOnce
<1>2. rec[r].type = "number" => rec[r].word \in Number
  BY DEF CfgInv, Owned
<1>3. \A a \in Addr : mem[a] \in Texts \union {EMPTY, CUT}
  BY DEF CfgInv, CfgTypes, Contents
<1>4. Content(r) \in [type : Types, value : Number \union Texts \union {EMPTY, CUT}]
  BY <1>1, <1>2, <1>3 DEF Content, Below
<1> QED
  BY <1>4, AbsentAssumption

AllPresent == ~ careless => \A r \in tree : Content(r) # ABSENT

LEMMA AllPresentAlways == CfgInv => AllPresent
<1> QED
  BY ContentPresent DEF AllPresent

LEMMA AllPresentNext == CfgInv' => AllPresent'
<1> QED
  BY AllPresentAlways, PTL

\* When a key is set the values of the others are kept.
LEMMA OthersStored ==
  ASSUME CfgInv, CfgInv', ~ careless, NEW key \in Key,
         NEW r \in Rec, r \in tree => rec[r].key = key,
         \A q \in Rec \ {r} : rec'[q] = rec[q],
         tree' \in {tree, tree \union {r}}, r \in tree' => rec'[r].key = key,
         \A a \in live \ Given(r) : mem'[a] = mem[a]
  PROVE  Stored' = [Stored EXCEPT ![key] = Stored'[key]]
<1>1. StoredRight /\ StoredRight'
  BY StoredFields, StoredFieldsNext
<1>2. tree \subseteq Rec
  BY DEF CfgInv, CfgTypes
<1>3. ASSUME NEW k \in Key, k # key PROVE Stored'[k] = Stored[k]
  <2>1. CASE \E q \in tree : rec[q].key = k
    <3>1. PICK q \in tree : rec[q].key = k
      BY <2>1
    <3>2. q # r /\ q \in tree' /\ rec'[q] = rec[q]
      BY <1>2, <1>3, <3>1
    <3>3. q \in Holding => mem'[rec[q].word] = mem[rec[q].word]
      BY <3>2, HeldByOthers
    <3>4. Content(q)' = Content(q)
      BY <3>1, <3>2, <3>3, ContentKept
    <3>5. Stored[k] = Content(q)
      BY <1>1, <3>1 DEF StoredRight
    <3>6. Stored'[k] = Content(q)'
      BY <1>1, <3>1, <3>2 DEF StoredRight
    <3> QED
      BY <3>4, <3>5, <3>6
  <2>2. CASE \A q \in tree : rec[q].key # k
    <3>1. Stored[k] = ABSENT
      BY <1>1, <2>2 DEF StoredRight
    <3>2. \A q \in tree' : rec'[q].key # k
      BY <1>2, <1>3, <2>2
    <3>3. Stored'[k] = ABSENT
      BY <1>1, <3>2 DEF StoredRight
    <3> QED
      BY <3>1, <3>3
  <2> QED
    BY <2>1, <2>2
<1>4. /\ Stored = [k \in Key |-> Stored[k]] /\ Stored' = [k \in Key |-> Stored'[k]]
  BY <1>1 DEF StoredRight
<1> QED
  BY <1>3, <1>4

\* A step of the store: Set of Store, with the item that the key then has.
LEMMA SetIsSet ==
  ASSUME NEW key \in Key, NEW type \in Types, NEW value \in Values(type), NEW x,
         st = "running", st' = "running",
         x \in {Abs!Item(type, value), Stored[key]} \union
               (IF Stored[key] = ABSENT THEN {} ELSE { [Stored[key] EXCEPT !.value = CUT] }),
         Stored' = [Stored EXCEPT ![key] = x],
         Answer' = IF x = ABSENT THEN NULL ELSE key
  PROVE  Abs!Next
<1>1. Abs!Set(key, type, value)
  BY DEF Abs!Set
<1>2. type \in Abs!Types
  BY DEF Abs!Types, Types, Buffers
<1> QED
  BY <1>1, <1>2 DEF Abs!Next

\* The value of a key is an item that was asked for, or the one before, or is cut off.
LEMMA ItemSet ==
  ASSUME CfgInv, NEW r \in Rec, NEW type \in Types, NEW value \in Values(type), NEW o \in Outcomes,
         ValueSet(r, type, value, o), rec'[r].type = o.v.type, rec'[r].word = o.v.word,
         rec'[r].lmt = o.v.lmt, mem' = o.mem, o.v.type = IF o.ok THEN type ELSE rec[r].type
  PROVE  /\ o.ok => Content(r)' = Abs!Item(type, value)
         /\ ~ o.ok /\ r \in tree =>
              Content(r)' \in {Content(r), [Content(r) EXCEPT !.value = CUT]}
<1>1. Content(r)' = [type |-> o.v.type,
                     value |-> IF o.v.type = "number" THEN o.v.word ELSE Shown(o)]
  BY DEF Content, Shown
<1>2. CASE type = "number"
  <2>1. o.ok /\ o.v.word = value /\ value \in Number /\ value # NULL
    BY <1>2, MemoryAssumption DEF ValueSet, Values
  <2>2. o.v.type = "number"
    BY <1>2, <2>1
  <2> QED
    BY <1>1, <1>2, <2>1, <2>2 DEF Abs!Item
<1>3. CASE type # "number" /\ o.ok
  <2>1. o.v.type = type /\ Shown(o) = IF value = NULL THEN EMPTY ELSE value
    BY <1>3 DEF ValueSet
  <2> QED
    BY <1>1, <1>3, <2>1 DEF Abs!Item
<1>4. CASE type # "number" /\ ~ o.ok /\ r \in tree
  <2>1. o.v.type = rec[r].type /\ Shown(o) \in {Shown(Before(r)), CUT} /\ rec[r].type \in Buffers
    BY <1>4 DEF ValueSet
  <2>2. rec[r].type # "number"
    BY <2>1 DEF Buffers
  <2>3. Content(r) = [type |-> rec[r].type, value |-> Shown(Before(r))]
    BY <1>4, <2>2, ContentIsShown
  <2>4. Content(r)' = [type |-> rec[r].type, value |-> Shown(o)]
    BY <1>1, <2>1, <2>2
  <2> QED
    BY <1>4, <2>1, <2>3, <2>4
<1> QED
  BY <1>2, <1>3, <1>4

LEMMA SetExistingIsSet ==
  ASSUME CfgInv, CfgInv', ~ careless', ~ format', st = "running",
         NEW key \in Key, NEW type \in Types, NEW value \in Values(type),
         SetExisting(key, type, value)
  PROVE  Abs!Next
<1>1. PICK r \in cfg_rb_find(key) :
        /\ \E o \in cfg_set_val(r, type, value) :
             SetOutcome(o) /\ rec' = [rec EXCEPT ![r] = o.v]
        /\ ret' = r
        /\ careless' = (careless \/ Careless(r, type))
        /\ format' = (value \in Format)
        /\ UNCHANGED <<tree, spare, lost>>
  BY DEF SetExisting
<1>2. PICK o \in cfg_set_val(r, type, value) : SetOutcome(o) /\ rec' = [rec EXCEPT ![r] = o.v]
  BY <1>1
<1>3. r \in tree /\ r \in Rec /\ rec[r].key = key /\ rec \in [Rec -> Fields] /\ r # NULL
  BY MemoryAssumption DEF CfgInv, CfgTypes, cfg_rb_find
<1>4. ~ careless /\ ~ Careless(r, type) /\ value \notin Format
  BY <1>1, Zenon
<1>5. o \in Outcomes /\ o.v.key = rec[r].key /\ o.v.type = IF o.ok THEN type ELSE rec[r].type
  BY <1>3, SetValNamed DEF CfgInv
<1>6. ~ o.dead /\ OthersKept(r, type, o) /\ ValueSet(r, type, value, o)
  BY <1>3, <1>4, SetValRight
<1>7. rec'[r] = o.v /\ mem' = o.mem /\ st' = "running" /\ \A q \in Rec \ {r} : rec'[q] = rec[q]
  BY <1>2, <1>3, <1>6 DEF SetOutcome
<1> DEFINE x == Content(r)'
<1>8. x # ABSENT
  <2>1. AllPresent'
    BY AllPresentNext
  <2> QED
    BY <1>1, <1>3, <2>1 DEF AllPresent
<1>9. Stored[key] = Content(r) /\ Stored'[key] = x /\ Stored[key] # ABSENT
  <2>1. StoredRight /\ StoredRight'
    BY StoredFields, StoredFieldsNext
  <2>2. r \in tree' /\ rec'[r].key = key
    BY <1>1, <1>3, <1>5, <1>7
  <2> QED
    BY <1>3, <1>4, <2>1, <2>2, ContentPresent DEF StoredRight
<1>10. Stored' = [Stored EXCEPT ![key] = x]
  <2>1. \A a \in live \ Given(r) : mem'[a] = mem[a]
    BY <1>6, <1>7 DEF OthersKept
  <2>2. Stored' = [Stored EXCEPT ![key] = Stored'[key]]
    BY <1>1, <1>3, <1>4, <1>5, <1>7, <2>1, OthersStored
  <2> HIDE DEF x
  <2> QED
    BY <1>9, <2>2
<1>11. x \in {Abs!Item(type, value), Content(r), [Content(r) EXCEPT !.value = CUT]}
  BY <1>3, <1>5, <1>6, <1>7, ItemSet
<1>12. Answer' = key
  BY <1>1, <1>3, <1>5, <1>7 DEF Answer
<1> HIDE DEF x
<1>13. x \in {Abs!Item(type, value), Stored[key]} \union
              (IF Stored[key] = ABSENT THEN {} ELSE { [Stored[key] EXCEPT !.value = CUT] })
  BY <1>9, <1>11
<1>14. Answer' = IF x = ABSENT THEN NULL ELSE key
  BY <1>8, <1>12
<1> QED
  BY <1>7, <1>10, <1>13, <1>14, SetIsSet

LEMMA SetNewIsSet ==
  ASSUME CfgInv, CfgInv', ~ careless', ~ format', st = "running",
         NEW key \in Key, NEW type \in Types, NEW value \in Values(type),
         SetNew(key, type, value)
  PROVE  Abs!Next
<1> DEFINE Ends(r, o) ==
             /\ SetOutcome(o)
             /\ IF o.ok
                THEN /\ rec' = [rec EXCEPT ![r] = [o.v EXCEPT !.key = key]]
                     /\ spare' = Others(r) /\ tree' = tree \union {r} /\ ret' = r
                     /\ UNCHANGED lost
                ELSE /\ FreedRecord(r)
                     /\ lost' = lost \union ({o.v.word} \cap o.live)
                     /\ ret' = NULL
                     /\ UNCHANGED tree
<1>0. PICK r \in Obtained :
        /\ \E o \in cfg_set_val(r, type, value) : Ends(r, o)
        /\ careless' = (careless \/ Careless(r, type))
        /\ format' = (value \in Format)
  BY DEF SetNew
<1>1. PICK o \in cfg_set_val(r, type, value) : Ends(r, o)
  BY <1>0
<1>2. r \in Rec \ tree /\ rec \in [Rec -> Fields] /\ tree \subseteq Rec /\ r # NULL
  BY ObtainedFields, MemoryAssumption DEF CfgInv, CfgTypes
<1>3. o \in Outcomes /\ o.v.type = IF o.ok THEN type ELSE rec[r].type
  BY <1>2, SetValNamed DEF CfgInv
<1>4. ~ careless /\ ~ Careless(r, type) /\ value \notin Format
  BY <1>0, Zenon
<1>5. ~ o.dead /\ OthersKept(r, type, o) /\ ValueSet(r, type, value, o)
  BY <1>2, <1>4, SetValRight
<1>6. mem' = o.mem /\ st' = "running"
  BY <1>1, <1>5 DEF SetOutcome
<1>7. \A a \in live \ Given(r) : mem'[a] = mem[a]
  BY <1>5, <1>6 DEF OthersKept
<1>8. \A q \in tree : rec[q].key # key
  BY DEF SetNew, cfg_rb_find
<1>9. StoredRight /\ StoredRight'
  BY StoredFields, StoredFieldsNext
<1>10. Stored[key] = ABSENT
  BY <1>8, <1>9 DEF StoredRight
<1>11. CASE o.ok
  <2> DEFINE v == [o.v EXCEPT !.key = key]
             x == Content(r)'
  <2>1. v.key = key /\ v.type = o.v.type /\ v.word = o.v.word /\ v.lmt = o.v.lmt
    BY <1>3 DEF Outcomes, Fields
  <2>2. rec' = [rec EXCEPT ![r] = v] /\ tree' = tree \union {r} /\ ret' = r
    BY <1>1, <1>11
  <2> HIDE DEF v
  <2>3. rec'[r] = v /\ \A q \in Rec \ {r} : rec'[q] = rec[q]
    BY <1>2, <2>2
  <2>4. x = Abs!Item(type, value)
    <3>1. rec'[r].type = o.v.type /\ rec'[r].word = o.v.word /\ rec'[r].lmt = o.v.lmt
      BY <2>1, <2>3
    <3> QED
      BY <1>2, <1>3, <1>5, <1>6, <1>11, <3>1, ItemSet
  <2>5. x # ABSENT
    <3>1. AllPresent'
      BY AllPresentNext
    <3> QED
      BY <2>2, <3>1 DEF AllPresent
  <2>6. Stored'[key] = x
    BY <1>9, <2>1, <2>2, <2>3 DEF StoredRight
  <2> HIDE DEF x
  <2>7. Stored' = [Stored EXCEPT ![key] = x]
    <3>1. rec'[r].key = key /\ r \notin tree
      BY <1>2, <2>1, <2>3
    <3>2. Stored' = [Stored EXCEPT ![key] = Stored'[key]]
      BY <1>2, <1>4, <1>7, <2>2, <2>3, <3>1, OthersStored
    <3> QED
      BY <2>6, <3>2
  <2>8. Answer' = IF x = ABSENT THEN NULL ELSE key
    BY <1>2, <1>6, <2>1, <2>2, <2>3, <2>5 DEF Answer
  <2>9. x \in {Abs!Item(type, value), Stored[key]} \union
              (IF Stored[key] = ABSENT THEN {} ELSE { [Stored[key] EXCEPT !.value = CUT] })
    BY <2>4
  <2> QED
    BY <1>6, <2>7, <2>8, <2>9, SetIsSet
<1>12. CASE ~ o.ok
  <2>1. FreedRecord(r) /\ ret' = NULL /\ tree' = tree
    BY <1>1, <1>12
  <2>2. \A q \in Rec \ {r} : rec'[q] = rec[q]
    BY <1>2, <2>1 DEF FreedRecord
  <2>3. Stored'[key] = ABSENT
    BY <1>2, <1>8, <1>9, <2>1, <2>2 DEF StoredRight
  <2>4. Stored' = [Stored EXCEPT ![key] = ABSENT]
    <3>1. Stored' = [Stored EXCEPT ![key] = Stored'[key]]
      BY <1>2, <1>4, <1>7, <2>1, <2>2, OthersStored
    <3> QED
      BY <2>3, <3>1
  <2>5. Answer' = NULL
    BY <2>1 DEF Answer
  <2> QED
    BY <1>6, <1>10, <2>4, <2>5, SetIsSet
<1> QED
  BY <1>11, <1>12

LEMMA SetNoKeyIsSet ==
  ASSUME CfgInv, CfgInv', ~ careless', st = "running",
         NEW key \in Key, NEW type \in Types, NEW value \in Values(type), SetNoKey(key)
  PROVE  Abs!Next
<1>1. /\ tree' = tree /\ ret' = NULL /\ format' = FALSE
      /\ UNCHANGED <<live, mem, st, careless, lost>>
  BY DEF SetNoKey
<1>2. \A q \in tree : rec[q].key # key
  BY DEF SetNoKey, cfg_rb_find
<1>3. \A q \in tree : rec'[q] = rec[q]
  <2>1. ASSUME NEW r \in Obtained, FreedRecord(r) PROVE \A q \in tree : rec'[q] = rec[q]
    BY <1>1, <2>1, FreedRecordKeeps
  <2> QED
    BY <2>1 DEF SetNoKey
<1>4. StoredRight /\ StoredRight'
  BY StoredFields, StoredFieldsNext
<1>5. \A k \in Key : Stored'[k] = Stored[k]
  <2> TAKE k \in Key
  <2>1. CASE \E q \in tree : rec[q].key = k
    <3>1. PICK q \in tree : rec[q].key = k
      BY <2>1
    <3>2. Content(q)' = Content(q)
      BY <1>1, <1>3, ContentKept
    <3> QED
      BY <1>1, <1>3, <1>4, <3>1, <3>2 DEF StoredRight
  <2>2. CASE \A q \in tree : rec[q].key # k
    BY <1>1, <1>3, <1>4, <2>2 DEF StoredRight
  <2> QED
    BY <2>1, <2>2
<1>6. Stored[key] = ABSENT
  BY <1>2, <1>4 DEF StoredRight
<1>7. Stored' = [Stored EXCEPT ![key] = ABSENT]
  <2>1. Stored = [k \in Key |-> Stored[k]] /\ Stored' = [k \in Key |-> Stored'[k]]
    BY <1>4 DEF StoredRight
  <2> QED
    BY <1>5, <1>6, <2>1
<1>8. Answer' = NULL
  BY <1>1 DEF Answer
<1> QED
  BY <1>1, <1>6, <1>7, <1>8, SetIsSet

\* The values of the keys of R are gone, the others as they were.
LEMMA StoredReset ==
  ASSUME CfgInv, CfgInv', ~ careless, NEW R \in SUBSET tree,
         tree' = tree \ R, \A r \in tree \ R : rec'[r] = rec[r], mem' = Forget(mem, Freed(R))
  PROVE  Stored' = [k \in Key |-> IF \E r \in R : rec[r].key = k THEN ABSENT ELSE Stored[k]]
<1>1. StoredRight /\ StoredRight'
  BY StoredFields, StoredFieldsNext
<1>2. \A q, r \in tree : rec[q].key = rec[r].key => q = r
  BY DEF CfgInv, RecordsOnce
<1>3. ASSUME NEW k \in Key
      PROVE  Stored'[k] = IF \E r \in R : rec[r].key = k THEN ABSENT ELSE Stored[k]
  <2>1. CASE \E r \in R : rec[r].key = k
    <3>1. \A q \in tree' : rec'[q].key # k
      BY <1>2, <2>1
    <3> QED
      BY <1>1, <2>1, <3>1 DEF StoredRight
  <2>2. CASE \E r \in tree \ R : rec[r].key = k
    <3>1. PICK q \in tree \ R : rec[q].key = k
      BY <2>2
    <3>2. ~ \E r \in R : rec[r].key = k
      BY <1>2, <3>1
    <3>3. q \in Holding => mem'[rec[q].word] = mem[rec[q].word]
      <4>1. q \in Holding => rec[q].word \notin Freed(R)
        BY FreedFields
      <4>2. q \in Holding => rec[q].word \in Addr
        BY DEF CfgInv, CfgTypes, Owned
      <4> QED
        BY <4>1, <4>2 DEF Forget
    <3>4. Content(q)' = Content(q)
      BY <3>3, ContentKept
    <3> QED
      BY <1>1, <3>1, <3>2, <3>4 DEF StoredRight
  <2>3. CASE \A r \in tree : rec[r].key # k
    BY <1>1, <2>3 DEF StoredRight
  <2> QED
    BY <2>1, <2>2, <2>3
<1>4. Stored' = [k \in Key |-> Stored'[k]]
  BY <1>1 DEF StoredRight
<1> QED
  BY <1>3, <1>4

LEMMA ResetIsReset ==
  ASSUME CfgInv, CfgInv', ~ careless', NEW R \in SUBSET tree, NEW K \in SUBSET Key, Reset(R),
         \A k \in Key \ K : \A r \in R : rec[r].key # k,
         \A k \in K : \A r \in tree \ R : rec[r].key # k
  PROVE  Abs!Reset(K)
<1>1. /\ tree' = tree \ R /\ rec' = [r \in Rec |-> IF r \in R THEN Voided(r) ELSE rec[r]]
      /\ mem' = Forget(mem, Freed(R)) /\ ret' = NULL /\ ~ careless
      /\ st = "running" /\ st' = (IF Sound(R) THEN st ELSE "dead")
  BY DEF Reset
<1>2. \A r \in tree \ R : rec'[r] = rec[r]
  BY <1>1 DEF CfgInv, CfgTypes
<1>3. st' = "running"
  BY <1>1, SoundReset
<1>4. Stored' = [k \in Key |-> IF \E r \in R : rec[r].key = k THEN ABSENT ELSE Stored[k]]
  BY <1>1, <1>2, StoredReset
<1>5. \A k \in K : (\A r \in R : rec[r].key # k) => Stored[k] = ABSENT
  BY StoredFields DEF StoredRight
<1>6. Stored' = [k \in Key |-> IF k \in K THEN ABSENT ELSE Stored[k]]
  BY <1>4, <1>5
<1>7. Answer' = NULL
  BY <1>1 DEF Answer
<1> QED
  BY <1>1, <1>3, <1>6, <1>7 DEF Abs!Reset

LEMMA DestroyIsDestroy ==
  ASSUME CfgInv, CfgInv', ~ careless', aloe_cfg_destroy
  PROVE  Abs!Destroy
<1>1. tree' = {} /\ st = "running" /\ st' # "running"
  BY DEF aloe_cfg_destroy
<1>2. StoredRight'
  BY StoredFieldsNext
<1>3. Stored' = [k \in Key |-> Stored'[k]] /\ \A k \in Key : Stored'[k] = ABSENT
  BY <1>1, <1>2 DEF StoredRight
<1>4. Stored' = [k \in Key |-> ABSENT]
  BY <1>3
<1>5. Answer' = NULL
  BY <1>1 DEF Answer
<1> QED
  BY <1>1, <1>4, <1>5 DEF Abs!Destroy

LEMMA InitIsInit == Init => Abs!Init
<1> SUFFICES ASSUME Init PROVE Abs!Init
  OBVIOUS
<1>1. tree = {} /\ ret = NULL /\ st = "running"
  BY DEF Init
<1>2. Stored = [k \in Key |-> ABSENT]
  BY <1>1 DEF Stored, cfg_rb_find
<1>3. Answer = NULL
  BY <1>1 DEF Answer
<1> QED
  BY <1>1, <1>2, <1>3 DEF Abs!Init

LEMMA NextIsNext ==
  CfgInv /\ CfgInv' /\ [Next]_vars => [careless' \/ format' \/ Abs!Next]_(Abs!vars)
<1> SUFFICES ASSUME CfgInv, CfgInv', [Next]_vars, ~ careless', ~ format'
             PROVE  Abs!Next \/ UNCHANGED Abs!vars
  OBVIOUS
<1>1. ASSUME NEW key \in Key, NEW type \in Types, NEW value \in Values(type),
             aloe_cfg_set(key, type, value)
      PROVE  Abs!Next
  BY <1>1, SetExistingIsSet, SetNewIsSet, SetNoKeyIsSet DEF aloe_cfg_set
<1>2. ASSUME NEW key \in Key, Reset(cfg_rb_find(key)) PROVE Abs!Next
  <2>1. cfg_rb_find(key) \in SUBSET tree /\ {key} \in SUBSET Key
    BY DEF cfg_rb_find
  <2>2. /\ \A k \in Key \ {key} : \A r \in cfg_rb_find(key) : rec[r].key # k
        /\ \A k \in {key} : \A r \in tree \ cfg_rb_find(key) : rec[r].key # k
    BY DEF cfg_rb_find
  <2>3. Abs!Reset({key})
    BY <1>2, <2>1, <2>2, ResetIsReset
  <2> QED
    BY <2>3 DEF Abs!Next
<1>3. CASE Reset(tree)
  <2>1. Abs!Reset(Key)
    BY <1>3, ResetIsReset
  <2> QED
    BY <2>1 DEF Abs!Next
<1>4. CASE aloe_cfg_destroy
  BY <1>4, DestroyIsDestroy DEF Abs!Next
<1>5. CASE UNCHANGED vars
  <2>1. tree' = tree /\ rec' = rec /\ mem' = mem /\ st' = st /\ ret' = ret
    BY <1>5 DEF vars
  <2>2. Stored' = Stored
    BY <2>1 DEF Stored, cfg_rb_find, Content
  <2>3. Answer' = Answer
    BY <2>1 DEF Answer
  <2> QED
    BY <2>1, <2>2, <2>3 DEF Abs!vars
<1> QED
  BY <1>1, <1>2, <1>3, <1>4, <1>5 DEF Next, Stopped

\* ImplementsStore (cfg.c:128-196), for any records, memory, keys and values: as long as the client
\* is not careless, every call that prints no format with conversions does to the values under
\* the keys, and answers, what Store says.
THEOREM ImplementsStoreAlways == Spec => ImplementsStore
<1> QED
  BY Invariant, InitIsInit, NextIsNext, PTL DEF Spec, ImplementsStore
=============================================================================
