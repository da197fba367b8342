------------------------------ MODULE EvProofs ------------------------------
(***************************************************************************)
(* What holds of the event context of ev.c for every value of the          *)
(* constants of module Ev.  First, what the queues of queue.h do; then, in *)
(* this order:                                                             *)
(*                                                                         *)
(*   TypeOK    the types, on which everything else rests;                  *)
(*   FdInv     the queues of descriptor records;                           *)
(*   NotiInv   the queues of events, until aloe_ev_cancel spoils them;     *)
(*   RecordInv one record to a descriptor, none that waits for nothing;    *)
(*   AllocInv  nothing that malloc gave out is on no queue;                *)
(*   RegInv    every registration, and the event that holds it;            *)
(*   FreeInv   what is left for aloe_ev_destroy to free;                   *)
(*   OrderInv  the events of a record are in the order of registration;    *)
(*   FoundInv  what select is asked for and what it finds;                 *)
(*   CollectInv what the round has collected when it is at an event;       *)
(*   SeenInv   all of these, from which the steps of ev.c are steps of     *)
(*             module EvAbs.                                               *)
(*                                                                         *)
(* None of the properties of module EvProps but TypeOK and                 *)
(* SelectsWhatIsArmed is inductive.  Each of these invariants is, together *)
(* with those before it, and the properties follow from them.              *)
(***************************************************************************)
EXTENDS EvRefines, FiniteSetTheorems, WellFoundedInduction, TLAPS

-----------------------------------------------------------------------------
(***************************************************************************)
(* What the macros of queue.h do to well linked queues.                    *)
(*                                                                         *)
(* The proofs speak of the sequences q[h] the heads hold (WellLinkedAs);   *)
(* module Ev speaks of the pointers alone (WellLinked).  The two are the   *)
(* same by WellLinkedIff.                                                  *)
(***************************************************************************)

\* The cells C hold pointers to elements of E and addresses of cells.
IsMemory(m, C, E) ==
  /\ m.ptr \in [C -> E \union {NULL}]
  /\ m.back \in [C -> C]

-----------------------------------------------------------------------------
\* A set of numbers has a least one: what the inductions below rest on.
LEMMA LeastNumber ==
  ASSUME NEW S \in SUBSET Nat, S # {}
  PROVE  \E x \in S : \A y \in S : x <= y
<1> DEFINE Less == { ss \in Nat \X Nat : ss[1] < ss[2] }
<1>1. IsWellFoundedOn(Less, Nat)
  BY NatLessThanWellFounded DEF OpToRel
<1>2. PICK x \in S : \A y \in S : <<y, x>> \notin Less
  BY <1>1, WFMin
<1>3. ASSUME NEW y \in S
      PROVE  x <= y
  <2>1. <<y, x>> \in Nat \X Nat /\ ~ (<<y, x>>[1] < <<y, x>>[2])
    BY <1>2
  <2> QED
    BY <2>1
<1> QED
  BY <1>3

\* TAILQ_FOREACH visits the items of the sequence its head holds.
LEMMA VisitedIsItems ==
  ASSUME NEW m, NEW h, NEW E, NULL \notin E, NEW s \in Seq(E), Represents(m, h, s)
  PROVE  Visited(m, h, E) = Items(s)
<1> DEFINE Closed(S) == \A c \in S \union {h} : m.ptr[c] \in S \union {NULL}
<1>0. /\ Len(s) \in Nat
      /\ \A i \in 1 .. Len(s) : s[i] \in E
      /\ Items(s) \in SUBSET E
  BY DEF Items
<1>1. Closed(Items(s))
  <2>1. m.ptr[h] \in Items(s) \union {NULL}
    <3>1. CASE s = <<>>
      BY <3>1 DEF Represents
    <3>2. CASE s # <<>>
      BY <3>2, <1>0 DEF Represents, Items
    <3> QED
      BY <3>1, <3>2
  <2>2. ASSUME NEW i \in 1 .. Len(s)
        PROVE  m.ptr[s[i]] \in Items(s) \union {NULL}
    <3>1. CASE i = Len(s)
      BY <3>1 DEF Represents
    <3>2. CASE i # Len(s)
      <4>1. i + 1 \in 1 .. Len(s)
        BY <3>2, <1>0
      <4> QED
        BY <3>2, <4>1 DEF Represents, Items
    <3> QED
      BY <3>1, <3>2
  <2> QED
    BY <2>1, <2>2 DEF Items
<1>2. Visited(m, h, E) \subseteq Items(s)
  BY <1>0, <1>1 DEF Visited
<1>3. ASSUME NEW S \in SUBSET E, Closed(S)
      PROVE  \A i \in 1 .. Len(s) : s[i] \in S
  <2> DEFINE Missed == { i \in 1 .. Len(s) : s[i] \notin S }
  <2>1. SUFFICES ASSUME Missed # {} PROVE FALSE
    OBVIOUS
  <2>2. PICK k \in Missed : \A i \in Missed : k <= i
    BY <2>1, LeastNumber, Missed \in SUBSET Nat
  <2>3. CASE k = 1
    <3>1. m.ptr[h] = s[1] /\ s[1] # NULL
      BY <2>3, <1>0, s # <<>> DEF Represents
    <3> QED
      BY <3>1, <2>3, <1>3
  <2>4. CASE k # 1
    <3>1. k - 1 \in 1 .. Len(s) /\ k - 1 # Len(s) /\ (k - 1) + 1 = k
      BY <2>4, <1>0
    <3>2. s[k - 1] \in S
      BY <3>1, <2>2
    <3>3. m.ptr[s[k - 1]] = s[k] /\ s[k] # NULL
      <4>1. m.ptr[s[k - 1]] = IF k - 1 = Len(s) THEN NULL ELSE s[(k - 1) + 1]
        BY <3>1 DEF Represents
      <4> QED
        BY <4>1, <3>1, <1>0
    <3> QED
      BY <3>2, <3>3, <1>3
  <2> QED
    BY <2>3, <2>4
<1>4. Items(s) \subseteq Visited(m, h, E)
  BY <1>0, <1>3 DEF Visited, Items
<1> QED
  BY <1>2, <1>4

\* A sequence without repetition over a finite set is one of its Orders.
LEMMA InjectiveIsOrder ==
  ASSUME NEW E, IsFiniteSet(E), NEW s \in Seq(E), NoRepeat(s)
  PROVE  s \in Orders(E)
<1>1. Len(s) \in Nat /\ s \in [1 .. Len(s) -> E]
  OBVIOUS
<1>2. IsFiniteSet(1 .. Len(s)) /\ Cardinality(1 .. Len(s)) = Len(s)
  BY <1>1, FS_Interval
<1>3. s \in Injection(1 .. Len(s), E)
  BY <1>1 DEF Injection, IsInjective, NoRepeat
<1>4. Len(s) <= Cardinality(E) /\ Cardinality(E) \in Nat
  BY <1>2, <1>3, FS_Injection, FS_CardinalityType
<1>5. Len(s) \in 0 .. Cardinality(E)
  BY <1>1, <1>4
<1> QED
  BY <1>1, <1>5 DEF Orders

\* The queues of the pointers (WellLinked) are the sequences they hold.
LEMMA WellLinkedIff ==
  ASSUME NEW m, NEW H, NEW E, IsFiniteSet(E), NULL \notin E
  PROVE  WellLinked(m, H, E) <=> \E q \in [H -> Seq(E)] : WellLinkedAs(m, H, E, q)
<1>1. ASSUME WellLinked(m, H, E)
      PROVE  \E q \in [H -> Seq(E)] : WellLinkedAs(m, H, E, q)
  <2> DEFINE q == [h \in H |-> Contents(m, h, E)]
  <2>1. ASSUME NEW h \in H
        PROVE  /\ q[h] \in Seq(E) /\ NoRepeat(q[h]) /\ Represents(m, h, q[h])
               /\ Items(q[h]) = Visited(m, h, E)
    <3>1. PICK s \in Orders(E) : Represents(m, h, s)
      BY <1>1 DEF WellLinked
    <3>2. q[h] \in Orders(E) /\ Represents(m, h, q[h])
      BY <3>1 DEF Contents
    <3>3. q[h] \in Seq(E) /\ NoRepeat(q[h])
      BY <3>2 DEF Orders
    <3> QED
      BY <3>2, <3>3, VisitedIsItems
  <2>2. WellLinkedAs(m, H, E, q)
    <3>1. ASSUME NEW g \in H, NEW h \in H, g # h
          PROVE  Items(q[g]) \cap Items(q[h]) = {}
      BY <1>1, <2>1, <3>1 DEF WellLinked
    <3> HIDE DEF q
    <3> QED
      BY <2>1, <3>1 DEF WellLinkedAs
  <2>3. q \in [H -> Seq(E)]
    BY <2>1
  <2> QED
    BY <2>2, <2>3
<1>2. ASSUME NEW q \in [H -> Seq(E)], WellLinkedAs(m, H, E, q)
      PROVE  WellLinked(m, H, E)
  <2>1. ASSUME NEW h \in H
        PROVE  /\ q[h] \in Orders(E) /\ Represents(m, h, q[h])
               /\ Visited(m, h, E) = Items(q[h])
    <3>1. q[h] \in Seq(E) /\ NoRepeat(q[h]) /\ Represents(m, h, q[h])
      BY <1>2 DEF WellLinkedAs
    <3> QED
      BY <3>1, InjectiveIsOrder, VisitedIsItems
  <2>2. ASSUME NEW g \in H, NEW h \in H, g # h
        PROVE  Visited(m, g, E) \cap Visited(m, h, E) = {}
    BY <1>2, <2>1, <2>2 DEF WellLinkedAs
  <2> QED
    BY <2>1, <2>2 DEF WellLinked
<1> QED
  BY <1>1, <1>2

-----------------------------------------------------------------------------
\* TAILQ_INIT makes an empty queue of a cell that belongs to none.
LEMMA InitLinks ==
  ASSUME NEW C, NEW E \in SUBSET C, NEW m, IsMemory(m, C, E), NULL \notin E,
         NEW H \in SUBSET C, H \cap E = {}, NEW h \in C, h \notin H, h \notin E,
         NEW q \in [H -> Seq(E)], WellLinkedAs(m, H, E, q),
         NEW p, p = [g \in H \union {h} |-> IF g = h THEN <<>> ELSE q[g]]
  PROVE  /\ IsMemory(TAILQ_INIT(m, h), C, E)
         /\ WellLinkedAs(TAILQ_INIT(m, h), H \union {h}, E, p)
<1> DEFINE n == TAILQ_INIT(m, h)
<1>1. IsMemory(n, C, E)
  BY DEF IsMemory, TAILQ_INIT
<1>2. \A c \in C : c # h => n.ptr[c] = m.ptr[c] /\ n.back[c] = m.back[c]
  BY DEF IsMemory, TAILQ_INIT
<1>3. n.ptr[h] = NULL /\ n.back[h] = h
  BY DEF IsMemory, TAILQ_INIT
<1> HIDE DEF n
<1>4. /\ p[h] = <<>> /\ p[h] \in Seq(E) /\ NoRepeat(p[h]) /\ Items(p[h]) = {}
      /\ Represents(n, h, p[h])
  BY <1>3 DEF NoRepeat, Items, Represents
<1>5. ASSUME NEW g \in H
      PROVE  /\ p[g] = q[g] /\ p[g] \in Seq(E) /\ NoRepeat(p[g])
             /\ Represents(n, g, p[g])
  <2>1. /\ g # h /\ p[g] = q[g]
        /\ q[g] \in Seq(E) /\ NoRepeat(q[g]) /\ Represents(m, g, q[g])
    BY <1>5 DEF WellLinkedAs
  <2>2. \A i \in 1 .. Len(q[g]) : q[g][i] \in E /\ q[g][i] # h
    BY <2>1
  <2>3. Represents(n, g, q[g])
    BY <1>2, <2>1, <2>2 DEF Represents
  <2> QED
    BY <2>1, <2>3
<1>6. ASSUME NEW f \in H \union {h}, NEW g \in H \union {h}, f # g
      PROVE  Items(p[f]) \cap Items(p[g]) = {}
  BY <1>4, <1>5, <1>6 DEF WellLinkedAs
<1>7. WellLinkedAs(n, H \union {h}, E, p)
  <2> QED
    BY <1>4, <1>5, <1>6 DEF WellLinkedAs
<1> QED
  BY <1>1, <1>7 DEF n

\* p is q but for head h, which holds t.
Changed(p, q, H, E, h, t) ==
  /\ p \in [H -> Seq(E)]
  /\ p[h] = t
  /\ \A g \in H : g # h => p[g] = q[g]

\* TAILQ_INSERT_TAIL appends an element that is on no queue.
LEMMA InsertTailLinks ==
  ASSUME NEW C, NEW E \in SUBSET C, NEW m, IsMemory(m, C, E), NULL \notin E,
         NEW H \in SUBSET C, H \cap E = {}, NEW h \in H, NEW e \in E,
         NEW q \in [H -> Seq(E)], WellLinkedAs(m, H, E, q),
         \A g \in H : e \notin Items(q[g]),
         NEW p, Changed(p, q, H, E, h, Append(q[h], e))
  PROVE  /\ IsMemory(TAILQ_INSERT_TAIL(m, h, e), C, E)
         /\ WellLinkedAs(TAILQ_INSERT_TAIL(m, h, e), H, E, p)
<1> DEFINE n == TAILQ_INSERT_TAIL(m, h, e)
           tail == m.back[h]
           s == q[h]
<1>0. /\ s \in Seq(E) /\ NoRepeat(s) /\ Represents(m, h, s) /\ Len(s) \in Nat
      /\ \A i \in 1 .. Len(s) : s[i] \in E /\ s[i] # e /\ s[i] # h
      /\ h \in C /\ e \in C /\ h # e
  BY DEF WellLinkedAs, Items
<1>1. /\ tail \in C /\ tail # e
      /\ tail = IF s = <<>> THEN h ELSE s[Len(s)]
  BY <1>0 DEF Represents
<1>2. IsMemory(n, C, E)
  BY <1>0, <1>1 DEF IsMemory, TAILQ_INSERT_TAIL
<1>3. /\ n.ptr[tail] = e /\ n.ptr[e] = NULL /\ n.back[e] = tail /\ n.back[h] = e
      /\ \A c \in C : c # tail /\ c # e => n.ptr[c] = m.ptr[c]
      /\ \A c \in C : c # h /\ c # e => n.back[c] = m.back[c]
  BY <1>0, <1>1 DEF IsMemory, TAILQ_INSERT_TAIL
<1> HIDE DEF n, tail
<1>4. p[h] = Append(s, e) /\ \A g \in H : g # h => p[g] = q[g]
  BY DEF Changed
<1>5. NoRepeat(Append(s, e)) /\ Items(Append(s, e)) = Items(s) \union {e}
  <2>1. /\ Len(Append(s, e)) = Len(s) + 1 /\ Append(s, e)[Len(s) + 1] = e
        /\ \A i \in 1 .. Len(s) : Append(s, e)[i] = s[i]
    BY <1>0
  <2>2. 1 .. (Len(s) + 1) = 1 .. Len(s) \union {Len(s) + 1}
    BY <1>0
  <2>3. NoRepeat(Append(s, e))
    BY <1>0, <2>1, <2>2 DEF NoRepeat
  <2>4. Items(Append(s, e)) = Items(s) \union {e}
    BY <1>0, <2>1, <2>2 DEF Items
  <2> QED
    BY <2>3, <2>4
<1>6. Represents(n, h, Append(s, e))
  <2> DEFINE t == Append(s, e)
  <2>1. /\ Len(t) = Len(s) + 1 /\ t[Len(s) + 1] = e /\ t # <<>>
        /\ \A i \in 1 .. Len(s) : t[i] = s[i]
    <3>1. /\ Len(Append(s, e)) = Len(s) + 1 /\ Append(s, e)[Len(s) + 1] = e
          /\ \A i \in 1 .. Len(s) : Append(s, e)[i] = s[i]
      BY <1>0
    <3>2. Append(s, e) # <<>>
      BY <1>0
    <3> QED
      BY <3>1, <3>2
  <2> HIDE DEF t
  <2>2. n.ptr[h] = t[1] /\ n.back[h] = t[Len(t)]
    <3>1. CASE s = <<>>
      BY <3>1, <1>1, <1>3, <2>1
    <3>2. CASE s # <<>>
      <4>1. m.ptr[h] = s[1] /\ 1 \in 1 .. Len(s) /\ Len(s) \in 1 .. Len(s)
        BY <3>2, <1>0 DEF Represents
      <4>2. tail # h
        BY <3>2, <1>0, <1>1, <4>1
      <4> QED
        BY <4>1, <4>2, <1>0, <1>3, <2>1
    <3> QED
      BY <3>1, <3>2
  <2>3. ASSUME NEW i \in 1 .. Len(s)
        PROVE  /\ n.ptr[t[i]] = IF i = Len(t) THEN NULL ELSE t[i + 1]
               /\ n.back[t[i]] = IF i = 1 THEN h ELSE t[i - 1]
    <3>1. /\ m.ptr[s[i]] = IF i = Len(s) THEN NULL ELSE s[i + 1]
          /\ m.back[s[i]] = IF i = 1 THEN h ELSE s[i - 1]
      BY <1>0 DEF Represents
    <3>2. n.back[t[i]] = IF i = 1 THEN h ELSE t[i - 1]
      <4>1. n.back[s[i]] = m.back[s[i]]
        BY <1>0, <1>3
      <4> QED
        BY <4>1, <3>1, <2>1, <1>0
    <3>3. CASE i = Len(s)
      <4>1. tail = s[i]
        BY <3>3, <1>0, <1>1
      <4> QED
        BY <3>3, <4>1, <3>2, <1>3, <2>1, <1>0
    <3>4. CASE i # Len(s)
      <4>1. s[i] # tail
        <5>1. s # <<>> /\ Len(s) \in 1 .. Len(s)
          BY <1>0
        <5> QED
          BY <5>1, <3>4, <1>0, <1>1 DEF NoRepeat
      <4>2. n.ptr[s[i]] = s[i + 1] /\ i + 1 \in 1 .. Len(s)
        BY <4>1, <3>1, <3>4, <1>0, <1>3
      <4> QED
        BY <4>2, <3>2, <2>1, <1>0
    <3> QED
      BY <3>3, <3>4
  <2>4. /\ n.ptr[e] = NULL
        /\ n.back[e] = IF Len(t) = 1 THEN h ELSE t[Len(t) - 1]
    <3>1. CASE s = <<>>
      BY <3>1, <1>1, <1>3, <2>1
    <3>2. CASE s # <<>>
      BY <3>2, <1>0, <1>1, <1>3, <2>1
    <3> QED
      BY <3>1, <3>2
  <2>5. \A i \in 1 .. Len(t) : i \in 1 .. Len(s) \/ (i = Len(t) /\ t[i] = e)
    BY <2>1, <1>0
  <2> QED
    BY <2>1, <2>2, <2>3, <2>4, <2>5 DEF Represents, t
<1>7. ASSUME NEW g \in H, g # h
      PROVE  Represents(n, g, q[g])
  <2>1. /\ q[g] \in Seq(E) /\ Represents(m, g, q[g]) /\ g \in C /\ g # e
        /\ Items(q[g]) \cap Items(s) = {}
    BY <1>7 DEF WellLinkedAs
  <2>2. g # tail /\ \A i \in 1 .. Len(q[g]) : /\ q[g][i] \in C /\ q[g][i] # tail
                                             /\ q[g][i] # e /\ q[g][i] # h
    <3>1. ASSUME NEW i \in 1 .. Len(q[g])
          PROVE  q[g][i] \in E /\ q[g][i] \in Items(q[g]) /\ q[g][i] # e /\ q[g][i] # h
      BY <2>1 DEF Items
    <3>2. s # <<>> => tail \in Items(s) /\ tail \in E
      BY <1>0, <1>1 DEF Items
    <3> QED
      BY <3>1, <3>2, <2>1, <1>1, <1>7
  <2> QED
    BY <2>1, <2>2, <1>3, <1>7 DEF Represents
<1>8. WellLinkedAs(n, H, E, p)
  <2>1. ASSUME NEW g \in H
        PROVE  p[g] \in Seq(E) /\ NoRepeat(p[g]) /\ Represents(n, g, p[g])
    <3>1. CASE g = h
      BY <3>1, <1>0, <1>4, <1>5, <1>6
    <3>2. CASE g # h
      <4>1. q[g] \in Seq(E) /\ NoRepeat(q[g])
        BY DEF WellLinkedAs
      <4> QED
        BY <3>2, <4>1, <1>4, <1>7
    <3> QED
      BY <3>1, <3>2
  <2>2. ASSUME NEW f \in H, NEW g \in H, f # g
        PROVE  Items(p[f]) \cap Items(p[g]) = {}
    <3>1. Items(q[f]) \cap Items(q[g]) = {} /\ e \notin Items(q[f]) /\ e \notin Items(q[g])
      BY <2>2 DEF WellLinkedAs
    <3>2. Items(p[f]) = Items(q[f]) \/ (f = h /\ Items(p[f]) = Items(q[f]) \union {e})
      BY <1>4, <1>5
    <3>3. Items(p[g]) = Items(q[g]) \/ (g = h /\ Items(p[g]) = Items(q[g]) \union {e})
      BY <1>4, <1>5
    <3> QED
      BY <3>1, <3>2, <3>3, <2>2
  <2> QED
    BY <2>1, <2>2 DEF WellLinkedAs
<1> QED
  BY <1>2, <1>8 DEF n

\* Taking an item out of a sequence without repetition.
LEMMA WithoutItem ==
  ASSUME NEW E, NEW s \in Seq(E), NoRepeat(s), NEW k \in 1 .. Len(s)
  PROVE  LET w == Without(s, s[k])
         IN  /\ w \in Seq(E) /\ Len(w) = Len(s) - 1 /\ NoRepeat(w)
             /\ \A j \in 1 .. Len(w) : w[j] = IF j < k THEN s[j] ELSE s[j + 1]
             /\ Items(w) = Items(s) \ {s[k]}
<1> DEFINE w == [j \in 1 .. Len(s) - 1 |-> IF j < k THEN s[j] ELSE s[j + 1]]
<1>0. Len(s) \in Nat /\ \A i \in 1 .. Len(s) : s[i] \in E
  OBVIOUS
<1>1. (CHOOSE i \in 1 .. Len(s) : s[i] = s[k]) = k
  BY DEF NoRepeat
<1>2. Without(s, s[k]) = w
  BY <1>1 DEF Without
<1>3. w \in Seq(E) /\ Len(w) = Len(s) - 1
  <2>1. Len(s) - 1 \in Nat
    BY <1>0
  <2>2. \A j \in 1 .. Len(s) - 1 : j \in 1 .. Len(s) /\ j + 1 \in 1 .. Len(s)
    BY <1>0
  <2>3. w \in [1 .. Len(s) - 1 -> E]
    BY <2>2, <1>0
  <2> QED
    BY <2>1, <2>3
<1>4. \A j \in 1 .. Len(w) : w[j] = IF j < k THEN s[j] ELSE s[j + 1]
  BY <1>3
<1> HIDE DEF w
<1>5. NoRepeat(w)
  <2>1. ASSUME NEW i \in 1 .. Len(w), NEW j \in 1 .. Len(w), w[i] = w[j]
        PROVE  i = j
    <3>1. /\ i \in 1 .. Len(s) /\ i + 1 \in 1 .. Len(s)
          /\ j \in 1 .. Len(s) /\ j + 1 \in 1 .. Len(s)
      BY <1>0, <1>3
    <3> QED
      BY <3>1, <2>1, <1>4 DEF NoRepeat
  <2> QED
    BY <2>1 DEF NoRepeat
<1>6. Items(w) = Items(s) \ {s[k]}
  <2>1. ASSUME NEW j \in 1 .. Len(w)
        PROVE  w[j] \in Items(s) \ {s[k]}
    <3>1. j \in 1 .. Len(s) /\ j + 1 \in 1 .. Len(s) /\ (j < k => j # k) /\ (~ j < k => j + 1 # k)
      BY <1>0, <1>3
    <3> QED
      BY <3>1, <1>4 DEF NoRepeat, Items
  <2>2. ASSUME NEW i \in 1 .. Len(s), i # k
        PROVE  s[i] \in Items(w)
    <3>1. CASE i < k
      <4>1. i \in 1 .. Len(w) /\ w[i] = s[i]
        BY <3>1, <1>0, <1>3, <1>4
      <4> QED
        BY <4>1 DEF Items
    <3>2. CASE i > k
      <4>1. i - 1 \in 1 .. Len(w) /\ ~ (i - 1 < k) /\ (i - 1) + 1 = i
        BY <3>2, <1>0, <1>3
      <4>2. w[i - 1] = s[i]
        BY <4>1, <1>4
      <4> QED
        BY <4>1, <4>2 DEF Items
    <3> QED
      BY <3>1, <3>2, <2>2, <1>0
  <2> QED
    BY <2>1, <2>2 DEF Items
<1> QED
  BY <1>2, <1>3, <1>4, <1>5, <1>6

\* TAILQ_REMOVE takes an item of queue h out of it.
LEMMA RemoveLinks ==
  ASSUME NEW C, NEW E \in SUBSET C, NEW m, IsMemory(m, C, E), NULL \notin E,
         NEW H \in SUBSET C, H \cap E = {}, NEW h \in H,
         NEW q \in [H -> Seq(E)], WellLinkedAs(m, H, E, q),
         NEW e, e \in Items(q[h]),
         NEW p, Changed(p, q, H, E, h, Without(q[h], e))
  PROVE  /\ IsMemory(TAILQ_REMOVE(m, h, e), C, E)
         /\ WellLinkedAs(TAILQ_REMOVE(m, h, e), H, E, p)
<1> DEFINE n == TAILQ_REMOVE(m, h, e)
           s == q[h]
           w == Without(s, e)
           after  == m.ptr[e]
           before == m.back[e]
           moved  == IF after # NULL THEN after ELSE h
<1>0. /\ s \in Seq(E) /\ NoRepeat(s) /\ Represents(m, h, s) /\ Len(s) \in Nat
      /\ \A i \in 1 .. Len(s) : s[i] \in E /\ s[i] \in C /\ s[i] # h /\ s[i] # NULL
      /\ h \in C
  BY DEF WellLinkedAs
<1>1. PICK k \in 1 .. Len(s) : e = s[k]
  BY DEF Items
<1>2. /\ w \in Seq(E) /\ Len(w) = Len(s) - 1 /\ NoRepeat(w)
      /\ \A j \in 1 .. Len(w) : w[j] = IF j < k THEN s[j] ELSE s[j + 1]
      /\ Items(w) = Items(s) \ {e}
  BY <1>0, <1>1, WithoutItem
<1>3. /\ after = IF k = Len(s) THEN NULL ELSE s[k + 1]
      /\ before = IF k = 1 THEN h ELSE s[k - 1]
  BY <1>0, <1>1 DEF Represents
<1>4. /\ before \in C /\ (before = h \/ before \in Items(s))
      /\ moved \in C /\ (moved = h \/ moved \in Items(s))
      /\ after \in E \union {NULL}
  <2>1. k = 1 \/ k - 1 \in 1 .. Len(s)
    BY <1>0
  <2>2. k = Len(s) \/ k + 1 \in 1 .. Len(s)
    BY <1>0
  <2> QED
    BY <2>1, <2>2, <1>0, <1>3 DEF Items
<1>5. IsMemory(n, C, E)
  BY <1>4 DEF IsMemory, TAILQ_REMOVE
<1>6. /\ n.ptr[before] = after /\ n.back[moved] = before
      /\ \A c \in C : c # before => n.ptr[c] = m.ptr[c]
      /\ \A c \in C : c # moved => n.back[c] = m.back[c]
  BY <1>4 DEF IsMemory, TAILQ_REMOVE
<1>7. p[h] = w /\ \A g \in H : g # h => p[g] = q[g]
  BY DEF Changed
<1>8. moved = IF k = Len(s) THEN h ELSE s[k + 1]
  <2>1. k # Len(s) => s[k + 1] # NULL
    BY <1>0
  <2> QED
    BY <2>1, <1>3
<1> HIDE DEF n, after, before, moved, w
<1>9. Represents(n, h, w)
  <2>1. n.ptr[h] = IF w = <<>> THEN NULL ELSE w[1]
    <3>1. m.ptr[h] = s[1] /\ 1 \in 1 .. Len(s)
      BY <1>0 DEF Represents
    <3>2. CASE k = 1
      <4>1. n.ptr[h] = IF Len(s) = 1 THEN NULL ELSE s[2]
        BY <3>2, <1>3, <1>6
      <4>2. CASE Len(s) = 1
        BY <4>1, <4>2, <1>2
      <4>3. CASE Len(s) # 1
        <5>1. Len(w) > 0 /\ 1 \in 1 .. Len(w) /\ ~ (1 < k)
          BY <4>3, <3>2, <1>0, <1>2
        <5>2. w # <<>> /\ w[1] = s[2]
          BY <5>1, <1>2
        <5> QED
          BY <4>1, <4>3, <5>2
      <4> QED
        BY <4>2, <4>3
    <3>3. CASE k # 1
      <4>1. before # h
        <5>1. k - 1 \in 1 .. Len(s)
          BY <3>3, <1>0
        <5> QED
          BY <5>1, <3>3, <1>0, <1>3
      <4>2. 1 \in 1 .. Len(w) /\ 1 < k /\ w # <<>>
        BY <3>3, <1>0, <1>2
      <4>3. w[1] = s[1]
        BY <4>2, <1>2
      <4> QED
        BY <4>1, <4>2, <4>3, <3>1, <1>0, <1>6
    <3> QED
      BY <3>2, <3>3
  <2>2. n.back[h] = IF w = <<>> THEN h ELSE w[Len(w)]
    <3>1. m.back[h] = s[Len(s)] /\ Len(s) \in 1 .. Len(s)
      BY <1>0 DEF Represents
    <3>2. CASE k = Len(s)
      <4>1. n.back[h] = before /\ before = IF k = 1 THEN h ELSE s[k - 1]
        BY <3>2, <1>3, <1>6, <1>8
      <4>2. CASE k = 1
        BY <4>1, <4>2, <3>2, <1>2
      <4>3. CASE k # 1
        <5>1. Len(w) = k - 1 /\ k - 1 \in 1 .. Len(w) /\ w # <<>> /\ k - 1 < k
          BY <4>3, <3>2, <1>0, <1>2
        <5>2. w[k - 1] = s[k - 1]
          BY <5>1, <1>2
        <5> QED
          BY <4>1, <4>3, <5>1, <5>2
      <4> QED
        BY <4>2, <4>3
    <3>3. CASE k # Len(s)
      <4>1. moved # h
        <5>1. k + 1 \in 1 .. Len(s)
          BY <3>3, <1>0
        <5> QED
          BY <5>1, <3>3, <1>0, <1>8
      <4>2. /\ Len(w) \in 1 .. Len(w) /\ ~ (Len(w) < k) /\ Len(w) + 1 = Len(s)
            /\ w # <<>>
        BY <3>3, <1>0, <1>2
      <4>3. w[Len(w)] = s[Len(s)]
        BY <4>2, <1>2
      <4> QED
        BY <4>1, <4>2, <4>3, <3>1, <1>0, <1>6
    <3> QED
      BY <3>2, <3>3
  <2>3. ASSUME NEW j \in 1 .. Len(w)
        PROVE  n.ptr[w[j]] = IF j = Len(w) THEN NULL ELSE w[j + 1]
    <3>0. j \in 1 .. Len(s) /\ j + 1 \in 1 .. Len(s) /\ j + 1 <= Len(s)
      BY <1>0, <1>2
    <3>1. CASE j < k - 1
      <4>1. /\ w[j] = s[j] /\ j + 1 \in 1 .. Len(w) /\ w[j + 1] = s[j + 1]
            /\ j # Len(w) /\ j # Len(s)
        BY <3>0, <3>1, <1>0, <1>2
      <4>2. s[j] # before
        <5>1. k - 1 \in 1 .. Len(s) /\ k # 1 /\ j # k - 1
          BY <3>0, <3>1, <1>0
        <5> QED
          BY <5>1, <3>0, <1>0, <1>3 DEF NoRepeat
      <4>3. n.ptr[s[j]] = m.ptr[s[j]] /\ m.ptr[s[j]] = s[j + 1]
        BY <4>1, <4>2, <3>0, <1>0, <1>6 DEF Represents
      <4> QED
        BY <4>1, <4>3
    <3>2. CASE j = k - 1
      <4>1. w[j] = s[j] /\ before = s[j] /\ (j = Len(w) <=> k = Len(s))
        BY <3>0, <3>2, <1>0, <1>2, <1>3
      <4>2. j # Len(w) => j + 1 \in 1 .. Len(w) /\ w[j + 1] = s[k + 1]
        BY <3>0, <3>2, <1>0, <1>2
      <4> QED
        BY <4>1, <4>2, <1>3, <1>6
    <3>3. CASE j >= k
      <4>1. w[j] = s[j + 1] /\ (j = Len(w) <=> j + 1 = Len(s))
        BY <3>0, <3>3, <1>0, <1>2
      <4>2. j # Len(w) => j + 1 \in 1 .. Len(w) /\ w[j + 1] = s[(j + 1) + 1]
        BY <3>0, <3>3, <1>0, <1>2
      <4>3. s[j + 1] # before
        <5>1. CASE k = 1
          BY <5>1, <3>0, <1>0, <1>3
        <5>2. CASE k # 1
          <6>1. k - 1 \in 1 .. Len(s) /\ j + 1 # k - 1
            BY <5>2, <3>0, <3>3, <1>0
          <6> QED
            BY <5>2, <6>1, <3>0, <1>0, <1>3 DEF NoRepeat
        <5> QED
          BY <5>1, <5>2
      <4>4. /\ n.ptr[s[j + 1]] = m.ptr[s[j + 1]]
            /\ m.ptr[s[j + 1]] = IF j + 1 = Len(s) THEN NULL ELSE s[(j + 1) + 1]
        BY <4>3, <3>0, <1>0, <1>6 DEF Represents
      <4> QED
        BY <4>1, <4>2, <4>4
    <3> QED
      BY <3>0, <3>1, <3>2, <3>3, <1>0
  <2>4. ASSUME NEW j \in 1 .. Len(w)
        PROVE  n.back[w[j]] = IF j = 1 THEN h ELSE w[j - 1]
    <3>0. /\ j \in 1 .. Len(s) /\ j + 1 \in 1 .. Len(s) /\ j + 1 <= Len(s)
          /\ (j # 1 => j - 1 \in 1 .. Len(w) /\ j - 1 \in 1 .. Len(s))
      BY <1>0, <1>2
    <3>1. CASE j < k
      <4>1. w[j] = s[j] /\ (j # 1 => w[j - 1] = s[j - 1])
        BY <3>0, <3>1, <1>0, <1>2
      <4>2. s[j] # moved
        <5>1. CASE k = Len(s)
          BY <5>1, <3>0, <1>0, <1>8
        <5>2. CASE k # Len(s)
          <6>1. k + 1 \in 1 .. Len(s) /\ j # k + 1
            BY <5>2, <3>0, <3>1, <1>0
          <6> QED
            BY <5>2, <6>1, <3>0, <1>0, <1>8 DEF NoRepeat
        <5> QED
          BY <5>1, <5>2
      <4>3. n.back[s[j]] = m.back[s[j]] /\ m.back[s[j]] = IF j = 1 THEN h ELSE s[j - 1]
        BY <4>2, <3>0, <1>0, <1>6 DEF Represents
      <4> QED
        BY <4>1, <4>3
    <3>2. CASE j = k
      <4>1. w[j] = s[k + 1] /\ k # Len(s) /\ (j # 1 => w[j - 1] = s[k - 1])
        BY <3>0, <3>2, <1>0, <1>2
      <4> QED
        BY <4>1, <3>2, <1>3, <1>6, <1>8
    <3>3. CASE j > k
      <4>1. /\ w[j] = s[j + 1] /\ j # 1 /\ j + 1 # 1 /\ (j + 1) - 1 = j /\ j + 1 # k + 1
            /\ ~ (j - 1 < k) /\ (j - 1) + 1 = j
        BY <3>0, <3>3, <1>0, <1>2
      <4>2. w[j - 1] = s[j]
        BY <4>1, <3>0, <1>2
      <4>3. s[j + 1] # moved
        <5>1. CASE k = Len(s)
          BY <5>1, <3>0, <1>0, <1>8
        <5>2. CASE k # Len(s)
          <6>1. k + 1 \in 1 .. Len(s)
            BY <5>2, <1>0
          <6> QED
            BY <4>1, <5>2, <6>1, <3>0, <1>0, <1>8 DEF NoRepeat
        <5> QED
          BY <5>1, <5>2
      <4>4. n.back[s[j + 1]] = m.back[s[j + 1]] /\ m.back[s[j + 1]] = s[j]
        <5>1. n.back[s[j + 1]] = m.back[s[j + 1]]
          BY <4>3, <3>0, <1>0, <1>6
        <5>2. m.back[s[j + 1]] = IF j + 1 = 1 THEN h ELSE s[(j + 1) - 1]
          BY <3>0, <1>0 DEF Represents
        <5> QED
          BY <4>1, <5>1, <5>2
      <4> QED
        BY <4>1, <4>2, <4>4
    <3> QED
      BY <3>0, <3>1, <3>2, <3>3, <1>0
  <2> QED
    BY <2>1, <2>2, <2>3, <2>4 DEF Represents
<1>10. ASSUME NEW g \in H, g # h
       PROVE  Represents(n, g, q[g])
  <2>1. /\ q[g] \in Seq(E) /\ Represents(m, g, q[g]) /\ g \in C
        /\ Items(q[g]) \cap Items(s) = {}
    BY <1>10 DEF WellLinkedAs
  <2>2. /\ g # before /\ g # moved
        /\ \A i \in 1 .. Len(q[g]) : q[g][i] \in C /\ q[g][i] # before /\ q[g][i] # moved
    <3>1. ASSUME NEW i \in 1 .. Len(q[g])
          PROVE  q[g][i] \in E /\ q[g][i] \notin Items(s) /\ q[g][i] # h
      <4>1. q[g][i] \in E
        BY <2>1
      <4>2. q[g][i] \in Items(q[g])
        BY DEF Items
      <4> QED
        BY <2>1, <4>1, <4>2
    <3>2. Items(s) \subseteq E
      BY <1>0 DEF Items
    <3> QED
      BY <3>1, <3>2, <2>1, <1>4, <1>10
  <2> QED
    BY <2>1, <2>2, <1>6 DEF Represents
<1>11. WellLinkedAs(n, H, E, p)
  <2>1. ASSUME NEW g \in H
        PROVE  p[g] \in Seq(E) /\ NoRepeat(p[g]) /\ Represents(n, g, p[g])
    BY <1>2, <1>7, <1>9, <1>10 DEF WellLinkedAs
  <2>2. ASSUME NEW f \in H, NEW g \in H, f # g
        PROVE  Items(p[f]) \cap Items(p[g]) = {}
    <3>1. Items(q[f]) \cap Items(q[g]) = {}
      BY <2>2 DEF WellLinkedAs
    <3>2. Items(p[f]) \subseteq Items(q[f]) /\ Items(p[g]) \subseteq Items(q[g])
      BY <1>2, <1>7
    <3> QED
      BY <3>1, <3>2
  <2> QED
    BY <2>1, <2>2 DEF WellLinkedAs
<1> QED
  BY <1>2, <1>5, <1>7, <1>11 DEF n, w

-----------------------------------------------------------------------------
(***************************************************************************)
(* The same facts without the sequences: what each macro does to the sets  *)
(* of elements the heads reach.  These are what module Ev needs.           *)
(***************************************************************************)

\* The heads H hold well linked queues of elements of E, in cells C.
Queues(m, C, H, E) ==
  /\ E \subseteq C /\ IsFiniteSet(E) /\ NULL \notin E /\ IsMemory(m, C, E)
  /\ H \subseteq C /\ H \cap E = {} /\ WellLinked(m, H, E)

\* Queues over a part of the heads are well linked, too.
LEMMA FewerHeads ==
  ASSUME NEW m, NEW C, NEW E, NEW H, NEW G \in SUBSET H, Queues(m, C, H, E)
  PROVE  Queues(m, C, G, E)
BY DEF Queues, WellLinked

\* A well linked queue has a first element unless it is empty, and its tqe_next
\* pointers stay on it, from one element to another, and end.
LEMMA FirstAndNext ==
  ASSUME NEW m, NEW C, NEW E, NEW H, Queues(m, C, H, E), NEW h \in H
  PROVE  /\ TAILQ_EMPTY(m, h) <=> Visited(m, h, E) = {}
         /\ TAILQ_FIRST(m, h) # NULL => TAILQ_FIRST(m, h) \in Visited(m, h, E)
         /\ \A e \in Visited(m, h, E) :
              TAILQ_NEXT(m, e) # NULL => TAILQ_NEXT(m, e) \in Visited(m, h, E) \ {e}
         /\ ~ Endless(m, h, E)
<1>0. /\ E \in SUBSET C /\ IsFiniteSet(E) /\ NULL \notin E /\ IsMemory(m, C, E)
      /\ H \in SUBSET C /\ H \cap E = {} /\ WellLinked(m, H, E)
  BY DEF Queues
<1>1. PICK q \in [H -> Seq(E)] : WellLinkedAs(m, H, E, q)
  BY <1>0, WellLinkedIff
<1> DEFINE s == q[h]
<1>2. /\ s \in Seq(E) /\ NoRepeat(s) /\ Represents(m, h, s) /\ Len(s) \in Nat
      /\ \A i \in 1 .. Len(s) : s[i] \in E /\ s[i] # NULL
  BY <1>0, <1>1 DEF WellLinkedAs
<1>3. Visited(m, h, E) = Items(s)
  BY <1>2, <1>0, VisitedIsItems
<1> HIDE DEF s
<1>4. CASE s = <<>>
  <2>1. m.ptr[h] = NULL /\ Items(s) = {}
    BY <1>2, <1>4 DEF Represents, Items
  <2> QED
    BY <2>1, <1>3 DEF TAILQ_EMPTY, TAILQ_FIRST, Endless
<1>5. CASE s # <<>>
  <2>1. 1 \in 1 .. Len(s) /\ Len(s) \in 1 .. Len(s)
    BY <1>2, <1>5
  <2>2. m.ptr[h] = s[1] /\ s[1] \in Items(s) /\ s[1] # NULL
    BY <1>2, <1>5, <2>1 DEF Represents, Items
  <2>3. m.ptr[s[Len(s)]] = NULL /\ s[Len(s)] \in Items(s)
    BY <1>2, <2>1 DEF Represents, Items
  <2>4. ASSUME NEW i \in 1 .. Len(s), m.ptr[s[i]] # NULL
        PROVE  m.ptr[s[i]] \in Items(s) \ {s[i]}
    <3>1. i # Len(s) /\ i + 1 \in 1 .. Len(s) /\ m.ptr[s[i]] = s[i + 1]
      BY <1>2, <2>4 DEF Represents
    <3> QED
      BY <3>1, <1>2 DEF NoRepeat, Items
  <2>5. \A e \in Items(s) : m.ptr[e] # NULL => m.ptr[e] \in Items(s) \ {e}
    BY <2>4 DEF Items
  <2> QED
    BY <2>2, <2>3, <2>5, <1>3 DEF TAILQ_EMPTY, TAILQ_FIRST, TAILQ_NEXT, Endless
<1> QED
  BY <1>4, <1>5

LEMMA InitKeeps ==
  ASSUME NEW m, NEW C, NEW E, NEW H, Queues(m, C, H, E),
         NEW h \in C, h \notin H, h \notin E
  PROVE  /\ Queues(TAILQ_INIT(m, h), C, H \union {h}, E)
         /\ Visited(TAILQ_INIT(m, h), h, E) = {}
         /\ \A g \in H : Visited(TAILQ_INIT(m, h), g, E) = Visited(m, g, E)
<1> DEFINE n == TAILQ_INIT(m, h)
<1>0. /\ E \in SUBSET C /\ IsFiniteSet(E) /\ NULL \notin E /\ IsMemory(m, C, E)
      /\ H \in SUBSET C /\ H \cap E = {} /\ WellLinked(m, H, E)
  BY DEF Queues
<1>1. PICK q \in [H -> Seq(E)] : WellLinkedAs(m, H, E, q)
  BY <1>0, WellLinkedIff
<1> DEFINE p == [g \in H \union {h} |-> IF g = h THEN <<>> ELSE q[g]]
<1>2. IsMemory(n, C, E) /\ WellLinkedAs(n, H \union {h}, E, p)
  BY <1>1, <1>0, InitLinks
<1>3. p \in [H \union {h} -> Seq(E)]
  BY <1>2 DEF WellLinkedAs
<1>4. WellLinked(n, H \union {h}, E)
  BY <1>2, <1>3, <1>0, WellLinkedIff
<1>5. \A g \in H \union {h} : p[g] \in Seq(E) /\ Represents(n, g, p[g])
  BY <1>2 DEF WellLinkedAs
<1>6. \A g \in H : q[g] \in Seq(E) /\ Represents(m, g, q[g])
  BY <1>1 DEF WellLinkedAs
<1>7. \A g \in H \union {h} : Visited(n, g, E) = Items(p[g])
  BY <1>5, <1>0, VisitedIsItems
<1>8. \A g \in H : Visited(m, g, E) = Items(q[g])
  BY <1>6, <1>0, VisitedIsItems
<1>9. p[h] = <<>> /\ Items(<<>>) = {} /\ \A g \in H : p[g] = q[g]
  BY DEF Items
<1>10. Queues(n, C, H \union {h}, E)
  BY <1>0, <1>2, <1>4 DEF Queues
<1> QED
  BY <1>7, <1>8, <1>9, <1>10

LEMMA InsertTailKeeps ==
  ASSUME NEW m, NEW C, NEW E, NEW H, Queues(m, C, H, E),
         NEW h \in H, NEW e \in E, \A g \in H : e \notin Visited(m, g, E)
  PROVE  /\ Queues(TAILQ_INSERT_TAIL(m, h, e), C, H, E)
         /\ Visited(TAILQ_INSERT_TAIL(m, h, e), h, E) = Visited(m, h, E) \union {e}
         /\ \A g \in H : g # h => Visited(TAILQ_INSERT_TAIL(m, h, e), g, E) = Visited(m, g, E)
<1> DEFINE n == TAILQ_INSERT_TAIL(m, h, e)
<1>0. /\ E \in SUBSET C /\ IsFiniteSet(E) /\ NULL \notin E /\ IsMemory(m, C, E)
      /\ H \in SUBSET C /\ H \cap E = {} /\ WellLinked(m, H, E)
  BY DEF Queues
<1>1. PICK q \in [H -> Seq(E)] : WellLinkedAs(m, H, E, q)
  BY <1>0, WellLinkedIff
<1> DEFINE p == [q EXCEPT ![h] = Append(q[h], e)]
<1>2. \A g \in H : q[g] \in Seq(E) /\ Represents(m, g, q[g])
  BY <1>1 DEF WellLinkedAs
<1>3. \A g \in H : Visited(m, g, E) = Items(q[g])
  BY <1>2, <1>0, VisitedIsItems
<1>p. p \in [H -> Seq(E)] /\ p[h] = Append(q[h], e) /\ \A g \in H : g # h => p[g] = q[g]
  BY <1>2
<1> HIDE DEF p
<1>q. Changed(p, q, H, E, h, Append(q[h], e)) /\ \A g \in H : e \notin Items(q[g])
  BY <1>3, <1>p DEF Changed
<1>4. IsMemory(n, C, E) /\ WellLinkedAs(n, H, E, p)
  BY <1>1, <1>q, <1>0, InsertTailLinks
<1>5. WellLinked(n, H, E)
  BY <1>4, <1>p, <1>0, WellLinkedIff
<1>6. \A g \in H : p[g] \in Seq(E) /\ Represents(n, g, p[g])
  BY <1>4 DEF WellLinkedAs
<1>7. \A g \in H : Visited(n, g, E) = Items(p[g])
  BY <1>6, <1>0, VisitedIsItems
<1>8. Queues(n, C, H, E)
  BY <1>0, <1>4, <1>5 DEF Queues
<1>9. Items(Append(q[h], e)) = Items(q[h]) \union {e}
  <2> DEFINE s == q[h]
             t == Append(s, e)
  <2>1. s \in Seq(E) /\ Len(s) \in Nat
    BY <1>2
  <2>2. /\ Len(t) = Len(s) + 1 /\ t[Len(s) + 1] = e
        /\ \A i \in 1 .. Len(s) : t[i] = s[i]
    BY <2>1
  <2>3. 1 .. Len(t) = 1 .. Len(s) \union {Len(s) + 1}
    BY <2>1, <2>2
  <2> QED
    BY <2>2, <2>3 DEF Items
<1> QED
  BY <1>3, <1>7, <1>8, <1>9, <1>p

LEMMA RemoveKeeps ==
  ASSUME NEW m, NEW C, NEW E, NEW H, Queues(m, C, H, E),
         NEW h \in H, NEW e \in Visited(m, h, E)
  PROVE  /\ Queues(TAILQ_REMOVE(m, h, e), C, H, E)
         /\ Visited(TAILQ_REMOVE(m, h, e), h, E) = Visited(m, h, E) \ {e}
         /\ \A g \in H : g # h => Visited(TAILQ_REMOVE(m, h, e), g, E) = Visited(m, g, E)
<1> DEFINE n == TAILQ_REMOVE(m, h, e)
<1>0. /\ E \in SUBSET C /\ IsFiniteSet(E) /\ NULL \notin E /\ IsMemory(m, C, E)
      /\ H \in SUBSET C /\ H \cap E = {} /\ WellLinked(m, H, E)
  BY DEF Queues
<1>1. PICK q \in [H -> Seq(E)] : WellLinkedAs(m, H, E, q)
  BY <1>0, WellLinkedIff
<1> DEFINE p == [q EXCEPT ![h] = Without(q[h], e)]
<1>2. \A g \in H : q[g] \in Seq(E) /\ Represents(m, g, q[g])
  BY <1>1 DEF WellLinkedAs
<1>3. \A g \in H : Visited(m, g, E) = Items(q[g])
  BY <1>2, <1>0, VisitedIsItems
<1>p. /\ p \in [H -> Seq(E)] /\ p[h] = Without(q[h], e) /\ \A g \in H : g # h => p[g] = q[g]
      /\ Items(p[h]) = Items(q[h]) \ {e}
  <2>1. PICK k \in 1 .. Len(q[h]) : e = q[h][k]
    BY <1>3 DEF Items
  <2>2. q[h] \in Seq(E) /\ NoRepeat(q[h])
    BY <1>1 DEF WellLinkedAs
  <2>3. Without(q[h], e) \in Seq(E) /\ Items(Without(q[h], e)) = Items(q[h]) \ {e}
    BY <2>1, <2>2, WithoutItem
  <2> QED
    BY <2>3
<1> HIDE DEF p
<1>q. Changed(p, q, H, E, h, Without(q[h], e)) /\ e \in Items(q[h])
  BY <1>3, <1>p DEF Changed
<1>4. IsMemory(n, C, E) /\ WellLinkedAs(n, H, E, p)
  BY <1>1, <1>q, <1>0, RemoveLinks
<1>5. WellLinked(n, H, E)
  BY <1>4, <1>p, <1>0, WellLinkedIff
<1>6. \A g \in H : p[g] \in Seq(E) /\ Represents(n, g, p[g])
  BY <1>4 DEF WellLinkedAs
<1>7. \A g \in H : Visited(n, g, E) = Items(p[g])
  BY <1>6, <1>0, VisitedIsItems
<1>8. Queues(n, C, H, E)
  BY <1>0, <1>4, <1>5 DEF Queues
<1> QED
  BY <1>3, <1>7, <1>8, <1>p

\* An element goes from the queue of one head to that of another.
LEMMA RemoveInsertKeeps ==
  ASSUME NEW m, NEW C, NEW E, NEW H, Queues(m, C, H, E),
         NEW g \in H, NEW h \in H, g # h, NEW e \in Visited(m, g, E)
  PROVE  LET n == TAILQ_INSERT_TAIL(TAILQ_REMOVE(m, g, e), h, e)
         IN  /\ Queues(n, C, H, E)
             /\ Visited(n, g, E) = Visited(m, g, E) \ {e}
             /\ Visited(n, h, E) = Visited(m, h, E) \union {e}
             /\ \A f \in H : f # g /\ f # h => Visited(n, f, E) = Visited(m, f, E)
<1> DEFINE r == TAILQ_REMOVE(m, g, e)
           n == TAILQ_INSERT_TAIL(r, h, e)
<1>0. e \in E
  BY DEF Visited
<1>1. /\ Queues(r, C, H, E)
      /\ Visited(r, g, E) = Visited(m, g, E) \ {e}
      /\ \A f \in H : f # g => Visited(r, f, E) = Visited(m, f, E)
  BY RemoveKeeps
<1>2. \A f \in H : e \notin Visited(r, f, E)
  BY <1>1 DEF Queues, WellLinked
<1> HIDE DEF r
<1>3. /\ Queues(n, C, H, E)
      /\ Visited(n, h, E) = Visited(r, h, E) \union {e}
      /\ \A f \in H : f # h => Visited(n, f, E) = Visited(r, f, E)
  BY <1>0, <1>1, <1>2, InsertTailKeeps
<1> HIDE DEF n
<1>4. /\ Visited(n, g, E) = Visited(m, g, E) \ {e}
      /\ Visited(n, h, E) = Visited(m, h, E) \union {e}
      /\ \A f \in H : f # g /\ f # h => Visited(n, f, E) = Visited(m, f, E)
  BY <1>1, <1>3
<1> QED
  BY <1>3, <1>4 DEF n, r

\* Heads that were just initialized hold empty queues.
LEMMA EmptyLinks ==
  ASSUME NEW m, NEW H, NEW E, IsFiniteSet(E), NULL \notin E,
         \A h \in H : m.ptr[h] = NULL /\ m.back[h] = h
  PROVE  WellLinked(m, H, E) /\ \A h \in H : Visited(m, h, E) = {}
<1>1. <<>> \in Seq(E) /\ NoRepeat(<<>>) /\ Items(<<>>) = {}
  BY DEF NoRepeat, Items
<1>2. \A h \in H : Represents(m, h, <<>>)
  BY DEF Represents
<1>3. \A h \in H : Visited(m, h, E) = {}
  BY <1>1, <1>2, VisitedIsItems
<1>4. <<>> \in Orders(E)
  BY <1>1, InjectiveIsOrder
<1> QED
  BY <1>2, <1>3, <1>4 DEF WellLinked

\* The tqe_prev pointers of a well linked queue stay on it, and only the first element's
\* leads to the head.
LEMMA BackPointers ==
  ASSUME NEW m, NEW C, NEW E, NEW H, Queues(m, C, H, E), NEW h \in H
  PROVE  /\ m.back[h] \in Visited(m, h, E) \union {h}
         /\ TAILQ_EMPTY(m, h) <=> m.back[h] = h
         /\ \A e \in Visited(m, h, E) :
              /\ m.back[e] \in Visited(m, h, E) \union {h}
              /\ m.back[e] = h <=> e = TAILQ_FIRST(m, h)
              /\ e = TAILQ_FIRST(m, h) /\ TAILQ_NEXT(m, e) = NULL => Visited(m, h, E) = {e}
<1>0. /\ E \in SUBSET C /\ IsFiniteSet(E) /\ NULL \notin E /\ IsMemory(m, C, E)
      /\ H \in SUBSET C /\ H \cap E = {} /\ WellLinked(m, H, E)
  BY DEF Queues
<1>1. PICK q \in [H -> Seq(E)] : WellLinkedAs(m, H, E, q)
  BY <1>0, WellLinkedIff
<1> DEFINE s == q[h]
<1>2. /\ s \in Seq(E) /\ NoRepeat(s) /\ Represents(m, h, s) /\ Len(s) \in Nat
      /\ \A i \in 1 .. Len(s) : s[i] \in E /\ s[i] # NULL /\ s[i] # h
  BY <1>0, <1>1 DEF WellLinkedAs
<1>3. Visited(m, h, E) = Items(s)
  BY <1>2, <1>0, VisitedIsItems
<1> HIDE DEF s
<1>4. CASE s = <<>>
  <2>1. m.ptr[h] = NULL /\ m.back[h] = h /\ Items(s) = {}
    BY <1>2, <1>4 DEF Represents, Items
  <2> QED
    BY <2>1, <1>3 DEF TAILQ_EMPTY
<1>5. CASE s # <<>>
  <2>1. 1 \in 1 .. Len(s) /\ Len(s) \in 1 .. Len(s)
    BY <1>2, <1>5
  <2>2. m.ptr[h] = s[1] /\ m.back[h] = s[Len(s)] /\ s[1] # NULL
    BY <1>2, <1>5, <2>1 DEF Represents
  <2>3. s[Len(s)] \in Items(s) /\ s[Len(s)] # h
    BY <1>2, <2>1 DEF Items
  <2>4. ASSUME NEW i \in 1 .. Len(s)
        PROVE  /\ m.back[s[i]] \in Items(s) \union {h}
               /\ m.back[s[i]] = h <=> s[i] = s[1]
               /\ s[i] = s[1] /\ m.ptr[s[i]] = NULL => Items(s) = {s[i]}
    <3>1. CASE i = 1
      <4>1. m.back[s[i]] = h
        BY <1>2, <3>1 DEF Represents
      <4>2. ASSUME m.ptr[s[i]] = NULL PROVE Items(s) = {s[i]}
        <5>1. Len(s) = 1
          <6> SUFFICES ASSUME Len(s) # 1 PROVE FALSE
            OBVIOUS
          <6>1. m.ptr[s[1]] = s[1 + 1]
            BY <1>2, <2>1 DEF Represents
          <6>2. 1 + 1 \in 1 .. Len(s)
            <7>1. \A n \in Nat : 1 \in 1 .. n /\ n # 1 => 1 + 1 \in 1 .. n
              OBVIOUS
            <7>2. Len(s) \in Nat
              BY <1>2
            <7> QED
              BY <7>1, <7>2, <2>1
          <6> QED
            BY <6>1, <6>2, <4>2, <3>1, <1>2
        <5>2. 1 .. Len(s) = {1}
          BY <5>1
        <5> QED
          BY <5>2, <3>1 DEF Items
      <4> QED
        BY <4>1, <4>2, <3>1
    <3>2. CASE i # 1
      <4>1. i - 1 \in 1 .. Len(s) /\ m.back[s[i]] = s[i - 1]
        BY <1>2, <3>2 DEF Represents
      <4>2. s[i - 1] \in Items(s) /\ s[i - 1] # h
        BY <1>2, <4>1 DEF Items
      <4>3. s[i] # s[1]
        BY <1>2, <2>1, <3>2 DEF NoRepeat
      <4> QED
        BY <4>1, <4>2, <4>3
    <3> QED
      BY <3>1, <3>2
  <2>5. \A e \in Items(s) : /\ m.back[e] \in Items(s) \union {h}
                            /\ m.back[e] = h <=> e = s[1]
                            /\ e = s[1] /\ m.ptr[e] = NULL => Items(s) = {e}
    <3> SUFFICES ASSUME NEW e \in Items(s)
                 PROVE  /\ m.back[e] \in Items(s) \union {h}
                        /\ m.back[e] = h <=> e = s[1]
                        /\ e = s[1] /\ m.ptr[e] = NULL => Items(s) = {e}
      OBVIOUS
    <3>1. PICK i \in 1 .. Len(s) : e = s[i]
      BY DEF Items
    <3> QED
      BY <2>4, <3>1
  <2> QED
    BY <2>2, <2>3, <2>5, <1>3 DEF TAILQ_EMPTY, TAILQ_FIRST, TAILQ_NEXT
<1> QED
  BY <1>4, <1>5

\* What an insertion does to the first elements.
LEMMA InsertFirst ==
  ASSUME NEW m, NEW C, NEW E, NEW H, Queues(m, C, H, E), NEW h \in H, NEW e \in E
  PROVE  /\ TAILQ_FIRST(TAILQ_INSERT_TAIL(m, h, e), h) =
              IF TAILQ_EMPTY(m, h) THEN e ELSE TAILQ_FIRST(m, h)
         /\ \A g \in H : g # h => TAILQ_FIRST(TAILQ_INSERT_TAIL(m, h, e), g) = TAILQ_FIRST(m, g)
<1>1. h \in C /\ H \subseteq C /\ e \in C /\ H \cap E = {} /\ m.ptr \in [C -> E \union {NULL}]
  BY DEF Queues, IsMemory
<1>2. m.back[h] \in E \union {h} /\ (TAILQ_EMPTY(m, h) <=> m.back[h] = h)
  BY BackPointers DEF Visited
<1> QED
  BY <1>1, <1>2 DEF TAILQ_FIRST, TAILQ_INSERT_TAIL

\* What a removal of an element that is not the first one does to the first elements.
LEMMA RemoveFirst ==
  ASSUME NEW m, NEW C, NEW E, NEW H, Queues(m, C, H, E), NEW h \in H, NEW e \in Visited(m, h, E)
  PROVE  \A g \in H : g # h \/ e # TAILQ_FIRST(m, h) =>
                        TAILQ_FIRST(TAILQ_REMOVE(m, h, e), g) = TAILQ_FIRST(m, g)
<1>1. H \subseteq C /\ H \cap E = {} /\ m.ptr \in [C -> E \union {NULL}]
  BY DEF Queues, IsMemory
<1>2. m.back[e] \in E \union {h} /\ (m.back[e] = h => e = TAILQ_FIRST(m, h))
  BY BackPointers DEF Visited
<1> QED
  BY <1>1, <1>2 DEF TAILQ_FIRST, TAILQ_REMOVE

-----------------------------------------------------------------------------
(***************************************************************************)
(* The order of the elements.  A queue chains one sequence, Contents; the  *)
(* macros change it as one would expect.                                   *)
(***************************************************************************)

\* Two sequences that the same pointers chain agree as far as the first goes.
LEMMA SamePrefix ==
  ASSUME NEW m, NEW h, NEW E, NULL \notin E,
         NEW s \in Seq(E), NEW t \in Seq(E), Represents(m, h, s), Represents(m, h, t)
  PROVE  \A i \in 1 .. Len(s) : i <= Len(t) /\ s[i] = t[i]
<1> DEFINE Apart == { i \in 1 .. Len(s) : ~ (i <= Len(t) /\ s[i] = t[i]) }
<1>1. SUFFICES ASSUME Apart # {} PROVE FALSE
  OBVIOUS
<1>2. PICK k \in Apart : \A i \in Apart : k <= i
  BY <1>1, LeastNumber, Apart \in SUBSET Nat
<1>3. /\ Len(s) \in Nat /\ Len(t) \in Nat /\ k \in 1 .. Len(s)
      /\ \A i \in 1 .. Len(s) : s[i] \in E /\ s[i] # NULL
      /\ \A i \in 1 .. Len(t) : t[i] \in E /\ t[i] # NULL
  OBVIOUS
<1>4. CASE k = 1
  <2>1. m.ptr[h] = s[1] /\ s[1] # NULL
    BY <1>3, <1>4, s # <<>> DEF Represents
  <2>2. t # <<>> /\ t[1] = s[1]
    BY <2>1 DEF Represents
  <2> QED
    BY <1>2, <1>3, <1>4, <2>2
<1>5. CASE k # 1
  <2> DEFINE j == k - 1
  <2>1. j \in 1 .. Len(s) /\ j # Len(s) /\ j + 1 = k /\ j \notin Apart
    BY <1>2, <1>3, <1>5
  <2>2. j \in 1 .. Len(t) /\ s[j] = t[j]
    BY <2>1, <1>3
  <2> HIDE DEF j
  <2>3. m.ptr[s[j]] = s[k] /\ s[k] # NULL
    <3>1. m.ptr[s[j]] = IF j = Len(s) THEN NULL ELSE s[j + 1]
      BY <2>1 DEF Represents
    <3> QED
      BY <3>1, <2>1, <1>3
  <2>4. m.ptr[t[j]] = IF j = Len(t) THEN NULL ELSE t[j + 1]
    BY <2>2 DEF Represents
  <2>5. j # Len(t) /\ t[k] = s[k]
    BY <2>1, <2>2, <2>3, <2>4
  <2> QED
    BY <1>2, <1>3, <2>1, <2>2, <2>5
<1> QED
  BY <1>4, <1>5

LEMMA OneOrder ==
  ASSUME NEW m, NEW h, NEW E, NULL \notin E,
         NEW s \in Seq(E), NEW t \in Seq(E), Represents(m, h, s), Represents(m, h, t)
  PROVE  s = t
<1>1. /\ \A i \in 1 .. Len(s) : i <= Len(t) /\ s[i] = t[i]
      /\ \A i \in 1 .. Len(t) : i <= Len(s)
  BY SamePrefix
<1>2. Len(s) \in Nat /\ Len(t) \in Nat
  OBVIOUS
<1>3. Len(s) = Len(t)
  <2>1. Len(s) # 0 => Len(s) \in 1 .. Len(s)
    BY <1>2
  <2>2. Len(t) # 0 => Len(t) \in 1 .. Len(t)
    BY <1>2
  <2> QED
    BY <1>1, <1>2, <2>1, <2>2
<1> QED
  BY <1>1, <1>3

\* What pointers chain is their Contents.
LEMMA ContentsIs ==
  ASSUME NEW m, NEW h, NEW E, IsFiniteSet(E), NULL \notin E,
         NEW s \in Seq(E), NoRepeat(s), Represents(m, h, s)
  PROVE  Contents(m, h, E) = s
<1> DEFINE t == Contents(m, h, E)
<1>1. s \in Orders(E)
  BY InjectiveIsOrder
<1>2. t \in Orders(E) /\ Represents(m, h, t)
  BY <1>1 DEF Contents
<1>3. t \in Seq(E)
  BY <1>2 DEF Orders
<1> HIDE DEF t
<1>4. t = s
  BY <1>2, <1>3, OneOrder
<1> QED
  BY <1>4 DEF t

\* Linked queues hold their Contents, which are the elements they visit.
LEMMA ContentsLinked ==
  ASSUME NEW m, NEW C, NEW E, NEW H, Queues(m, C, H, E)
  PROVE  \E q \in [H -> Seq(E)] :
            /\ WellLinkedAs(m, H, E, q)
            /\ \A h \in H : Contents(m, h, E) = q[h]
<1>1. IsFiniteSet(E) /\ NULL \notin E /\ WellLinked(m, H, E)
  BY DEF Queues
<1>2. PICK q \in [H -> Seq(E)] : WellLinkedAs(m, H, E, q)
  BY <1>1, WellLinkedIff
<1>3. \A h \in H : q[h] \in Seq(E) /\ NoRepeat(q[h]) /\ Represents(m, h, q[h])
  BY <1>2 DEF WellLinkedAs
<1>4. \A h \in H : Contents(m, h, E) = q[h]
  BY <1>1, <1>3, ContentsIs
<1> QED
  BY <1>2, <1>4

\* The contents of a linked queue, its elements, its first and its next pointers.
LEMMA ContentsChain ==
  ASSUME NEW m, NEW C, NEW E, NEW H, Queues(m, C, H, E), NEW h \in H,
         NEW s, s = Contents(m, h, E)
  PROVE  /\ s \in Seq(E) /\ NoRepeat(s) /\ Visited(m, h, E) = Items(s)
         /\ TAILQ_FIRST(m, h) = IF s = <<>> THEN NULL ELSE s[1]
         /\ \A i \in 1 .. Len(s) : TAILQ_NEXT(m, s[i]) = IF i = Len(s) THEN NULL ELSE s[i + 1]
<1>1. PICK q \in [H -> Seq(E)] : /\ WellLinkedAs(m, H, E, q)
                                 /\ \A g \in H : Contents(m, g, E) = q[g]
  BY ContentsLinked
<1>2. s \in Seq(E) /\ NoRepeat(s) /\ Represents(m, h, s)
  BY <1>1 DEF WellLinkedAs
<1>3. Visited(m, h, E) = Items(s)
  BY <1>2, VisitedIsItems DEF Queues
<1> QED
  BY <1>2, <1>3 DEF Represents, TAILQ_FIRST, TAILQ_NEXT

LEMMA InitOrder ==
  ASSUME NEW m, NEW C, NEW E, NEW H, Queues(m, C, H, E),
         NEW h \in C, h \notin H, h \notin E
  PROVE  /\ Contents(TAILQ_INIT(m, h), h, E) = <<>>
         /\ \A g \in H : Contents(TAILQ_INIT(m, h), g, E) = Contents(m, g, E)
<1> DEFINE n == TAILQ_INIT(m, h)
<1>0. /\ E \in SUBSET C /\ IsFiniteSet(E) /\ NULL \notin E /\ IsMemory(m, C, E)
      /\ H \in SUBSET C /\ H \cap E = {} /\ WellLinked(m, H, E)
  BY DEF Queues
<1>1. PICK q \in [H -> Seq(E)] : /\ WellLinkedAs(m, H, E, q)
                                 /\ \A g \in H : Contents(m, g, E) = q[g]
  BY ContentsLinked
<1> DEFINE p == [g \in H \union {h} |-> IF g = h THEN <<>> ELSE q[g]]
<1>2. WellLinkedAs(n, H \union {h}, E, p)
  BY <1>0, <1>1, InitLinks
<1>3. \A g \in H \union {h} : p[g] \in Seq(E) /\ NoRepeat(p[g]) /\ Represents(n, g, p[g])
  BY <1>2 DEF WellLinkedAs
<1>4. p[h] = <<>> /\ \A g \in H : p[g] = q[g]
  OBVIOUS
<1> HIDE DEF n, p
<1>5. \A g \in H \union {h} : Contents(n, g, E) = p[g]
  BY <1>0, <1>3, ContentsIs
<1> QED
  BY <1>1, <1>4, <1>5 DEF n

LEMMA InsertTailOrder ==
  ASSUME NEW m, NEW C, NEW E, NEW H, Queues(m, C, H, E),
         NEW h \in H, NEW e \in E, \A g \in H : e \notin Visited(m, g, E)
  PROVE  /\ Contents(TAILQ_INSERT_TAIL(m, h, e), h, E) = Append(Contents(m, h, E), e)
         /\ \A g \in H : g # h => Contents(TAILQ_INSERT_TAIL(m, h, e), g, E) = Contents(m, g, E)
<1> DEFINE n == TAILQ_INSERT_TAIL(m, h, e)
<1>0. /\ E \in SUBSET C /\ IsFiniteSet(E) /\ NULL \notin E /\ IsMemory(m, C, E)
      /\ H \in SUBSET C /\ H \cap E = {} /\ WellLinked(m, H, E)
  BY DEF Queues
<1>1. PICK q \in [H -> Seq(E)] : /\ WellLinkedAs(m, H, E, q)
                                 /\ \A g \in H : Contents(m, g, E) = q[g]
  BY ContentsLinked
<1>2. \A g \in H : e \notin Items(q[g])
  BY <1>1, ContentsChain
<1> DEFINE p == [q EXCEPT ![h] = Append(q[h], e)]
<1>3. p \in [H -> Seq(E)] /\ p[h] = Append(q[h], e) /\ \A g \in H : g # h => p[g] = q[g]
  <2>1. Append(q[h], e) \in Seq(E)
    OBVIOUS
  <2> QED
    BY <2>1
<1> HIDE DEF n, p
<1>4. WellLinkedAs(n, H, E, p)
  <2>1. Changed(p, q, H, E, h, Append(q[h], e))
    BY <1>3 DEF Changed
  <2> QED
    BY <1>0, <1>1, <1>2, <2>1, InsertTailLinks DEF n
<1>5. \A g \in H : p[g] \in Seq(E) /\ NoRepeat(p[g]) /\ Represents(n, g, p[g])
  BY <1>4 DEF WellLinkedAs
<1>6. \A g \in H : Contents(n, g, E) = p[g]
  BY <1>0, <1>5, ContentsIs
<1> QED
  BY <1>1, <1>3, <1>6 DEF n

LEMMA RemoveOrder ==
  ASSUME NEW m, NEW C, NEW E, NEW H, Queues(m, C, H, E),
         NEW h \in H, NEW e \in Visited(m, h, E)
  PROVE  /\ Contents(TAILQ_REMOVE(m, h, e), h, E) = Without(Contents(m, h, E), e)
         /\ \A g \in H : g # h => Contents(TAILQ_REMOVE(m, h, e), g, E) = Contents(m, g, E)
<1> DEFINE n == TAILQ_REMOVE(m, h, e)
<1>0. /\ E \in SUBSET C /\ IsFiniteSet(E) /\ NULL \notin E /\ IsMemory(m, C, E)
      /\ H \in SUBSET C /\ H \cap E = {} /\ WellLinked(m, H, E)
  BY DEF Queues
<1>1. PICK q \in [H -> Seq(E)] : /\ WellLinkedAs(m, H, E, q)
                                 /\ \A g \in H : Contents(m, g, E) = q[g]
  BY ContentsLinked
<1>2. e \in Items(q[h]) /\ q[h] \in Seq(E) /\ NoRepeat(q[h])
  BY <1>1, ContentsChain
<1> DEFINE p == [q EXCEPT ![h] = Without(q[h], e)]
<1>3. p \in [H -> Seq(E)] /\ p[h] = Without(q[h], e) /\ \A g \in H : g # h => p[g] = q[g]
  <2>1. PICK k \in 1 .. Len(q[h]) : e = q[h][k]
    BY <1>2 DEF Items
  <2>2. Without(q[h], e) \in Seq(E)
    BY <1>2, <2>1, WithoutItem
  <2> QED
    BY <2>2
<1> HIDE DEF n, p
<1>4. WellLinkedAs(n, H, E, p)
  <2>1. Changed(p, q, H, E, h, Without(q[h], e))
    BY <1>3 DEF Changed
  <2> QED
    BY <1>0, <1>1, <1>2, <2>1, RemoveLinks DEF n
<1>5. \A g \in H : p[g] \in Seq(E) /\ NoRepeat(p[g]) /\ Represents(n, g, p[g])
  BY <1>4 DEF WellLinkedAs
<1>6. \A g \in H : Contents(n, g, E) = p[g]
  BY <1>0, <1>5, ContentsIs
<1> QED
  BY <1>1, <1>3, <1>6 DEF n

\* The contents of the two queues between which an element moves, and of the others.
LEMMA RemoveInsertOrder ==
  ASSUME NEW m, NEW C, NEW E, NEW H, Queues(m, C, H, E),
         NEW g \in H, NEW h \in H, g # h, NEW e \in Visited(m, g, E)
  PROVE  LET n == TAILQ_INSERT_TAIL(TAILQ_REMOVE(m, g, e), h, e)
         IN  /\ Contents(n, g, E) = Without(Contents(m, g, E), e)
             /\ Contents(n, h, E) = Append(Contents(m, h, E), e)
             /\ \A f \in H : f # g /\ f # h => Contents(n, f, E) = Contents(m, f, E)
<1> DEFINE r == TAILQ_REMOVE(m, g, e)
           n == TAILQ_INSERT_TAIL(r, h, e)
<1>0. e \in E
  BY DEF Visited
<1>1. /\ Queues(r, C, H, E)
      /\ Visited(r, g, E) = Visited(m, g, E) \ {e}
      /\ \A f \in H : f # g => Visited(r, f, E) = Visited(m, f, E)
  BY RemoveKeeps
<1>2. /\ Contents(r, g, E) = Without(Contents(m, g, E), e)
      /\ \A f \in H : f # g => Contents(r, f, E) = Contents(m, f, E)
  BY RemoveOrder
<1>3. \A f \in H : e \notin Visited(r, f, E)
  BY <1>1 DEF Queues, WellLinked
<1> HIDE DEF r
<1>4. /\ Contents(n, h, E) = Append(Contents(r, h, E), e)
      /\ \A f \in H : f # h => Contents(n, f, E) = Contents(r, f, E)
  BY <1>0, <1>1, <1>3, InsertTailOrder
<1> HIDE DEF n
<1>5. /\ Contents(n, g, E) = Without(Contents(m, g, E), e)
      /\ Contents(n, h, E) = Append(Contents(m, h, E), e)
      /\ \A f \in H : f # g /\ f # h => Contents(n, f, E) = Contents(m, f, E)
  BY <1>2, <1>4
<1> QED
  BY <1>5 DEF n, r

-----------------------------------------------------------------------------
(***************************************************************************)
(* The event context.                                                      *)
(***************************************************************************)

\* Where the pointers of the two memories lead.
LEMMA Cells ==
  /\ FdHeads \subseteq FdCells /\ FdRec \subseteq FdCells
  /\ NotiHeads \subseteq NotiCells /\ FdRec \subseteq NotiCells /\ Noti \subseteq NotiCells
  /\ "fd_q" \in FdHeads /\ "spare_fd_q" \in FdHeads /\ FdHeads \cap FdRec = {}
  /\ "noti_q" \in NotiHeads /\ "spare_noti_q" \in NotiHeads /\ NotiHeads \cap Noti = {}
  /\ NotiHeads \cap FdRec = {} /\ FdRec \cap Noti = {}
  /\ NULL \notin FdRec /\ NULL \notin Noti /\ IsFiniteSet(FdRec) /\ IsFiniteSet(Noti)
  /\ "fd_q" # "spare_fd_q" /\ "noti_q" # "spare_noti_q"
BY PoolsAssumption DEF FdHeads, NotiHeads, FdCells, NotiCells

\* The pointers of the two memories are of their types.
Pointers ==
  /\ IsMemory(fdm, FdCells, FdRec)
  /\ IsMemory(notim, NotiCells, Noti)

LEMMA TypeOKPointers == TypeOK => Pointers
BY DEF TypeOK, Pointers, IsMemory

LEMMA InsertTailType ==
  ASSUME NEW C, NEW E \in SUBSET C, NEW m, IsMemory(m, C, E), NEW h \in C, NEW e \in E
  PROVE  IsMemory(TAILQ_INSERT_TAIL(m, h, e), C, E)
BY DEF IsMemory, TAILQ_INSERT_TAIL

LEMMA RemoveType ==
  ASSUME NEW C, NEW E \in SUBSET C, NEW m, IsMemory(m, C, E), NEW h \in C, NEW e \in E
  PROVE  IsMemory(TAILQ_REMOVE(m, h, e), C, E)
BY DEF IsMemory, TAILQ_REMOVE

LEMMA InitType ==
  ASSUME NEW C, NEW E \in SUBSET C, NEW m, IsMemory(m, C, E), NEW h \in C
  PROVE  IsMemory(TAILQ_INIT(m, h), C, E)
BY DEF IsMemory, TAILQ_INIT

LEMMA MoveType ==
  ASSUME NEW C, NEW E \in SUBSET C, NEW m, IsMemory(m, C, E),
         NEW g \in C, NEW h \in C, NEW e \in E
  PROVE  IsMemory(Move(m, g, h, e), C, E)
BY RemoveType, InsertTailType DEF Move

\* One item of a sequence is overwritten.
LEMMA ExceptSeq ==
  ASSUME NEW S, NEW s \in Seq(S), NEW i, NEW v, i \in 1 .. Len(s) => v \in S
  PROVE  [s EXCEPT ![i] = v] \in Seq(S)
<1>1. Len(s) \in Nat /\ s \in [1 .. Len(s) -> S]
  OBVIOUS
<1>2. [s EXCEPT ![i] = v] \in [1 .. Len(s) -> S]
  BY <1>1
<1> QED
  BY <1>1, <1>2

LEMMA FindType ==
  ASSUME Pointers, NEW fd
  PROVE  /\ fd_q_find(fd) \in FdRec \union {NULL}
         /\ fd # -1 => fd_q_find(fd) \in FdQueue \union {NULL}
<1>1. FdQueue \subseteq FdRec
  BY DEF FdQueue, Visited
<1>2. TAILQ_FIRST(fdm, "fd_q") \in FdRec \union {NULL}
  BY Cells DEF Pointers, IsMemory, TAILQ_FIRST
<1>3. fd # -1 => fd_q_find(fd) \in FdQueue \union {NULL}
  BY DEF fd_q_find, Find, FdQueue
<1> QED
  BY <1>1, <1>2, <1>3 DEF fd_q_find, Find

\* What a spare queue or malloc gives.
LEMMA ObtainType ==
  ASSUME NEW C, NEW E \in SUBSET C, NEW m, IsMemory(m, C, E), NEW h \in C,
         NEW o \in Obtain(m, h, E)
  PROVE  /\ o.rec \in E \union {NULL} /\ IsMemory(o.m, C, E)
         /\ TAILQ_EMPTY(m, h) /\ o.rec # NULL => o.rec \notin alloc
         /\ TAILQ_EMPTY(m, h) => o.m = m
         /\ ~ TAILQ_EMPTY(m, h) => /\ o.rec = TAILQ_FIRST(m, h)
                                   /\ o.m = TAILQ_REMOVE(m, h, TAILQ_FIRST(m, h))
<1>1. CASE TAILQ_EMPTY(m, h)
  <2>1. PICK x \in {NULL} \union (IF E \subseteq alloc THEN {}
                                  ELSE { CHOOSE y \in E \ alloc : TRUE }) :
              o = [rec |-> x, m |-> m]
    BY <1>1 DEF Obtain
  <2>2. x = NULL \/ x \in E \ alloc
    BY <2>1
  <2> QED
    BY <2>1, <2>2, <1>1
<1>2. CASE ~ TAILQ_EMPTY(m, h)
  <2>1. o = [rec |-> TAILQ_FIRST(m, h), m |-> TAILQ_REMOVE(m, h, TAILQ_FIRST(m, h))]
    BY <1>2 DEF Obtain
  <2>2. TAILQ_FIRST(m, h) \in E
    BY <1>2 DEF TAILQ_EMPTY, TAILQ_FIRST, IsMemory
  <2> QED
    BY <1>2, <2>1, <2>2, RemoveType
<1> QED
  BY <1>1, <1>2

LEMMA ObtainNotiType ==
  ASSUME Pointers, NEW n \in ObtainNoti
  PROVE  n.rec \in Noti \union {NULL} /\ IsMemory(n.m, NotiCells, Noti)
BY ObtainType, Cells DEF Pointers, ObtainNoti

LEMMA ObtainFdType ==
  ASSUME Pointers, NEW fd, NEW f \in ObtainFd(fd)
  PROVE  f.rec \in FdRec \union {NULL} /\ IsMemory(f.m, FdCells, FdRec)
<1>1. CASE fd_q_find(fd) # NULL
  BY <1>1, FindType DEF Pointers, ObtainFd
<1>2. CASE fd_q_find(fd) = NULL
  <2>1. f \in Obtain(fdm, "spare_fd_q", FdRec)
    BY <1>2 DEF ObtainFd
  <2> QED
    BY <2>1, ObtainType, Cells DEF Pointers
<1> QED
  BY <1>1, <1>2

-----------------------------------------------------------------------------
(***************************************************************************)
(* Type correctness.                                                       *)
(***************************************************************************)

\* TypeOK but for the pointers.
Event == [fd : Int, cb : STRING \union {NULL}, cbarg : Nat, ev_wait : SUBSET Kinds,
          due : Nat \union {INFINITE}, ev_noti : SUBSET (Kinds \union {"time"})]

FieldsOK ==
  /\ fdno \in [FdRec -> Int]
  /\ noti \in [Noti -> Event]
  /\ alloc \subseteq FdRec \union Noti
  /\ now \in Nat /\ errors \in Nat /\ corrupt \in BOOLEAN
  /\ ready \subseteq Int \X Kinds

Frame == [fdmax : Int, sets : SUBSET (Int \X Kinds), until : Nat \union {INFINITE},
          ts : Nat, ev_fd : FdRec \union {NULL}, ev_noti : Noti \union {NULL},
          triggered : SUBSET Kinds]

LoopOK ==
  /\ pc \in {"idle", "select", "clock", "collect", "dispatch", "cb", "hung",
             "free_fd", "free_spare_fd", "free_noti", "free_spare_noti", "gone", "dead"}
  /\ loop \in Frame
  /\ IsFiniteSet(loop.sets)
  /\ pc = "collect" => loop.ev_fd # NULL

CallOK == call \in [fd : Int, cb : STRING \union {NULL}, triggered : SUBSET (Kinds \union {"time"}), cbarg : Nat]

Registration == [req : Requests, due : Nat \union {INFINITE}, ev : Noti,
                 st : {"armed", "pending", "done", "cancelled"}]

RegsOK == regs \in Seq(Registration)

LEMMA TypeOKParts == TypeOK <=> Pointers /\ FieldsOK /\ LoopOK /\ CallOK /\ RegsOK
<1>1. Pointers <=> /\ fdm.ptr \in [FdCells -> FdRec \union {NULL}]
                   /\ fdm.back \in [FdCells -> FdCells]
                   /\ notim.ptr \in [NotiCells -> Noti \union {NULL}]
                   /\ notim.back \in [NotiCells -> NotiCells]
  BY DEF Pointers, IsMemory
<1> QED
  BY <1>1 DEF TypeOK, FieldsOK, Event, LoopOK, Frame, CallOK, RegsOK, Registration

LEMMA TypeOKPartsNext == TypeOK' <=> Pointers' /\ FieldsOK' /\ LoopOK' /\ CallOK' /\ RegsOK'
BY TypeOKParts, PTL

LEMMA InitTypeOK == Init => TypeOK
<1> SUFFICES ASSUME Init PROVE TypeOK
  OBVIOUS
<1>1. Pointers
  BY Cells DEF Init, Pointers, IsMemory
<1>2. FieldsOK
  <2>1. NoNoti \in Event
    BY DEF NoNoti, Event
  <2>2. noti \in [Noti -> Event]
    BY <2>1 DEF Init
  <2>3. fdno \in [FdRec -> Int]
    BY DEF Init
  <2> QED
    BY <2>2, <2>3 DEF Init, FieldsOK, Event
<1>3. LoopOK
  BY FS_EmptySet DEF Init, LoopOK, Frame, NoFrame
<1>4. CallOK /\ RegsOK
  BY DEF Init, CallOK, RegsOK, NoCall
<1> QED
  BY <1>1, <1>2, <1>3, <1>4, TypeOKParts

\* Changing the state of a registration keeps the type of regs.
LEMMA RegsStType ==
  ASSUME RegsOK, NEW i, NEW st,
         i \in 1 .. Len(regs) => st \in {"armed", "pending", "done", "cancelled"}
  PROVE  [regs EXCEPT ![i].st = st] \in Seq(Registration)
<1> DEFINE v == [regs[i] EXCEPT !.st = st]
<1>1. i \in 1 .. Len(regs) => v \in Registration
  <2> SUFFICES ASSUME i \in 1 .. Len(regs) PROVE v \in Registration
    OBVIOUS
  <2>1. regs[i] \in Registration
    BY DEF RegsOK
  <2> QED
    BY <2>1 DEF Registration
<1> HIDE DEF v
<1>2. [regs EXCEPT ![i] = v] \in Seq(Registration)
  BY <1>1, ExceptSeq DEF RegsOK
<1> QED
  BY <1>2 DEF v

LEMMA PutTypeOK ==
  ASSUME TypeOK, NEW r \in Requests, aloe_ev_put(r)
  PROVE  TypeOK'
<1>0. Pointers /\ FieldsOK /\ LoopOK /\ CallOK /\ RegsOK
  BY TypeOKParts
<1>1. PICK f \in ObtainFd(r.fd), n \in ObtainNoti :
        /\ f.rec # NULL /\ n.rec # NULL
        /\ IF fd_q_find(r.fd) # NULL
           THEN /\ UNCHANGED <<fdm, fdno>>
                /\ notim' = TAILQ_INSERT_TAIL(n.m, f.rec, n.rec)
           ELSE /\ fdm' = TAILQ_INSERT_TAIL(f.m, "fd_q", f.rec)
                /\ fdno' = [fdno EXCEPT ![f.rec] = r.fd]
                /\ notim' = TAILQ_INSERT_TAIL(TAILQ_INIT(n.m, f.rec), f.rec, n.rec)
        /\ noti' = [noti EXCEPT ![n.rec] =
                      [fd |-> r.fd, cb |-> r.cb, cbarg |-> Len(regs) + 1, ev_wait |-> r.ev_wait,
                       due |-> Due(r), ev_noti |-> @.ev_noti]]
        /\ alloc' = alloc \union {f.rec, n.rec}
        /\ regs' = Append(regs, [req |-> r, due |-> Due(r), ev |-> n.rec, st |-> "armed"])
        /\ UNCHANGED <<now, ready, pc, loop, call, errors, corrupt>>
  BY DEF aloe_ev_put
<1>2. /\ f.rec \in FdRec /\ IsMemory(f.m, FdCells, FdRec)
      /\ n.rec \in Noti /\ IsMemory(n.m, NotiCells, Noti)
  BY <1>0, <1>1, ObtainFdType, ObtainNotiType
<1>3. r \in Request /\ Due(r) \in Nat \union {INFINITE}
  BY <1>0, RequestsAssumption DEF Request, Due, FieldsOK, Event
<1>4. IsMemory(TAILQ_INSERT_TAIL(n.m, f.rec, n.rec), NotiCells, Noti)
  BY <1>2, InsertTailType, Cells
<1>5. IsMemory(TAILQ_INIT(n.m, f.rec), NotiCells, Noti)
  BY <1>2, InitType, Cells
<1>6. IsMemory(TAILQ_INSERT_TAIL(TAILQ_INIT(n.m, f.rec), f.rec, n.rec), NotiCells, Noti)
  BY <1>2, <1>5, InsertTailType, Cells
<1>7. IsMemory(TAILQ_INSERT_TAIL(f.m, "fd_q", f.rec), FdCells, FdRec)
  BY <1>2, InsertTailType, Cells
<1>8. Pointers'
  BY <1>0, <1>1, <1>4, <1>6, <1>7 DEF Pointers
<1>9. Len(regs) \in Nat
  BY <1>0 DEF RegsOK
<1>10. FieldsOK'
  <2>1. fdno' \in [FdRec -> Int]
    BY <1>0, <1>1, <1>2, <1>3 DEF FieldsOK, Event, Request
  <2>2. noti' \in [Noti -> Event]
    BY <1>0, <1>1, <1>2, <1>3, <1>9 DEF FieldsOK, Event, Request
  <2> QED
    BY <1>0, <1>1, <1>2, <2>1, <2>2 DEF FieldsOK, Event
<1>11. LoopOK' /\ CallOK'
  BY <1>0, <1>1 DEF LoopOK, Frame, CallOK
<1>12. RegsOK'
  <2>1. [req |-> r, due |-> Due(r), ev |-> n.rec, st |-> "armed"] \in Registration
    BY <1>2, <1>3 DEF Registration
  <2> QED
    BY <1>0, <1>1, <2>1 DEF RegsOK
<1> QED
  BY <1>8, <1>10, <1>11, <1>12, TypeOKPartsNext

LEMMA PutNoMemoryTypeOK ==
  ASSUME TypeOK, NEW r \in Requests, PutNoMemory(r)
  PROVE  TypeOK'
<1>0. Pointers /\ FieldsOK /\ LoopOK /\ CallOK /\ RegsOK
  BY TypeOKParts
<1>1. PICK f \in ObtainFd(r.fd) :
        /\ f.rec # NULL
        /\ fdm' = TAILQ_INSERT_TAIL(f.m, "spare_fd_q", f.rec)
        /\ alloc' = alloc \union {f.rec}
        /\ UNCHANGED <<notim, fdno, noti, now, ready, pc, loop, call, regs, errors, corrupt>>
  BY DEF PutNoMemory
<1>2. f.rec \in FdRec /\ IsMemory(f.m, FdCells, FdRec)
  BY <1>0, <1>1, ObtainFdType
<1>3. Pointers'
  BY <1>0, <1>1, <1>2, InsertTailType, Cells DEF Pointers
<1>4. FieldsOK' /\ LoopOK' /\ CallOK' /\ RegsOK'
  BY <1>0, <1>1, <1>2 DEF FieldsOK, Event, LoopOK, Frame, CallOK, RegsOK
<1> QED
  BY <1>3, <1>4, TypeOKPartsNext

LEMMA CancelTypeOK ==
  ASSUME TypeOK, NEW i \in 1 .. Len(regs), CancelArmed(i) \/ CancelPending(i) \/ CancelMiss(i)
  PROVE  TypeOK'
<1>0. Pointers /\ FieldsOK /\ LoopOK /\ CallOK /\ RegsOK
  BY TypeOKParts
<1>1. regs[i] \in Registration
  BY <1>0 DEF RegsOK
<1> DEFINE n == regs[i].ev
<1>2. n \in Noti
  BY <1>1 DEF Registration
<1> HIDE DEF n
<1>3. CancelCall(i)
  BY DEF CancelArmed, CancelPending, CancelMiss
<1>4. RegsOK'
  <2> DEFINE st == IF regs[i].st = "done" THEN regs[i].st ELSE "cancelled"
  <2>1. regs' = [regs EXCEPT ![i].st = st]
    BY <1>3 DEF CancelCall
  <2>2. st \in {"armed", "pending", "done", "cancelled"}
    OBVIOUS
  <2> HIDE DEF st
  <2> QED
    BY <2>1, <2>2, <1>0, RegsStType DEF RegsOK
<1>5. UNCHANGED <<fdno, noti, alloc, now, ready, loop, call, errors>>
  BY <1>3 DEF CancelCall
<1>6. CallOK'
  BY <1>0, <1>5 DEF CallOK
<1>7. IsMemory(TAILQ_INSERT_TAIL(notim, "spare_noti_q", n), NotiCells, Noti)
  BY <1>0, <1>2, InsertTailType, Cells DEF Pointers
<1>8. CASE CancelArmed(i)
  <2>1. PICK f \in SearchedFirst(n) :
          /\ Recycle(f, n)
          /\ fdm' = IF TAILQ_EMPTY(notim', f)
                    THEN Move(fdm, "fd_q", "spare_fd_q", f) ELSE fdm
    BY <1>8 DEF CancelArmed, n
  <2>2. f \in FdRec
    BY <1>0, FindType DEF SearchedFirst
  <2>3. IsMemory(Move(fdm, "fd_q", "spare_fd_q", f), FdCells, FdRec)
    BY <1>0, <2>2, MoveType, Cells DEF Pointers
  <2>4. Pointers'
    BY <1>0, <1>7, <2>1, <2>3 DEF Pointers, Recycle
  <2>5. FieldsOK' /\ LoopOK'
    BY <1>0, <1>5, <2>1 DEF FieldsOK, Event, LoopOK, Frame, Recycle
  <2> QED
    BY <1>4, <1>6, <2>4, <2>5, TypeOKPartsNext
<1>9. CASE CancelPending(i)
  <2>1. Recycle("noti_q", n) /\ UNCHANGED fdm
    BY <1>9 DEF CancelPending, n
  <2>2. Pointers'
    BY <1>0, <1>7, <2>1 DEF Pointers, Recycle
  <2>3. FieldsOK' /\ LoopOK'
    BY <1>0, <1>5, <2>1 DEF FieldsOK, Event, LoopOK, Frame, Recycle
  <2> QED
    BY <1>4, <1>6, <2>2, <2>3, TypeOKPartsNext
<1>10. CASE CancelMiss(i)
  <2>1. UNCHANGED <<fdm, notim, corrupt>> /\ pc' \in {"hung", pc}
    BY <1>10 DEF CancelMiss
  <2>2. Pointers'
    BY <1>0, <2>1 DEF Pointers
  <2>3. FieldsOK' /\ LoopOK'
    BY <1>0, <1>5, <2>1 DEF FieldsOK, Event, LoopOK, Frame
  <2> QED
    BY <1>4, <1>6, <2>2, <2>3, TypeOKPartsNext
<1> QED
  BY <1>8, <1>9, <1>10

\* The image of a finite set is finite.  (FS_Image says so of operators.)
LEMMA FiniteImage ==
  ASSUME NEW S, IsFiniteSet(S), NEW f
  PROVE  IsFiniteSet({ f[x] : x \in S })
<1> DEFINE T == { f[x] : x \in S }
           g == [x \in S |-> f[x]]
<1>1. g \in Surjection(S, T)
  BY DEF Surjection
<1> QED
  BY <1>1, FS_Surjection

LEMMA FiniteKinds == \A K \in SUBSET Kinds : IsFiniteSet(K) /\ Cardinality(K) \in Nat
<1>1. IsFiniteSet({"read"})
  BY FS_Singleton
<1>2. IsFiniteSet({"read"} \union {"write"})
  BY <1>1, FS_AddElement
<1>3. IsFiniteSet(({"read"} \union {"write"}) \union {"except"})
  BY <1>2, FS_AddElement
<1>4. Kinds = ({"read"} \union {"write"}) \union {"except"}
  BY DEF Kinds
<1>5. IsFiniteSet(Kinds)
  BY <1>3, <1>4
<1> QED
  BY <1>5, FS_Subset, FS_CardinalityType

LEMMA SelectTimeoutType ==
  ASSUME TypeOK, NEW due \in Nat \union {INFINITE}, NEW fdmax \in Int
  PROVE  SelectTimeout(due, fdmax) \in Nat \union {INFINITE}
<1>1. now \in Nat /\ TICK \in Nat \ {0} /\ BusyWait \in Nat
  BY BoundsAssumption DEF TypeOK
<1> DEFINE wait == IF due # INFINITE THEN (IF now < due THEN (due - now) \div TICK ELSE 0)
                   ELSE IF fdmax = -1 THEN 0 ELSE INFINITE
<1>2. ASSUME due # INFINITE, now < due
      PROVE  (due - now) \div TICK \in Nat
  <2> DEFINE d == due - now
  <2>1. d \in Nat
    BY <1>1, <1>2
  <2> HIDE DEF d
  <2>2. d \div TICK \in Nat
    BY <1>1, <2>1
  <2> QED
    BY <2>2 DEF d
<1>3. wait \in Nat \union {INFINITE}
  BY <1>2
<1> HIDE DEF wait
<1>4. (IF wait # INFINITE /\ wait < BusyWait THEN BusyWait ELSE wait) \in Nat \union {INFINITE}
  BY <1>1, <1>3
<1> QED
  BY <1>4 DEF SelectTimeout, wait

LEMMA OnceBeginTypeOK ==
  ASSUME TypeOK, OnceBegin
  PROVE  TypeOK'
<1>0. Pointers /\ FieldsOK /\ LoopOK /\ CallOK /\ RegsOK
  BY TypeOKParts
<1> DEFINE fds   == Visited(fdm, "fd_q", FdRec)
           on(f) == Visited(notim, f, Noti)
           fdnos == { fdno[f] : f \in fds } \ {-1}
           dues  == (UNION { { noti[n].due : n \in on(f) } : f \in fds }) \ {INFINITE}
           sets  == { x \in fdnos \X Kinds :
                        \E f \in fds : /\ fdno[f] = x[1]
                                       /\ \E n \in on(f) : x[2] \in noti[n].ev_wait }
<1>1. UNCHANGED <<queues, now, ready, call, regs, errors, corrupt>>
  BY DEF OnceBegin
<1>2. Pointers' /\ FieldsOK' /\ CallOK' /\ RegsOK'
  BY <1>0, <1>1 DEF Pointers, FieldsOK, Event, CallOK, RegsOK, queues
<1>3. fds \subseteq FdRec /\ \A f \in fds : on(f) \subseteq Noti
  BY DEF Visited
<1>4. fdnos \subseteq Int /\ dues \subseteq Nat
  <2>1. fdnos \subseteq Int
    BY <1>0, <1>3 DEF FieldsOK, Event
  <2>2. \A n \in Noti : noti[n].due \in Nat \union {INFINITE}
    BY <1>0 DEF FieldsOK, Event
  <2>3. dues \subseteq Nat
    BY <1>3, <2>2
  <2> QED
    BY <2>1, <2>3
<1>5. IsFiniteSet(sets) /\ sets \subseteq Int \X Kinds
  <2>1. IsFiniteSet(fds)
    BY <1>3, Cells, FS_Subset
  <2>2. IsFiniteSet({ fdno[f] : f \in fds })
    BY <2>1, FiniteImage
  <2>3. IsFiniteSet(fdnos)
    BY <2>2, FS_Subset
  <2>4. IsFiniteSet(Kinds)
    BY FiniteKinds
  <2>5. IsFiniteSet(fdnos \X Kinds)
    BY <2>3, <2>4, FS_Product
  <2>6. sets \subseteq fdnos \X Kinds
    OBVIOUS
  <2> QED
    BY <2>5, <2>6, <1>4, FS_Subset
<1>6. CASE UNCHANGED loop /\ pc' = "hung"
  <2>1. LoopOK'
    BY <1>0, <1>6 DEF LoopOK, Frame
  <2> QED
    BY <1>2, <2>1, TypeOKPartsNext
<1>7. ASSUME NEW due \in IF dues = {} THEN {INFINITE} ELSE dues, NEW fdmax \in fdnos \union {-1},
             pc' = "select",
             loop' = [NoFrame EXCEPT
               !.fdmax = fdmax, !.sets = sets,
               !.until = LET wait == SelectTimeout(due, fdmax)
                         IN IF wait = INFINITE THEN INFINITE ELSE now + TICK * wait]
      PROVE  TypeOK'
  <2> DEFINE wait  == SelectTimeout(due, fdmax)
             until == IF wait = INFINITE THEN INFINITE ELSE now + TICK * wait
  <2>1. due \in Nat \union {INFINITE} /\ fdmax \in Int
    BY <1>4
  <2>2. wait \in Nat \union {INFINITE}
    BY <2>1, SelectTimeoutType
  <2> HIDE DEF wait
  <2>3. until \in Nat \union {INFINITE}
    <3>1. now \in Nat /\ TICK \in Nat
      BY <1>0, BoundsAssumption DEF FieldsOK, Event
    <3> QED
      BY <2>2, <3>1
  <2>4. loop' = [NoFrame EXCEPT !.fdmax = fdmax, !.sets = sets, !.until = until]
    BY <1>7 DEF wait
  <2> HIDE DEF until, sets
  <2>5. loop' = [fdmax |-> fdmax, sets |-> sets, until |-> until, ts |-> 0,
                 ev_fd |-> NULL, ev_noti |-> NULL, triggered |-> {}]
    BY <2>4 DEF NoFrame
  <2>6. LoopOK'
    BY <1>5, <1>7, <2>1, <2>3, <2>5 DEF LoopOK, Frame
  <2> QED
    BY <1>2, <2>6, TypeOKPartsNext
<1> QED
  <2>1. \/ UNCHANGED loop /\ pc' = "hung"
        \/ \E due \in IF dues = {} THEN {INFINITE} ELSE dues, fdmax \in fdnos \union {-1} :
             /\ pc' = "select"
             /\ loop' = [NoFrame EXCEPT
                  !.fdmax = fdmax, !.sets = sets,
                  !.until = LET wait == SelectTimeout(due, fdmax)
                            IN IF wait = INFINITE THEN INFINITE ELSE now + TICK * wait]
    BY DEF OnceBegin
  <2> QED
    BY <1>6, <1>7, <2>1

LEMMA SelectReturnTypeOK ==
  ASSUME TypeOK, SelectReturn
  PROVE  TypeOK'
<1>0. Pointers /\ FieldsOK /\ LoopOK /\ CallOK /\ RegsOK
  BY TypeOKParts
<1> DEFINE found == { x \in loop.sets \intersect ready : x[1] <= loop.fdmax }
<1>1. /\ pc' = "clock" /\ loop' = [loop EXCEPT !.sets = found, !.fdmax = Cardinality(found)]
      /\ UNCHANGED <<queues, now, ready, call, regs, errors, corrupt>>
  BY DEF SelectReturn
<1>2. Pointers' /\ FieldsOK' /\ CallOK' /\ RegsOK'
  BY <1>0, <1>1 DEF Pointers, FieldsOK, Event, CallOK, RegsOK, queues
<1>3. found \subseteq loop.sets
  OBVIOUS
<1> HIDE DEF found
<1>4. IsFiniteSet(found) /\ Cardinality(found) \in Nat
  BY <1>0, <1>3, FS_Subset, FS_CardinalityType DEF LoopOK, Frame
<1>5. loop' \in Frame /\ loop'.sets = found
  <2>1. loop \in Frame
    BY <1>0 DEF LoopOK
  <2>2. loop' = [fdmax |-> Cardinality(found), sets |-> found, until |-> loop.until,
                 ts |-> loop.ts, ev_fd |-> loop.ev_fd, ev_noti |-> loop.ev_noti,
                 triggered |-> loop.triggered]
    BY <1>1, <2>1 DEF Frame
  <2>3. found \in SUBSET (Int \X Kinds)
    BY <1>3, <2>1 DEF Frame
  <2> QED
    BY <1>4, <2>1, <2>2, <2>3 DEF Frame
<1>6. LoopOK'
  BY <1>1, <1>4, <1>5 DEF LoopOK, Frame
<1> QED
  BY <1>2, <1>6, TypeOKPartsNext

LEMMA EnterFdType ==
  ASSUME Pointers, NEW f \in FdRec \union {NULL},
         NEW l \in Frame,
         IsFiniteSet(l.sets), EnterFd(f, l)
  PROVE  LoopOK'
<1>1. CASE f = NULL
  BY <1>1, FS_EmptySet DEF EnterFd, LoopOK, Frame, NoFrame
<1>2. CASE f # NULL
  <2>1. TAILQ_FIRST(notim, f) \in Noti \union {NULL}
    BY <1>2, Cells DEF Pointers, IsMemory, TAILQ_FIRST
  <2> DEFINE t == Triggered(f, l)
  <2>2. t \in SUBSET Kinds
    BY DEF Triggered
  <2>3. Cardinality(t) \in Nat
    BY <2>2, FiniteKinds
  <2>4. /\ pc' = "collect"
        /\ loop' = [l EXCEPT !.ev_fd = f, !.ev_noti = TAILQ_FIRST(notim, f),
                             !.triggered = t, !.fdmax = @ - Cardinality(t)]
    BY <1>2 DEF EnterFd
  <2> HIDE DEF t
  <2>5. loop' \in Frame
    <3>1. l.fdmax - Cardinality(t) \in Int
      BY <2>3 DEF Frame
    <3>2. loop' = [fdmax |-> l.fdmax - Cardinality(t), sets |-> l.sets, until |-> l.until,
                   ts |-> l.ts, ev_fd |-> f, ev_noti |-> TAILQ_FIRST(notim, f),
                   triggered |-> t]
      BY <2>4 DEF Frame
    <3> QED
      BY <2>1, <2>2, <3>1, <3>2 DEF Frame
  <2>6. loop'.sets = l.sets /\ loop'.ev_fd = f
    BY <2>4 DEF Frame
  <2> QED
    BY <1>2, <2>4, <2>5, <2>6 DEF LoopOK, Frame
<1> QED
  BY <1>1, <1>2

LEMMA ReadClockTypeOK ==
  ASSUME TypeOK, ReadClock
  PROVE  TypeOK'
<1>0. Pointers /\ FieldsOK /\ LoopOK /\ CallOK /\ RegsOK
  BY TypeOKParts
<1>1. /\ EnterFd(TAILQ_FIRST(fdm, "fd_q"), [loop EXCEPT !.ts = now])
      /\ UNCHANGED <<queues, now, ready, call, regs, errors, corrupt>>
  BY DEF ReadClock
<1>2. Pointers' /\ FieldsOK' /\ CallOK' /\ RegsOK'
  BY <1>0, <1>1 DEF Pointers, FieldsOK, Event, CallOK, RegsOK, queues
<1>3. TAILQ_FIRST(fdm, "fd_q") \in FdRec \union {NULL}
  BY <1>0, Cells DEF Pointers, IsMemory, TAILQ_FIRST
<1> DEFINE l == [loop EXCEPT !.ts = now]
<1>4. /\ l \in Frame
      /\ IsFiniteSet(l.sets)
  BY <1>0 DEF LoopOK, Frame, FieldsOK, Event
<1> HIDE DEF l
<1>5. EnterFd(TAILQ_FIRST(fdm, "fd_q"), l)
  BY <1>1 DEF l
<1>6. LoopOK'
  BY <1>0, <1>3, <1>4, <1>5, EnterFdType
<1> QED
  BY <1>2, <1>6, TypeOKPartsNext

LEMMA CollectNotiTypeOK ==
  ASSUME TypeOK, CollectNoti
  PROVE  TypeOK'
<1>0. Pointers /\ FieldsOK /\ LoopOK /\ CallOK /\ RegsOK
  BY TypeOKParts
<1> DEFINE n == loop.ev_noti
           f == loop.ev_fd
<1>1. n \in Noti /\ f \in FdRec
  BY <1>0 DEF CollectNoti, LoopOK, Frame
<1>2. /\ noti' = [noti EXCEPT ![n].ev_noti = Notified(n)]
      /\ loop' = [loop EXCEPT !.ev_noti = TAILQ_NEXT(notim, n)]
      /\ UNCHANGED <<fdm, fdno, alloc, now, ready, pc, call, errors, corrupt>>
  BY DEF CollectNoti
<1>3. \/ UNCHANGED <<notim, regs>>
      \/ /\ notim' = Move(notim, f, "noti_q", n)
         /\ regs' = [regs EXCEPT ![noti[n].cbarg].st = IF @ = "armed" THEN "pending" ELSE @]
  BY DEF CollectNoti
<1> HIDE DEF n, f
<1>4. Notified(n) \subseteq Kinds \union {"time"}
  BY <1>0 DEF Notified, LoopOK, Frame
<1>5. FieldsOK'
  BY <1>0, <1>1, <1>2, <1>4 DEF FieldsOK, Event
<1>6. TAILQ_NEXT(notim, n) \in Noti \union {NULL}
  BY <1>0, <1>1, Cells DEF Pointers, IsMemory, TAILQ_NEXT
<1>7. LoopOK' /\ CallOK'
  BY <1>0, <1>2, <1>6 DEF LoopOK, Frame, CallOK
<1>8. Pointers'
  BY <1>0, <1>1, <1>2, <1>3, MoveType, Cells DEF Pointers
<1>9. RegsOK'
  <2> DEFINE i  == noti[n].cbarg
             st == IF regs[i].st = "armed" THEN "pending" ELSE regs[i].st
  <2>0. i \in 1 .. Len(regs) => regs[i] \in Registration
    BY <1>0 DEF RegsOK
  <2>1. i \in 1 .. Len(regs) => st \in {"armed", "pending", "done", "cancelled"}
    BY <2>0 DEF Registration
  <2>2. [regs EXCEPT ![i].st = st] \in Seq(Registration)
    BY <1>0, <2>1, RegsStType
  <2> QED
    BY <1>0, <1>3, <2>2 DEF RegsOK
<1> QED
  BY <1>5, <1>7, <1>8, <1>9, TypeOKPartsNext

LEMMA CollectFdTypeOK ==
  ASSUME TypeOK, CollectFd
  PROVE  TypeOK'
<1>0. Pointers /\ FieldsOK /\ LoopOK /\ CallOK /\ RegsOK
  BY TypeOKParts
<1> DEFINE f == loop.ev_fd
<1>1. f \in FdRec
  BY <1>0 DEF CollectFd, LoopOK, Frame
<1>2. /\ fdm' = IF TAILQ_EMPTY(notim, f) THEN Move(fdm, "fd_q", "spare_fd_q", f) ELSE fdm
      /\ EnterFd(TAILQ_NEXT(fdm, f), loop)
      /\ UNCHANGED <<notim, fdno, noti, alloc, now, ready, call, regs, errors, corrupt>>
  BY DEF CollectFd
<1>3. Pointers'
  BY <1>0, <1>1, <1>2, MoveType, Cells DEF Pointers
<1>4. FieldsOK' /\ CallOK' /\ RegsOK'
  BY <1>0, <1>2 DEF FieldsOK, Event, CallOK, RegsOK
<1>5. TAILQ_NEXT(fdm, f) \in FdRec \union {NULL}
  BY <1>0, <1>1, Cells DEF Pointers, IsMemory, TAILQ_NEXT
<1>6. LoopOK'
  BY <1>0, <1>2, <1>5, EnterFdType DEF LoopOK, Frame
<1> QED
  BY <1>3, <1>4, <1>6, TypeOKPartsNext

LEMMA DispatchTypeOK ==
  ASSUME TypeOK, Dispatch
  PROVE  TypeOK'
<1>0. Pointers /\ FieldsOK /\ LoopOK /\ CallOK /\ RegsOK
  BY TypeOKParts
<1> DEFINE n == TAILQ_FIRST(notim, "noti_q")
<1>1. n \in Noti
  BY <1>0, Cells DEF Dispatch, Pointers, IsMemory, TAILQ_FIRST
<1>2. /\ pc' = "cb"
      /\ notim' = Move(notim, "noti_q", "spare_noti_q", n)
      /\ call' = [fd |-> noti[n].fd, cb |-> noti[n].cb,
                  triggered |-> noti[n].ev_noti, cbarg |-> noti[n].cbarg]
      /\ regs' = [regs EXCEPT ![noti[n].cbarg].st = IF @ = "pending" THEN "done" ELSE @]
      /\ UNCHANGED <<fdm, fdno, noti, alloc, now, ready, loop, errors, corrupt>>
  BY DEF Dispatch
<1> HIDE DEF n
<1>3. Pointers'
  BY <1>0, <1>1, <1>2, MoveType, Cells DEF Pointers
<1>4. FieldsOK' /\ LoopOK'
  BY <1>0, <1>2 DEF FieldsOK, Event, LoopOK, Frame
<1>5. CallOK'
  BY <1>0, <1>1, <1>2 DEF FieldsOK, Event, CallOK
<1>6. RegsOK'
  <2> DEFINE i  == noti[n].cbarg
             st == IF regs[i].st = "pending" THEN "done" ELSE regs[i].st
  <2>0. i \in 1 .. Len(regs) => regs[i] \in Registration
    BY <1>0 DEF RegsOK
  <2>1. i \in 1 .. Len(regs) => st \in {"armed", "pending", "done", "cancelled"}
    BY <2>0 DEF Registration
  <2>2. [regs EXCEPT ![i].st = st] \in Seq(Registration)
    BY <1>0, <2>1, RegsStType
  <2> QED
    BY <1>2, <2>2 DEF RegsOK
<1> QED
  BY <1>3, <1>4, <1>5, <1>6, TypeOKPartsNext

LEMMA FreeNotiType ==
  ASSUME Pointers, NEW h \in NotiCells, FreeNoti(h)
  PROVE  IsMemory(notim', NotiCells, Noti) /\ alloc' \subseteq alloc /\ pc' \in {pc, "dead"}
<1> DEFINE n == TAILQ_FIRST(notim, h)
<1>1. n \in Noti
  BY DEF FreeNoti, Pointers, IsMemory, TAILQ_FIRST
<1>2. notim' = TAILQ_REMOVE(notim, h, n) /\ alloc' = alloc \ {n} /\ pc' \in {pc, "dead"}
  BY DEF FreeNoti
<1> HIDE DEF n
<1> QED
  BY <1>1, <1>2, RemoveType, Cells DEF Pointers

LEMMA FreeingTypeOK ==
  ASSUME TypeOK, Freeing
  PROVE  TypeOK'
<1>0. Pointers /\ FieldsOK /\ LoopOK /\ CallOK /\ RegsOK
  BY TypeOKParts
<1>1. CASE DestroyFd
  <2> DEFINE f == loop.ev_fd
             g == TAILQ_FIRST(fdm, "fd_q")
  <2>0. UNCHANGED <<fdno, noti, now, ready, call, regs, errors, corrupt>>
    BY <1>1 DEF DestroyFd
  <2>1. g \in FdRec \union {NULL} /\ f \in FdRec \union {NULL}
    BY <1>0, Cells DEF Pointers, IsMemory, TAILQ_FIRST, LoopOK, Frame
  <2>2. CASE /\ f = NULL /\ ~ TAILQ_EMPTY(fdm, "fd_q") /\ pc = "free_fd"
             /\ fdm' = TAILQ_REMOVE(fdm, "fd_q", g)
             /\ loop' = [loop EXCEPT !.ev_fd = g]
             /\ UNCHANGED <<notim, alloc, pc>>
    <3>1. g \in FdRec
      BY <2>1, <2>2 DEF TAILQ_EMPTY, TAILQ_FIRST
    <3> HIDE DEF g
    <3>2. Pointers'
      BY <1>0, <2>2, <3>1, RemoveType, Cells DEF Pointers
    <3>3. FieldsOK' /\ LoopOK' /\ CallOK' /\ RegsOK'
      BY <1>0, <2>0, <2>2, <3>1 DEF FieldsOK, Event, LoopOK, Frame, CallOK, RegsOK
    <3> QED
      BY <3>2, <3>3, TypeOKPartsNext
  <2>3. CASE pc' = "free_spare_fd" /\ UNCHANGED <<fdm, notim, alloc, loop>>
    <3>1. Pointers' /\ FieldsOK' /\ LoopOK' /\ CallOK' /\ RegsOK'
      BY <1>0, <2>0, <2>3 DEF Pointers, FieldsOK, Event, LoopOK, Frame, CallOK, RegsOK
    <3> QED
      BY <3>1, TypeOKPartsNext
  <2>4. CASE f # NULL /\ FreeNoti(f) /\ UNCHANGED <<fdm, loop>>
    <3>1. /\ IsMemory(notim', NotiCells, Noti) /\ alloc' \subseteq alloc
          /\ pc' \in {pc, "dead"}
      BY <1>0, <2>1, <2>4, FreeNotiType, Cells
    <3>2. Pointers' /\ FieldsOK' /\ LoopOK' /\ CallOK' /\ RegsOK'
      BY <1>0, <2>0, <2>4, <3>1 DEF Pointers, FieldsOK, Event, LoopOK, Frame, CallOK, RegsOK
    <3> QED
      BY <3>2, TypeOKPartsNext
  <2>5. CASE alloc' = alloc \ {f} /\ loop' = NoFrame /\ UNCHANGED <<fdm, notim, pc>> /\ pc = "free_fd"
    <3>1. LoopOK'
      BY <1>0, <2>5, FS_EmptySet DEF LoopOK, Frame, NoFrame
    <3>2. Pointers' /\ FieldsOK' /\ CallOK' /\ RegsOK'
      BY <1>0, <2>0, <2>5 DEF Pointers, FieldsOK, Event, CallOK, RegsOK
    <3> QED
      BY <3>1, <3>2, TypeOKPartsNext
  <2> QED
    BY <1>1, <2>2, <2>3, <2>4, <2>5 DEF DestroyFd
<1>2. CASE DestroySpareFd
  <2> DEFINE f == TAILQ_FIRST(fdm, "spare_fd_q")
  <2>1. /\ UNCHANGED <<notim, fdno, noti, now, ready, loop, call, regs, errors, corrupt>>
        /\ alloc' \subseteq alloc /\ pc' \in {"free_noti", pc, "dead"}
    BY <1>2 DEF DestroySpareFd
  <2>2. \/ fdm' = fdm
        \/ f # NULL /\ fdm' = TAILQ_REMOVE(fdm, "fd_q", f)
    BY <1>2 DEF DestroySpareFd
  <2>3. f \in FdRec \union {NULL}
    BY <1>0, Cells DEF Pointers, IsMemory, TAILQ_FIRST
  <2> HIDE DEF f
  <2>4. Pointers'
    BY <1>0, <2>1, <2>2, <2>3, RemoveType, Cells DEF Pointers
  <2>5. FieldsOK' /\ LoopOK' /\ CallOK' /\ RegsOK'
    BY <1>0, <2>1 DEF FieldsOK, Event, LoopOK, Frame, CallOK, RegsOK
  <2> QED
    BY <2>4, <2>5, TypeOKPartsNext
<1>3. CASE DestroyNoti
  <2>1. UNCHANGED <<fdm, fdno, noti, now, ready, loop, call, regs, errors, corrupt>>
    BY <1>3 DEF DestroyNoti
  <2>3. /\ IsMemory(notim', NotiCells, Noti) /\ alloc' \subseteq alloc
        /\ pc' \in {pc, "dead", "free_spare_noti", "gone"}
    <3>1. \/ \E h \in NotiHeads : FreeNoti(h)
          \/ pc' \in {"free_spare_noti", "gone"} /\ UNCHANGED <<notim, alloc>>
      BY <1>3, Cells DEF DestroyNoti
    <3>2. CASE \E h \in NotiHeads : FreeNoti(h)
      BY <1>0, <3>2, FreeNotiType, Cells
    <3> QED
      BY <1>0, <3>1, <3>2 DEF Pointers
  <2>4. Pointers' /\ FieldsOK' /\ LoopOK' /\ CallOK' /\ RegsOK'
    BY <1>0, <2>1, <2>3 DEF Pointers, FieldsOK, Event, LoopOK, Frame, CallOK, RegsOK
  <2> QED
    BY <2>4, TypeOKPartsNext
<1> QED
  BY <1>1, <1>2, <1>3 DEF Freeing

\* The steps that change neither the queues nor the registrations.
LEMMA OtherTypeOK ==
  ASSUME TypeOK,
         \/ OnceError \/ CbReturn \/ OnceReturn \/ DestroyBegin
         \/ Tick \/ Arrive \/ Stopped \/ UNCHANGED vars
  PROVE  TypeOK'
<1>0. Pointers /\ FieldsOK /\ LoopOK /\ CallOK /\ RegsOK
  BY TypeOKParts
<1>1. UNCHANGED <<fdm, notim, fdno, noti, alloc, regs, corrupt>>
  BY DEF OnceError, CbReturn, OnceReturn, DestroyBegin, Tick, Arrive, Stopped, vars, queues
<1>2. Pointers' /\ RegsOK'
  BY <1>0, <1>1 DEF Pointers, RegsOK
<1>3. now' \in Nat /\ errors' \in Nat /\ ready' \subseteq Int \X Kinds
  BY <1>0 DEF FieldsOK, Event, LoopOK, Frame, OnceError, CbReturn, OnceReturn, DestroyBegin, Tick, Arrive,
              Stopped, vars, queues
<1>4. FieldsOK'
  BY <1>0, <1>1, <1>3 DEF FieldsOK, Event
<1>5. CallOK'
  <2>1. call' = call \/ call' = NoCall
    BY DEF OnceError, CbReturn, OnceReturn, DestroyBegin, Tick, Arrive, Stopped, vars
  <2>2. NoCall \in [fd : Int, cb : STRING \union {NULL},
                    triggered : SUBSET (Kinds \union {"time"}), cbarg : Nat]
    BY DEF NoCall
  <2> QED
    BY <1>0, <2>1, <2>2 DEF CallOK
<1>6. LoopOK'
  <2>1. \/ UNCHANGED <<pc, loop>>
        \/ UNCHANGED loop /\ pc' \in {"idle", "dispatch", "free_fd"}
        \/ loop' = NoFrame /\ pc' = "idle"
    BY DEF OnceError, CbReturn, OnceReturn, DestroyBegin, Tick, Arrive, Stopped, vars
  <2>2. NoFrame \in Frame
    BY DEF NoFrame, Frame
  <2>3. IsFiniteSet(NoFrame.sets)
    BY FS_EmptySet DEF NoFrame
  <2> QED
    BY <1>0, <2>1, <2>2, <2>3 DEF LoopOK, Frame
<1> QED
  BY <1>2, <1>4, <1>5, <1>6, TypeOKPartsNext

LEMMA NextTypeOK == TypeOK /\ [Next]_vars => TypeOK'
<1> SUFFICES ASSUME TypeOK, [Next]_vars PROVE TypeOK'
  OBVIOUS
<1>1. CASE Client
  BY <1>1, PutTypeOK, PutNoMemoryTypeOK, CancelTypeOK, OtherTypeOK DEF Client
<1>2. CASE Once
  BY <1>2, OnceBeginTypeOK, SelectReturnTypeOK, ReadClockTypeOK, CollectNotiTypeOK,
     CollectFdTypeOK, DispatchTypeOK, OtherTypeOK DEF Once
<1>3. CASE Freeing
  BY <1>3, FreeingTypeOK
<1>4. CASE OnceError \/ Tick \/ Arrive \/ Stopped \/ UNCHANGED vars
  BY <1>4, OtherTypeOK
<1> QED
  BY <1>1, <1>2, <1>3, <1>4 DEF Next

\* Every variable keeps its type, and the collecting loop of aloe_ev_once always has a
\* record to work on: whatever registrations, withdrawals, failing mallocs and failing
\* system calls come in whatever order.
THEOREM TypeCorrect == Spec => []TypeOK
BY InitTypeOK, NextTypeOK, PTL DEF Spec

-----------------------------------------------------------------------------
(***************************************************************************)
(* The queues stay well linked.  FdQueuesOK and NotiQueuesOK are not       *)
(* inductive: aloe_ev_put takes a record that malloc returns for one that  *)
(* is on no queue, and the collecting loop takes the records its locals    *)
(* point at for ones that are still on theirs.                             *)
(***************************************************************************)

\* The records on spare_fd_q.
SpareFds == Visited(fdm, "spare_fd_q", FdRec)

\* fd_q, and the events on the queue of head h, first to last.
FdOrder  == Contents(fdm, "fd_q", FdRec)
Order(h) == Contents(notim, h, Noti)

FdInv ==
  Running =>
    /\ WellLinked(fdm, FdHeads, FdRec)
    /\ \A h \in FdHeads : Visited(fdm, h, FdRec) \subseteq alloc
    /\ pc = "collect" => loop.ev_fd \in FdQueue

NotiInv ==
  Running /\ ~ corrupt =>
    /\ WellLinked(notim, NotiHeads \union FdQueue, Noti)
    /\ \A h \in NotiHeads \union FdQueue : Events(h) \subseteq alloc
    /\ pc = "collect" => loop.ev_noti \in Events(loop.ev_fd) \union {NULL}

-----------------------------------------------------------------------------
LEMMA FdQueuesAre ==
  ASSUME TypeOK, WellLinked(fdm, FdHeads, FdRec)
  PROVE  Queues(fdm, FdCells, FdHeads, FdRec)
BY TypeOKPointers, Cells DEF Pointers, Queues

LEMMA NotiQueuesAre ==
  ASSUME TypeOK, WellLinked(notim, NotiHeads \union FdQueue, Noti)
  PROVE  Queues(notim, NotiCells, NotiHeads \union FdQueue, Noti)
<1>1. FdQueue \subseteq FdRec
  BY DEF FdQueue, Visited
<1> QED
  BY <1>1, TypeOKPointers, Cells DEF Pointers, Queues

\* fd_q_find returns a record of fd_q, or nothing.
LEMMA FindOnQueue ==
  ASSUME TypeOK, WellLinked(fdm, FdHeads, FdRec), NEW fd
  PROVE  fd_q_find(fd) \in FdQueue \union {NULL}
<1>1. TAILQ_FIRST(fdm, "fd_q") \in FdQueue \union {NULL}
  BY FdQueuesAre, FirstAndNext, Cells DEF FdQueue
<1>2. fd # -1 => fd_q_find(fd) \in FdQueue \union {NULL}
  BY FindType, TypeOKPointers
<1> QED
  BY <1>1, <1>2 DEF fd_q_find, Find

\* An element obtained from a spare queue or from malloc is on no queue.
LEMMA ObtainKeeps ==
  ASSUME NEW m, NEW C, NEW E, NEW H, Queues(m, C, H, E), NEW h \in H,
         \A g \in H : Visited(m, g, E) \subseteq alloc,
         NEW o \in Obtain(m, h, E), o.rec # NULL
  PROVE  /\ Queues(o.m, C, H, E) /\ o.rec \in E
         /\ \A g \in H : o.rec \notin Visited(o.m, g, E)
         /\ \A g \in H : Visited(o.m, g, E) \subseteq alloc
         /\ Visited(o.m, h, E) = Visited(m, h, E) \ {o.rec}
         /\ \A g \in H : g # h => /\ Visited(o.m, g, E) = Visited(m, g, E)
                                /\ Contents(o.m, g, E) = Contents(m, g, E)
                                /\ TAILQ_FIRST(o.m, g) = TAILQ_FIRST(m, g)
<1>0. E \subseteq C /\ H \subseteq C /\ IsMemory(m, C, E)
  BY DEF Queues
<1>1. /\ o.rec \in E
      /\ TAILQ_EMPTY(m, h) => o.rec \notin alloc /\ o.m = m
      /\ ~ TAILQ_EMPTY(m, h) => /\ o.rec = TAILQ_FIRST(m, h)
                                /\ o.m = TAILQ_REMOVE(m, h, o.rec)
  BY <1>0, ObtainType
<1>2. CASE TAILQ_EMPTY(m, h)
  BY <1>1, <1>2
<1>3. CASE ~ TAILQ_EMPTY(m, h)
  <2> DEFINE e == o.rec
             n == o.m
  <2>1. e = TAILQ_FIRST(m, h) /\ n = TAILQ_REMOVE(m, h, e) /\ e \in E
    BY <1>1, <1>3
  <2>2. e \in Visited(m, h, E)
    BY <2>1, FirstAndNext
  <2> HIDE DEF e, n
  <2>3. /\ Queues(n, C, H, E)
        /\ Visited(n, h, E) = Visited(m, h, E) \ {e}
        /\ \A g \in H : g # h => /\ Visited(n, g, E) = Visited(m, g, E)
                               /\ Contents(n, g, E) = Contents(m, g, E)
                               /\ TAILQ_FIRST(n, g) = TAILQ_FIRST(m, g)
    BY <2>1, <2>2, RemoveKeeps, RemoveFirst, RemoveOrder
  <2>4. \A g \in H : e \notin Visited(n, g, E)
    BY <2>2, <2>3 DEF Queues, WellLinked
  <2>5. \A g \in H : Visited(n, g, E) \subseteq alloc
    BY <2>3
  <2> QED
    BY <2>1, <2>3, <2>4, <2>5 DEF e, n
<1> QED
  BY <1>2, <1>3

\* A record taken into use, or put among the spare ones, by aloe_ev_put.
LEMMA AddFdRecord ==
  ASSUME TypeOK, FdInv, Running, NEW fd, fd_q_find(fd) = NULL,
         NEW f \in ObtainFd(fd), f.rec # NULL, NEW h \in FdHeads
  PROVE  LET n == TAILQ_INSERT_TAIL(f.m, h, f.rec)
         IN  /\ WellLinked(n, FdHeads, FdRec)
             /\ \A g \in FdHeads : Visited(n, g, FdRec) \subseteq alloc \union {f.rec}
             /\ Visited(n, "fd_q", FdRec) = FdQueue \union (IF h = "fd_q" THEN {f.rec} ELSE {})
             /\ Visited(n, "spare_fd_q", FdRec) =
                  (SpareFds \ {f.rec}) \union (IF h = "spare_fd_q" THEN {f.rec} ELSE {})
             /\ TAILQ_FIRST(n, "fd_q") =
                  IF h = "fd_q" /\ FdQueue = {} THEN f.rec ELSE TAILQ_FIRST(fdm, "fd_q")
             /\ f.rec \in FdRec \ FdQueue
<1>1. f \in Obtain(fdm, "spare_fd_q", FdRec)
  BY DEF ObtainFd
<1>2. Queues(fdm, FdCells, FdHeads, FdRec)
  BY FdQueuesAre DEF FdInv
<1>3. \A g \in FdHeads : Visited(fdm, g, FdRec) \subseteq alloc
  BY DEF FdInv
<1>4. /\ Queues(f.m, FdCells, FdHeads, FdRec) /\ f.rec \in FdRec
      /\ \A g \in FdHeads : f.rec \notin Visited(f.m, g, FdRec)
      /\ \A g \in FdHeads : Visited(f.m, g, FdRec) \subseteq alloc
      /\ Visited(f.m, "spare_fd_q", FdRec) = SpareFds \ {f.rec}
      /\ \A g \in FdHeads : g # "spare_fd_q" =>
           /\ Visited(f.m, g, FdRec) = Visited(fdm, g, FdRec)
           /\ TAILQ_FIRST(f.m, g) = TAILQ_FIRST(fdm, g)
  BY <1>1, <1>2, <1>3, ObtainKeeps, Cells DEF SpareFds
<1>5. Visited(f.m, "fd_q", FdRec) = FdQueue /\ TAILQ_FIRST(f.m, "fd_q") = TAILQ_FIRST(fdm, "fd_q")
  BY <1>4, Cells DEF FdQueue
<1> DEFINE n == TAILQ_INSERT_TAIL(f.m, h, f.rec)
<1>6. /\ Queues(n, FdCells, FdHeads, FdRec)
      /\ Visited(n, h, FdRec) = Visited(f.m, h, FdRec) \union {f.rec}
      /\ \A g \in FdHeads : g # h => Visited(n, g, FdRec) = Visited(f.m, g, FdRec)
  BY <1>4, InsertTailKeeps
<1>8. TAILQ_FIRST(n, "fd_q") =
        IF h = "fd_q" /\ FdQueue = {} THEN f.rec ELSE TAILQ_FIRST(fdm, "fd_q")
  <2>1. TAILQ_EMPTY(f.m, "fd_q") <=> FdQueue = {}
    BY <1>4, <1>5, FirstAndNext, Cells
  <2> QED
    BY <1>4, <1>5, <2>1, InsertFirst, Cells
<1> HIDE DEF n
<1>7. /\ WellLinked(n, FdHeads, FdRec)
      /\ \A g \in FdHeads : Visited(n, g, FdRec) \subseteq alloc \union {f.rec}
      /\ Visited(n, "fd_q", FdRec) = FdQueue \union (IF h = "fd_q" THEN {f.rec} ELSE {})
      /\ Visited(n, "spare_fd_q", FdRec) =
           (SpareFds \ {f.rec}) \union (IF h = "spare_fd_q" THEN {f.rec} ELSE {})
      /\ f.rec \in FdRec \ FdQueue
  <2>1. CASE h = "fd_q"
    BY <1>4, <1>5, <1>6, <2>1, Cells DEF Queues
  <2>2. CASE h = "spare_fd_q"
    <3>1. /\ Visited(n, "fd_q", FdRec) = FdQueue
          /\ Visited(n, "spare_fd_q", FdRec) = (SpareFds \ {f.rec}) \union {f.rec}
          /\ WellLinked(n, FdHeads, FdRec)
      BY <1>4, <1>5, <1>6, <2>2, Cells DEF Queues
    <3>2. \A g \in FdHeads : Visited(n, g, FdRec) \subseteq alloc \union {f.rec}
      BY <1>4, <1>5, <1>6, <2>2, Cells
    <3>3. f.rec \in FdRec \ FdQueue
      BY <1>4, <1>5, Cells
    <3> QED
      BY <3>1, <3>2, <3>3, <2>2, Cells
  <2> QED
    BY <2>1, <2>2 DEF FdHeads
<1> QED
  BY <1>7, <1>8 DEF n

\* A record of fd_q becomes spare.
LEMMA SpareFdRecord ==
  ASSUME TypeOK, FdInv, Running, NEW f \in FdQueue
  PROVE  LET n == Move(fdm, "fd_q", "spare_fd_q", f)
         IN  /\ WellLinked(n, FdHeads, FdRec)
             /\ \A g \in FdHeads : Visited(n, g, FdRec) \subseteq alloc
             /\ Visited(n, "fd_q", FdRec) = FdQueue \ {f}
             /\ Visited(n, "spare_fd_q", FdRec) = SpareFds \union {f}
             /\ f # TAILQ_FIRST(fdm, "fd_q") => TAILQ_FIRST(n, "fd_q") = TAILQ_FIRST(fdm, "fd_q")
             /\ Contents(n, "fd_q", FdRec) = Without(FdOrder, f)
<1>1. Queues(fdm, FdCells, FdHeads, FdRec) /\ \A g \in FdHeads : Visited(fdm, g, FdRec) \subseteq alloc
  BY FdQueuesAre DEF FdInv
<1>2. f \in Visited(fdm, "fd_q", FdRec) /\ FdHeads = {"fd_q", "spare_fd_q"}
  BY DEF FdQueue, FdHeads
<1> DEFINE n == Move(fdm, "fd_q", "spare_fd_q", f)
<1>3. /\ Queues(n, FdCells, FdHeads, FdRec)
      /\ Visited(n, "fd_q", FdRec) = Visited(fdm, "fd_q", FdRec) \ {f}
      /\ Visited(n, "spare_fd_q", FdRec) = Visited(fdm, "spare_fd_q", FdRec) \union {f}
  BY <1>1, <1>2, RemoveInsertKeeps, Cells DEF Move
<1>6. Contents(n, "fd_q", FdRec) = Without(FdOrder, f)
  BY <1>1, <1>2, RemoveInsertOrder, Cells DEF Move, FdOrder
<1>5. f # TAILQ_FIRST(fdm, "fd_q") => TAILQ_FIRST(n, "fd_q") = TAILQ_FIRST(fdm, "fd_q")
  <2> DEFINE k == TAILQ_REMOVE(fdm, "fd_q", f)
  <2>1. Queues(k, FdCells, FdHeads, FdRec)
    BY <1>1, <1>2, RemoveKeeps, Cells
  <2>2. f # TAILQ_FIRST(fdm, "fd_q") => TAILQ_FIRST(k, "fd_q") = TAILQ_FIRST(fdm, "fd_q")
    BY <1>1, <1>2, RemoveFirst, Cells
  <2>3. f \in FdRec /\ n = TAILQ_INSERT_TAIL(k, "spare_fd_q", f)
    BY <1>2 DEF Visited, Move
  <2> HIDE DEF k, n
  <2>4. TAILQ_FIRST(n, "fd_q") = TAILQ_FIRST(k, "fd_q")
    BY <2>1, <2>3, InsertFirst, Cells
  <2> QED
    BY <2>2, <2>4
<1> HIDE DEF n
<1>4. /\ WellLinked(n, FdHeads, FdRec)
      /\ \A g \in FdHeads : Visited(n, g, FdRec) \subseteq alloc
      /\ Visited(n, "fd_q", FdRec) = FdQueue \ {f}
      /\ Visited(n, "spare_fd_q", FdRec) = SpareFds \union {f}
  BY <1>1, <1>2, <1>3 DEF Queues, FdQueue, SpareFds
<1> QED
  BY <1>4, <1>5, <1>6 DEF n

-----------------------------------------------------------------------------
(***************************************************************************)
(* The queues of descriptor records.                                       *)
(***************************************************************************)

LEMMA InitFdInv == Init => FdInv
<1> SUFFICES ASSUME Init PROVE FdInv
  OBVIOUS
<1>1. \A h \in FdHeads : fdm.ptr[h] = NULL /\ fdm.back[h] = h
  BY Cells DEF Init
<1>2. WellLinked(fdm, FdHeads, FdRec) /\ \A h \in FdHeads : Visited(fdm, h, FdRec) = {}
  BY <1>1, EmptyLinks, Cells
<1> QED
  BY <1>2 DEF Init, FdInv

\* The steps that leave the queues alone and do not enter a record.
LEMMA SameFdInv ==
  ASSUME FdInv, UNCHANGED <<fdm, alloc>>, Running' => Running,
         pc' = "collect" => pc = "collect" /\ loop'.ev_fd = loop.ev_fd
  PROVE  FdInv'
BY DEF FdInv, FdQueue

LEMMA ClientFdInv ==
  ASSUME TypeOK, FdInv, Client
  PROVE  FdInv'
<1>1. Running
  BY DEF Client, aloe_ev_put, PutNoMemory, CancelArmed, CancelPending, CancelMiss, CancelCall,
         DestroyBegin, InClient, Running
<1>2. ASSUME NEW r \in Requests, aloe_ev_put(r)
      PROVE  FdInv'
  <2>1. PICK f \in ObtainFd(r.fd), n \in ObtainNoti :
          /\ f.rec # NULL /\ InClient /\ UNCHANGED pc
          /\ alloc' = alloc \union {f.rec, n.rec}
          /\ IF fd_q_find(r.fd) # NULL
             THEN fdm' = fdm ELSE fdm' = TAILQ_INSERT_TAIL(f.m, "fd_q", f.rec)
    BY <1>2 DEF aloe_ev_put
  <2>2. pc' # "collect"
    BY <2>1 DEF InClient
  <2>3. CASE fd_q_find(r.fd) # NULL
    BY <1>1, <2>1, <2>2, <2>3 DEF FdInv, FdQueue
  <2>4. CASE fd_q_find(r.fd) = NULL
    <3>1. /\ WellLinked(fdm', FdHeads, FdRec)
          /\ \A g \in FdHeads : Visited(fdm', g, FdRec) \subseteq alloc \union {f.rec}
      BY <1>1, <2>1, <2>4, AddFdRecord, Cells
    <3> QED
      BY <2>1, <2>2, <3>1 DEF FdInv
  <2> QED
    BY <2>3, <2>4
<1>3. ASSUME NEW r \in Requests, PutNoMemory(r)
      PROVE  FdInv'
  <2>1. PICK f \in ObtainFd(r.fd) :
          /\ f.rec # NULL /\ InClient /\ UNCHANGED pc /\ fd_q_find(r.fd) = NULL
          /\ alloc' = alloc \union {f.rec}
          /\ fdm' = TAILQ_INSERT_TAIL(f.m, "spare_fd_q", f.rec)
    BY <1>3 DEF PutNoMemory
  <2>2. /\ WellLinked(fdm', FdHeads, FdRec)
        /\ \A g \in FdHeads : Visited(fdm', g, FdRec) \subseteq alloc \union {f.rec}
    BY <1>1, <2>1, AddFdRecord, Cells
  <2> QED
    BY <2>1, <2>2 DEF FdInv, InClient
<1>4. ASSUME NEW i \in 1 .. Len(regs), CancelArmed(i)
      PROVE  FdInv'
  <2>1. PICK f \in SearchedFirst(regs[i].ev) :
          /\ InClient /\ UNCHANGED <<pc, alloc>>
          /\ fdm' = IF TAILQ_EMPTY(notim', f)
                    THEN Move(fdm, "fd_q", "spare_fd_q", f) ELSE fdm
    BY <1>4 DEF CancelArmed, CancelCall, Recycle
  <2>2. f \in FdQueue
    BY <1>1, FindOnQueue DEF FdInv, SearchedFirst
  <2>3. /\ WellLinked(fdm', FdHeads, FdRec)
        /\ \A g \in FdHeads : Visited(fdm', g, FdRec) \subseteq alloc
    BY <1>1, <2>1, <2>2, SpareFdRecord DEF FdInv
  <2> QED
    BY <2>1, <2>3 DEF FdInv, InClient
<1>5. ASSUME NEW i \in 1 .. Len(regs), CancelPending(i) \/ CancelMiss(i)
      PROVE  FdInv'
  <2>1. UNCHANGED <<fdm, alloc>> /\ pc' \in {pc, "hung"} /\ InClient
    BY <1>5 DEF CancelPending, CancelMiss, CancelCall, Recycle
  <2> QED
    BY <1>1, <2>1, SameFdInv DEF InClient, Running
<1>6. ASSUME DestroyBegin
      PROVE  FdInv'
  BY <1>6 DEF DestroyBegin, FdInv, Running
<1> QED
  BY <1>2, <1>3, <1>4, <1>5, <1>6 DEF Client

LEMMA OnceFdInv ==
  ASSUME TypeOK, FdInv, Once
  PROVE  FdInv'
<1>1. Running
  BY DEF Once, OnceBegin, SelectReturn, ReadClock, CollectNoti, CollectFd, Dispatch, CbReturn,
         OnceReturn, Running
<1>2. CASE ReadClock
  <2>1. EnterFd(TAILQ_FIRST(fdm, "fd_q"), [loop EXCEPT !.ts = now]) /\ UNCHANGED <<fdm, alloc>>
    BY <1>2 DEF ReadClock, queues
  <2>2. TAILQ_FIRST(fdm, "fd_q") # NULL => TAILQ_FIRST(fdm, "fd_q") \in FdQueue
    BY <1>1, FdQueuesAre, FirstAndNext, Cells DEF FdInv, FdQueue
  <2>3. pc' = "collect" => loop'.ev_fd \in FdQueue
    <3>1. [loop EXCEPT !.ts = now] \in Frame
      BY TypeOKParts DEF LoopOK, Frame, FieldsOK
    <3> QED
      BY <2>1, <2>2, <3>1 DEF EnterFd, Frame
  <2> QED
    BY <1>1, <2>1, <2>3 DEF FdInv, FdQueue
<1>3. CASE CollectNoti
  <2>1. UNCHANGED <<fdm, alloc, pc>> /\ loop'.ev_fd = loop.ev_fd
    BY <1>3, TypeOKParts DEF CollectNoti, LoopOK, Frame
  <2> QED
    BY <2>1, SameFdInv DEF Running
<1>4. CASE CollectFd
  <2> DEFINE f == loop.ev_fd
  <2>1. f \in FdQueue
    BY <1>1, <1>4 DEF CollectFd, FdInv
  <2>2. /\ fdm' = IF TAILQ_EMPTY(notim, f) THEN Move(fdm, "fd_q", "spare_fd_q", f) ELSE fdm
        /\ EnterFd(TAILQ_NEXT(fdm, f), loop) /\ alloc' = alloc
    BY <1>4 DEF CollectFd
  <2>3. /\ WellLinked(fdm', FdHeads, FdRec)
        /\ \A g \in FdHeads : Visited(fdm', g, FdRec) \subseteq alloc
        /\ FdQueue \ {f} \subseteq FdQueue'
    BY <1>1, <2>1, <2>2, SpareFdRecord DEF FdInv, FdQueue
  <2>4. TAILQ_NEXT(fdm, f) # NULL => TAILQ_NEXT(fdm, f) \in FdQueue \ {f}
    BY <1>1, <2>1, FdQueuesAre, FirstAndNext, Cells DEF FdInv, FdQueue
  <2>5. pc' = "collect" => loop'.ev_fd = TAILQ_NEXT(fdm, f) /\ TAILQ_NEXT(fdm, f) # NULL
    BY <2>2, TypeOKParts DEF EnterFd, LoopOK, Frame
  <2> QED
    BY <2>2, <2>3, <2>4, <2>5 DEF FdInv
<1>5. CASE OnceBegin \/ SelectReturn \/ Dispatch \/ CbReturn \/ OnceReturn
  <2>1. UNCHANGED <<fdm, alloc>> /\ pc' # "collect"
    BY <1>5 DEF OnceBegin, SelectReturn, Dispatch, CbReturn, OnceReturn, queues
  <2> QED
    BY <1>1, <2>1, SameFdInv
<1> QED
  BY <1>2, <1>3, <1>4, <1>5 DEF Once

LEMMA FreeingStops == Freeing => ~ Running'
<1> SUFFICES ASSUME Freeing PROVE pc' \in {"free_fd", "free_spare_fd", "free_noti", "free_spare_noti", "gone", "dead"}
  BY DEF Running
<1> QED
  BY DEF Freeing, DestroyFd, DestroySpareFd, DestroyNoti, FreeNoti

LEMMA NextFdInv == TypeOK /\ FdInv /\ [Next]_vars => FdInv'
<1> SUFFICES ASSUME TypeOK, FdInv, [Next]_vars PROVE FdInv'
  OBVIOUS
<1>1. CASE Freeing
  BY <1>1, FreeingStops DEF FdInv
<1>2. CASE OnceError \/ Tick \/ Arrive \/ Stopped \/ UNCHANGED vars
  <2>1. /\ UNCHANGED <<fdm, alloc>>
        /\ UNCHANGED <<pc, loop>> \/ (pc' = "idle" /\ pc \in {"select", "clock"})
    BY <1>2 DEF OnceError, Tick, Arrive, Stopped, vars, queues
  <2> QED
    BY <2>1, SameFdInv DEF Running
<1> QED
  BY <1>1, <1>2, ClientFdInv, OnceFdInv DEF Next

\* The queues of descriptor records are well linked and no record is on both of them,
\* also where aloe_ev_cancel has spoilt the queues of events: fd_q_find, the scan and
\* the collecting loop of aloe_ev_once always end.
THEOREM FdQueuesCorrect == Spec => []FdQueuesOK
<1>1. TypeOK /\ FdInv => FdQueuesOK
  BY DEF FdInv, FdQueuesOK
<1> QED
  BY <1>1, InitTypeOK, NextTypeOK, InitFdInv, NextFdInv, PTL DEF Spec

-----------------------------------------------------------------------------
(***************************************************************************)
(* The queues of events.                                                   *)
(***************************************************************************)

LEMMA InitNotiInv == Init => NotiInv
<1> SUFFICES ASSUME Init PROVE NotiInv
  OBVIOUS
<1>1. FdQueue = {}
  <2>1. \A h \in FdHeads : fdm.ptr[h] = NULL /\ fdm.back[h] = h
    BY Cells DEF Init
  <2> QED
    BY <2>1, EmptyLinks, Cells DEF FdQueue
<1>2. \A h \in NotiHeads \union FdQueue : notim.ptr[h] = NULL /\ notim.back[h] = h
  BY <1>1, Cells DEF Init
<1>3. /\ WellLinked(notim, NotiHeads \union FdQueue, Noti)
      /\ \A h \in NotiHeads \union FdQueue : Events(h) = {}
  BY <1>2, EmptyLinks, Cells DEF Events
<1> QED
  BY <1>3 DEF Init, NotiInv

\* The steps that leave the queues of events alone, take no record into use and enter
\* none.
LEMMA SameNotiInv ==
  ASSUME TypeOK, NotiInv, UNCHANGED notim, FdQueue' \subseteq FdQueue, alloc \subseteq alloc',
         Running' => Running, corrupt => corrupt',
         pc' = "collect" /\ Running /\ ~ corrupt =>
           loop'.ev_noti \in Events(loop'.ev_fd) \union {NULL}
  PROVE  NotiInv'
<1> SUFFICES ASSUME Running', ~ corrupt'
             PROVE  /\ WellLinked(notim', NotiHeads \union FdQueue', Noti)
                    /\ \A h \in NotiHeads \union FdQueue' : Visited(notim', h, Noti) \subseteq alloc'
                    /\ pc' = "collect" =>
                         loop'.ev_noti \in Visited(notim', loop'.ev_fd, Noti) \union {NULL}
  BY DEF NotiInv, Events
<1>1. Queues(notim, NotiCells, NotiHeads \union FdQueue, Noti)
  BY NotiQueuesAre DEF NotiInv
<1>2. WellLinked(notim', NotiHeads \union FdQueue', Noti)
  BY <1>1, FewerHeads DEF Queues
<1>3. \A h : Visited(notim', h, Noti) = Events(h)
  BY DEF Events
<1> QED
  BY <1>2, <1>3 DEF NotiInv

\* What aloe_ev_put does to the queues: a registration takes record c, which is on fd_q
\* or comes to its tail, and event e, which is not in use.
PutTakes(r, c, e) ==
  /\ fd_q_find(r.fd) = IF c \in FdQueue THEN c ELSE NULL
  /\ FdQueue' = FdQueue \union {c} /\ SpareFds' = SpareFds \ {c}
  /\ TAILQ_FIRST(fdm, "fd_q")' = IF FdQueue = {} THEN c ELSE TAILQ_FIRST(fdm, "fd_q")
  /\ fdno' = IF c \in FdQueue THEN fdno ELSE [fdno EXCEPT ![c] = r.fd]
  /\ alloc' = alloc \union {c, e}
  /\ noti' = [noti EXCEPT ![e] =
                [fd |-> r.fd, cb |-> r.cb, cbarg |-> Len(regs) + 1, ev_wait |-> r.ev_wait,
                 due |-> Due(r), ev_noti |-> @.ev_noti]]
  /\ regs' = Append(regs, [req |-> r, due |-> Due(r), ev |-> e, st |-> "armed"])
  /\ ~ corrupt =>
       /\ WellLinked(notim', NotiHeads \union FdQueue \union {c}, Noti)
       /\ \A h \in {"noti_q"} \union FdQueue : e \notin Events(h)
       /\ Events(c)' = (IF c \in FdQueue THEN Events(c) ELSE {}) \union {e}
       /\ Events("spare_noti_q")' = Events("spare_noti_q") \ {e}
       /\ Order(c)' = Append(IF c \in FdQueue THEN Order(c) ELSE <<>>, e)
       /\ \A h \in {"noti_q"} \union FdQueue :
            h # c => Events(h)' = Events(h) /\ Order(h)' = Order(h)

LEMMA PutEffect ==
  ASSUME TypeOK, FdInv, NotiInv, NEW r \in Requests, aloe_ev_put(r)
  PROVE  /\ InClient /\ UNCHANGED <<now, ready, pc, loop, call, errors, corrupt>>
         /\ \E c \in FdRec, e \in Noti : PutTakes(r, c, e)
<1>1. PICK f \in ObtainFd(r.fd), n \in ObtainNoti :
        /\ f.rec # NULL /\ n.rec # NULL /\ InClient
        /\ UNCHANGED <<now, ready, pc, loop, call, errors, corrupt>>
        /\ IF fd_q_find(r.fd) # NULL
           THEN /\ UNCHANGED <<fdm, fdno>>
                /\ notim' = TAILQ_INSERT_TAIL(n.m, f.rec, n.rec)
           ELSE /\ fdm' = TAILQ_INSERT_TAIL(f.m, "fd_q", f.rec)
                /\ fdno' = [fdno EXCEPT ![f.rec] = r.fd]
                /\ notim' = TAILQ_INSERT_TAIL(TAILQ_INIT(n.m, f.rec), f.rec, n.rec)
        /\ alloc' = alloc \union {f.rec, n.rec}
        /\ noti' = [noti EXCEPT ![n.rec] =
                      [fd |-> r.fd, cb |-> r.cb, cbarg |-> Len(regs) + 1, ev_wait |-> r.ev_wait,
                       due |-> Due(r), ev_noti |-> @.ev_noti]]
        /\ regs' = Append(regs, [req |-> r, due |-> Due(r), ev |-> n.rec, st |-> "armed"])
  BY DEF aloe_ev_put
<1>2. Running
  BY <1>1 DEF InClient, Running
<1> DEFINE c == f.rec
           e == n.rec
           k == n.m
           H == NotiHeads \union FdQueue
<1>3. /\ c \in FdRec
      /\ fd_q_find(r.fd) = IF c \in FdQueue THEN c ELSE NULL
      /\ FdQueue' = FdQueue \union {c} /\ SpareFds' = SpareFds \ {c}
      /\ TAILQ_FIRST(fdm, "fd_q")' = IF FdQueue = {} THEN c ELSE TAILQ_FIRST(fdm, "fd_q")
      /\ fdno' = IF c \in FdQueue THEN fdno ELSE [fdno EXCEPT ![c] = r.fd]
  <2>1. CASE fd_q_find(r.fd) # NULL
    <3>1. c = fd_q_find(r.fd)
      BY <2>1 DEF ObtainFd
    <3>2. c \in FdQueue
      BY <1>2, <2>1, <3>1, FindOnQueue DEF FdInv
    <3>3. c \in FdRec /\ c \notin SpareFds
      BY <1>2, <3>2, Cells DEF FdInv, WellLinked, FdQueue, SpareFds, Visited
    <3>4. fdm' = fdm /\ fdno' = fdno
      BY <1>1, <2>1
    <3> QED
      BY <2>1, <3>1, <3>2, <3>3, <3>4 DEF FdQueue, SpareFds
  <2>2. CASE fd_q_find(r.fd) = NULL
    <3>1. fdm' = TAILQ_INSERT_TAIL(f.m, "fd_q", f.rec) /\ fdno' = [fdno EXCEPT ![c] = r.fd]
      BY <1>1, <2>2
    <3>2. /\ Visited(fdm', "fd_q", FdRec) = FdQueue \union {c}
          /\ Visited(fdm', "spare_fd_q", FdRec) = SpareFds \ {c}
          /\ TAILQ_FIRST(fdm', "fd_q") = IF FdQueue = {} THEN c ELSE TAILQ_FIRST(fdm, "fd_q")
          /\ c \in FdRec \ FdQueue
      BY <1>1, <1>2, <2>2, <3>1, AddFdRecord, Cells
    <3> QED
      BY <2>2, <3>1, <3>2 DEF FdQueue, SpareFds, TAILQ_FIRST
  <2> QED
    BY <2>1, <2>2
<1>4. e \in Noti
  BY <1>1, TypeOKPointers, ObtainNotiType
<1>5. ASSUME ~ corrupt
      PROVE  /\ WellLinked(notim', H \union {c}, Noti)
             /\ \A h \in {"noti_q"} \union FdQueue : e \notin Events(h)
             /\ Events(c)' = (IF c \in FdQueue THEN Events(c) ELSE {}) \union {e}
             /\ Events("spare_noti_q")' = Events("spare_noti_q") \ {e}
             /\ Order(c)' = Append(IF c \in FdQueue THEN Order(c) ELSE <<>>, e)
             /\ \A h \in {"noti_q"} \union FdQueue :
                  h # c => Events(h)' = Events(h) /\ Order(h)' = Order(h)
  <2>1. Queues(notim, NotiCells, H, Noti) /\ \A h \in H : Visited(notim, h, Noti) \subseteq alloc
    BY <1>2, <1>5, NotiQueuesAre DEF NotiInv, Events
  <2>2. "spare_noti_q" \in H /\ n \in Obtain(notim, "spare_noti_q", Noti)
    BY Cells DEF ObtainNoti
  <2>3. "noti_q" # "spare_noti_q" /\ \A h \in FdQueue : h # "spare_noti_q"
    BY Cells DEF FdQueue, Visited
  <2> HIDE DEF H
  <2>4. /\ Queues(k, NotiCells, H, Noti)
        /\ \A g \in H : e \notin Visited(k, g, Noti)
        /\ Visited(k, "spare_noti_q", Noti) = Visited(notim, "spare_noti_q", Noti) \ {e}
        /\ \A g \in H : g # "spare_noti_q" => /\ Visited(k, g, Noti) = Visited(notim, g, Noti)
                                             /\ Contents(k, g, Noti) = Contents(notim, g, Noti)
    BY <1>1, <2>1, <2>2, ObtainKeeps
  <2> HIDE DEF k, e, c
  <2>5. /\ WellLinked(notim', H \union {c}, Noti)
        /\ Visited(notim', c, Noti) = (IF c \in FdQueue THEN Visited(k, c, Noti) ELSE {}) \union {e}
        /\ Contents(notim', c, Noti) =
             Append(IF c \in FdQueue THEN Contents(k, c, Noti) ELSE <<>>, e)
        /\ \A g \in H : g # c => /\ Visited(notim', g, Noti) = Visited(k, g, Noti)
                               /\ Contents(notim', g, Noti) = Contents(k, g, Noti)
    <3>1. CASE c \in FdQueue
      <4>1. c \in H /\ H \union {c} = H
        BY <3>1 DEF H
      <4>2. notim' = TAILQ_INSERT_TAIL(k, c, e)
        BY <1>1, <1>3, <3>1, Cells DEF k, e, c
      <4>3. /\ Queues(notim', NotiCells, H, Noti)
            /\ Visited(notim', c, Noti) = Visited(k, c, Noti) \union {e}
            /\ \A g \in H : g # c => Visited(notim', g, Noti) = Visited(k, g, Noti)
        BY <1>4, <2>4, <4>1, <4>2, InsertTailKeeps
      <4>4. /\ Contents(notim', c, Noti) = Append(Contents(k, c, Noti), e)
            /\ \A g \in H : g # c => Contents(notim', g, Noti) = Contents(k, g, Noti)
        BY <1>4, <2>4, <4>1, <4>2, InsertTailOrder
      <4> QED
        BY <3>1, <4>1, <4>3, <4>4 DEF Queues
    <3>2. CASE c \notin FdQueue
      <4> DEFINE i == TAILQ_INIT(k, c)
                 G == H \union {c}
      <4>1. c \in NotiCells /\ c \notin H /\ c \notin Noti
        BY <1>3, <3>2, Cells DEF H, c
      <4>2. notim' = TAILQ_INSERT_TAIL(i, c, e)
        BY <1>1, <1>3, <3>2 DEF k, e, c
      <4>3. /\ Queues(i, NotiCells, G, Noti) /\ Visited(i, c, Noti) = {}
            /\ \A g \in H : Visited(i, g, Noti) = Visited(k, g, Noti)
        BY <2>4, <4>1, InitKeeps
      <4>8. /\ Contents(i, c, Noti) = <<>>
            /\ \A g \in H : Contents(i, g, Noti) = Contents(k, g, Noti)
        BY <2>4, <4>1, InitOrder
      <4>4. \A g \in G : e \notin Visited(i, g, Noti)
        BY <2>4, <4>3
      <4> HIDE DEF i
      <4>5. c \in G /\ H \subseteq G
        OBVIOUS
      <4> HIDE DEF G
      <4>6. /\ Queues(notim', NotiCells, G, Noti)
            /\ Visited(notim', c, Noti) = Visited(i, c, Noti) \union {e}
            /\ \A g \in G : g # c => Visited(notim', g, Noti) = Visited(i, g, Noti)
        BY <1>4, <4>2, <4>3, <4>4, <4>5, InsertTailKeeps
      <4>7. /\ Contents(notim', c, Noti) = Append(Contents(i, c, Noti), e)
            /\ \A g \in G : g # c => Contents(notim', g, Noti) = Contents(i, g, Noti)
        BY <1>4, <4>2, <4>3, <4>4, <4>5, InsertTailOrder
      <4> QED
        BY <3>2, <4>3, <4>5, <4>6, <4>7, <4>8 DEF Queues, G
    <3> QED
      BY <3>1, <3>2
  <2>6. {"noti_q"} \union FdQueue \subseteq H /\ c \in FdRec /\ "spare_noti_q" # c
    BY <1>3, Cells DEF H, c
  <2>7. \A h \in {"noti_q"} \union FdQueue : h \in H /\ h # "spare_noti_q"
    BY <2>3, <2>6
  <2>8. \A h \in {"noti_q"} \union FdQueue :
          /\ Visited(k, h, Noti) = Visited(notim, h, Noti) /\ e \notin Visited(notim, h, Noti)
          /\ Contents(k, h, Noti) = Contents(notim, h, Noti)
    BY <2>4, <2>7
  <2>9. Order(c)' = Append(IF c \in FdQueue THEN Order(c) ELSE <<>>, e)
    BY <2>5, <2>8 DEF Order
  <2>10. \A h \in {"noti_q"} \union FdQueue : h # c => Order(h)' = Order(h)
    BY <2>5, <2>7, <2>8 DEF Order
  <2> QED
    BY <2>2, <2>4, <2>5, <2>6, <2>7, <2>8, <2>9, <2>10 DEF Events
<1> QED
  BY <1>1, <1>3, <1>4, <1>5 DEF PutTakes

LEMMA PutNotiInv ==
  ASSUME TypeOK, FdInv, NotiInv, NEW r \in Requests, aloe_ev_put(r)
  PROVE  NotiInv'
<1>1. PICK c \in FdRec, e \in Noti : PutTakes(r, c, e)
  BY PutEffect
<1>2. InClient /\ UNCHANGED <<pc, corrupt>>
  BY PutEffect
<1>3. Running /\ pc' # "collect"
  BY <1>2 DEF InClient, Running
<1> SUFFICES ASSUME ~ corrupt
             PROVE  /\ WellLinked(notim', NotiHeads \union FdQueue', Noti)
                    /\ \A h \in NotiHeads \union FdQueue' : Events(h)' \subseteq alloc'
  BY <1>2, <1>3 DEF NotiInv
<1>4. /\ FdQueue' = FdQueue \union {c} /\ alloc' = alloc \union {c, e}
      /\ WellLinked(notim', NotiHeads \union FdQueue \union {c}, Noti)
      /\ Events(c)' = (IF c \in FdQueue THEN Events(c) ELSE {}) \union {e}
      /\ Events("spare_noti_q")' = Events("spare_noti_q") \ {e}
      /\ \A h \in {"noti_q"} \union FdQueue : h # c => Events(h)' = Events(h)
  BY <1>1 DEF PutTakes
<1>5. \A h \in NotiHeads \union FdQueue : Events(h) \subseteq alloc
  BY <1>3 DEF NotiInv
<1>6. ASSUME NEW h \in NotiHeads \union FdQueue' PROVE Events(h)' \subseteq alloc'
  <2>1. CASE h = c
    BY <1>4, <1>5, <2>1
  <2>2. CASE h = "spare_noti_q"
    BY <1>4, <1>5, <2>2, Cells
  <2>3. CASE h \in {"noti_q"} \union FdQueue /\ h # c
    <3>1. Events(h)' = Events(h) /\ Events(h) \subseteq alloc
      BY <1>4, <1>5, <2>3, Cells
    <3> QED
      BY <1>4, <3>1
  <2> QED
    BY <1>4, <2>1, <2>2, <2>3 DEF NotiHeads
<1> QED
  BY <1>4, <1>6

LEMMA ClientNotiInv ==
  ASSUME TypeOK, FdInv, NotiInv, Client
  PROVE  NotiInv'
<1>1. Running
  BY DEF Client, aloe_ev_put, PutNoMemory, CancelArmed, CancelPending, CancelMiss, CancelCall,
         DestroyBegin, InClient, Running
<1>2. ASSUME NEW r \in Requests, PutNoMemory(r)
      PROVE  NotiInv'
  <2>1. PICK f \in ObtainFd(r.fd) :
          /\ f.rec # NULL /\ InClient /\ UNCHANGED <<pc, notim, corrupt>>
          /\ fd_q_find(r.fd) = NULL /\ alloc' = alloc \union {f.rec}
          /\ fdm' = TAILQ_INSERT_TAIL(f.m, "spare_fd_q", f.rec)
    BY <1>2 DEF PutNoMemory
  <2>2. FdQueue' = FdQueue
    BY <1>1, <2>1, AddFdRecord, Cells DEF FdQueue
  <2> QED
    BY <1>1, <2>1, <2>2, SameNotiInv DEF InClient
<1>3. ASSUME NEW i \in 1 .. Len(regs), CancelArmed(i) \/ CancelPending(i)
      PROVE  NotiInv'
  BY <1>3 DEF CancelArmed, CancelPending, Recycle, NotiInv
<1>4. ASSUME NEW i \in 1 .. Len(regs), CancelMiss(i)
      PROVE  NotiInv'
  <2>1. UNCHANGED <<fdm, notim, alloc, corrupt>> /\ pc' \in {pc, "hung"} /\ InClient
    BY <1>4 DEF CancelMiss, CancelCall
  <2> QED
    BY <1>1, <2>1, SameNotiInv DEF InClient, Running, FdQueue
<1>5. ASSUME DestroyBegin
      PROVE  NotiInv'
  BY <1>5 DEF DestroyBegin, NotiInv, Running
<1> QED
  BY <1>2, <1>3, <1>4, <1>5, PutNotiInv DEF Client

\* The collecting loop enters a record with the first event of its queue.
LEMMA EnterFdNoti ==
  ASSUME TypeOK, FdInv, NotiInv, Running, ~ corrupt,
         NEW f \in FdQueue \union {NULL}, NEW l \in Frame, EnterFd(f, l), pc' = "collect"
  PROVE  loop'.ev_noti \in Events(loop'.ev_fd) \union {NULL}
<1>1. f \in FdQueue /\ loop'.ev_fd = f /\ loop'.ev_noti = TAILQ_FIRST(notim, f)
  BY DEF EnterFd, Frame
<1>2. Queues(notim, NotiCells, NotiHeads \union FdQueue, Noti)
  BY NotiQueuesAre DEF NotiInv
<1>3. TAILQ_FIRST(notim, f) # NULL => TAILQ_FIRST(notim, f) \in Visited(notim, f, Noti)
  BY <1>1, <1>2, FirstAndNext
<1> QED
  BY <1>1, <1>3 DEF Events

\* An event goes from one queue to another.
LEMMA MoveNoti ==
  ASSUME TypeOK, NotiInv, Running, ~ corrupt,
         NEW g \in NotiHeads \union FdQueue, NEW h \in NotiHeads, g # h, NEW e \in Events(g)
  PROVE  LET n == Move(notim, g, h, e)
         IN  /\ WellLinked(n, NotiHeads \union FdQueue, Noti)
             /\ \A f \in NotiHeads \union FdQueue : Visited(n, f, Noti) \subseteq alloc
             /\ Visited(n, g, Noti) = Events(g) \ {e}
             /\ Visited(n, h, Noti) = Events(h) \union {e}
             /\ \A f \in NotiHeads \union FdQueue :
                  f # g /\ f # h => Visited(n, f, Noti) = Events(f)
             /\ Contents(n, g, Noti) = Without(Order(g), e)
             /\ Contents(n, h, Noti) = Append(Order(h), e)
             /\ \A f \in NotiHeads \union FdQueue :
                  f # g /\ f # h => Contents(n, f, Noti) = Order(f)
<1> DEFINE H == NotiHeads \union FdQueue
           n == Move(notim, g, h, e)
<1>1. /\ Queues(notim, NotiCells, H, Noti) /\ \A f \in H : Visited(notim, f, Noti) \subseteq alloc
      /\ e \in Visited(notim, g, Noti) /\ g \in H /\ h \in H
  BY NotiQueuesAre DEF NotiInv, Events
<1> HIDE DEF H
<1>2. /\ Queues(n, NotiCells, H, Noti)
      /\ Visited(n, g, Noti) = Visited(notim, g, Noti) \ {e}
      /\ Visited(n, h, Noti) = Visited(notim, h, Noti) \union {e}
      /\ \A f \in H : f # g /\ f # h => Visited(n, f, Noti) = Visited(notim, f, Noti)
  BY <1>1, RemoveInsertKeeps DEF Move
<1>4. /\ Contents(n, g, Noti) = Without(Order(g), e)
      /\ Contents(n, h, Noti) = Append(Order(h), e)
      /\ \A f \in H : f # g /\ f # h => Contents(n, f, Noti) = Order(f)
  BY <1>1, RemoveInsertOrder DEF Move, Order
<1> HIDE DEF n
<1>3. \A f \in H : Visited(n, f, Noti) \subseteq alloc
  BY <1>1, <1>2
<1> QED
  BY <1>2, <1>3, <1>4 DEF Queues, Events, H, n

LEMMA OnceNotiInv ==
  ASSUME TypeOK, FdInv, NotiInv, Once
  PROVE  NotiInv'
<1>1. Running
  BY DEF Once, OnceBegin, SelectReturn, ReadClock, CollectNoti, CollectFd, Dispatch, CbReturn,
         OnceReturn, Running
<1>2. CASE ReadClock
  <2>1. /\ EnterFd(TAILQ_FIRST(fdm, "fd_q"), [loop EXCEPT !.ts = now])
        /\ UNCHANGED <<fdm, notim, alloc, corrupt>>
    BY <1>2 DEF ReadClock, queues
  <2>2. TAILQ_FIRST(fdm, "fd_q") \in FdQueue \union {NULL}
    BY <1>1, FdQueuesAre, FirstAndNext, Cells DEF FdInv, FdQueue
  <2>3. [loop EXCEPT !.ts = now] \in Frame
    BY TypeOKParts DEF LoopOK, Frame, FieldsOK
  <2>4. pc' = "collect" /\ Running /\ ~ corrupt =>
          loop'.ev_noti \in Events(loop'.ev_fd) \union {NULL}
    BY <2>1, <2>2, <2>3, EnterFdNoti
  <2> QED
    BY <1>1, <2>1, <2>4, SameNotiInv DEF FdQueue
<1>3. CASE CollectNoti
  <2> DEFINE n == loop.ev_noti
             f == loop.ev_fd
  <2>1. /\ pc = "collect" /\ n # NULL /\ UNCHANGED <<fdm, alloc, pc, corrupt>>
        /\ loop'.ev_noti = TAILQ_NEXT(notim, n) /\ loop'.ev_fd = f
    BY <1>3, TypeOKParts DEF CollectNoti, LoopOK, Frame
  <2>2. UNCHANGED notim \/ notim' = Move(notim, f, "noti_q", n)
    BY <1>3 DEF CollectNoti
  <2> SUFFICES ASSUME ~ corrupt PROVE NotiInv'
    BY <2>1 DEF NotiInv
  <2>3. f \in FdQueue /\ n \in Events(f) /\ f # "noti_q"
    BY <1>1, <2>1, Cells DEF FdInv, NotiInv, FdQueue, Visited
  <2>4. TAILQ_NEXT(notim, n) \in (Events(f) \ {n}) \union {NULL}
    BY <1>1, <2>3, NotiQueuesAre, FirstAndNext DEF NotiInv, Events
  <2> HIDE DEF n, f
  <2>5. CASE UNCHANGED notim
    BY <1>1, <2>1, <2>4, <2>5, SameNotiInv DEF FdQueue
  <2>6. CASE notim' = Move(notim, f, "noti_q", n)
    <3>1. /\ WellLinked(notim', NotiHeads \union FdQueue, Noti)
          /\ \A g \in NotiHeads \union FdQueue : Visited(notim', g, Noti) \subseteq alloc
          /\ Visited(notim', f, Noti) = Events(f) \ {n}
      BY <1>1, <2>3, <2>6, MoveNoti, Cells
    <3>2. FdQueue' = FdQueue
      BY <2>1 DEF FdQueue
    <3> QED
      BY <2>1, <2>4, <3>1, <3>2 DEF NotiInv, Events
  <2> QED
    BY <2>2, <2>5, <2>6
<1>4. CASE CollectFd
  <2> DEFINE f == loop.ev_fd
  <2>1. f \in FdQueue
    BY <1>1, <1>4 DEF CollectFd, FdInv
  <2>2. /\ fdm' = IF TAILQ_EMPTY(notim, f) THEN Move(fdm, "fd_q", "spare_fd_q", f) ELSE fdm
        /\ EnterFd(TAILQ_NEXT(fdm, f), loop) /\ UNCHANGED <<notim, alloc, corrupt>>
    BY <1>4 DEF CollectFd
  <2>3. FdQueue' \subseteq FdQueue
    BY <1>1, <2>1, <2>2, SpareFdRecord DEF FdQueue
  <2>4. TAILQ_NEXT(fdm, f) \in FdQueue \union {NULL}
    BY <1>1, <2>1, FdQueuesAre, FirstAndNext, Cells DEF FdInv, FdQueue
  <2>5. loop \in Frame
    BY TypeOKParts DEF LoopOK
  <2>6. pc' = "collect" /\ Running /\ ~ corrupt =>
          loop'.ev_noti \in Events(loop'.ev_fd) \union {NULL}
    BY <2>2, <2>4, <2>5, EnterFdNoti
  <2> QED
    BY <1>1, <2>2, <2>3, <2>6, SameNotiInv
<1>5. CASE Dispatch
  <2> DEFINE n == TAILQ_FIRST(notim, "noti_q")
  <2>1. /\ n # NULL /\ pc' = "cb" /\ UNCHANGED <<fdm, alloc, corrupt>>
        /\ notim' = Move(notim, "noti_q", "spare_noti_q", n)
    BY <1>5 DEF Dispatch
  <2> SUFFICES ASSUME ~ corrupt PROVE NotiInv'
    BY <2>1 DEF NotiInv
  <2>2. n \in Events("noti_q")
    BY <1>1, <2>1, NotiQueuesAre, FirstAndNext, Cells DEF NotiInv, Events
  <2> HIDE DEF n
  <2>3. /\ WellLinked(notim', NotiHeads \union FdQueue, Noti)
        /\ \A g \in NotiHeads \union FdQueue : Visited(notim', g, Noti) \subseteq alloc
    BY <1>1, <2>1, <2>2, MoveNoti, Cells
  <2>4. FdQueue' = FdQueue
    BY <2>1 DEF FdQueue
  <2> QED
    BY <2>1, <2>3, <2>4 DEF NotiInv, Events
<1>6. CASE OnceBegin \/ SelectReturn \/ CbReturn \/ OnceReturn
  <2>1. UNCHANGED <<fdm, notim, alloc, corrupt>> /\ pc' # "collect"
    BY <1>6 DEF OnceBegin, SelectReturn, CbReturn, OnceReturn, queues
  <2> QED
    BY <1>1, <2>1, SameNotiInv DEF FdQueue
<1> QED
  BY <1>2, <1>3, <1>4, <1>5, <1>6 DEF Once

LEMMA NextNotiInv == TypeOK /\ FdInv /\ NotiInv /\ [Next]_vars => NotiInv'
<1> SUFFICES ASSUME TypeOK, FdInv, NotiInv, [Next]_vars PROVE NotiInv'
  OBVIOUS
<1>1. CASE Freeing
  BY <1>1, FreeingStops DEF NotiInv
<1>2. CASE OnceError \/ Tick \/ Arrive \/ Stopped \/ UNCHANGED vars
  <2>1. /\ UNCHANGED <<fdm, notim, alloc, corrupt>>
        /\ UNCHANGED <<pc, loop>> \/ (pc' = "idle" /\ pc \in {"select", "clock"})
    BY <1>2 DEF OnceError, Tick, Arrive, Stopped, vars, queues
  <2>2. Running' => Running
    BY <2>1 DEF Running
  <2>3. pc' = "collect" /\ Running /\ ~ corrupt =>
          loop'.ev_noti \in Events(loop'.ev_fd) \union {NULL}
    BY <2>1 DEF NotiInv
  <2> QED
    BY <2>1, <2>2, <2>3, SameNotiInv DEF FdQueue
<1> QED
  BY <1>1, <1>2, ClientNotiInv, OnceNotiInv DEF Next

\* The queues of events - armed on every record of fd_q, pending, spare - are well
\* linked, and no event is on two of them, as long as no aloe_ev_cancel has found its
\* event: aloe_ev_put reuses no event that is still waiting, and the collecting loop
\* does not lose its place while it moves the events it stands on.
THEOREM NotiQueuesCorrect == Spec => []NotiQueuesOK
<1>1. NotiInv => NotiQueuesOK
  BY DEF NotiInv, NotiQueuesOK
<1> QED
  BY <1>1, InitTypeOK, NextTypeOK, InitFdInv, NextFdInv, InitNotiInv, NextNotiInv, PTL DEF Spec

-----------------------------------------------------------------------------
(***************************************************************************)
(* What the operations do to the queues.                                   *)
(***************************************************************************)

First == TAILQ_FIRST(fdm, "fd_q")

\* Record f of fd_q becomes spare.
Spares(f) ==
  /\ FdQueue' = FdQueue \ {f} /\ SpareFds' = SpareFds \union {f}
  /\ f # First => First' = First
  /\ FdOrder' = Without(FdOrder, f)

LEMMA NoMemoryEffect ==
  ASSUME TypeOK, FdInv, NEW r \in Requests, PutNoMemory(r)
  PROVE  /\ InClient
         /\ UNCHANGED <<notim, fdno, noti, now, ready, pc, loop, call, regs, errors, corrupt>>
         /\ \E c \in FdRec : /\ FdQueue' = FdQueue /\ SpareFds' = SpareFds \union {c}
                             /\ First' = First /\ alloc' = alloc \union {c}
<1>1. PICK f \in ObtainFd(r.fd) :
        /\ InClient /\ f.rec # NULL /\ fd_q_find(r.fd) = NULL
        /\ fdm' = TAILQ_INSERT_TAIL(f.m, "spare_fd_q", f.rec)
        /\ alloc' = alloc \union {f.rec}
        /\ UNCHANGED <<notim, fdno, noti, now, ready, pc, loop, call, regs, errors, corrupt>>
  BY DEF PutNoMemory
<1>2. Running
  BY <1>1 DEF InClient, Running
<1>3. /\ Visited(fdm', "fd_q", FdRec) = FdQueue
      /\ Visited(fdm', "spare_fd_q", FdRec) = (SpareFds \ {f.rec}) \union {f.rec}
      /\ TAILQ_FIRST(fdm', "fd_q") = First
      /\ f.rec \in FdRec
  BY <1>1, <1>2, AddFdRecord, Cells DEF First
<1>4. FdQueue' = FdQueue /\ SpareFds' = SpareFds \union {f.rec} /\ First' = First
  BY <1>3 DEF FdQueue, SpareFds, First
<1> QED
  BY <1>1, <1>3, <1>4

LEMMA SparesEffect ==
  ASSUME TypeOK, FdInv, Running, NEW f \in FdQueue, fdm' = Move(fdm, "fd_q", "spare_fd_q", f)
  PROVE  Spares(f)
<1>1. /\ Visited(fdm', "fd_q", FdRec) = FdQueue \ {f}
      /\ Visited(fdm', "spare_fd_q", FdRec) = SpareFds \union {f}
      /\ f # First => TAILQ_FIRST(fdm', "fd_q") = First
      /\ Contents(fdm', "fd_q", FdRec) = Without(FdOrder, f)
  BY SpareFdRecord DEF First
<1> QED
  BY <1>1 DEF Spares, FdQueue, SpareFds, First, FdOrder

LEMMA CancelFindsEffect ==
  ASSUME TypeOK, FdInv, NEW i \in Registrations, CancelArmed(i) \/ CancelPending(i)
  PROVE  /\ InClient /\ corrupt'
         /\ UNCHANGED <<fdno, noti, alloc, now, ready, pc, loop, call, errors>>
         /\ UNCHANGED fdm \/ \E f \in FdQueue : Spares(f)
<1>1. CASE CancelArmed(i)
  <2>1. PICK f \in SearchedFirst(regs[i].ev) :
          /\ InClient /\ corrupt'
          /\ UNCHANGED <<fdno, noti, alloc, now, ready, pc, loop, call, errors>>
          /\ fdm' = IF TAILQ_EMPTY(notim', f)
                    THEN Move(fdm, "fd_q", "spare_fd_q", f) ELSE fdm
    BY <1>1 DEF CancelArmed, CancelCall, Recycle
  <2>2. Running
    BY <2>1 DEF InClient, Running
  <2>3. f \in FdQueue
    BY <2>2, FindOnQueue DEF FdInv, SearchedFirst
  <2> QED
    BY <2>1, <2>2, <2>3, SparesEffect
<1>2. CASE CancelPending(i)
  BY <1>2 DEF CancelPending, CancelCall, Recycle
<1> QED
  BY <1>1, <1>2

\* aloe_ev_cancel of an event that is on no queue, when none is spoilt: the call
\* returns, having done nothing to the queues.
LEMMA CancelMissEffect ==
  ASSUME TypeOK, FdInv, NotiInv, NEW i \in Registrations, CancelMiss(i)
  PROVE  /\ InClient /\ UNCHANGED <<queues, now, ready, loop, call, errors, corrupt>>
         /\ regs' = [regs EXCEPT ![i].st = IF @ = "done" THEN @ ELSE "cancelled"]
         /\ \A h \in SearchedFirst(regs[i].ev) \union {"noti_q"} : regs[i].ev \notin Events(h)
         /\ pc' \in {pc, "hung"}
         /\ ~ corrupt => pc' = pc
<1> DEFINE S == SearchedFirst(regs[i].ev) \union {"noti_q"}
<1>1. /\ InClient /\ UNCHANGED <<queues, now, ready, loop, call, errors, corrupt>>
      /\ regs' = [regs EXCEPT ![i].st = IF @ = "done" THEN @ ELSE "cancelled"]
      /\ \A h \in S : regs[i].ev \notin Events(h)
      /\ pc' = IF \E h \in S : Endless(notim, h, Noti) THEN "hung" ELSE pc
  BY DEF CancelMiss, CancelCall, queues, Events
<1>2. Running
  BY <1>1 DEF InClient, Running
<1>3. S \subseteq NotiHeads \union FdQueue
  BY <1>2, FindOnQueue, Cells DEF FdInv, SearchedFirst
<1> HIDE DEF S
<1>4. ~ corrupt => \A h \in S : ~ Endless(notim, h, Noti)
  BY <1>2, <1>3, NotiQueuesAre, FirstAndNext DEF NotiInv
<1> QED
  BY <1>1, <1>4 DEF S

LEMMA CollectNotiEffect ==
  ASSUME TypeOK, FdInv, NotiInv, CollectNoti, ~ corrupt
  PROVE  \E f \in FdQueue, n \in Noti :
             /\ f = loop.ev_fd /\ n = loop.ev_noti
             /\ pc = "collect" /\ n \in Events(f)
             /\ UNCHANGED <<fdm, fdno, alloc, now, ready, pc, call, errors, corrupt>>
             /\ noti' = [noti EXCEPT ![n].ev_noti = Notified(n)]
             /\ loop' = [loop EXCEPT !.ev_noti = TAILQ_NEXT(notim, n)]
             /\ Notified(n) = {} => UNCHANGED <<notim, regs>>
             /\ Notified(n) # {} =>
                  /\ regs' = [regs EXCEPT ![noti[n].cbarg].st = IF @ = "armed" THEN "pending" ELSE @]
                  /\ Events(f)' = Events(f) \ {n}
                  /\ Events("noti_q")' = Events("noti_q") \union {n}
                  /\ \A h \in {"spare_noti_q"} \union FdQueue : h # f => Events(h)' = Events(h)
                  /\ Order(f)' = Without(Order(f), n)
                  /\ Order("noti_q")' = Append(Order("noti_q"), n)
                  /\ \A h \in FdQueue : h # f => Order(h)' = Order(h)
<1>1. PICK f \in FdQueue, n \in Noti :
        f = loop.ev_fd /\ n = loop.ev_noti /\ n \in Events(f)
  <2>1. pc = "collect" /\ loop.ev_noti # NULL /\ Running
    BY DEF CollectNoti, Running
  <2> QED
    BY <2>1 DEF FdInv, NotiInv, Events, Visited
<1>2. Running /\ f \in FdQueue /\ n \in Events(f)
  BY <1>1 DEF CollectNoti, Running
<1>3. /\ pc = "collect"
      /\ UNCHANGED <<fdm, fdno, alloc, now, ready, pc, call, errors, corrupt>>
      /\ noti' = [noti EXCEPT ![n].ev_noti = Notified(n)]
      /\ loop' = [loop EXCEPT !.ev_noti = TAILQ_NEXT(notim, n)]
      /\ Notified(n) = {} => UNCHANGED <<notim, regs>>
      /\ Notified(n) # {} =>
           /\ regs' = [regs EXCEPT ![noti[n].cbarg].st = IF @ = "armed" THEN "pending" ELSE @]
           /\ notim' = Move(notim, f, "noti_q", n)
  BY <1>1 DEF CollectNoti
<1>4. /\ f # "noti_q" /\ f # "spare_noti_q" /\ "noti_q" # "spare_noti_q"
      /\ \A h \in FdQueue : h # "noti_q"
  BY <1>2, Cells DEF FdQueue, Visited
<1>5. ASSUME Notified(n) # {}
      PROVE  /\ Events(f)' = Events(f) \ {n}
             /\ Events("noti_q")' = Events("noti_q") \union {n}
             /\ \A h \in {"spare_noti_q"} \union FdQueue : h # f => Events(h)' = Events(h)
             /\ Order(f)' = Without(Order(f), n)
             /\ Order("noti_q")' = Append(Order("noti_q"), n)
             /\ \A h \in FdQueue : h # f => Order(h)' = Order(h)
  <2>1. /\ Visited(notim', f, Noti) = Events(f) \ {n}
        /\ Visited(notim', "noti_q", Noti) = Events("noti_q") \union {n}
        /\ \A h \in NotiHeads \union FdQueue : h # f /\ h # "noti_q" => Visited(notim', h, Noti) = Events(h)
        /\ Contents(notim', f, Noti) = Without(Order(f), n)
        /\ Contents(notim', "noti_q", Noti) = Append(Order("noti_q"), n)
        /\ \A h \in NotiHeads \union FdQueue : h # f /\ h # "noti_q" => Contents(notim', h, Noti) = Order(h)
    BY <1>2, <1>3, <1>4, <1>5, MoveNoti, Cells
  <2>2. \A h \in {"spare_noti_q"} \union FdQueue : h \in NotiHeads \union FdQueue /\ h # "noti_q"
    BY <1>4, Cells
  <2>3. \A h \in {"spare_noti_q"} \union FdQueue : h # f => Visited(notim', h, Noti) = Events(h)
    BY <2>1, <2>2
  <2>4. \A h \in FdQueue : h # f => Contents(notim', h, Noti) = Order(h)
    BY <2>1, <2>2
  <2>5. /\ Order(f)' = Without(Order(f), n)
        /\ Order("noti_q")' = Append(Order("noti_q"), n)
        /\ \A h \in FdQueue : h # f => Order(h)' = Order(h)
    BY <2>1, <2>4 DEF Order
  <2> QED
    BY <2>1, <2>3, <2>5 DEF Events
<1> QED
  BY <1>1, <1>3, <1>5

LEMMA CollectFdEffect ==
  ASSUME TypeOK, FdInv, CollectFd
  PROVE  LET f == loop.ev_fd
         IN  /\ pc = "collect" /\ f \in FdQueue /\ loop.ev_noti = NULL
             /\ UNCHANGED <<notim, fdno, noti, alloc, now, ready, call, regs, errors, corrupt>>
             /\ TAILQ_EMPTY(notim, f) => Spares(f)
             /\ ~ TAILQ_EMPTY(notim, f) => UNCHANGED fdm
             /\ EnterFd(TAILQ_NEXT(fdm, f), loop)
             /\ TAILQ_NEXT(fdm, f) \in (FdQueue \ {f}) \union {NULL}
<1> DEFINE f == loop.ev_fd
<1>1. /\ pc = "collect" /\ loop.ev_noti = NULL
      /\ UNCHANGED <<notim, fdno, noti, alloc, now, ready, call, regs, errors, corrupt>>
      /\ fdm' = IF TAILQ_EMPTY(notim, f) THEN Move(fdm, "fd_q", "spare_fd_q", f) ELSE fdm
      /\ EnterFd(TAILQ_NEXT(fdm, f), loop)
  BY DEF CollectFd
<1>2. Running
  BY <1>1 DEF Running
<1>3. f \in FdQueue
  BY <1>1, <1>2 DEF FdInv
<1> HIDE DEF f
<1>4. TAILQ_NEXT(fdm, f) # NULL => TAILQ_NEXT(fdm, f) \in FdQueue \ {f}
  BY <1>2, <1>3, FdQueuesAre, FirstAndNext, Cells DEF FdInv, FdQueue
<1>5. TAILQ_EMPTY(notim, f) => Spares(f)
  BY <1>1, <1>2, <1>3, SparesEffect
<1> QED
  BY <1>1, <1>3, <1>4, <1>5 DEF f

LEMMA ReadClockEffect ==
  ASSUME TypeOK, FdInv, ReadClock
  PROVE  /\ pc = "clock" /\ UNCHANGED <<queues, now, ready, call, regs, errors, corrupt>>
         /\ EnterFd(First, [loop EXCEPT !.ts = now])
         /\ First \in FdQueue \union {NULL}
<1>1. Running
  BY DEF ReadClock, Running
<1>2. First \in FdQueue \union {NULL}
  BY <1>1, FdQueuesAre, FirstAndNext, Cells DEF FdInv, FdQueue, First
<1> QED
  BY <1>2 DEF ReadClock, First

LEMMA DispatchEffect ==
  ASSUME TypeOK, FdInv, NotiInv, Dispatch, ~ corrupt
  PROVE  LET n == TAILQ_FIRST(notim, "noti_q")
         IN  /\ pc = "dispatch" /\ pc' = "cb" /\ n \in Events("noti_q")
             /\ UNCHANGED <<fdm, fdno, noti, alloc, now, ready, loop, errors, corrupt>>
             /\ call' = [fd |-> noti[n].fd, cb |-> noti[n].cb,
                         triggered |-> noti[n].ev_noti, cbarg |-> noti[n].cbarg]
             /\ regs' = [regs EXCEPT ![noti[n].cbarg].st = IF @ = "pending" THEN "done" ELSE @]
             /\ Events("noti_q")' = Events("noti_q") \ {n}
             /\ Events("spare_noti_q")' = Events("spare_noti_q") \union {n}
             /\ \A h \in FdQueue : Events(h)' = Events(h)
             /\ Order("noti_q")' = Without(Order("noti_q"), n)
             /\ \A h \in FdQueue : Order(h)' = Order(h)
<1> DEFINE n == TAILQ_FIRST(notim, "noti_q")
<1>1. /\ pc = "dispatch" /\ pc' = "cb" /\ n # NULL
      /\ notim' = Move(notim, "noti_q", "spare_noti_q", n)
      /\ UNCHANGED <<fdm, fdno, noti, alloc, now, ready, loop, errors, corrupt>>
      /\ call' = [fd |-> noti[n].fd, cb |-> noti[n].cb,
                  triggered |-> noti[n].ev_noti, cbarg |-> noti[n].cbarg]
      /\ regs' = [regs EXCEPT ![noti[n].cbarg].st = IF @ = "pending" THEN "done" ELSE @]
  BY DEF Dispatch
<1>2. Running
  BY <1>1 DEF Running
<1>3. n \in Events("noti_q")
  BY <1>1, <1>2, NotiQueuesAre, FirstAndNext, Cells DEF NotiInv, Events
<1> HIDE DEF n
<1>4. /\ Visited(notim', "noti_q", Noti) = Events("noti_q") \ {n}
      /\ Visited(notim', "spare_noti_q", Noti) = Events("spare_noti_q") \union {n}
      /\ \A h \in NotiHeads \union FdQueue :
           h # "noti_q" /\ h # "spare_noti_q" => Visited(notim', h, Noti) = Events(h)
      /\ Contents(notim', "noti_q", Noti) = Without(Order("noti_q"), n)
      /\ \A h \in NotiHeads \union FdQueue :
           h # "noti_q" /\ h # "spare_noti_q" => Contents(notim', h, Noti) = Order(h)
  BY <1>1, <1>2, <1>3, MoveNoti, Cells
<1>5. \A h \in FdQueue : h # "noti_q" /\ h # "spare_noti_q"
  BY Cells DEF FdQueue, Visited
<1>6. /\ Events("noti_q")' = Events("noti_q") \ {n}
      /\ Events("spare_noti_q")' = Events("spare_noti_q") \union {n}
      /\ \A h \in FdQueue : Events(h)' = Events(h)
  BY <1>4, <1>5 DEF Events
<1>7. /\ Order("noti_q")' = Without(Order("noti_q"), n)
      /\ \A h \in FdQueue : Order(h)' = Order(h)
  BY <1>4, <1>5 DEF Order
<1> QED
  BY <1>1, <1>3, <1>6, <1>7 DEF n

\* The steps that do not concern the queues.
Idle == OnceBegin \/ SelectReturn \/ CbReturn \/ OnceReturn \/ OnceError \/ Tick \/ Arrive \/ Stopped

LEMMA IdleEffect ==
  ASSUME TypeOK, FdInv, NotiInv, Idle \/ UNCHANGED vars
  PROVE  /\ UNCHANGED <<queues, regs, corrupt>>
         /\ Running' => Running
         /\ pc' = "collect" <=> pc = "collect"
         /\ pc = "collect" => loop' = loop
         /\ ~ corrupt /\ Running => Running'
<1>1. UNCHANGED <<queues, regs, corrupt>> /\ (pc' = "collect" <=> pc = "collect")
  BY DEF Idle, OnceBegin, SelectReturn, CbReturn, OnceReturn, OnceError, Tick, Arrive, Stopped, vars
<1>2. pc = "collect" => loop' = loop
  BY DEF Idle, OnceBegin, SelectReturn, CbReturn, OnceReturn, OnceError, Tick, Arrive, Stopped, vars
<1>3. Running' => Running
  BY DEF Idle, OnceBegin, SelectReturn, CbReturn, OnceReturn, OnceError, Tick, Arrive, Stopped, vars,
         Running
<1>4. CASE OnceBegin
  <2>1. pc = "idle" /\ Running
    BY <1>4 DEF OnceBegin, Running
  <2>2. ~ corrupt => \A f \in FdQueue : ~ Endless(notim, f, Noti)
    BY <2>1, NotiQueuesAre, FirstAndNext DEF NotiInv
  <2>3. ~ corrupt => pc' = "select"
    BY <1>4, <2>2 DEF OnceBegin, FdQueue
  <2> QED
    BY <1>1, <1>2, <1>3, <2>3 DEF Running
<1>5. CASE ~ OnceBegin
  <2>1. Running => Running'
    BY <1>5 DEF Idle, SelectReturn, CbReturn, OnceReturn, OnceError, Tick, Arrive, Stopped, vars,
         Running
  <2> QED
    BY <1>1, <1>2, <1>3, <2>1
<1> QED
  BY <1>4, <1>5

-----------------------------------------------------------------------------
(***************************************************************************)
(* One record to a descriptor, none that waits for nothing, and nothing    *)
(* leaks.                                                                  *)
(***************************************************************************)

RecordInv ==
  Running =>
    /\ \A f, g \in FdQueue : fdno[f] = fdno[g] => f = g
    /\ pc # "collect" => loop.ev_fd = NULL
    /\ ~ corrupt => \A f \in FdQueue : Events(f) = {} => pc = "collect" /\ loop.ev_fd = f

\* Event n is on one of the queues.
Queued(n) == \E h \in NotiHeads \union FdQueue : n \in Events(h)

AllocInv ==
  Running =>
    /\ alloc \cap FdRec \subseteq FdQueue \union SpareFds
    /\ ~ corrupt => \A n \in alloc \cap Noti : Queued(n)

LEMMA EmptyEvents ==
  ASSUME TypeOK, NotiInv, Running, ~ corrupt, NEW h \in NotiHeads \union FdQueue
  PROVE  TAILQ_EMPTY(notim, h) <=> Events(h) = {}
BY NotiQueuesAre, FirstAndNext DEF NotiInv, Events

\* fd_q_find finds the record of a descriptor, if there is one.
LEMMA FindFinds ==
  ASSUME NEW fd, fd # -1
  PROVE  /\ fd_q_find(fd) # NULL => fdno[fd_q_find(fd)] = fd
         /\ NULL \notin FdQueue /\ fd_q_find(fd) = NULL => \A f \in FdQueue : fdno[f] # fd
<1> DEFINE found == { f \in FdQueue : fdno[f] = fd }
<1>1. fd_q_find(fd) = IF found = {} THEN NULL ELSE CHOOSE f \in found : TRUE
  BY DEF fd_q_find, Find, FdQueue
<1>2. found # {} => (CHOOSE f \in found : TRUE) \in found
  OBVIOUS
<1> QED
  BY <1>1, <1>2

\* Without fd_q there is nothing to find, and -1 finds nothing only then.
LEMMA FindTimer ==
  ASSUME TypeOK, FdInv, Running
  PROVE  /\ fd_q_find(-1) = First
         /\ First = NULL <=> FdQueue = {}
         /\ First \in FdQueue \union {NULL} /\ NULL \notin FdQueue
<1>1. First = NULL <=> FdQueue = {}
  BY FdQueuesAre, FirstAndNext, Cells DEF FdInv, FdQueue, First, TAILQ_EMPTY, TAILQ_FIRST
<1>2. First \in FdQueue \union {NULL}
  BY FdQueuesAre, FirstAndNext, Cells DEF FdInv, FdQueue, First
<1> QED
  BY <1>1, <1>2, Cells DEF fd_q_find, Find, First, FdQueue, Visited

LEMMA InitRecordInv == Init => RecordInv /\ AllocInv
<1> SUFFICES ASSUME Init PROVE RecordInv /\ AllocInv
  OBVIOUS
<1>1. \A h \in FdHeads : fdm.ptr[h] = NULL /\ fdm.back[h] = h
  BY Cells DEF Init
<1>2. FdQueue = {}
  BY <1>1, EmptyLinks, Cells DEF FdQueue
<1> QED
  BY <1>2 DEF Init, RecordInv, AllocInv, NoFrame

LEMMA PutRecordInv ==
  ASSUME TypeOK, FdInv, NotiInv, RecordInv, AllocInv, NEW r \in Requests, aloe_ev_put(r)
  PROVE  RecordInv' /\ AllocInv'
<1>1. PICK c \in FdRec, e \in Noti : PutTakes(r, c, e)
  BY PutEffect
<1>2. InClient /\ UNCHANGED <<pc, loop, corrupt>>
  BY PutEffect
<1>3. Running /\ Running' /\ pc' # "collect" /\ pc # "collect"
  BY <1>2 DEF InClient, Running
<1>4. /\ fd_q_find(r.fd) = IF c \in FdQueue THEN c ELSE NULL
      /\ FdQueue' = FdQueue \union {c} /\ SpareFds' = SpareFds \ {c}
      /\ fdno' = IF c \in FdQueue THEN fdno ELSE [fdno EXCEPT ![c] = r.fd]
      /\ alloc' = alloc \union {c, e}
  BY <1>1 DEF PutTakes
<1>5. \A f, g \in FdQueue' : fdno'[f] = fdno'[g] => f = g
  <2>1. CASE c \in FdQueue
    BY <1>3, <1>4, <2>1 DEF RecordInv
  <2>2. CASE c \notin FdQueue
    <3>1. \A f \in FdQueue : fdno[f] # r.fd
      <4>1. CASE r.fd = -1
        BY <1>3, <1>4, <2>2, <4>1, FindTimer
      <4>2. CASE r.fd # -1
        BY <1>3, <1>4, <2>2, <4>2, FindFinds, FindTimer
      <4> QED
        BY <4>1, <4>2
    <3>2. /\ fdno' = [fdno EXCEPT ![c] = r.fd] /\ DOMAIN fdno = FdRec
          /\ FdQueue \subseteq FdRec
      BY <1>4, <2>2, TypeOKParts DEF FieldsOK, FdQueue, Visited
    <3>3. fdno'[c] = r.fd /\ \A f \in FdQueue : fdno'[f] = fdno[f]
      BY <2>2, <3>2
    <3> QED
      BY <1>3, <1>4, <3>1, <3>3 DEF RecordInv
  <2> QED
    BY <2>1, <2>2
<1>6. loop'.ev_fd = NULL
  BY <1>2, <1>3 DEF RecordInv
<1>7. ASSUME ~ corrupt
      PROVE  /\ \A f \in FdQueue' : Events(f)' # {}
             /\ \A n \in alloc' \cap Noti : \E h \in NotiHeads \union FdQueue' : n \in Events(h)'
  <2>1. /\ Events(c)' = (IF c \in FdQueue THEN Events(c) ELSE {}) \union {e}
        /\ Events("spare_noti_q")' = Events("spare_noti_q") \ {e}
        /\ \A h \in {"noti_q"} \union FdQueue : h # c => Events(h)' = Events(h)
    BY <1>1, <1>7 DEF PutTakes
  <2>2. \A f \in FdQueue : Events(f) # {}
    BY <1>3, <1>7 DEF RecordInv
  <2>3. \A f \in FdQueue' : Events(f)' # {}
    BY <1>4, <2>1, <2>2
  <2>4. ASSUME NEW n \in alloc' \cap Noti
        PROVE  \E h \in NotiHeads \union FdQueue' : n \in Events(h)'
    <3>1. CASE n = e
      BY <1>4, <2>1, <3>1
    <3>2. CASE n # e
      <4>1. n \in alloc \cap Noti
        BY <1>4, <2>4, <3>2, Cells
      <4>2. PICK h \in NotiHeads \union FdQueue : n \in Events(h)
        BY <1>3, <1>7, <4>1 DEF AllocInv, Queued
      <4>3. n \in Events(h)'
        <5>1. CASE h = c
          BY <2>1, <4>2, <5>1, Cells
        <5>2. CASE h = "spare_noti_q"
          BY <2>1, <3>2, <4>2, <5>2
        <5>3. CASE h # c /\ h # "spare_noti_q"
          BY <2>1, <4>2, <5>3 DEF NotiHeads
        <5> QED
          BY <5>1, <5>2, <5>3
      <4> QED
        BY <1>4, <4>3
    <3> QED
      BY <3>1, <3>2
  <2> QED
    BY <2>3, <2>4
<1>8. alloc' \cap FdRec \subseteq FdQueue' \union SpareFds'
  BY <1>3, <1>4, Cells DEF AllocInv
<1>9. RecordInv'
  BY <1>2, <1>3, <1>5, <1>6, <1>7 DEF RecordInv
<1>10. AllocInv'
  BY <1>2, <1>7, <1>8 DEF AllocInv, Queued
<1> QED
  BY <1>9, <1>10

LEMMA ClientRecordInv ==
  ASSUME TypeOK, FdInv, NotiInv, RecordInv, AllocInv, Client
  PROVE  RecordInv' /\ AllocInv'
<1>1. ASSUME NEW r \in Requests, PutNoMemory(r)
      PROVE  RecordInv' /\ AllocInv'
  <2>1. PICK c \in FdRec : /\ FdQueue' = FdQueue /\ SpareFds' = SpareFds \union {c}
                           /\ alloc' = alloc \union {c}
    BY <1>1, NoMemoryEffect
  <2>2. InClient /\ UNCHANGED <<notim, fdno, pc, loop, corrupt>>
    BY <1>1, NoMemoryEffect
  <2>3. Running /\ alloc' \cap Noti = alloc \cap Noti
    BY <2>1, <2>2, Cells DEF InClient, Running
  <2> QED
    BY <2>1, <2>2, <2>3 DEF RecordInv, AllocInv, Queued, Events
<1>2. ASSUME NEW i \in Registrations, CancelArmed(i) \/ CancelPending(i)
      PROVE  RecordInv' /\ AllocInv'
  <2>1. /\ InClient /\ corrupt' /\ UNCHANGED <<fdno, alloc, pc, loop>>
        /\ UNCHANGED fdm \/ \E f \in FdQueue : Spares(f)
    BY <1>2, CancelFindsEffect
  <2>2. Running
    BY <2>1 DEF InClient, Running
  <2>3. /\ FdQueue' \subseteq FdQueue
        /\ FdQueue' \union SpareFds' = FdQueue \union SpareFds
    BY <2>1 DEF Spares, FdQueue, SpareFds
  <2> QED
    BY <2>1, <2>2, <2>3 DEF RecordInv, AllocInv
<1>3. ASSUME NEW i \in Registrations, CancelMiss(i)
      PROVE  RecordInv' /\ AllocInv'
  <2>1. InClient /\ UNCHANGED <<queues, loop, corrupt>> /\ pc' \in {pc, "hung"}
    BY <1>3, CancelMissEffect
  <2>2. Running /\ (Running' => pc' = pc)
    BY <2>1 DEF InClient, Running
  <2> QED
    BY <2>1, <2>2 DEF RecordInv, AllocInv, Queued, Events, FdQueue, SpareFds, queues
<1>4. CASE DestroyBegin
  BY <1>4 DEF DestroyBegin, RecordInv, AllocInv, Running
<1> QED
  BY <1>1, <1>2, <1>3, <1>4, PutRecordInv DEF Client, Registrations

LEMMA CollectRecordInv ==
  ASSUME TypeOK, FdInv, NotiInv, RecordInv, AllocInv, CollectNoti
  PROVE  RecordInv' /\ AllocInv'
<1> DEFINE f == loop.ev_fd
<1>1. /\ pc = "collect" /\ UNCHANGED <<fdm, fdno, alloc, pc, corrupt>>
      /\ loop'.ev_fd = f
  BY TypeOKParts DEF CollectNoti, LoopOK, Frame
<1>2. Running /\ FdQueue' = FdQueue /\ SpareFds' = SpareFds
  BY <1>1 DEF Running, FdQueue, SpareFds
<1>3. ASSUME ~ corrupt
      PROVE  /\ \A g \in FdQueue : Events(g)' = {} => f = g
             /\ \A x \in alloc \cap Noti : \E h \in NotiHeads \union FdQueue : x \in Events(h)'
  <2>0. PICK g \in FdQueue, n \in Noti :
          /\ g = loop.ev_fd /\ n \in Events(g)
          /\ Notified(n) = {} => notim' = notim
          /\ Notified(n) # {} =>
               /\ Events(g)' = Events(g) \ {n}
               /\ Events("noti_q")' = Events("noti_q") \union {n}
               /\ \A h \in {"spare_noti_q"} \union FdQueue : h # g => Events(h)' = Events(h)
    BY <1>3, CollectNotiEffect
  <2>1. \A h \in FdQueue : Events(h) = {} => g = h
    BY <1>1, <1>2, <1>3, <2>0 DEF RecordInv
  <2>2. \A x \in alloc \cap Noti : \E h \in NotiHeads \union FdQueue : x \in Events(h)
    BY <1>1, <1>2, <1>3 DEF AllocInv, Queued
  <2>3. CASE Notified(n) = {}
    BY <2>0, <2>1, <2>2, <2>3 DEF Events
  <2>4. CASE Notified(n) # {}
    <3>2. ASSUME NEW x, NEW h \in NotiHeads \union FdQueue, x \in Events(h)
          PROVE  \E k \in NotiHeads \union FdQueue : x \in Events(k)'
      <4>1. "noti_q" \in NotiHeads \union FdQueue
        BY Cells
      <4>2. CASE x = n \/ h = "noti_q"
        BY <2>0, <2>4, <3>2, <4>1, <4>2
      <4>3. CASE x # n /\ h # "noti_q"
        <5>1. h = g \/ h \in {"spare_noti_q"} \union FdQueue
          BY <4>3 DEF NotiHeads
        <5>2. x \in Events(h)'
          BY <2>0, <2>4, <3>2, <4>3, <5>1
        <5> QED
          BY <5>2
      <4> QED
        BY <4>2, <4>3
    <3> QED
      BY <2>0, <2>1, <2>2, <2>4, <3>2
  <2> QED
    BY <2>3, <2>4
<1> QED
  BY <1>1, <1>2, <1>3 DEF RecordInv, AllocInv, Queued

LEMMA IdleRecordInv ==
  ASSUME TypeOK, FdInv, NotiInv, RecordInv, AllocInv, Idle \/ UNCHANGED vars
  PROVE  RecordInv' /\ AllocInv'
<1>1. /\ UNCHANGED <<fdm, notim, fdno, alloc, corrupt>> /\ (Running' => Running)
      /\ pc' = "collect" <=> pc = "collect"
      /\ pc = "collect" => loop' = loop
  BY IdleEffect DEF queues
<1>2. pc' # "collect" /\ loop.ev_fd = NULL => loop'.ev_fd = NULL
  <2>1. ASSUME NEW x, loop' = [loop EXCEPT !.sets = x, !.fdmax = Cardinality(x)], loop.ev_fd = NULL
        PROVE  loop'.ev_fd = NULL
    <3>1. loop \in Frame
      BY TypeOKParts DEF LoopOK
    <3> QED
      BY <2>1, <3>1 DEF Frame
  <2>2. CASE SelectReturn
    BY <2>1, <2>2 DEF SelectReturn
  <2>3. CASE OnceBegin
    BY <2>3 DEF OnceBegin, NoFrame
  <2>4. CASE OnceError
    BY <2>4 DEF OnceError, NoFrame
  <2>5. CASE CbReturn \/ OnceReturn \/ Tick \/ Arrive \/ Stopped \/ UNCHANGED vars
    BY <2>5 DEF CbReturn, OnceReturn, Tick, Arrive, Stopped, vars
  <2> QED
    BY <2>2, <2>3, <2>4, <2>5 DEF Idle
<1> QED
  BY <1>1, <1>2 DEF RecordInv, AllocInv, Queued, Events, FdQueue, SpareFds

LEMMA OnceRecordInv ==
  ASSUME TypeOK, FdInv, NotiInv, RecordInv, AllocInv, Once
  PROVE  RecordInv' /\ AllocInv'
<1>1. CASE ReadClock
  <2>1. /\ pc = "clock" /\ UNCHANGED <<fdm, notim, fdno, alloc, corrupt>>
        /\ EnterFd(First, [loop EXCEPT !.ts = now])
    BY <1>1, ReadClockEffect DEF queues
  <2>2. Running
    BY <2>1 DEF Running
  <2>3. pc' = "collect" \/ loop'.ev_fd = NULL
    BY <2>1 DEF EnterFd, NoFrame
  <2>4. ~ corrupt => \A f \in FdQueue : Events(f) # {}
    BY <2>1, <2>2 DEF RecordInv
  <2> QED
    BY <2>1, <2>2, <2>3, <2>4 DEF RecordInv, AllocInv, Queued, Events, FdQueue, SpareFds
<1>2. CASE CollectFd
  <2> DEFINE f == loop.ev_fd
  <2>1. /\ pc = "collect" /\ f \in FdQueue /\ UNCHANGED <<notim, fdno, alloc, corrupt>>
        /\ TAILQ_EMPTY(notim, f) => Spares(f)
        /\ ~ TAILQ_EMPTY(notim, f) => UNCHANGED fdm
        /\ EnterFd(TAILQ_NEXT(fdm, f), loop)
    BY <1>2, CollectFdEffect
  <2>2. Running
    BY <2>1 DEF Running
  <2>3. pc' = "collect" \/ loop'.ev_fd = NULL
    BY <2>1 DEF EnterFd, NoFrame
  <2>4. /\ FdQueue' \subseteq FdQueue /\ FdQueue \ {f} \subseteq FdQueue'
        /\ FdQueue' \union SpareFds' = FdQueue \union SpareFds
    BY <2>1 DEF Spares, FdQueue, SpareFds
  <2>5. ASSUME ~ corrupt
        PROVE  /\ \A g \in FdQueue' : Events(g)' # {}
               /\ \A x : Queued(x) => Queued(x)'
    <3>1. TAILQ_EMPTY(notim, f) <=> Events(f) = {}
      BY <2>1, <2>2, <2>5, EmptyEvents
    <3>2. \A g \in FdQueue \ {f} : Events(g) # {}
      BY <2>2, <2>5 DEF RecordInv
    <3>3. \A h : Events(h)' = Events(h)
      BY <2>1 DEF Events
    <3>4. Events(f) = {} => f \notin FdQueue'
      BY <2>1, <3>1 DEF Spares
    <3>5. \A g \in FdQueue' : Events(g)' # {}
      BY <2>4, <3>2, <3>3, <3>4
    <3>6. Events(f) # {} => f \in FdQueue'
      BY <2>1, <3>1 DEF FdQueue
    <3>7. \A x : Queued(x) => Queued(x)'
      BY <2>4, <3>3, <3>6 DEF Queued
    <3> QED
      BY <3>5, <3>7
  <2> QED
    BY <2>1, <2>2, <2>3, <2>4, <2>5 DEF RecordInv, AllocInv
<1>3. CASE Dispatch
  <2>1. pc = "dispatch" /\ pc' = "cb" /\ UNCHANGED <<fdm, fdno, alloc, loop, corrupt>>
    BY <1>3 DEF Dispatch
  <2>2. Running /\ FdQueue' = FdQueue /\ SpareFds' = SpareFds
    BY <2>1 DEF Running, FdQueue, SpareFds
  <2>3. ASSUME ~ corrupt
        PROVE  /\ \A f \in FdQueue : Events(f)' # {}
               /\ \A x : Queued(x) => Queued(x)'
    <3>1. /\ Events("noti_q")' = Events("noti_q") \ {TAILQ_FIRST(notim, "noti_q")}
          /\ Events("spare_noti_q")' = Events("spare_noti_q") \union {TAILQ_FIRST(notim, "noti_q")}
          /\ \A h \in FdQueue : Events(h)' = Events(h)
      BY <1>3, <2>3, DispatchEffect
    <3>2. \A f \in FdQueue : Events(f)' # {}
      BY <2>1, <2>2, <2>3, <3>1 DEF RecordInv
    <3>3. \A x : Queued(x) => Queued(x)'
      BY <2>2, <3>1 DEF Queued, NotiHeads
    <3> QED
      BY <3>2, <3>3
  <2> QED
    BY <2>1, <2>2, <2>3 DEF RecordInv, AllocInv
<1> QED
  BY <1>1, <1>2, <1>3, CollectRecordInv, IdleRecordInv DEF Once, Idle

LEMMA NextRecordInv ==
  TypeOK /\ FdInv /\ NotiInv /\ RecordInv /\ AllocInv /\ [Next]_vars => RecordInv' /\ AllocInv'
<1> SUFFICES ASSUME TypeOK, FdInv, NotiInv, RecordInv, AllocInv, [Next]_vars
             PROVE  RecordInv' /\ AllocInv'
  OBVIOUS
<1>1. CASE Freeing
  BY <1>1, FreeingStops DEF RecordInv, AllocInv
<1> QED
  BY <1>1, ClientRecordInv, OnceRecordInv, IdleRecordInv DEF Next, Idle

\* Every record that malloc gave out is on a queue, where it is used or kept for later,
\* also where malloc or a system call has failed.
LEMMA AllocIsQueues ==
  TypeOK /\ FdInv /\ NotiInv /\ AllocInv => NothingLeaks
<1> SUFFICES ASSUME TypeOK, FdInv, NotiInv, AllocInv, Running, ~ corrupt
             PROVE  alloc = (UNION { Visited(fdm, h, FdRec) : h \in FdHeads })
                            \union (UNION { Events(h) : h \in NotiHeads \union FdQueue })
  BY DEF NothingLeaks
<1> DEFINE F == UNION { Visited(fdm, h, FdRec) : h \in FdHeads }
<1>1. F = FdQueue \union SpareFds
  BY DEF FdHeads, FdQueue, SpareFds
<1> HIDE DEF F
<1>2. FdQueue \union SpareFds \subseteq alloc
  BY Cells DEF FdInv, FdQueue, SpareFds
<1>3. \A h \in NotiHeads \union FdQueue : Events(h) \subseteq alloc
  BY DEF NotiInv
<1>4. alloc \subseteq FdRec \union Noti
  BY TypeOKParts DEF FieldsOK
<1>5. \A x \in alloc : x \in FdQueue \union SpareFds \/ \E h \in NotiHeads \union FdQueue : x \in Events(h)
  BY <1>4 DEF AllocInv, Queued
<1> DEFINE E == UNION { Events(h) : h \in NotiHeads \union FdQueue }
<1>6. \A x : x \in E <=> \E h \in NotiHeads \union FdQueue : x \in Events(h)
  OBVIOUS
<1> HIDE DEF E
<1>7. alloc \subseteq FdQueue \union SpareFds \union E
  BY <1>5, <1>6
<1>8. E \subseteq alloc
  BY <1>3, <1>6
<1>9. alloc = F \union E
  BY <1>1, <1>2, <1>7, <1>8
<1> QED
  BY <1>9 DEF E, F

-----------------------------------------------------------------------------
(***************************************************************************)
(* The registrations and the events that hold them.                        *)
(***************************************************************************)

\* Record f of fd_q serves descriptor fd; the first one serves the timers.
Serves(f, fd) == IF fd = -1 THEN f = First ELSE fdno[f] = fd

\* Event n holds the registration of its number, which is in state st.
Holds(n, st) ==
  /\ noti[n].cbarg \in Registrations
  /\ regs[noti[n].cbarg].ev = n /\ regs[noti[n].cbarg].st = st

ArmedInv   == \A f \in FdQueue : \A n \in Events(f) : Holds(n, "armed") /\ Serves(f, noti[n].fd)
PendingInv == \A n \in Events("noti_q") : Holds(n, "pending")

\* Registration i is where its state demands, and its event still holds it.
Kept(i) ==
  /\ regs[i].st = "armed" => \E f \in FdQueue : regs[i].ev \in Events(f)
  /\ regs[i].st = "pending" => regs[i].ev \in Events("noti_q")
  /\ regs[i].st \in {"armed", "pending"} =>
       /\ noti[regs[i].ev].cbarg = i
       /\ noti[regs[i].ev].fd = regs[i].req.fd /\ noti[regs[i].ev].cb = regs[i].req.cb
       /\ noti[regs[i].ev].ev_wait = regs[i].req.ev_wait
       /\ noti[regs[i].ev].due = regs[i].due

RegInv == Running /\ ~ corrupt => ArmedInv /\ PendingInv /\ \A i \in Registrations : Kept(i)

\* No event is on two queues.
LEMMA EventsDisjoint ==
  ASSUME NotiInv, Running, ~ corrupt
  PROVE  \A g, h \in NotiHeads \union FdQueue : g # h => Events(g) \cap Events(h) = {}
BY DEF NotiInv, WellLinked, Events

\* A registration changes its state.
LEMMA StateChange ==
  ASSUME NEW s \in Seq(Registration), NEW j \in 1 .. Len(s), NEW v,
         NEW t, t = [s EXCEPT ![j].st = v]
  PROVE  /\ Len(t) = Len(s)
         /\ \A i \in 1 .. Len(s) : /\ t[i].ev = s[i].ev /\ t[i].req = s[i].req /\ t[i].due = s[i].due
                                   /\ t[i].st = IF i = j THEN v ELSE s[i].st
<1>1. s \in [1 .. Len(s) -> Registration] /\ Len(s) \in Nat
  OBVIOUS
<1>2. DOMAIN t = 1 .. Len(s) /\ t[j] = [s[j] EXCEPT !.st = v] /\ \A i \in 1 .. Len(s) : i # j => t[i] = s[i]
  BY <1>1
<1>3. s[j] \in Registration
  BY <1>1
<1>4. t[j].ev = s[j].ev /\ t[j].req = s[j].req /\ t[j].due = s[j].due /\ t[j].st = v
  BY <1>2, <1>3 DEF Registration
<1>5. t \in [1 .. Len(s) -> Registration \union {t[j]}]
  BY <1>1, <1>2
<1>6. Len(t) = Len(s)
  BY <1>1, <1>5
<1> QED
  BY <1>2, <1>4, <1>6

LEMMA RegistrationType ==
  ASSUME TypeOK, NEW i \in Registrations
  PROVE  regs[i] \in Registration /\ regs[i].ev \in Noti
<1>1. regs \in Seq(Registration) /\ i \in 1 .. Len(regs)
  BY TypeOKParts DEF RegsOK, Registrations
<1>2. regs[i] \in Registration
  BY <1>1
<1> QED
  BY <1>2 DEF Registration

LEMMA InitRegInv == Init => RegInv
<1> SUFFICES ASSUME Init PROVE RegInv
  OBVIOUS
<1>1. \A h \in FdHeads : fdm.ptr[h] = NULL /\ fdm.back[h] = h
  BY Cells DEF Init
<1>2. FdQueue = {}
  BY <1>1, EmptyLinks, Cells DEF FdQueue
<1>3. \A h \in NotiHeads : notim.ptr[h] = NULL /\ notim.back[h] = h
  BY Cells DEF Init
<1>4. Events("noti_q") = {}
  BY <1>3, EmptyLinks, Cells DEF Events
<1>5. Registrations = {}
  BY DEF Init, Registrations
<1> QED
  BY <1>2, <1>4, <1>5 DEF RegInv, ArmedInv, PendingInv

LEMMA PutRegInv ==
  ASSUME TypeOK, FdInv, NotiInv, RegInv, NEW r \in Requests, aloe_ev_put(r)
  PROVE  RegInv'
<1>1. PICK c \in FdRec, e \in Noti : PutTakes(r, c, e)
  BY PutEffect
<1>2. InClient /\ UNCHANGED <<pc, corrupt>>
  BY PutEffect
<1>3. Running
  BY <1>2 DEF InClient, Running
<1> SUFFICES ASSUME ~ corrupt
             PROVE  ArmedInv' /\ PendingInv' /\ \A i \in Registrations' : Kept(i)'
  BY <1>2 DEF RegInv
<1> DEFINE j == Len(regs) + 1
<1>4. /\ fd_q_find(r.fd) = IF c \in FdQueue THEN c ELSE NULL
      /\ FdQueue' = FdQueue \union {c}
      /\ First' = IF FdQueue = {} THEN c ELSE First
      /\ fdno' = IF c \in FdQueue THEN fdno ELSE [fdno EXCEPT ![c] = r.fd]
      /\ \A h \in {"noti_q"} \union FdQueue : e \notin Events(h)
      /\ Events(c)' = (IF c \in FdQueue THEN Events(c) ELSE {}) \union {e}
      /\ \A h \in {"noti_q"} \union FdQueue : h # c => Events(h)' = Events(h)
  BY <1>1 DEF PutTakes, First
<1>5. /\ Registrations' = Registrations \union {j} /\ j \notin Registrations
      /\ \A i \in Registrations : regs'[i] = regs[i]
      /\ regs'[j].req = r /\ regs'[j].due = Due(r) /\ regs'[j].ev = e /\ regs'[j].st = "armed"
  <2>1. regs' = Append(regs, [req |-> r, due |-> Due(r), ev |-> e, st |-> "armed"])
    BY <1>1 DEF PutTakes
  <2>2. regs \in Seq(Registration) /\ Len(regs) \in Nat
    BY TypeOKParts DEF RegsOK
  <2> QED
    BY <2>1, <2>2 DEF Registrations
<1>6. /\ noti'[e].cbarg = j /\ noti'[e].fd = r.fd /\ noti'[e].cb = r.cb /\ noti'[e].ev_wait = r.ev_wait /\ noti'[e].due = Due(r)
      /\ \A n \in Noti : n # e => noti'[n] = noti[n]
  <2>1. noti' = [noti EXCEPT ![e] =
                   [fd |-> r.fd, cb |-> r.cb, cbarg |-> Len(regs) + 1, ev_wait |-> r.ev_wait,
                    due |-> Due(r), ev_noti |-> @.ev_noti]]
    BY <1>1 DEF PutTakes
  <2>2. DOMAIN noti = Noti
    BY TypeOKParts DEF FieldsOK
  <2> QED
    BY <2>1, <2>2
<1>7. Serves(c, r.fd)'
  <2>1. CASE r.fd = -1
    BY <1>3, <1>4, <2>1, FindTimer DEF Serves
  <2>2. CASE r.fd # -1
    <3>1. DOMAIN fdno = FdRec
      BY TypeOKParts DEF FieldsOK
    <3>2. fdno'[c] = r.fd
      BY <1>3, <1>4, <2>2, <3>1, FindFinds, FindTimer
    <3> QED
      BY <2>2, <3>2 DEF Serves
  <2> QED
    BY <2>1, <2>2
<1>8. ASSUME NEW f \in FdQueue, NEW fd, Serves(f, fd) PROVE Serves(f, fd)'
  <2>1. fdno'[f] = fdno[f]
    BY <1>4, TypeOKParts DEF FieldsOK, FdQueue, Visited
  <2> QED
    BY <1>4, <1>8, <2>1 DEF Serves
<1> HIDE DEF j
<1>9. ASSUME NEW n \in Noti, n # e, NEW st, Holds(n, st) PROVE Holds(n, st)'
  BY <1>5, <1>6, <1>9 DEF Holds
<1>10. Holds(e, "armed")'
  BY <1>5, <1>6 DEF Holds
<1>11. /\ \A f \in FdQueue : \A n \in Events(f) : n \in Noti /\ n # e /\ Holds(n, "armed") /\ Serves(f, noti[n].fd)
       /\ \A n \in Events("noti_q") : n \in Noti /\ n # e /\ Holds(n, "pending")
  <2>1. ArmedInv /\ PendingInv
    BY <1>3 DEF RegInv
  <2>2. \A h : Events(h) \subseteq Noti
    BY DEF Events, Visited
  <2> QED
    BY <1>4, <2>1, <2>2 DEF ArmedInv, PendingInv
<1>12. "noti_q" # c
  BY Cells
<1>13. ASSUME NEW f \in FdQueue', NEW n \in Events(f)' PROVE Holds(n, "armed")' /\ Serves(f, noti[n].fd)'
  <2>1. CASE n = e
    <3>1. f = c
      BY <1>4, <1>13, <2>1
    <3> QED
      BY <1>6, <1>7, <1>10, <2>1, <3>1 DEF Serves
  <2>2. CASE n # e
    <3>1. f \in FdQueue /\ n \in Events(f)
      <4>1. CASE f = c
        BY <1>4, <1>13, <2>2, <4>1
      <4>2. CASE f # c
        <5>1. f \in FdQueue
          BY <1>4, <1>13, <4>2
        <5>2. Events(f)' = Events(f)
          BY <1>4, <4>2, <5>1
        <5> QED
          BY <1>13, <5>1, <5>2
      <4> QED
        BY <4>1, <4>2
    <3>2. n \in Noti /\ Holds(n, "armed") /\ Serves(f, noti[n].fd) /\ noti'[n] = noti[n]
      BY <1>6, <1>11, <3>1, <2>2
    <3> QED
      BY <1>8, <1>9, <2>2, <3>1, <3>2 DEF Serves
  <2> QED
    BY <2>1, <2>2
<1>14. ASSUME NEW n \in Events("noti_q")' PROVE Holds(n, "pending")'
  BY <1>4, <1>9, <1>11, <1>12, <1>14
<1>15. ASSUME NEW i \in Registrations' PROVE Kept(i)'
  <2>1. CASE i = j
    BY <1>4, <1>5, <1>6, <2>1 DEF Kept
  <2>2. CASE i # j
    <3>1. i \in Registrations /\ regs'[i] = regs[i] /\ Kept(i)
      BY <1>3, <1>5, <2>2 DEF RegInv
    <3>2. regs[i].ev \in Noti
      BY <3>1, RegistrationType
    <3>3. regs[i].st \in {"armed", "pending"} => regs[i].ev # e /\ noti'[regs[i].ev] = noti[regs[i].ev]
      BY <1>4, <1>6, <3>1, <3>2 DEF Kept
    <3>4. \A h \in {"noti_q"} \union FdQueue : Events(h) \subseteq Events(h)'
      <4> SUFFICES ASSUME NEW h \in {"noti_q"} \union FdQueue PROVE Events(h) \subseteq Events(h)'
        OBVIOUS
      <4>1. CASE h = c
        BY <1>4, <1>12, <4>1
      <4>2. CASE h # c
        BY <1>4, <4>2
      <4> QED
        BY <4>1, <4>2
    <3> QED
      BY <1>4, <3>1, <3>3, <3>4 DEF Kept
  <2> QED
    BY <2>1, <2>2
<1> QED
  BY <1>13, <1>14, <1>15 DEF ArmedInv, PendingInv

\* A registration whose event leaves one queue for another, or is done.
LEMMA CollectNotiRegInv ==
  ASSUME TypeOK, FdInv, NotiInv, RegInv, CollectNoti
  PROVE  RegInv'
<1> SUFFICES ASSUME ~ corrupt, ~ corrupt'
             PROVE  ArmedInv' /\ PendingInv' /\ \A i \in Registrations' : Kept(i)'
  BY DEF CollectNoti, RegInv
<1>1. PICK f \in FdQueue, n \in Noti :
        /\ f = loop.ev_fd /\ n = loop.ev_noti /\ pc = "collect" /\ n \in Events(f)
        /\ UNCHANGED <<fdm, fdno>>
        /\ noti' = [noti EXCEPT ![n].ev_noti = Notified(n)]
        /\ Notified(n) = {} => UNCHANGED <<notim, regs>>
        /\ Notified(n) # {} =>
             /\ regs' = [regs EXCEPT ![noti[n].cbarg].st = IF @ = "armed" THEN "pending" ELSE @]
             /\ Events(f)' = Events(f) \ {n}
             /\ Events("noti_q")' = Events("noti_q") \union {n}
             /\ \A h \in {"spare_noti_q"} \union FdQueue : h # f => Events(h)' = Events(h)
  BY CollectNotiEffect
<1>2. Running
  BY <1>1 DEF Running
<1>3. ArmedInv /\ PendingInv /\ \A i \in Registrations : Kept(i)
  BY <1>2 DEF RegInv
<1>4. FdQueue' = FdQueue /\ First' = First /\ \A g, fd : Serves(g, fd)' <=> Serves(g, fd)
  BY <1>1 DEF FdQueue, First, Serves
<1>5. \A x \in Noti : /\ noti'[x].cbarg = noti[x].cbarg /\ noti'[x].fd = noti[x].fd
                      /\ noti'[x].cb = noti[x].cb
                      /\ noti'[x].ev_wait = noti[x].ev_wait /\ noti'[x].due = noti[x].due
  <2>1. noti \in [Noti -> Event]
    BY TypeOKParts DEF FieldsOK
  <2> QED
    BY <1>1, <2>1 DEF Event
<1>6. \A i \in Registrations : regs[i].ev \in Noti
  BY RegistrationType
<1>7. \A h : Events(h) \subseteq Noti
  BY DEF Events, Visited
<1>8. CASE Notified(n) = {}
  <2>1. (\A h : Events(h)' = Events(h)) /\ regs' = regs /\ Registrations' = Registrations
    BY <1>1, <1>8 DEF Events, Registrations
  <2>2. ArmedInv'
    <3>1. ASSUME NEW g \in FdQueue, NEW x \in Events(g)
          PROVE  Holds(x, "armed")' /\ Serves(g, noti[x].fd)'
      <4>1. x \in Noti /\ Holds(x, "armed") /\ Serves(g, noti[x].fd)
        BY <1>3, <1>7, <3>1 DEF ArmedInv
      <4>2. Holds(x, "armed")'
        BY <1>5, <2>1, <4>1 DEF Holds
      <4> QED
        BY <1>4, <1>5, <4>1, <4>2 DEF Serves
    <3> QED
      BY <1>4, <2>1, <3>1 DEF ArmedInv
  <2>3. PendingInv'
    BY <1>3, <1>5, <1>7, <2>1 DEF PendingInv, Holds
  <2>4. ASSUME NEW i \in Registrations PROVE Kept(i)'
    BY <1>3, <1>4, <1>5, <1>6, <2>1 DEF Kept
  <2> QED
    BY <2>1, <2>2, <2>3, <2>4
<1>9. CASE Notified(n) # {}
  <2> DEFINE j == noti[n].cbarg
  <2>1. j \in Registrations /\ regs[j].ev = n /\ regs[j].st = "armed"
    BY <1>1, <1>3 DEF ArmedInv, Holds
  <2>2. regs' = [regs EXCEPT ![j].st = "pending"]
    BY <1>1, <1>9, <2>1
  <2> HIDE DEF j
  <2>3. /\ Registrations' = Registrations
        /\ \A i \in Registrations :
             /\ regs'[i].ev = regs[i].ev /\ regs'[i].req = regs[i].req /\ regs'[i].due = regs[i].due
             /\ regs'[i].st = IF i = j THEN "pending" ELSE regs[i].st
    BY <2>1, <2>2, StateChange, TypeOKParts DEF RegsOK, Registrations
  <2>4. \A st : \A x \in Noti : x # n /\ Holds(x, st) => Holds(x, st)'
    BY <1>5, <2>1, <2>3 DEF Holds
  <2>5. Holds(n, "pending")'
    BY <1>5, <2>1, <2>3 DEF Holds, j
  <2>6. /\ Events(f)' = Events(f) \ {n}
        /\ Events("noti_q")' = Events("noti_q") \union {n}
        /\ \A h \in FdQueue : h # f => Events(h)' = Events(h) /\ n \notin Events(h)
    <3>1. \A h \in FdQueue : h # f => n \notin Events(h)
      BY <1>1, <1>2, EventsDisjoint
    <3> QED
      BY <1>1, <1>9, <3>1
  <2>7. ArmedInv'
    <3>1. ASSUME NEW g \in FdQueue, NEW x \in Events(g)' PROVE x \in Events(g) /\ x # n
      BY <2>6, <3>1
    <3>2. ASSUME NEW g \in FdQueue, NEW x \in Events(g)'
          PROVE  Holds(x, "armed")' /\ Serves(g, noti[x].fd)'
      <4>1. x \in Noti /\ Holds(x, "armed") /\ Serves(g, noti[x].fd) /\ x # n
        BY <1>3, <1>7, <3>1, <3>2 DEF ArmedInv
      <4> QED
        BY <1>4, <1>5, <2>4, <4>1 DEF Serves
    <3> QED
      BY <1>4, <3>2 DEF ArmedInv
  <2>8. PendingInv'
    BY <1>3, <1>7, <2>4, <2>5, <2>6 DEF PendingInv
  <2>9. ASSUME NEW i \in Registrations PROVE Kept(i)'
    <3>1. Kept(i) /\ regs[i].ev \in Noti
      BY <1>3, <1>6
    <3>2. CASE i = j
      BY <1>5, <2>1, <2>3, <2>6, <3>1, <3>2 DEF Kept
    <3>3. CASE i # j
      <4>1. regs[i].st \in {"armed", "pending"} => regs[i].ev # n
        BY <3>1, <3>3 DEF Kept, j
      <4>2. regs[i].st = "armed" => \E g \in FdQueue : regs[i].ev \in Events(g)'
        BY <2>6, <3>1, <4>1 DEF Kept
      <4>3. regs[i].st = "pending" => regs[i].ev \in Events("noti_q")'
        BY <2>6, <3>1 DEF Kept
      <4> QED
        BY <1>4, <1>5, <2>3, <3>1, <3>3, <4>2, <4>3 DEF Kept
    <3> QED
      BY <3>2, <3>3
  <2> QED
    BY <2>3, <2>7, <2>8, <2>9
<1> QED
  BY <1>8, <1>9

LEMMA DispatchRegInv ==
  ASSUME TypeOK, FdInv, NotiInv, RegInv, Dispatch
  PROVE  RegInv'
<1> SUFFICES ASSUME ~ corrupt, ~ corrupt'
             PROVE  ArmedInv' /\ PendingInv' /\ \A i \in Registrations' : Kept(i)'
  BY DEF Dispatch, RegInv
<1> DEFINE n == TAILQ_FIRST(notim, "noti_q")
           j == noti[n].cbarg
<1>1. /\ pc = "dispatch" /\ n \in Events("noti_q") /\ UNCHANGED <<fdm, fdno, noti>>
      /\ regs' = [regs EXCEPT ![j].st = IF @ = "pending" THEN "done" ELSE @]
      /\ Events("noti_q")' = Events("noti_q") \ {n}
      /\ \A h \in FdQueue : Events(h)' = Events(h)
  BY DispatchEffect
<1>2. Running
  BY <1>1 DEF Running
<1>3. ArmedInv /\ PendingInv /\ \A i \in Registrations : Kept(i)
  BY <1>2 DEF RegInv
<1>4. FdQueue' = FdQueue /\ First' = First /\ \A g, fd : Serves(g, fd)' <=> Serves(g, fd)
  BY <1>1 DEF FdQueue, First, Serves
<1>5. j \in Registrations /\ regs[j].ev = n /\ regs[j].st = "pending"
  BY <1>1, <1>3 DEF PendingInv, Holds
<1>6. regs' = [regs EXCEPT ![j].st = "done"]
  BY <1>1, <1>5
<1>7. \A h \in FdQueue : n \notin Events(h)
  BY <1>1, <1>2, EventsDisjoint, Cells DEF FdQueue, Visited
<1>8. \A i \in Registrations : noti[regs[i].ev].cbarg = i /\ i # j => regs[i].ev # n
  OBVIOUS
<1> HIDE DEF n, j
<1>9. /\ Registrations' = Registrations
      /\ \A i \in Registrations :
           /\ regs'[i].ev = regs[i].ev /\ regs'[i].req = regs[i].req /\ regs'[i].due = regs[i].due
           /\ regs'[i].st = IF i = j THEN "done" ELSE regs[i].st
  BY <1>5, <1>6, StateChange, TypeOKParts DEF RegsOK, Registrations
<1>10. \A x, st : x # n /\ Holds(x, st) => Holds(x, st)'
  BY <1>1, <1>5, <1>9 DEF Holds
<1>11. ArmedInv'
  BY <1>1, <1>3, <1>4, <1>7, <1>10 DEF ArmedInv, Serves
<1>12. PendingInv'
  BY <1>1, <1>3, <1>10 DEF PendingInv
<1>13. ASSUME NEW i \in Registrations PROVE Kept(i)'
  BY <1>1, <1>3, <1>4, <1>5, <1>8, <1>9 DEF Kept
<1> QED
  BY <1>9, <1>11, <1>12, <1>13

LEMMA CollectFdRegInv ==
  ASSUME TypeOK, FdInv, NotiInv, RegInv, CollectFd
  PROVE  RegInv'
<1> SUFFICES ASSUME ~ corrupt, ~ corrupt'
             PROVE  ArmedInv' /\ PendingInv' /\ \A i \in Registrations' : Kept(i)'
  BY DEF CollectFd, RegInv
<1> DEFINE f == loop.ev_fd
<1>1. /\ pc = "collect" /\ f \in FdQueue /\ UNCHANGED <<notim, fdno, noti, regs>>
      /\ TAILQ_EMPTY(notim, f) => Spares(f)
      /\ ~ TAILQ_EMPTY(notim, f) => UNCHANGED fdm
  BY CollectFdEffect
<1>2. Running
  BY <1>1 DEF Running
<1>3. ArmedInv /\ PendingInv /\ \A i \in Registrations : Kept(i)
  BY <1>2 DEF RegInv
<1>4. TAILQ_EMPTY(notim, f) <=> Events(f) = {}
  BY <1>1, <1>2, EmptyEvents
<1>5. /\ FdQueue' \subseteq FdQueue
      /\ \A g \in FdQueue : Events(g) # {} => g \in FdQueue'
      /\ \A g \in FdQueue' : Events(g) # {} /\ g = First => g = First'
  BY <1>1, <1>4 DEF Spares, FdQueue, First
<1>6. (\A h : Events(h)' = Events(h)) /\ Registrations' = Registrations
  BY <1>1 DEF Events, Registrations
<1>7. ArmedInv'
  BY <1>1, <1>3, <1>5, <1>6 DEF ArmedInv, Holds, Serves
<1>8. PendingInv'
  BY <1>1, <1>3, <1>6 DEF PendingInv, Holds
<1>9. ASSUME NEW i \in Registrations PROVE Kept(i)'
  BY <1>1, <1>3, <1>5, <1>6 DEF Kept
<1> QED
  BY <1>6, <1>7, <1>8, <1>9

\* The steps after which every registration and every event is where it was.
LEMMA SameRegInv ==
  ASSUME RegInv, UNCHANGED <<notim, fdno, noti, regs>>, corrupt => corrupt', Running' => Running,
         FdQueue' = FdQueue, First' = First
  PROVE  RegInv'
<1> SUFFICES ASSUME ArmedInv, PendingInv, \A i \in Registrations : Kept(i)
             PROVE  ArmedInv' /\ PendingInv' /\ \A i \in Registrations' : Kept(i)'
  BY DEF RegInv
<1>1. (\A h : Events(h)' = Events(h)) /\ Registrations' = Registrations
  BY DEF Events, Registrations
<1>2. ArmedInv'
  BY <1>1 DEF ArmedInv, Holds, Serves
<1>3. PendingInv'
  BY <1>1 DEF PendingInv, Holds
<1>4. \A i \in Registrations : Kept(i)'
  BY <1>1 DEF Kept
<1> QED
  BY <1>1, <1>2, <1>3, <1>4

\* aloe_ev_cancel finds the event of a registration that is not yet delivered.
LEMMA CancelMissRegInv ==
  ASSUME TypeOK, FdInv, NotiInv, RecordInv, RegInv, NEW i \in Registrations, CancelMiss(i)
  PROVE  RegInv'
<1>1. /\ InClient /\ UNCHANGED <<fdm, notim, fdno, noti, corrupt>>
      /\ regs' = [regs EXCEPT ![i].st = IF @ = "done" THEN @ ELSE "cancelled"]
      /\ \A h \in SearchedFirst(regs[i].ev) \union {"noti_q"} : regs[i].ev \notin Events(h)
  BY CancelMissEffect DEF queues
<1>2. Running
  BY <1>1 DEF InClient, Running
<1> SUFFICES ASSUME ~ corrupt PROVE RegInv'
  BY <1>1 DEF RegInv
<1>3. ArmedInv /\ PendingInv /\ \A k \in Registrations : Kept(k)
  BY <1>2 DEF RegInv
<1>4. regs[i].st \notin {"armed", "pending"}
  <2>1. regs[i].st # "pending"
    BY <1>1, <1>3 DEF Kept
  <2>2. ASSUME regs[i].st = "armed" PROVE FALSE
    <3> DEFINE n == regs[i].ev
               fd == noti[n].fd
    <3>1. PICK f \in FdQueue : n \in Events(f)
      BY <1>3, <2>2 DEF Kept
    <3>2. Serves(f, fd)
      BY <1>3, <3>1 DEF ArmedInv
    <3> HIDE DEF fd
    <3>3. fd_q_find(fd) = f
      <4>1. CASE fd = -1
        BY <1>2, <3>2, <4>1, FindTimer DEF Serves
      <4>2. CASE fd # -1
        <5>1. fdno[f] = fd
          BY <3>2, <4>2 DEF Serves
        <5>2. fd_q_find(fd) # NULL /\ fd_q_find(fd) \in FdQueue /\ fdno[fd_q_find(fd)] = fd
          BY <1>2, <3>1, <4>2, <5>1, FindFinds, FindTimer, FindOnQueue DEF FdInv
        <5> QED
          BY <1>2, <3>1, <5>1, <5>2 DEF RecordInv
      <4> QED
        BY <4>1, <4>2
    <3>4. f \in SearchedFirst(n)
      BY <1>2, <3>1, <3>3, FindTimer DEF SearchedFirst, fd
    <3> QED
      BY <1>1, <3>1, <3>4
  <2> QED
    BY <2>1, <2>2
<1>5. regs' = regs
  <2>1. regs \in Seq(Registration) /\ i \in 1 .. Len(regs)
    BY TypeOKParts DEF RegsOK, Registrations
  <2>2. regs[i] \in Registration
    BY <2>1
  <2>3. regs[i].st \in {"done", "cancelled"}
    BY <1>4, <2>2 DEF Registration
  <2>4. [regs[i] EXCEPT !.st = IF @ = "done" THEN @ ELSE "cancelled"] = regs[i]
    BY <2>2, <2>3 DEF Registration
  <2>5. [regs EXCEPT ![i] = regs[i]] = regs
    BY <2>1
  <2>6. regs' = [regs EXCEPT ![i] = [regs[i] EXCEPT !.st = IF @ = "done" THEN @ ELSE "cancelled"]]
    BY <1>1
  <2> QED
    BY <2>4, <2>5, <2>6
<1>6. FdQueue' = FdQueue /\ First' = First
  BY <1>1 DEF FdQueue, First
<1> QED
  BY <1>1, <1>2, <1>5, <1>6, SameRegInv

LEMMA NextRegInv ==
  TypeOK /\ FdInv /\ NotiInv /\ RecordInv /\ RegInv /\ [Next]_vars => RegInv'
<1> SUFFICES ASSUME TypeOK, FdInv, NotiInv, RecordInv, RegInv, [Next]_vars PROVE RegInv'
  OBVIOUS
<1>1. CASE Freeing
  BY <1>1, FreeingStops DEF RegInv
<1>2. ASSUME NEW r \in Requests, PutNoMemory(r) PROVE RegInv'
  <2>1. FdQueue' = FdQueue /\ First' = First
    BY <1>2, NoMemoryEffect
  <2>2. UNCHANGED <<notim, fdno, noti, pc, regs, corrupt>>
    BY <1>2, NoMemoryEffect
  <2> QED
    BY <2>1, <2>2, SameRegInv DEF Running
<1>3. ASSUME NEW i \in Registrations, CancelArmed(i) \/ CancelPending(i) PROVE RegInv'
  BY <1>3, CancelFindsEffect DEF RegInv
<1>4. CASE DestroyBegin
  BY <1>4 DEF DestroyBegin, RegInv, Running
<1>5. CASE ReadClock
  <2>1. UNCHANGED <<fdm, notim, fdno, noti, regs, corrupt>> /\ pc = "clock"
    BY <1>5, ReadClockEffect DEF queues
  <2> QED
    BY <2>1, SameRegInv DEF Running, FdQueue, First
<1>6. CASE Idle \/ UNCHANGED vars
  <2>1. UNCHANGED <<fdm, notim, fdno, noti, regs, corrupt>> /\ (Running' => Running)
    BY <1>6, IdleEffect DEF queues
  <2> QED
    BY <2>1, SameRegInv DEF FdQueue, First
<1> QED
  BY <1>1, <1>2, <1>3, <1>4, <1>5, <1>6, PutRegInv, CancelMissRegInv, CollectNotiRegInv,
     CollectFdRegInv, DispatchRegInv DEF Next, Client, Once, Idle, Registrations

LEMMA RegAccounted == TypeOK /\ FdInv /\ RegInv => Accounted
<1> SUFFICES ASSUME TypeOK, FdInv, RegInv, Running, ~ corrupt PROVE Accounted
  BY DEF Accounted
<1>1. ArmedInv /\ PendingInv /\ \A i \in Registrations : Kept(i)
  BY DEF RegInv
<1>2. ASSUME NEW i \in Registrations, regs[i].st = "armed"
      PROVE  \E f \in FdQueue :
               /\ regs[i].ev \in Events(f)
               /\ IF regs[i].req.fd = -1 THEN f = TAILQ_FIRST(fdm, "fd_q")
                                         ELSE regs[i].req.fd = fdno[f]
  <2>1. PICK f \in FdQueue : regs[i].ev \in Events(f)
    BY <1>1, <1>2 DEF Kept
  <2>2. Serves(f, regs[i].req.fd)
    BY <1>1, <1>2, <2>1 DEF Kept, ArmedInv
  <2> QED
    BY <2>1, <2>2 DEF Serves, First
<1>3. \A i \in Registrations :
        /\ regs[i].st = "pending" => regs[i].ev \in Events("noti_q")
        /\ regs[i].st \in {"armed", "pending"} => noti[regs[i].ev].cbarg = i
  BY <1>1 DEF Kept
<1>4. \A f \in FdQueue : \A n \in Events(f) : regs[noti[n].cbarg].st = "armed"
  BY <1>1 DEF ArmedInv, Holds
<1>5. \A n \in Events("noti_q") : regs[noti[n].cbarg].st = "pending"
  BY <1>1 DEF PendingInv, Holds
<1> QED
  BY <1>2, <1>3, <1>4, <1>5 DEF Accounted


\* fd_q never has two records for a descriptor and, until aloe_ev_cancel finds an
\* event, none whose queue of events is empty but the one aloe_ev_once is about to take
\* off it: so fd_q_find finds the only record there is.
LEMMA RecordsAreSingle ==
  TypeOK /\ FdInv /\ NotiInv /\ RecordInv => OneRecordPerFd
<1> SUFFICES ASSUME TypeOK, FdInv, NotiInv, RecordInv, Running
             PROVE  /\ \A f, g \in FdQueue : fdno[f] = fdno[g] => f = g
                    /\ \A f \in FdQueue :
                         TAILQ_EMPTY(notim, f) /\ ~ corrupt => pc = "collect" /\ loop.ev_fd = f
  BY DEF OneRecordPerFd
<1>1. ASSUME NEW f \in FdQueue, TAILQ_EMPTY(notim, f), ~ corrupt
      PROVE  pc = "collect" /\ loop.ev_fd = f
  BY <1>1, EmptyEvents DEF RecordInv
<1> QED
  BY <1>1 DEF RecordInv

\* Everything proved so far about the context while it runs.
EvInv == TypeOK /\ FdInv /\ NotiInv /\ RecordInv /\ AllocInv /\ RegInv

LEMMA InitEvInv == Init => EvInv
BY InitTypeOK, InitFdInv, InitNotiInv, InitRecordInv, InitRegInv DEF EvInv

LEMMA NextEvInv == EvInv /\ [Next]_vars => EvInv'
BY NextTypeOK, NextFdInv, NextNotiInv, NextRecordInv, NextRegInv DEF EvInv

LEMMA EvInvHolds == Spec => []EvInv
BY InitEvInv, NextEvInv, PTL DEF Spec

\* fd_q has one record to a descriptor and none that waits for nothing but the one the
\* collecting loop is just emptying: what aloe_ev_put and aloe_ev_cancel take for
\* granted when fd_q_find stops at the first record it finds.
THEOREM OneRecordCorrect == Spec => []OneRecordPerFd
<1>1. EvInv => OneRecordPerFd
  BY RecordsAreSingle DEF EvInv
<1> QED
  BY <1>1, EvInvHolds, PTL

\* Every record malloc gave out is on a queue, also where malloc, select or the clock
\* has failed, as long as no aloe_ev_cancel has found its event.
THEOREM NothingLeaksCorrect == Spec => []NothingLeaks
<1>1. EvInv => NothingLeaks
  BY AllocIsQueues DEF EvInv
<1> QED
  BY <1>1, EvInvHolds, PTL

\* Every registration not yet delivered is on the queue its state demands, in an event
\* that still holds it, and no queue holds another one's event.
THEOREM AccountedCorrect == Spec => []Accounted
<1>1. EvInv => Accounted
  BY RegAccounted DEF EvInv
<1> QED
  BY <1>1, EvInvHolds, PTL

-----------------------------------------------------------------------------
(***************************************************************************)
(* What select is given.                                                   *)
(***************************************************************************)

\* A timeout rounded down to microseconds ends in time, or after the pause asked for.
LEMMA TimeoutInTime ==
  ASSUME TypeOK, NEW due \in Nat, NEW fdmax
  PROVE  LET wait == SelectTimeout(due, fdmax)
         IN  /\ wait # INFINITE /\ wait \in Nat
             /\ now + TICK * wait <= due \/ now + TICK * wait <= now + TICK * BusyWait
<1>1. now \in Nat /\ TICK \in Nat \ {0} /\ BusyWait \in Nat /\ INFINITE \notin Int
  BY BoundsAssumption, RequestsAssumption, TypeOKParts DEF FieldsOK
<1> DEFINE w == IF now < due THEN (due - now) \div TICK ELSE 0
<1>2. w \in Nat /\ (w = 0 \/ now + TICK * w <= due)
  <2>1. CASE now < due
    <3> DEFINE d == due - now
               q == d \div TICK
    <3>1. d \in Nat
      BY <1>1, <2>1
    <3> HIDE DEF d
    <3>2. q \in Int /\ d % TICK \in 0 .. TICK - 1 /\ d = TICK * q + (d % TICK)
      BY <1>1, <3>1
    <3>3. q \in Nat
      BY <1>1, <3>1
    <3> HIDE DEF q
    <3>4. TICK * q \in Nat /\ TICK * q <= d
      BY <1>1, <3>2, <3>3
    <3> QED
      BY <1>1, <2>1, <3>3, <3>4 DEF d, q
  <2> QED
    BY <2>1
<1> HIDE DEF w
<1>3. SelectTimeout(due, fdmax) = IF w < BusyWait THEN BusyWait ELSE w
  BY <1>1, <1>2 DEF SelectTimeout, w
<1>4. w = 0 => TICK * w = 0
  BY <1>1
<1>5. TICK * BusyWait \in Nat /\ TICK * w \in Nat
  BY <1>1, <1>2
<1> QED
  BY <1>1, <1>2, <1>3, <1>4, <1>5

LEMMA BeginSelects ==
  ASSUME TypeOK, RegInv, OnceBegin, pc' = "select", ~ corrupt
  PROVE  SelectsWhatIsArmed'
<1> DEFINE fds   == Visited(fdm, "fd_q", FdRec)
           on(f) == Visited(notim, f, Noti)
           fdnos == { fdno[f] : f \in fds } \ {-1}
           dues  == (UNION { { noti[n].due : n \in on(f) } : f \in fds }) \ {INFINITE}
           sets  == { x \in fdnos \X Kinds :
                        \E f \in fds : /\ fdno[f] = x[1]
                                       /\ \E n \in on(f) : x[2] \in noti[n].ev_wait }
<1>1. PICK due \in IF dues = {} THEN {INFINITE} ELSE dues, fdmax \in fdnos \union {-1} :
        /\ \A d \in dues : due <= d
        /\ \A fd \in fdnos : fd <= fdmax
        /\ loop' = [NoFrame EXCEPT
             !.fdmax = fdmax, !.sets = sets,
             !.until = LET wait == SelectTimeout(due, fdmax)
                       IN IF wait = INFINITE THEN INFINITE ELSE now + TICK * wait]
  BY DEF OnceBegin, Earliest
<1>2. pc = "idle" /\ Running /\ UNCHANGED <<now, regs>>
  BY DEF OnceBegin, Running
<1>3. ArmedInv /\ \A i \in Registrations : Kept(i)
  BY <1>2 DEF RegInv
<1>4. dues \subseteq Nat
  <2>1. \A n \in Noti : noti[n].due \in Nat \union {INFINITE}
    BY TypeOKParts DEF FieldsOK, Event
  <2> QED
    BY <2>1 DEF Visited
<1>5. fds = FdQueue /\ \A f : on(f) = Events(f)
  BY DEF FdQueue, Events
<1>6. \A f \in FdQueue : \A n \in Events(f) : noti[n].due # INFINITE => noti[n].due \in dues
  BY <1>5
<1>7. \A f \in FdQueue : \A n \in Events(f), k \in Kinds :
        fdno[f] # -1 /\ k \in noti[n].ev_wait => fdno[f] \in fdnos /\ <<fdno[f], k>> \in sets
  BY <1>5
<1> DEFINE wait  == SelectTimeout(due, fdmax)
           until == IF wait = INFINITE THEN INFINITE ELSE now + TICK * wait
<1>8. loop'.sets = sets /\ loop'.fdmax = fdmax /\ loop'.until = until
  <2> HIDE DEF sets, fdnos, wait
  <2>1. loop' = [NoFrame EXCEPT !.fdmax = fdmax, !.sets = sets, !.until = until]
    BY <1>1 DEF wait
  <2> QED
    BY <2>1 DEF NoFrame
<1> HIDE DEF fds, on, fdnos, dues, sets, wait, until
<1>9. ASSUME NEW i \in Registrations, regs[i].st = "armed"
      PROVE  /\ \A k \in regs[i].req.ev_wait : /\ <<regs[i].req.fd, k>> \in sets
                                               /\ regs[i].req.fd <= fdmax
             /\ regs[i].due # INFINITE =>
                  /\ until # INFINITE
                  /\ until <= regs[i].due \/ until <= now + TICK * BusyWait
  <2> DEFINE n == regs[i].ev
  <2>1. PICK f \in FdQueue : n \in Events(f)
    BY <1>3, <1>9 DEF Kept
  <2>2. /\ noti[n].fd = regs[i].req.fd /\ noti[n].ev_wait = regs[i].req.ev_wait
        /\ noti[n].due = regs[i].due
    BY <1>3, <1>9 DEF Kept
  <2>3. Serves(f, noti[n].fd)
    BY <1>3, <2>1 DEF ArmedInv
  <2>4. regs[i].req \in Request /\ (regs[i].req.fd = -1 => regs[i].req.ev_wait = {})
    BY RegistrationType, RequestsAssumption DEF Registration
  <2> HIDE DEF n
  <2>5. ASSUME NEW k \in regs[i].req.ev_wait
        PROVE  <<regs[i].req.fd, k>> \in sets /\ regs[i].req.fd <= fdmax
    <3>1. regs[i].req.fd # -1 /\ k \in Kinds
      BY <2>4, <2>5 DEF Request
    <3>2. fdno[f] = regs[i].req.fd
      BY <2>2, <2>3, <3>1 DEF Serves
    <3>3. fdno[f] \in fdnos /\ <<fdno[f], k>> \in sets
      BY <1>7, <2>1, <2>2, <2>5, <3>1, <3>2
    <3> QED
      BY <1>1, <3>2, <3>3
  <2>6. ASSUME regs[i].due # INFINITE
        PROVE  until # INFINITE /\ (until <= regs[i].due \/ until <= now + TICK * BusyWait)
    <3>1. regs[i].due \in dues
      BY <1>6, <2>1, <2>2, <2>6
    <3>2. due \in Nat /\ regs[i].due \in Nat /\ due <= regs[i].due
      BY <1>1, <1>4, <3>1
    <3>3. /\ wait # INFINITE /\ wait \in Nat
          /\ now + TICK * wait <= due \/ now + TICK * wait <= now + TICK * BusyWait
      BY <3>2, TimeoutInTime DEF wait
    <3>4. now \in Nat /\ TICK \in Nat /\ INFINITE \notin Int
      BY BoundsAssumption, RequestsAssumption, TypeOKParts DEF FieldsOK
    <3>5. until = now + TICK * wait /\ until \in Nat
      BY <3>3, <3>4 DEF until
    <3> QED
      BY <3>2, <3>3, <3>4, <3>5
  <2> QED
    BY <2>5, <2>6
<1> QED
  BY <1>2, <1>8, <1>9 DEF SelectsWhatIsArmed, Registrations

LEMMA NextSelects ==
  ASSUME EvInv, SelectsWhatIsArmed, [Next]_vars
  PROVE  SelectsWhatIsArmed'
<1> USE DEF EvInv
<1>1. CASE OnceBegin
  <2>1. UNCHANGED corrupt
    BY <1>1 DEF OnceBegin
  <2> QED
    BY <1>1, <2>1, BeginSelects DEF SelectsWhatIsArmed
<1>2. CASE Tick
  <2>1. UNCHANGED <<pc, regs, loop, corrupt>> /\ now' = now + 1
    BY <1>2 DEF Tick
  <2>2. now \in Nat /\ TICK \in Nat /\ BusyWait \in Nat /\ TICK * BusyWait \in Nat
    BY BoundsAssumption, TypeOKParts DEF FieldsOK
  <2>3. loop.until # INFINITE => loop.until \in Nat
    BY TypeOKParts DEF LoopOK, Frame
  <2>4. ASSUME loop.until # INFINITE, loop.until <= now + TICK * BusyWait
        PROVE  loop.until <= now' + TICK * BusyWait
    BY <2>1, <2>2, <2>3, <2>4
  <2> QED
    BY <2>1, <2>4 DEF SelectsWhatIsArmed, Registrations
<1>3. CASE Arrive \/ Stopped \/ UNCHANGED vars
  <2>1. UNCHANGED <<pc, now, regs, loop, corrupt>>
    BY <1>3 DEF Arrive, Stopped, vars
  <2> QED
    BY <2>1 DEF SelectsWhatIsArmed, Registrations
<1>4. CASE Client
  <2>1. pc' # "select"
    BY <1>4 DEF Client, aloe_ev_put, PutNoMemory, CancelArmed, CancelPending, CancelMiss, CancelCall,
                Recycle, DestroyBegin, InClient
  <2> QED
    BY <2>1 DEF SelectsWhatIsArmed
<1>5. CASE Freeing
  BY <1>5, FreeingStops DEF SelectsWhatIsArmed, Running
<1>6. CASE OnceError \/ SelectReturn \/ ReadClock \/ CollectNoti \/ CollectFd \/ Dispatch \/ CbReturn \/ OnceReturn
  <2>1. pc' # "select"
    BY <1>6 DEF OnceError, SelectReturn, ReadClock, EnterFd, CollectNoti, CollectFd, Dispatch,
                CbReturn, OnceReturn
  <2> QED
    BY <2>1 DEF SelectsWhatIsArmed
<1> QED
  BY <1>1, <1>2, <1>3, <1>4, <1>5, <1>6 DEF Next, Once

\* select is told of the descriptors and kinds of every registration that waits, and
\* its timeout ends by the earliest due time or, where ALOE_EV_PREVENT_BUSY_WAITING
\* asks for a longer pause, after that.
THEOREM SelectCorrect == Spec => []SelectsWhatIsArmed
<1>1. Init => SelectsWhatIsArmed
  BY DEF Init, SelectsWhatIsArmed
<1>2. EvInv /\ SelectsWhatIsArmed /\ [Next]_vars => SelectsWhatIsArmed'
  BY NextSelects
<1> QED
  BY <1>1, <1>2, EvInvHolds, PTL DEF Spec

-----------------------------------------------------------------------------
(***************************************************************************)
(* aloe_ev_destroy.                                                        *)
(***************************************************************************)

\* The records of fd_q that are not yet freed: one of them may be off the queue.
Left == FdQueue \union ({loop.ev_fd} \ {NULL})

\* The events on the queues of the heads H.
On(H) == UNION { Events(h) : h \in H }

FreesFd ==
  /\ WellLinked(fdm, FdHeads, FdRec) /\ WellLinked(notim, NotiHeads \union Left, Noti)
  /\ loop.ev_fd \notin FdQueue \union SpareFds
  /\ alloc = Left \union SpareFds \union On(NotiHeads \union Left)

\* Once its last record is taken off with the wrong head spare_fd_q is empty, but no
\* longer well linked.
FreesSpareFd ==
  /\ WellLinked(fdm, {"spare_fd_q"}, FdRec) \/ TAILQ_EMPTY(fdm, "spare_fd_q")
  /\ WellLinked(notim, NotiHeads, Noti)
  /\ alloc = SpareFds \union On(NotiHeads)

FreesNoti ==
  /\ WellLinked(notim, NotiHeads, Noti) /\ alloc = On(NotiHeads)
  /\ pc = "free_spare_noti" => Events("noti_q") = {}

FreeInv ==
  ~ corrupt =>
    /\ pc \notin {"hung", "dead"}
    /\ pc = "free_fd" => FreesFd
    /\ pc = "free_spare_fd" => FreesSpareFd
    /\ pc \in {"free_noti", "free_spare_noti"} => FreesNoti
    /\ pc = "gone" => alloc = {}

LEMMA OnWhat == \A H, n : n \in On(H) <=> \E h \in H : n \in Events(h)
BY DEF On

\* An event is taken off its queue and freed.
LEMMA FreeNotiEffect ==
  ASSUME TypeOK, NEW H \in SUBSET (NotiHeads \union FdRec), WellLinked(notim, H, Noti),
         NEW h \in H, h \in NotiHeads \union alloc, On(H) \subseteq alloc, FreeNoti(h)
  PROVE  /\ WellLinked(notim', H, Noti) /\ pc' = pc
         /\ \E n \in Events(h) : On(H)' = On(H) \ {n} /\ alloc' = alloc \ {n}
         /\ \A g \in H : Events(g)' \subseteq Events(g)
<1> DEFINE n == TAILQ_FIRST(notim, h)
<1>1. /\ n # NULL /\ notim' = TAILQ_REMOVE(notim, h, n) /\ alloc' = alloc \ {n}
      /\ pc' = IF {n, notim.ptr[n], notim.back[n]} \ ({NULL} \union NotiHeads) \subseteq alloc
               THEN pc ELSE "dead"
  BY DEF FreeNoti
<1>2. Queues(notim, NotiCells, H, Noti)
  BY TypeOKPointers, Cells DEF Pointers, Queues
<1>3. /\ n \in Events(h)
      /\ notim.ptr[n] \in Events(h) \union {NULL}
      /\ notim.back[n] \in Events(h) \union {h}
  <2>1. n \in Visited(notim, h, Noti)
    BY <1>1, <1>2, FirstAndNext
  <2> HIDE DEF n
  <2>2. notim.ptr[n] # NULL => notim.ptr[n] \in Visited(notim, h, Noti)
    BY <1>2, <2>1, FirstAndNext DEF TAILQ_NEXT
  <2>3. notim.back[n] \in Visited(notim, h, Noti) \union {h}
    BY <1>2, <2>1, BackPointers
  <2> QED
    BY <2>1, <2>2, <2>3 DEF Events
<1> HIDE DEF n
<1>4. Events(h) \subseteq alloc
  BY OnWhat
<1>5. pc' = pc
  BY <1>1, <1>3, <1>4
<1>6. /\ Queues(notim', NotiCells, H, Noti) /\ Events(h)' = Events(h) \ {n}
      /\ \A g \in H : g # h => Events(g)' = Events(g)
  BY <1>1, <1>2, <1>3, RemoveKeeps DEF Events
<1>7. \A g \in H : g # h => n \notin Events(g)
  BY <1>3 DEF WellLinked, Events
<1>8. \A x : x \in On(H)' <=> \E g \in H : x \in Events(g)'
  BY DEF On
<1>9. On(H)' = On(H) \ {n}
  <2>1. \A x : x \in On(H)' <=> x \in On(H) /\ x # n
    BY <1>6, <1>7, <1>8, OnWhat
  <2> QED
    BY <2>1
<1>10. \A g \in H : Events(g)' \subseteq Events(g)
  BY <1>6
<1> QED
  BY <1>1, <1>3, <1>5, <1>6, <1>9, <1>10 DEF Queues

LEMMA DestroyBeginFreeInv ==
  ASSUME EvInv, DestroyBegin, ~ corrupt
  PROVE  FreeInv'
<1> USE DEF EvInv
<1>1. pc = "idle" /\ Running /\ pc' = "free_fd" /\ UNCHANGED <<fdm, notim, alloc, loop, corrupt>>
  BY DEF DestroyBegin, Running, queues
<1>2. loop.ev_fd = NULL /\ Left = FdQueue
  BY <1>1 DEF RecordInv, Left
<1>3. WellLinked(fdm, FdHeads, FdRec) /\ WellLinked(notim, NotiHeads \union Left, Noti)
  BY <1>1, <1>2 DEF FdInv, NotiInv
<1>4. NULL \notin FdQueue \union SpareFds
  BY Cells DEF FdQueue, SpareFds, Visited
<1>5. alloc = Left \union SpareFds \union On(NotiHeads \union Left)
  <2> DEFINE F == UNION { Visited(fdm, h, FdRec) : h \in FdHeads }
  <2>1. F = FdQueue \union SpareFds
    BY DEF FdHeads, FdQueue, SpareFds
  <2> HIDE DEF F
  <2>2. alloc = F \union On(NotiHeads \union FdQueue)
    BY <1>1, AllocIsQueues DEF NothingLeaks, F, On
  <2> QED
    BY <1>2, <2>1, <2>2
<1>6. FreesFd
  BY <1>2, <1>3, <1>4, <1>5 DEF FreesFd
<1>7. FreesFd'
  BY <1>1, <1>6 DEF FreesFd, Left, On, Events, FdQueue, SpareFds
<1> QED
  BY <1>1, <1>7 DEF FreeInv

LEMMA DestroyFdFreeInv ==
  ASSUME EvInv, FreeInv, DestroyFd, ~ corrupt
  PROVE  FreeInv'
<1>0. TypeOK
  BY DEF EvInv
<1> DEFINE f == loop.ev_fd
           g == TAILQ_FIRST(fdm, "fd_q")
           H == NotiHeads \union Left
<1>1. pc = "free_fd" /\ corrupt' = corrupt /\ FreesFd
  BY DEF DestroyFd, FreeInv
<1>2. /\ Queues(fdm, FdCells, FdHeads, FdRec) /\ Queues(notim, NotiCells, H, Noti)
      /\ f \notin FdQueue \union SpareFds
      /\ alloc = Left \union SpareFds \union On(H)
  <2>1. Left \subseteq FdRec
    BY <1>0, TypeOKParts DEF Left, FdQueue, Visited, LoopOK, Frame
  <2> QED
    BY <1>0, <1>1, <2>1, TypeOKPointers, Cells DEF FreesFd, Pointers, Queues
<1>3. Left \subseteq FdRec /\ SpareFds \subseteq FdRec /\ (\A h : Events(h) \subseteq Noti) /\ NULL \notin FdQueue
  BY <1>0, TypeOKParts, Cells DEF Left, FdQueue, SpareFds, Events, Visited, LoopOK, Frame
<1>4. CASE /\ f = NULL /\ ~ TAILQ_EMPTY(fdm, "fd_q")
           /\ fdm' = TAILQ_REMOVE(fdm, "fd_q", g)
           /\ loop' = [loop EXCEPT !.ev_fd = g]
           /\ UNCHANGED <<notim, alloc, pc>>
  <2>1. g \in FdQueue /\ g # NULL
    BY <1>2, <1>4, FirstAndNext, Cells DEF FdQueue, TAILQ_EMPTY, TAILQ_FIRST
  <2>2. loop'.ev_fd = g
    BY <1>0, <1>4, TypeOKParts DEF LoopOK, Frame
  <2>3. \A h : Events(h)' = Events(h)
    BY <1>4 DEF Events
  <2> HIDE DEF g
  <2>4. /\ Queues(fdm', FdCells, FdHeads, FdRec)
        /\ FdQueue' = FdQueue \ {g} /\ SpareFds' = SpareFds
    BY <1>2, <1>4, <2>1, RemoveKeeps, Cells DEF FdQueue, SpareFds
  <2>5. Left' = Left
    BY <1>4, <2>1, <2>2, <2>4 DEF Left
  <2>6. g \notin SpareFds
    BY <1>2, <2>1, Cells DEF Queues, WellLinked, FdQueue, SpareFds
  <2>7. FreesFd'
    BY <1>2, <1>4, <2>2, <2>3, <2>4, <2>5, <2>6 DEF FreesFd, On, Queues
  <2> QED
    BY <1>1, <1>4, <2>7 DEF FreeInv
<1>5. CASE /\ f = NULL /\ TAILQ_EMPTY(fdm, "fd_q") /\ pc' = "free_spare_fd"
           /\ UNCHANGED <<fdm, notim, alloc, loop>>
  <2>1. FdQueue = {}
    BY <1>2, <1>5, FirstAndNext, Cells DEF FdQueue
  <2>2. Left = {} /\ H = NotiHeads
    BY <1>5, <2>1 DEF Left
  <2>3. {"spare_fd_q"} \subseteq FdHeads
    BY Cells
  <2>4. Queues(fdm, FdCells, {"spare_fd_q"}, FdRec)
    BY <1>2, <2>3, FewerHeads
  <2>5. FreesSpareFd
    BY <1>2, <2>2, <2>4 DEF FreesSpareFd, Queues
  <2>6. FreesSpareFd'
    BY <1>5, <2>5 DEF FreesSpareFd, SpareFds, On, Events
  <2> QED
    BY <1>5, <2>6 DEF FreeInv
<1>6. CASE f # NULL /\ FreeNoti(f) /\ UNCHANGED <<fdm, loop>>
  <2>1. f \in Left /\ f \in H /\ H \subseteq NotiHeads \union FdRec /\ f \in alloc /\ On(H) \subseteq alloc
    BY <1>2, <1>3, <1>6 DEF Left
  <2>2. Left' = Left /\ SpareFds' = SpareFds /\ FdQueue' = FdQueue /\ loop' = loop
    BY <1>6 DEF Left, SpareFds, FdQueue
  <2>3. WellLinked(notim, H, Noti)
    BY <1>2 DEF Queues
  <2> HIDE DEF f, H
  <2>g. PICK G \in SUBSET (NotiHeads \union FdRec) : G = H
    BY <2>1
  <2>a. PICK k \in G : G = H /\ k = f
    BY <2>1, <2>g
  <2>b. FreeNoti(k) /\ k \in NotiHeads \union alloc /\ On(G) \subseteq alloc /\ WellLinked(notim, G, Noti)
    BY <1>6, <2>1, <2>3, <2>a
  <2>4. /\ WellLinked(notim', G, Noti) /\ pc' = pc
        /\ \E n \in Events(k) : On(G)' = On(G) \ {n} /\ alloc' = alloc \ {n}
    BY <1>0, <2>a, <2>b, FreeNotiEffect
  <2>5. PICK n \in Noti : On(G)' = On(G) \ {n} /\ alloc' = alloc \ {n}
    BY <1>3, <2>4
  <2>6. n \notin Left \union SpareFds
    BY <1>3, Cells
  <2>7. alloc' = Left \union SpareFds \union On(G)'
    BY <1>2, <2>5, <2>6, <2>a
  <2>8. G = (NotiHeads \union Left)' /\ WellLinked(fdm', FdHeads, FdRec)
    BY <1>1, <1>6, <2>2, <2>a DEF H, FreesFd
  <2>9. On(G)' = On(NotiHeads \union Left)'
    BY <2>8 DEF On
  <2>10. FreesFd'
    BY <1>1, <2>2, <2>4, <2>7, <2>8, <2>9 DEF FreesFd
  <2> QED
    BY <1>1, <2>4, <2>10 DEF FreeInv
<1>7. CASE /\ f # NULL /\ TAILQ_EMPTY(notim, f) /\ alloc' = alloc \ {f} /\ loop' = NoFrame
           /\ UNCHANGED <<fdm, notim, pc>>
  <2>1. f \in Left /\ f \in H /\ Left \ {f} = FdQueue
    BY <1>2, <1>7 DEF Left
  <2>2. FdQueue' = FdQueue /\ SpareFds' = SpareFds /\ Left' = FdQueue /\ loop'.ev_fd = NULL
    BY <1>7 DEF FdQueue, SpareFds, Left, NoFrame
  <2>3. Events(f) = {}
    BY <1>2, <1>7, <2>1, FirstAndNext DEF Events
  <2>4. \A h : Events(h)' = Events(h)
    BY <1>7 DEF Events
  <2> DEFINE G == NotiHeads \union FdQueue
  <2>5. Queues(notim, NotiCells, G, Noti)
    BY <1>2, <2>1, FewerHeads
  <2>6. f \in FdRec /\ H = G \union {f}
    BY <1>3, <2>1
  <2> HIDE DEF f, G, H
  <2>7. On(G) = On(H)
    <3>1. \A x : x \in On(G) <=> x \in On(H)
      BY <2>3, <2>6, OnWhat
    <3> QED
      BY <3>1
  <2>8. On(G)' = On(G)
    BY <1>7, <2>2 DEF G, On, Events
  <2>9. f \notin On(G)
    BY <1>3, <2>6, OnWhat, Cells
  <2>10. alloc' = FdQueue \union SpareFds \union On(G)
    BY <1>2, <1>7, <2>1, <2>7, <2>9
  <2>11. NULL \notin FdQueue \union SpareFds
    BY Cells DEF FdQueue, SpareFds, Visited
  <2>12. FreesFd'
    BY <1>1, <1>7, <2>2, <2>5, <2>8, <2>10, <2>11 DEF FreesFd, G, Queues
  <2> QED
    BY <1>1, <1>7, <2>12 DEF FreeInv
<1> QED
  BY <1>1, <1>4, <1>5, <1>6, <1>7 DEF DestroyFd

\* A record is taken off spare_fd_q with fd_q for the head.  That writes another head's
\* tqh_last, but only for the last record, and nothing is put on either queue later.
LEMMA DestroySpareFdFreeInv ==
  ASSUME EvInv, FreeInv, DestroySpareFd, ~ corrupt
  PROVE  FreeInv'
<1>0. TypeOK
  BY DEF EvInv
<1> DEFINE f == TAILQ_FIRST(fdm, "spare_fd_q")
<1>1. pc = "free_spare_fd" /\ UNCHANGED <<corrupt, notim>> /\ FreesSpareFd
  BY DEF DestroySpareFd, FreeInv
<1>2. On(NotiHeads)' = On(NotiHeads) /\ WellLinked(notim, NotiHeads, Noti)
  BY <1>1 DEF On, Events, FreesSpareFd
<1>3. alloc = SpareFds \union On(NotiHeads) /\ SpareFds \subseteq FdRec /\ On(NotiHeads) \cap FdRec = {}
  BY <1>1, Cells DEF FreesSpareFd, SpareFds, On, Events, Visited
<1>4. ASSUME NEW m, m.ptr["spare_fd_q"] = NULL
      PROVE  Visited(m, "spare_fd_q", FdRec) = {}
  <2>1. {} \in SUBSET FdRec /\ \A c \in {} \union {"spare_fd_q"} : m.ptr[c] \in {} \union {NULL}
    BY <1>4
  <2>2. \A e \in Visited(m, "spare_fd_q", FdRec) : e \in {}
    BY <2>1 DEF Visited
  <2> QED
    BY <2>2
<1>5. CASE f = NULL
  <2>1. pc' = "free_noti" /\ UNCHANGED <<fdm, alloc>>
    BY <1>5 DEF DestroySpareFd
  <2>2. SpareFds = {}
    BY <1>4, <1>5 DEF SpareFds, TAILQ_FIRST
  <2>3. FreesNoti'
    BY <1>1, <1>2, <1>3, <2>1, <2>2 DEF FreesNoti
  <2> QED
    BY <2>1, <2>3 DEF FreeInv
<1>6. CASE f # NULL
  <2>1. /\ fdm' = TAILQ_REMOVE(fdm, "fd_q", f) /\ alloc' = alloc \ {f}
        /\ pc' = IF {f, fdm.ptr[f], fdm.back[f]} \ ({NULL} \union FdHeads) \subseteq alloc
                 THEN pc ELSE "dead"
    BY <1>6 DEF DestroySpareFd
  <2>2. WellLinked(fdm, {"spare_fd_q"}, FdRec)
    BY <1>1, <1>6 DEF FreesSpareFd, TAILQ_EMPTY, TAILQ_FIRST
  <2>3. Queues(fdm, FdCells, {"spare_fd_q"}, FdRec)
    BY <1>0, <2>2, TypeOKPointers, Cells DEF Pointers, Queues
  <2>4. /\ f \in SpareFds /\ fdm.ptr[f] \in SpareFds \union {NULL}
        /\ fdm.back[f] = "spare_fd_q"
        /\ fdm.ptr[f] = NULL => SpareFds = {f}
    <3>1. f \in Visited(fdm, "spare_fd_q", FdRec)
      BY <1>6, <2>3, FirstAndNext
    <3>2. /\ fdm.ptr[f] # NULL => fdm.ptr[f] \in Visited(fdm, "spare_fd_q", FdRec)
      BY <2>3, <3>1, FirstAndNext DEF TAILQ_NEXT
    <3>3. /\ fdm.back[f] = "spare_fd_q"
          /\ fdm.ptr[f] = NULL => Visited(fdm, "spare_fd_q", FdRec) = {f}
      BY <2>3, <3>1, BackPointers DEF TAILQ_NEXT
    <3> QED
      BY <3>1, <3>2, <3>3 DEF SpareFds
  <2> HIDE DEF f
  <2>5. pc' = pc
    BY <1>3, <2>1, <2>4, Cells
  <2>6. /\ SpareFds' = SpareFds \ {f}
        /\ WellLinked(fdm', {"spare_fd_q"}, FdRec) \/ TAILQ_EMPTY(fdm', "spare_fd_q")
    <3>1. CASE fdm.ptr[f] # NULL
      <4>1. fdm' = TAILQ_REMOVE(fdm, "spare_fd_q", f)
        BY <2>1, <3>1 DEF TAILQ_REMOVE
      <4>2. /\ Queues(fdm', FdCells, {"spare_fd_q"}, FdRec)
            /\ Visited(fdm', "spare_fd_q", FdRec) = SpareFds \ {f}
        BY <2>3, <2>4, <4>1, RemoveKeeps DEF SpareFds
      <4> QED
        BY <4>2 DEF SpareFds, Queues
    <3>2. CASE fdm.ptr[f] = NULL
      <4>1. fdm.ptr \in [FdCells -> FdRec \union {NULL}] /\ "spare_fd_q" \in FdCells
        BY <1>0, TypeOKPointers, Cells DEF Pointers, IsMemory
      <4>2. fdm'.ptr = [fdm.ptr EXCEPT !["spare_fd_q"] = NULL]
        BY <2>1, <2>4, <3>2 DEF TAILQ_REMOVE
      <4>3. fdm'.ptr["spare_fd_q"] = NULL
        BY <4>1, <4>2
      <4>4. Visited(fdm', "spare_fd_q", FdRec) = {}
        BY <1>4, <4>3
      <4> QED
        BY <2>4, <3>2, <4>3, <4>4 DEF SpareFds, TAILQ_EMPTY
    <3> QED
      BY <3>1, <3>2
  <2>7. alloc' = SpareFds' \union On(NotiHeads)
    BY <1>3, <2>1, <2>4, <2>6
  <2>8. FreesSpareFd'
    BY <1>1, <1>2, <2>6, <2>7 DEF FreesSpareFd
  <2> QED
    BY <1>1, <2>5, <2>8 DEF FreeInv
<1> QED
  BY <1>5, <1>6

LEMMA DestroyNotiFreeInv ==
  ASSUME EvInv, FreeInv, DestroyNoti, ~ corrupt
  PROVE  FreeInv'
<1>0. TypeOK /\ UNCHANGED <<fdm, corrupt>> /\ pc \in {"free_noti", "free_spare_noti"} /\ FreesNoti
  BY DEF EvInv, DestroyNoti, FreeInv
<1>1. Queues(notim, NotiCells, NotiHeads, Noti)
  BY <1>0, TypeOKPointers, Cells DEF Pointers, Queues, FreesNoti
<1>2. \A x : x \in On(NotiHeads) <=> x \in Events("noti_q") \/ x \in Events("spare_noti_q")
  BY OnWhat DEF NotiHeads
<1>3. ASSUME NEW h \in NotiHeads, FreeNoti(h)
      PROVE  FreeInv'
  <2>1. NotiHeads \in SUBSET (NotiHeads \union FdRec) /\ h \in NotiHeads \union alloc
    OBVIOUS
  <2>2. WellLinked(notim, NotiHeads, Noti) /\ alloc = On(NotiHeads)
    BY <1>0 DEF FreesNoti
  <2>3. /\ WellLinked(notim', NotiHeads, Noti) /\ pc' = pc
        /\ \E n \in Events(h) : On(NotiHeads)' = On(NotiHeads) \ {n} /\ alloc' = alloc \ {n}
        /\ \A g \in NotiHeads : Events(g)' \subseteq Events(g)
    BY <1>0, <1>3, <2>1, <2>2, FreeNotiEffect
  <2>4. FreesNoti'
    BY <1>0, <2>2, <2>3, Cells DEF FreesNoti
  <2> QED
    BY <1>0, <2>3, <2>4 DEF FreeInv
<1>4. CASE /\ pc = "free_noti" /\ TAILQ_EMPTY(notim, "noti_q")
           /\ pc' = "free_spare_noti" /\ UNCHANGED <<notim, alloc>>
  <2>1. Events("noti_q") = {}
    BY <1>1, <1>4, FirstAndNext, Cells DEF Events
  <2>2. FreesNoti'
    BY <1>0, <1>4, <2>1 DEF FreesNoti, On, Events
  <2> QED
    BY <1>4, <2>2 DEF FreeInv
<1>5. CASE /\ pc = "free_spare_noti" /\ TAILQ_EMPTY(notim, "spare_noti_q")
           /\ pc' = "gone" /\ UNCHANGED <<notim, alloc>>
  <2>1. Events("spare_noti_q") = {} /\ Events("noti_q") = {} /\ alloc = On(NotiHeads)
    BY <1>0, <1>1, <1>5, FirstAndNext, Cells DEF Events, FreesNoti
  <2>2. alloc = {}
    BY <1>2, <2>1
  <2> QED
    BY <1>5, <2>2 DEF FreeInv
<1> QED
  BY <1>3, <1>4, <1>5, Cells DEF DestroyNoti

LEMMA NextFreeInv == EvInv /\ FreeInv /\ [Next]_vars => FreeInv'
<1> SUFFICES ASSUME EvInv, FreeInv, [Next]_vars, ~ corrupt' PROVE FreeInv'
  BY DEF FreeInv
<1>1. ~ corrupt
  BY DEF Next, Client, aloe_ev_put, PutNoMemory, CancelArmed, CancelPending, CancelMiss, Recycle,
         DestroyBegin, Once, OnceBegin, SelectReturn, ReadClock, CollectNoti, CollectFd, Dispatch,
         CbReturn, OnceReturn, OnceError, Freeing, DestroyFd, DestroySpareFd, DestroyNoti, Tick,
         Arrive, Stopped, vars
<1>2. CASE Running'
  BY <1>2 DEF Running, FreeInv
<1>3. CASE Running /\ ~ Running'
  <2>1. ~ (Idle \/ UNCHANGED vars)
    BY <1>1, <1>3, IdleEffect DEF EvInv
  <2>2. \A i \in Registrations : ~ CancelMiss(i)
    BY <1>1, <1>3, CancelMissEffect DEF EvInv, Running
  <2>3. ~ Freeing
    BY <1>3 DEF Freeing, DestroyFd, DestroySpareFd, DestroyNoti, Running
  <2>4. ~ (ReadClock \/ CollectNoti \/ CollectFd \/ Dispatch)
    BY <1>3 DEF ReadClock, CollectNoti, CollectFd, Dispatch, EnterFd, Running
  <2>5. \A r \in Requests : ~ aloe_ev_put(r) /\ ~ PutNoMemory(r)
    BY <1>3 DEF aloe_ev_put, PutNoMemory, Running
  <2>6. \A i \in Registrations : ~ CancelArmed(i) /\ ~ CancelPending(i)
    BY <1>3 DEF CancelArmed, CancelPending, Recycle, Running
  <2>7. DestroyBegin
    BY <2>1, <2>2, <2>3, <2>4, <2>5, <2>6 DEF Next, Client, Once, Idle, Registrations
  <2> QED
    BY <1>1, <2>7, DestroyBeginFreeInv
<1>4. CASE ~ Running
  <2>1. Freeing \/ UNCHANGED vars
    BY <1>4 DEF Next, Client, aloe_ev_put, PutNoMemory, CancelArmed, CancelPending, CancelMiss,
         CancelCall, InClient, DestroyBegin, Once, OnceBegin, SelectReturn, ReadClock, CollectNoti,
         CollectFd, Dispatch, CbReturn, OnceReturn, OnceError, Tick, Arrive, Stopped, Running
  <2>2. CASE Freeing
    BY <1>1, <2>2, DestroyFdFreeInv, DestroySpareFdFreeInv, DestroyNotiFreeInv DEF Freeing
  <2>3. CASE UNCHANGED vars
    <3>1. UNCHANGED <<fdm, notim, alloc, pc, loop, corrupt>>
      BY <2>3 DEF vars, queues
    <3> QED
      BY <3>1 DEF FreeInv, FreesFd, FreesSpareFd, FreesNoti, Left, On, Events, FdQueue, SpareFds
  <2> QED
    BY <2>1, <2>2, <2>3
<1> QED
  BY <1>2, <1>3, <1>4

\* As long as no aloe_ev_cancel has found its event no loop over a queue is endless,
\* aloe_ev_destroy frees nothing twice and touches nothing it has freed, and when it is
\* done nothing is left - although it takes the spare records off with the wrong head.
THEOREM FreedOnceCorrect == Spec => []FreedOnce
<1>1. Init => FreeInv
  BY DEF Init, FreeInv
<1>2. FreeInv => FreedOnce
  BY DEF FreeInv, FreedOnce
<1> QED
  BY <1>1, <1>2, NextFreeInv, EvInvHolds, PTL DEF Spec

-----------------------------------------------------------------------------
(***************************************************************************)
(* The order of the events, and what a round has found.                    *)
(***************************************************************************)

\* The events of s, with fields m, are in the order of their registration.
Ascending(m, s) ==
  \A i, j \in 1 .. Len(s) : i < j => m[s[i]].cbarg < m[s[j]].cbarg

OrderInv == Running /\ ~ corrupt => \A f \in FdQueue : Ascending(noti, Order(f))

\* An event on a queue of fd_q waits for x, a descriptor and a kind.
Waits(x) == \E f \in FdQueue : \E n \in Events(f) : x[1] = noti[n].fd /\ x[2] \in noti[n].ev_wait

\* What select is asked for is what events wait for; what it finds is a part of that.
FoundInv ==
  ~ corrupt =>
    /\ pc \in {"select", "clock"} => \A x \in loop.sets : x[1] # -1 /\ Waits(x)
    /\ pc = "select" =>
         /\ \A f \in FdQueue : \A n \in Events(f), k \in Kinds :
              k \in noti[n].ev_wait => <<noti[n].fd, k>> \in loop.sets
         /\ \A x \in loop.sets : x[1] <= loop.fdmax
    /\ pc = "clock" => loop.fdmax = Cardinality(loop.sets)

\* What was found for record f; d gives the records their descriptors.
FoundFor(d, f, sets) == { k \in Kinds : <<d[f], k>> \in sets }

\* The part of the findings that is for the records of q from place p on.
Findings(d, sets, q, p) == { x \in sets : \E a \in p .. Len(q) : d[q[a]] = x[1] }

\* The records of q are of different descriptors.
Different(d, q) == \A a, b \in 1 .. Len(q) : d[q[a]] = d[q[b]] => a = b

\* Why event n, with fields m, is to be collected in the round l: not at all, if this is
\* empty.
Reason(m, l, n) ==
  LET io == { k \in m[n].ev_wait : <<m[n].fd, k>> \in l.sets }
  IN  IF io = {} /\ m[n].due # INFINITE /\ m[n].due <= l.ts THEN {"time"} ELSE io

\* The loop l is at place p of q, and fdmax counts what was found for the records behind it.
AtRecord(d, l, q, p) ==
  q[p] = l.ev_fd /\ l.fdmax = Cardinality(Findings(d, l.sets, q, p + 1))

\* It is at place j of the record's events s, and none of those before it is to be collected.
AtEvent(m, l, s, j) ==
  /\ l.ev_noti = IF j = Len(s) + 1 THEN NULL ELSE s[j]
  /\ \A i \in 1 .. j - 1 : Reason(m, l, s[i]) = {}

\* No event of the records before the one the loop is at is to be collected.
CollectInv ==
  pc = "collect" /\ ~ corrupt =>
    /\ \A x \in loop.sets : x[1] # -1
    /\ loop.triggered = FoundFor(fdno, loop.ev_fd, loop.sets)
    /\ \E p \in 1 .. Len(FdOrder) :
         /\ AtRecord(fdno, loop, FdOrder, p)
         /\ \A f \in FdQueue, a \in 1 .. p - 1 :
              f = FdOrder[a] => \A n \in Events(f) : Reason(noti, loop, n) = {}
    /\ \A f \in FdQueue :
         f = loop.ev_fd => \E j \in 1 .. Len(Order(f)) + 1 : AtEvent(noti, loop, Order(f), j)

\* The events on a queue, in their order.
LEMMA OrderIs ==
  ASSUME TypeOK, NotiInv, Running, ~ corrupt, NEW h \in NotiHeads \union FdQueue, NEW s, s = Order(h)
  PROVE  /\ s \in Seq(Noti) /\ NoRepeat(s) /\ Events(h) = Items(s)
         /\ TAILQ_FIRST(notim, h) = IF s = <<>> THEN NULL ELSE s[1]
         /\ \A i \in 1 .. Len(s) : TAILQ_NEXT(notim, s[i]) = IF i = Len(s) THEN NULL ELSE s[i + 1]
<1>1. Queues(notim, NotiCells, NotiHeads \union FdQueue, Noti)
  BY NotiQueuesAre DEF NotiInv
<1> QED
  BY <1>1, ContentsChain DEF Order, Events

\* The records of fd_q, in their order.
LEMMA FdOrderIs ==
  ASSUME TypeOK, FdInv, Running
  PROVE  /\ FdOrder \in Seq(FdRec) /\ NoRepeat(FdOrder) /\ FdQueue = Items(FdOrder)
         /\ First = IF FdOrder = <<>> THEN NULL ELSE FdOrder[1]
         /\ \A i \in 1 .. Len(FdOrder) :
              TAILQ_NEXT(fdm, FdOrder[i]) = IF i = Len(FdOrder) THEN NULL ELSE FdOrder[i + 1]
<1>1. Queues(fdm, FdCells, FdHeads, FdRec)
  BY FdQueuesAre DEF FdInv
<1> QED
  BY <1>1, ContentsChain, Cells DEF FdOrder, FdQueue, First

LEMMA InitNothing ==
  ASSUME Init
  PROVE  FdQueue = {} /\ Events("noti_q") = {}
<1>1. \A h \in FdHeads : fdm.ptr[h] = NULL /\ fdm.back[h] = h
  BY Cells DEF Init
<1>2. FdQueue = {}
  BY <1>1, EmptyLinks, Cells DEF FdQueue
<1>3. \A h \in NotiHeads : notim.ptr[h] = NULL /\ notim.back[h] = h
  BY Cells DEF Init
<1>4. Events("noti_q") = {}
  BY <1>3, EmptyLinks, Cells DEF Events
<1> QED
  BY <1>2, <1>4

LEMMA InitOrderInv == Init => OrderInv /\ FoundInv /\ CollectInv
<1> SUFFICES ASSUME Init PROVE OrderInv /\ FoundInv /\ CollectInv
  OBVIOUS
<1>1. pc = "idle"
  BY DEF Init
<1> QED
  BY <1>1, InitNothing DEF OrderInv, FoundInv, CollectInv

LEMMA SameOrderInv ==
  ASSUME OrderInv, UNCHANGED <<notim, noti>>, FdQueue' \subseteq FdQueue,
         Running' => Running, corrupt => corrupt'
  PROVE  OrderInv'
<1>1. \A h : Order(h)' = Order(h)
  BY DEF Order
<1> QED
  BY <1>1 DEF OrderInv

\* A registration is the last on its queue, and has the highest number.
LEMMA PutOrderInv ==
  ASSUME EvInv, OrderInv, NEW r \in Requests, aloe_ev_put(r)
  PROVE  OrderInv'
<1> USE DEF EvInv
<1>1. PICK c \in FdRec, e \in Noti : PutTakes(r, c, e)
  BY PutEffect
<1>2. InClient /\ UNCHANGED <<pc, corrupt>>
  BY PutEffect
<1>3. Running
  BY <1>2 DEF InClient, Running
<1> SUFFICES ASSUME ~ corrupt PROVE \A f \in FdQueue' : Ascending(noti', Order(f)')
  BY <1>2 DEF OrderInv
<1>4. /\ FdQueue' = FdQueue \union {c}
      /\ \A h \in {"noti_q"} \union FdQueue : e \notin Events(h)
      /\ Order(c)' = Append(IF c \in FdQueue THEN Order(c) ELSE <<>>, e)
      /\ \A h \in {"noti_q"} \union FdQueue : h # c => Order(h)' = Order(h)
  BY <1>1 DEF PutTakes
<1>5. noti'[e].cbarg = Len(regs) + 1 /\ \A n \in Noti : n # e => noti'[n] = noti[n]
  <2>1. noti' = [noti EXCEPT ![e] =
                   [fd |-> r.fd, cb |-> r.cb, cbarg |-> Len(regs) + 1, ev_wait |-> r.ev_wait,
                    due |-> Due(r), ev_noti |-> @.ev_noti]]
    BY <1>1 DEF PutTakes
  <2>2. DOMAIN noti = Noti
    BY TypeOKParts DEF FieldsOK
  <2> QED
    BY <2>1, <2>2
<1>6. ASSUME NEW f \in FdQueue
      PROVE  /\ Order(f) \in Seq(Noti)
             /\ \A i \in 1 .. Len(Order(f)) : /\ noti'[Order(f)[i]] = noti[Order(f)[i]]
                                              /\ noti[Order(f)[i]].cbarg \in 1 .. Len(regs)
             /\ Ascending(noti, Order(f))
  <2> DEFINE s == Order(f)
  <2>1. s \in Seq(Noti) /\ Events(f) = Items(s)
    BY <1>3, OrderIs
  <2> HIDE DEF s
  <2>2. ASSUME NEW i \in 1 .. Len(s) PROVE noti'[s[i]] = noti[s[i]] /\ noti[s[i]].cbarg \in 1 .. Len(regs)
    <3>1. s[i] \in Events(f) /\ s[i] \in Noti
      BY <2>1 DEF Items
    <3>2. Holds(s[i], "armed")
      BY <1>3, <3>1 DEF RegInv, ArmedInv
    <3> QED
      BY <1>4, <1>5, <3>1, <3>2 DEF Holds, Registrations
  <2>3. Ascending(noti, s)
    BY <1>3 DEF OrderInv, s
  <2> QED
    BY <2>1, <2>2, <2>3 DEF s
<1>7. ASSUME NEW f \in FdQueue, f # c PROVE Ascending(noti', Order(f)')
  <2> DEFINE s == Order(f)
  <2>1. Order(f)' = s
    BY <1>4, <1>7
  <2>2. Ascending(noti, s) /\ \A i \in 1 .. Len(s) : noti'[s[i]] = noti[s[i]]
    BY <1>6
  <2> HIDE DEF s
  <2>3. Ascending(noti', s)
    BY <2>2 DEF Ascending
  <2> QED
    BY <2>1, <2>3
<1>8. Ascending(noti', Order(c)')
  <2> DEFINE s == IF c \in FdQueue THEN Order(c) ELSE <<>>
             t == Append(s, e)
  <2>1. /\ s \in Seq(Noti) /\ Len(s) \in Nat
        /\ \A i \in 1 .. Len(s) : noti'[s[i]] = noti[s[i]] /\ noti[s[i]].cbarg \in 1 .. Len(regs)
        /\ \A i, j \in 1 .. Len(s) : i < j => noti[s[i]].cbarg < noti[s[j]].cbarg
    BY <1>6 DEF Ascending
  <2> HIDE DEF s
  <2>2. /\ Len(t) = Len(s) + 1 /\ t[Len(s) + 1] = e
        /\ \A i \in 1 .. Len(s) : t[i] = s[i]
    BY <2>1
  <2>3. Len(regs) \in Nat
    BY TypeOKParts DEF RegsOK
  <2>4. ASSUME NEW i \in 1 .. Len(t), NEW j \in 1 .. Len(t), i < j
        PROVE  noti'[t[i]].cbarg < noti'[t[j]].cbarg
    <3>1. i \in 1 .. Len(s) /\ t[i] = s[i]
      BY <2>1, <2>2, <2>4
    <3>2. CASE j \in 1 .. Len(s)
      BY <2>1, <2>2, <2>4, <3>1, <3>2
    <3>3. CASE j = Len(s) + 1
      <4>1. noti'[t[j]].cbarg = Len(regs) + 1
        BY <1>5, <2>2, <3>3
      <4>2. noti'[t[i]].cbarg \in 1 .. Len(regs)
        BY <2>1, <3>1
      <4> QED
        BY <2>3, <4>1, <4>2
    <3> QED
      BY <2>1, <2>2, <3>2, <3>3
  <2> HIDE DEF t
  <2>5. Ascending(noti', t)
    BY <2>4 DEF Ascending
  <2> QED
    BY <1>4, <2>5 DEF s, t
<1> QED
  BY <1>4, <1>7, <1>8

LEMMA CollectOrderInv ==
  ASSUME EvInv, OrderInv, CollectNoti
  PROVE  OrderInv'
<1> USE DEF EvInv
<1> SUFFICES ASSUME ~ corrupt PROVE OrderInv'
  BY DEF CollectNoti, OrderInv
<1>1. PICK f \in FdQueue, n \in Noti :
        /\ pc = "collect" /\ n \in Events(f)
        /\ UNCHANGED <<fdm, pc>>
        /\ noti' = [noti EXCEPT ![n].ev_noti = Notified(n)]
        /\ Notified(n) = {} => UNCHANGED notim
        /\ Notified(n) # {} =>
             /\ Order(f)' = Without(Order(f), n)
             /\ \A h \in FdQueue : h # f => Order(h)' = Order(h)
  BY CollectNotiEffect
<1>2. Running /\ FdQueue' = FdQueue
  BY <1>1 DEF Running, FdQueue
<1>3. \A x \in Noti : noti'[x].cbarg = noti[x].cbarg
  <2>1. noti \in [Noti -> Event]
    BY TypeOKParts DEF FieldsOK
  <2> QED
    BY <1>1, <2>1 DEF Event
<1>4. \A s : s \in Seq(Noti) /\ Ascending(noti, s) => Ascending(noti', s)
  <2> SUFFICES ASSUME NEW s \in Seq(Noti), Ascending(noti, s) PROVE Ascending(noti', s)
    OBVIOUS
  <2>1. \A i \in 1 .. Len(s) : s[i] \in Noti
    OBVIOUS
  <2> QED
    BY <1>3, <2>1 DEF Ascending
<1>5. ASSUME NEW g \in FdQueue
      PROVE  /\ Order(g) \in Seq(Noti) /\ NoRepeat(Order(g)) /\ Ascending(noti, Order(g))
             /\ Events(g) = Items(Order(g))
  BY <1>2, OrderIs DEF OrderInv
<1>6. ASSUME NEW g \in FdQueue, Order(g)' = Order(g) PROVE Ascending(noti', Order(g)')
  <2>1. Ascending(noti', Order(g))
    BY <1>4, <1>5
  <2> QED
    BY <1>6, <2>1
<1>7. ASSUME Order(f)' = Without(Order(f), n) PROVE Ascending(noti', Order(f)')
  <2> DEFINE s == Order(f)
             w == Without(s, n)
  <2>1. s \in Seq(Noti) /\ NoRepeat(s) /\ Ascending(noti, s) /\ Events(f) = Items(s)
    BY <1>5
  <2> HIDE DEF s
  <2>2. PICK k \in 1 .. Len(s) : s[k] = n
    BY <1>1, <2>1 DEF Items
  <2>3. /\ w \in Seq(Noti) /\ Len(w) = Len(s) - 1
        /\ \A j \in 1 .. Len(w) : w[j] = IF j < k THEN s[j] ELSE s[j + 1]
    BY <2>1, <2>2, WithoutItem
  <2> HIDE DEF w
  <2>4. ASSUME NEW i \in 1 .. Len(w), NEW j \in 1 .. Len(w), i < j
        PROVE  noti[w[i]].cbarg < noti[w[j]].cbarg
    <3> DEFINE a == IF i < k THEN i ELSE i + 1
               b == IF j < k THEN j ELSE j + 1
    <3>1. a \in 1 .. Len(s) /\ b \in 1 .. Len(s) /\ a < b
      BY <2>1, <2>3, <2>4
    <3>2. w[i] = s[a] /\ w[j] = s[b]
      BY <2>3
    <3> HIDE DEF a, b
    <3> QED
      BY <2>1, <3>1, <3>2 DEF Ascending
  <2>5. Ascending(noti, w)
    BY <2>4 DEF Ascending
  <2>6. Ascending(noti', w)
    BY <1>4, <2>3, <2>5
  <2> QED
    BY <1>7, <2>6 DEF s, w
<1>8. CASE Notified(n) = {}
  <2>1. \A g : Order(g)' = Order(g)
    BY <1>1, <1>8 DEF Order
  <2> QED
    BY <1>2, <1>6, <2>1 DEF OrderInv
<1>9. CASE Notified(n) # {}
  BY <1>1, <1>2, <1>6, <1>7, <1>9 DEF OrderInv
<1> QED
  BY <1>8, <1>9

LEMMA NextOrderInv ==
  ASSUME EvInv, OrderInv, [Next]_vars
  PROVE  OrderInv'
<1> USE DEF EvInv
<1>1. CASE Freeing
  BY <1>1, FreeingStops DEF OrderInv
<1>2. ASSUME NEW r \in Requests, PutNoMemory(r) PROVE OrderInv'
  <2>1. FdQueue' = FdQueue /\ UNCHANGED <<notim, noti, pc, corrupt>>
    BY <1>2, NoMemoryEffect
  <2> QED
    BY <2>1, SameOrderInv DEF Running
<1>3. ASSUME NEW i \in Registrations, CancelArmed(i) \/ CancelPending(i) PROVE OrderInv'
  BY <1>3, CancelFindsEffect DEF OrderInv
<1>4. ASSUME NEW i \in Registrations, CancelMiss(i) PROVE OrderInv'
  <2>1. InClient /\ UNCHANGED <<fdm, notim, noti, corrupt>>
    BY <1>4, CancelMissEffect DEF queues
  <2> QED
    BY <2>1, SameOrderInv DEF InClient, Running, FdQueue
<1>5. CASE DestroyBegin
  BY <1>5 DEF DestroyBegin, OrderInv, Running
<1>6. CASE ReadClock
  <2>1. UNCHANGED <<fdm, notim, noti, corrupt>> /\ pc = "clock"
    BY <1>6, ReadClockEffect DEF queues
  <2> QED
    BY <2>1, SameOrderInv DEF Running, FdQueue
<1>7. CASE CollectFd
  <2>1. UNCHANGED <<notim, noti, corrupt>> /\ pc = "collect" /\ FdQueue' \subseteq FdQueue
    BY <1>7, CollectFdEffect DEF Spares, FdQueue
  <2> QED
    BY <2>1, SameOrderInv DEF Running
<1>8. CASE Dispatch
  <2> SUFFICES ASSUME ~ corrupt PROVE OrderInv'
    BY <1>8 DEF Dispatch, OrderInv
  <2>1. /\ pc = "dispatch" /\ UNCHANGED <<fdm, noti>>
        /\ \A h \in FdQueue : Order(h)' = Order(h)
    BY <1>8, DispatchEffect
  <2>2. FdQueue' = FdQueue /\ Running
    BY <2>1 DEF FdQueue, Running
  <2> QED
    BY <2>1, <2>2 DEF OrderInv
<1>9. CASE Idle \/ UNCHANGED vars
  <2>1. UNCHANGED <<fdm, notim, noti, corrupt>> /\ (Running' => Running)
    BY <1>9, IdleEffect DEF queues
  <2> QED
    BY <2>1, SameOrderInv DEF FdQueue
<1> QED
  BY <1>1, <1>2, <1>3, <1>4, <1>5, <1>6, <1>7, <1>8, <1>9, PutOrderInv, CollectOrderInv
     DEF Next, Client, Once, Idle, Registrations

-----------------------------------------------------------------------------
\* An event on a queue of fd_q holds a registration that waits, and is on the queue of
\* the record of its descriptor.
LEMMA ArmedEvent ==
  ASSUME EvInv, Running, ~ corrupt, NEW f \in FdQueue, NEW n \in Events(f)
  PROVE  LET i == noti[n].cbarg
         IN  /\ n \in Noti /\ i \in Registrations /\ regs[i] \in Registration
             /\ regs[i].ev = n /\ regs[i].st = "armed"
             /\ noti[n].fd = regs[i].req.fd /\ noti[n].cb = regs[i].req.cb
             /\ noti[n].ev_wait = regs[i].req.ev_wait /\ noti[n].due = regs[i].due
             /\ noti[n].ev_wait \subseteq Kinds /\ noti[n].fd \in Int
             /\ noti[n].fd = -1 => f = First /\ noti[n].ev_wait = {}
             /\ noti[n].fd # -1 => fdno[f] = noti[n].fd
<1> USE DEF EvInv
<1> DEFINE i == noti[n].cbarg
<1>1. Holds(n, "armed") /\ Serves(f, noti[n].fd) /\ \A j \in Registrations : Kept(j)
  BY DEF RegInv, ArmedInv
<1>2. i \in Registrations /\ regs[i].ev = n /\ regs[i].st = "armed"
  BY <1>1 DEF Holds
<1>3. /\ noti[n].fd = regs[i].req.fd /\ noti[n].cb = regs[i].req.cb
      /\ noti[n].ev_wait = regs[i].req.ev_wait /\ noti[n].due = regs[i].due
  BY <1>1, <1>2 DEF Kept
<1>4. regs[i] \in Registration /\ n \in Noti
  BY <1>2, RegistrationType
<1>5. regs[i].req \in Request /\ (regs[i].req.fd = -1 => regs[i].req.ev_wait = {})
  BY <1>4, RequestsAssumption DEF Registration
<1> HIDE DEF i
<1>6. noti[n].ev_wait \subseteq Kinds /\ noti[n].fd \in Int
  BY <1>3, <1>5 DEF Request
<1> QED
  BY <1>1, <1>2, <1>3, <1>4, <1>5, <1>6 DEF Serves, i

LEMMA BeginFoundInv ==
  ASSUME EvInv, OnceBegin, pc' = "select", ~ corrupt
  PROVE  FoundInv'
<1> DEFINE fds   == Visited(fdm, "fd_q", FdRec)
           on(f) == Visited(notim, f, Noti)
           fdnos == { fdno[f] : f \in fds } \ {-1}
           dues  == (UNION { { noti[n].due : n \in on(f) } : f \in fds }) \ {INFINITE}
           sets  == { x \in fdnos \X Kinds :
                        \E f \in fds : /\ fdno[f] = x[1]
                                       /\ \E n \in on(f) : x[2] \in noti[n].ev_wait }
<1>1. PICK due \in IF dues = {} THEN {INFINITE} ELSE dues, fdmax \in fdnos \union {-1} :
        /\ \A fd \in fdnos : fd <= fdmax
        /\ loop' = [NoFrame EXCEPT
             !.fdmax = fdmax, !.sets = sets,
             !.until = LET wait == SelectTimeout(due, fdmax)
                       IN IF wait = INFINITE THEN INFINITE ELSE now + TICK * wait]
  BY DEF OnceBegin
<1>2. Running /\ UNCHANGED queues
  BY DEF OnceBegin, Running
<1>3. loop'.sets = sets /\ loop'.fdmax = fdmax
  <2> HIDE DEF sets, fdnos
  <2> QED
    BY <1>1 DEF NoFrame
<1>4. \A x \in sets : /\ x[1] # -1 /\ x[1] <= fdmax
                      /\ \E f \in FdQueue : /\ fdno[f] = x[1]
                                            /\ \E n \in Events(f) : x[2] \in noti[n].ev_wait
  BY <1>1 DEF FdQueue, Events
<1>5. \A f \in FdQueue : \A n \in Events(f), k \in Kinds :
        fdno[f] # -1 /\ k \in noti[n].ev_wait => <<fdno[f], k>> \in sets
  BY DEF FdQueue, Events
<1> HIDE DEF fds, on, fdnos, dues, sets
<1>6. \A x \in sets : x[1] # -1 /\ Waits(x)
  <2> SUFFICES ASSUME NEW x \in sets PROVE x[1] # -1 /\ Waits(x)
    OBVIOUS
  <2>1. PICK f \in FdQueue : fdno[f] = x[1] /\ \E n \in Events(f) : x[2] \in noti[n].ev_wait
    BY <1>4
  <2>2. PICK n \in Events(f) : x[2] \in noti[n].ev_wait
    BY <2>1
  <2>3. fdno[f] = noti[n].fd
    BY <1>2, <2>2, ArmedEvent
  <2> QED
    BY <1>4, <2>1, <2>2, <2>3 DEF Waits
<1>7. \A f \in FdQueue : \A n \in Events(f), k \in Kinds :
        k \in noti[n].ev_wait => <<noti[n].fd, k>> \in sets
  <2> SUFFICES ASSUME NEW f \in FdQueue, NEW n \in Events(f), NEW k \in Kinds, k \in noti[n].ev_wait
               PROVE  <<noti[n].fd, k>> \in sets
    OBVIOUS
  <2>1. fdno[f] = noti[n].fd /\ noti[n].fd # -1
    BY <1>2, ArmedEvent
  <2>2. <<fdno[f], k>> \in sets
    BY <1>5, <2>1
  <2> QED
    BY <2>1, <2>2
<1>8. FdQueue' = FdQueue /\ noti' = noti /\ (\A f : Events(f)' = Events(f)) /\ \A x : Waits(x)' <=> Waits(x)
  BY <1>2 DEF queues, FdQueue, Events, Waits
<1> QED
  BY <1>3, <1>4, <1>6, <1>7, <1>8 DEF FoundInv

LEMMA NextFoundInv ==
  ASSUME EvInv, FoundInv, [Next]_vars
  PROVE  FoundInv'
<1> USE DEF EvInv
<1>1. CASE OnceBegin
  <2>1. UNCHANGED corrupt /\ pc' \in {"select", "hung"}
    BY <1>1 DEF OnceBegin
  <2> QED
    BY <1>1, <2>1, BeginFoundInv DEF FoundInv
<1>2. CASE SelectReturn
  <2> DEFINE found == { x \in loop.sets \intersect ready : x[1] <= loop.fdmax }
  <2>1. /\ pc = "select" /\ pc' = "clock" /\ UNCHANGED <<queues, corrupt>>
        /\ loop' = [loop EXCEPT !.sets = found, !.fdmax = Cardinality(found)]
    BY <1>2 DEF SelectReturn
  <2>2. found \subseteq loop.sets
    OBVIOUS
  <2> HIDE DEF found
  <2>3. loop'.sets = found /\ loop'.fdmax = Cardinality(found)
    BY <2>1, TypeOKParts DEF LoopOK, Frame
  <2>4. \A x : Waits(x)' <=> Waits(x)
    BY <2>1 DEF queues, Waits, FdQueue, Events
  <2> QED
    BY <2>1, <2>2, <2>3, <2>4 DEF FoundInv
<1>3. CASE Tick \/ Arrive \/ Stopped \/ UNCHANGED vars
  <2>1. UNCHANGED <<pc, queues, loop, corrupt>>
    BY <1>3 DEF Tick, Arrive, Stopped, vars
  <2>2. FdQueue' = FdQueue /\ noti' = noti /\ (\A f : Events(f)' = Events(f)) /\ \A x : Waits(x)' <=> Waits(x)
    BY <2>1 DEF queues, FdQueue, Events, Waits
  <2> QED
    BY <2>1, <2>2 DEF FoundInv
<1>4. CASE Client
  <2>1. InClient /\ pc' \in {pc, "hung", "free_fd"}
    BY <1>4 DEF Client, aloe_ev_put, PutNoMemory, CancelArmed, CancelPending, CancelMiss, CancelCall,
                Recycle, DestroyBegin, InClient
  <2> QED
    BY <2>1 DEF FoundInv, InClient
<1>5. CASE Freeing
  BY <1>5, FreeingStops DEF FoundInv, Running
<1>6. CASE OnceError \/ ReadClock \/ CollectNoti \/ CollectFd \/ Dispatch \/ CbReturn \/ OnceReturn
  <2>1. pc' \notin {"select", "clock"}
    BY <1>6 DEF OnceError, ReadClock, EnterFd, CollectNoti, CollectFd, Dispatch,
                CbReturn, OnceReturn
  <2> QED
    BY <2>1 DEF FoundInv
<1> QED
  BY <1>1, <1>2, <1>3, <1>4, <1>5, <1>6 DEF Next, Once

-----------------------------------------------------------------------------
\* The findings of a record are counted off when the loop enters it.
LEMMA CountFindings ==
  ASSUME NEW q \in Seq(FdRec), NEW d \in [FdRec -> Int],
         Different(d, q),
         NEW l \in Frame, IsFiniteSet(l.sets), NEW p \in 1 .. Len(q)
  PROVE  LET K == FoundFor(d, q[p], l.sets)
             c == Cardinality(Findings(d, l.sets, q, p))
             rest == Cardinality(Findings(d, l.sets, q, p + 1))
         IN  Cardinality(K) \in Nat /\ rest \in Nat /\ c = Cardinality(K) + rest /\ (c = 0 => K = {})
<1> DEFINE sets == l.sets
           fd == d[q[p]]
           K  == FoundFor(d, q[p], sets)
           A  == { x \in sets : x[1] = fd }
           B  == Findings(d, sets, q, p + 1)
<1>0. Len(q) \in Nat /\ \A a \in 1 .. Len(q) : q[a] \in FdRec
  OBVIOUS
<1>9. sets \in SUBSET (Int \X Kinds) /\ IsFiniteSet(sets)
  BY DEF Frame
<1> HIDE DEF sets
<1>8. K = { k \in Kinds : <<fd, k>> \in sets }
  BY DEF FoundFor
<1> HIDE DEF K
<1>1. IsFiniteSet(K) /\ Cardinality(K) \in Nat /\ (Cardinality(K) = 0 => K = {})
  <2>1. K \in SUBSET Kinds
    BY <1>8
  <2> QED
    BY <2>1, FiniteKinds, FS_EmptySet
<1>2. IsFiniteSet(A) /\ Cardinality(A) = Cardinality(K)
  <2> DEFINE g == [k \in K |-> <<fd, k>>]
  <2>1. g \in [K -> A]
    BY <1>8
  <2>2. \A x \in A : \E k \in K : g[k] = x
    <3> SUFFICES ASSUME NEW x \in A PROVE \E k \in K : g[k] = x
      OBVIOUS
    <3>1. x \in Int \X Kinds /\ x[1] = fd /\ x \in sets
      BY <1>9
    <3>2. x = <<fd, x[2]>> /\ x[2] \in Kinds
      BY <3>1
    <3>3. x[2] \in K
      BY <1>8, <3>1, <3>2
    <3> QED
      BY <3>2, <3>3
  <2>3. \A i, j \in K : g[i] = g[j] => i = j
    OBVIOUS
  <2> HIDE DEF g, A
  <2>4. g \in Bijection(K, A)
    BY <2>1, <2>2, <2>3 DEF Bijection, Injection, Surjection, IsInjective
  <2>5. ExistsBijection(K, A)
    BY <2>4 DEF ExistsBijection
  <2> QED
    BY <1>1, <2>5, FS_Bijection
<1>3. IsFiniteSet(B) /\ Cardinality(B) \in Nat
  <2>1. B \in SUBSET sets
    BY DEF Findings
  <2> HIDE DEF B
  <2> QED
    BY <1>9, <2>1, FS_Subset, FS_CardinalityType
<1>4. Findings(d, sets, q, p) = A \union B
  <2>1. \A x \in sets : (\E a \in p .. Len(q) : d[q[a]] = x[1])
                          <=> x[1] = fd \/ \E a \in p + 1 .. Len(q) : d[q[a]] = x[1]
    <3> SUFFICES ASSUME NEW x \in sets
                 PROVE  (\E a \in p .. Len(q) : d[q[a]] = x[1])
                          <=> x[1] = fd \/ \E a \in p + 1 .. Len(q) : d[q[a]] = x[1]
      OBVIOUS
    <3>1. p .. Len(q) = {p} \union (p + 1 .. Len(q))
      BY <1>0
    <3> QED
      BY <3>1
  <2> QED
    BY <2>1 DEF Findings
<1>5. A \cap B = {}
  <2> SUFFICES ASSUME NEW x \in A, x \in B PROVE FALSE
    OBVIOUS
  <2>1. PICK a \in p + 1 .. Len(q) : d[q[a]] = x[1]
    BY DEF Findings
  <2>2. d[q[a]] = d[q[p]] /\ a \in 1 .. Len(q)
    BY <2>1, <1>0
  <2>3. a = p
    BY <2>2 DEF Different
  <2> QED
    BY <2>1, <2>3
<1> HIDE DEF A, B
<1>6. Cardinality(A \union B) = Cardinality(K) + Cardinality(B)
  <2>1. Cardinality(A \cap B) = 0
    BY <1>5, FS_EmptySet
  <2>2. Cardinality(A \union B) = Cardinality(A) + Cardinality(B) - Cardinality(A \cap B)
    BY <1>2, <1>3, FS_Union
  <2> QED
    BY <1>1, <1>2, <1>3, <2>1, <2>2
<1>7. Cardinality(Findings(d, sets, q, p)) = 0 => K = {}
  BY <1>1, <1>3, <1>4, <1>6
<1> QED
  BY <1>1, <1>3, <1>4, <1>6, <1>7 DEF B, K, sets

\* What is behind the place of a record is behind the place it has left.
LEMMA FindingsWithout ==
  ASSUME NEW q \in Seq(FdRec), NoRepeat(q), NEW p \in 1 .. Len(q), NEW sets, NEW d, NEW b \in Nat, b >= p
  PROVE  Findings(d, sets, Without(q, q[p]), b) = Findings(d, sets, q, b + 1)
<1> DEFINE w == Without(q, q[p])
<1>1. /\ Len(w) = Len(q) - 1 /\ Len(q) \in Nat
      /\ \A j \in 1 .. Len(w) : w[j] = IF j < p THEN q[j] ELSE q[j + 1]
  BY WithoutItem
<1> HIDE DEF w
<1>2. \A a \in b .. Len(w) : a + 1 \in b + 1 .. Len(q) /\ w[a] = q[a + 1]
  BY <1>1
<1>3. \A a \in b + 1 .. Len(q) : a - 1 \in b .. Len(w) /\ w[a - 1] = q[a]
  BY <1>1
<1>4. ASSUME NEW x
      PROVE  (\E a \in b .. Len(w) : d[w[a]] = x) <=> (\E a \in b + 1 .. Len(q) : d[q[a]] = x)
  <2>1. ASSUME NEW a \in b .. Len(w), d[w[a]] = x PROVE \E c \in b + 1 .. Len(q) : d[q[c]] = x
    <3>1. a + 1 \in b + 1 .. Len(q) /\ d[q[a + 1]] = x
      BY <1>2, <2>1
    <3> QED
      BY <3>1
  <2>2. ASSUME NEW a \in b + 1 .. Len(q), d[q[a]] = x PROVE \E c \in b .. Len(w) : d[w[c]] = x
    <3>1. a - 1 \in b .. Len(w) /\ d[w[a - 1]] = x
      BY <1>3, <2>2
    <3> QED
      BY <3>1
  <2> QED
    BY <2>1, <2>2
<1> QED
  BY <1>4 DEF Findings, w

\* The records of fd_q are of different descriptors.
LEMMA FdOrderOneRecord ==
  ASSUME EvInv, Running
  PROVE  /\ FdOrder \in Seq(FdRec) /\ NoRepeat(FdOrder) /\ fdno \in [FdRec -> Int]
         /\ Different(fdno, FdOrder)
<1> USE DEF EvInv
<1> DEFINE q == FdOrder
<1>1. q \in Seq(FdRec) /\ NoRepeat(q) /\ FdQueue = Items(q)
  BY FdOrderIs
<1> HIDE DEF q
<1>2. \A a \in 1 .. Len(q) : q[a] \in FdQueue
  BY <1>1 DEF Items
<1>3. \A f, g \in FdQueue : fdno[f] = fdno[g] => f = g
  BY DEF RecordInv
<1>4. Different(fdno, q)
  BY <1>1, <1>2, <1>3 DEF NoRepeat, Different
<1>5. fdno \in [FdRec -> Int]
  BY TypeOKParts DEF FieldsOK
<1> QED
  BY <1>1, <1>4, <1>5 DEF q

\* The loop enters record p of fd_q with what was found for it, and the count of the rest.
LEMMA EnterCounts ==
  ASSUME EvInv, Running, NEW p \in 1 .. Len(FdOrder), NEW l \in Frame, IsFiniteSet(l.sets),
         \A x \in l.sets : x[1] # -1, l.fdmax = Cardinality(Findings(fdno, l.sets, FdOrder, p)),
         EnterFd(FdOrder[p], l)
  PROVE  LET f == FdOrder[p]
         IN  /\ f \in FdQueue /\ pc' = "collect"
             /\ loop'.ev_fd = f /\ loop'.ev_noti = TAILQ_FIRST(notim, f)
             /\ loop'.sets = l.sets /\ loop'.ts = l.ts
             /\ loop'.triggered = FoundFor(fdno, f, l.sets)
             /\ loop'.fdmax = Cardinality(Findings(fdno, l.sets, FdOrder, p + 1))
<1> USE DEF EvInv
<1> DEFINE q == FdOrder
           f == q[p]
           K == FoundFor(fdno, f, l.sets)
           c == Cardinality(Findings(fdno, l.sets, q, p))
           rest == Cardinality(Findings(fdno, l.sets, q, p + 1))
<1>1. l.sets \in SUBSET (Int \X Kinds) /\ l.fdmax = c
  BY DEF Frame
<1>2. Cardinality(K) \in Nat /\ rest \in Nat /\ c = Cardinality(K) + rest /\ (c = 0 => K = {})
  <2>1. q \in Seq(FdRec) /\ fdno \in [FdRec -> Int] /\ Different(fdno, q)
    BY FdOrderOneRecord
  <2> HIDE DEF q
  <2> QED
    BY <1>1, <2>1, CountFindings DEF q
<1>3. f \in FdQueue /\ f # NULL
  <2>1. f \in Items(q)
    BY DEF Items
  <2> QED
    BY <2>1, FdOrderIs, FindTimer
<1>4. fdno[f] = -1 => K = {}
  BY DEF FoundFor
<1> HIDE DEF c, rest
<1>5. Triggered(f, l) = K
  <2>1. Triggered(f, l) = IF l.fdmax > 0 /\ fdno[f] # -1 THEN K ELSE {}
    BY DEF Triggered, FoundFor
  <2> HIDE DEF f, K
  <2>2. l.fdmax > 0 \/ l.fdmax = 0
    BY <1>1, <1>2
  <2>3. l.fdmax = 0 => K = {}
    BY <1>1, <1>2
  <2> QED
    BY <1>4, <2>1, <2>2, <2>3
<1> HIDE DEF K, f
<1>6. /\ pc' = "collect"
      /\ loop' = [l EXCEPT !.ev_fd = f, !.ev_noti = TAILQ_FIRST(notim, f),
                           !.triggered = K, !.fdmax = l.fdmax - Cardinality(K)]
  BY <1>3, <1>5 DEF EnterFd, f
<1>7. /\ loop'.ev_fd = f /\ loop'.ev_noti = TAILQ_FIRST(notim, f)
      /\ loop'.sets = l.sets /\ loop'.ts = l.ts
      /\ loop'.triggered = K /\ loop'.fdmax = l.fdmax - Cardinality(K)
  BY <1>6 DEF Frame
<1>8. loop'.fdmax = rest
  BY <1>1, <1>2, <1>7
<1> QED
  BY <1>3, <1>6, <1>7, <1>8 DEF K, f, rest

\* What aloe_ev_once reports for an event is what was found for it.
LEMMA NotifiedIsReason ==
  ASSUME EvInv, CollectInv, pc = "collect", ~ corrupt, loop.ev_noti # NULL
  PROVE  Notified(loop.ev_noti) = Reason(noti, loop, loop.ev_noti)
<1> USE DEF EvInv
<1> DEFINE n == loop.ev_noti
           f == loop.ev_fd
<1>1. Running /\ f \in FdQueue /\ n \in Events(f)
  BY DEF Running, FdInv, NotiInv
<1>2. loop.triggered = { k \in Kinds : <<fdno[f], k>> \in loop.sets }
  BY DEF CollectInv, FoundFor
<1> HIDE DEF n, f
<1>3. noti[n].ev_wait \subseteq Kinds /\ (noti[n].fd = -1 => noti[n].ev_wait = {})
  BY <1>1, ArmedEvent
<1>4. noti[n].fd # -1 => fdno[f] = noti[n].fd
  BY <1>1, ArmedEvent
<1>5. loop.triggered \intersect noti[n].ev_wait = { k \in noti[n].ev_wait : <<noti[n].fd, k>> \in loop.sets }
  BY <1>2, <1>3, <1>4
<1> QED
  BY <1>5 DEF Notified, Reason, n

\* The places of the loop when it has entered record p of fd_q, behind records of which no
\* event is to be collected.
LEMMA EnteredCollectInv ==
  ASSUME EvInv, Running, ~ corrupt, UNCHANGED <<notim, fdno, noti>>, FdQueue' \subseteq FdQueue,
         NEW q, q = FdOrder', NEW p \in 1 .. Len(q), NEW f \in FdQueue, q[p] = f,
         loop'.ev_fd = f, loop'.ev_noti = TAILQ_FIRST(notim, f),
         \A x \in loop'.sets : x[1] # -1,
         loop'.triggered = FoundFor(fdno, f, loop'.sets),
         loop'.fdmax = Cardinality(Findings(fdno, loop'.sets, q, p + 1)),
         \A g \in FdQueue, a \in 1 .. p - 1 :
           g = q[a] => \A n \in Events(g) : Reason(noti, loop', n) = {}
  PROVE  CollectInv'
<1> USE DEF EvInv
<1> DEFINE s == Order(f)
<1>1. s \in Seq(Noti) /\ TAILQ_FIRST(notim, f) = IF s = <<>> THEN NULL ELSE s[1]
  BY OrderIs
<1>2. \A h : Order(h)' = Order(h) /\ Events(h)' = Events(h)
  BY DEF Order, Events
<1> HIDE DEF s
<1>3. Len(s) \in Nat /\ (s = <<>> <=> Len(s) = 0)
  BY <1>1
<1>4. AtEvent(noti, loop', s, 1)
  BY <1>1, <1>3 DEF AtEvent
<1>5. \E j \in 1 .. Len(s) + 1 : AtEvent(noti, loop', s, j)
  BY <1>3, <1>4
<1>6. AtRecord(fdno, loop', q, p)
  BY DEF AtRecord
<1>7. \A h \in FdQueue' :
        h = loop'.ev_fd => \E j \in 1 .. Len(Order(h)') + 1 : AtEvent(noti', loop', Order(h)', j)
  BY <1>2, <1>5 DEF s
<1>8. \E k \in 1 .. Len(FdOrder') :
         /\ AtRecord(fdno', loop', FdOrder', k)
         /\ \A h \in FdQueue', a \in 1 .. k - 1 :
              h = FdOrder'[a] => \A n \in Events(h)' : Reason(noti', loop', n) = {}
  BY <1>2, <1>6
<1> QED
  BY <1>7, <1>8 DEF CollectInv

LEMMA ReadClockCollectInv ==
  ASSUME EvInv, FoundInv, ReadClock
  PROVE  CollectInv'
<1> USE DEF EvInv
<1> DEFINE l == [loop EXCEPT !.ts = now]
           q == FdOrder
<1>1. /\ pc = "clock" /\ UNCHANGED <<fdm, notim, fdno, noti, corrupt>>
      /\ EnterFd(First, l)
  BY ReadClockEffect DEF queues
<1>2. Running
  BY <1>1 DEF Running
<1> SUFFICES ASSUME ~ corrupt, pc' = "collect" PROVE CollectInv'
  BY <1>1 DEF CollectInv
<1>3. /\ l \in Frame /\ IsFiniteSet(l.sets) /\ l.sets = loop.sets /\ l.fdmax = loop.fdmax
  BY TypeOKParts DEF LoopOK, FieldsOK, Frame
<1> HIDE DEF l
<1>4. q \in Seq(FdRec) /\ First = (IF q = <<>> THEN NULL ELSE q[1]) /\ FdQueue = Items(q)
  BY <1>2, FdOrderIs
<1>5. q # <<>> /\ First = q[1] /\ 1 \in 1 .. Len(q)
  <2>1. First # NULL
    BY <1>1 DEF EnterFd
  <2> QED
    BY <1>4, <2>1
<1>6. /\ \A x \in loop.sets : x[1] # -1 /\ Waits(x)
      /\ loop.fdmax = Cardinality(loop.sets)
  BY <1>1 DEF FoundInv
<1>7. Findings(fdno, loop.sets, q, 1) = loop.sets
  <2> SUFFICES ASSUME NEW x \in loop.sets PROVE \E a \in 1 .. Len(q) : fdno[q[a]] = x[1]
    BY DEF Findings
  <2>1. PICK f \in FdQueue, n \in Noti : n \in Events(f) /\ x[1] = noti[n].fd
    BY <1>6 DEF Waits, Events, Visited
  <2>2. fdno[f] = x[1]
    BY <1>2, <1>6, <2>1, ArmedEvent
  <2>3. f \in Items(q)
    BY <1>4
  <2> HIDE DEF q
  <2> QED
    BY <2>2, <2>3 DEF Items
<1>8. l.fdmax = Cardinality(Findings(fdno, l.sets, q, 1))
  BY <1>3, <1>6, <1>7
<1>9. EnterFd(q[1], l) /\ \A x \in l.sets : x[1] # -1
  BY <1>1, <1>3, <1>5, <1>6
<1>10. LET f == q[1]
       IN  /\ f \in FdQueue /\ loop'.ev_fd = f /\ loop'.ev_noti = TAILQ_FIRST(notim, f)
           /\ loop'.sets = l.sets
           /\ loop'.triggered = FoundFor(fdno, f, l.sets)
           /\ loop'.fdmax = Cardinality(Findings(fdno, l.sets, q, 1 + 1))
  BY <1>2, <1>3, <1>5, <1>8, <1>9, EnterCounts
<1>11. FdQueue' = FdQueue /\ FdOrder' = q
  BY <1>1 DEF FdQueue, FdOrder
<1> HIDE DEF q
<1>12. \A g \in FdQueue, a \in 1 .. 1 - 1 :
           g = q[a] => \A n \in Events(g) : Reason(noti, loop', n) = {}
  OBVIOUS
<1> QED
  BY <1>1, <1>2, <1>5, <1>9, <1>10, <1>11, <1>12, EnteredCollectInv

\* No event of the record the loop leaves is to be collected.
LEMMA LeftQuiet ==
  ASSUME EvInv, CollectInv, pc = "collect", ~ corrupt, loop.ev_noti = NULL
  PROVE  \A n \in Events(loop.ev_fd) : Reason(noti, loop, n) = {}
<1> USE DEF EvInv
<1> DEFINE f == loop.ev_fd
           s == Order(f)
<1>1. Running /\ f \in FdQueue
  BY DEF Running, FdInv
<1>2. s \in Seq(Noti) /\ Events(f) = Items(s)
  BY <1>1, OrderIs
<1>3. PICK j \in 1 .. Len(s) + 1 : AtEvent(noti, loop, s, j)
  BY <1>1 DEF CollectInv
<1> HIDE DEF s, f
<1>4. j = Len(s) + 1
  <2> SUFFICES ASSUME j # Len(s) + 1 PROVE FALSE
    OBVIOUS
  <2>1. j \in 1 .. Len(s) /\ s[j] = NULL
    BY <1>2, <1>3 DEF AtEvent
  <2> QED
    BY <1>2, <2>1, Cells
<1>5. \A i \in 1 .. Len(s) : Reason(noti, loop, s[i]) = {}
  BY <1>2, <1>3, <1>4 DEF AtEvent
<1> QED
  BY <1>2, <1>5 DEF Items, f

LEMMA CollectFdCollectInv ==
  ASSUME EvInv, CollectInv, CollectFd
  PROVE  CollectInv'
<1> USE DEF EvInv
<1> DEFINE f == loop.ev_fd
           g == TAILQ_NEXT(fdm, f)
           q == FdOrder
<1>1. /\ pc = "collect" /\ f \in FdQueue /\ loop.ev_noti = NULL
      /\ UNCHANGED <<notim, fdno, noti, corrupt>>
      /\ TAILQ_EMPTY(notim, f) => Spares(f)
      /\ ~ TAILQ_EMPTY(notim, f) => UNCHANGED fdm
      /\ EnterFd(g, loop)
  BY CollectFdEffect
<1>2. Running
  BY <1>1 DEF Running
<1> SUFFICES ASSUME ~ corrupt, pc' = "collect" PROVE CollectInv'
  BY <1>1 DEF CollectInv
<1>3. loop \in Frame /\ IsFiniteSet(loop.sets)
  BY TypeOKParts DEF LoopOK
<1>4. \A x \in loop.sets : x[1] # -1
  BY <1>1 DEF CollectInv
<1>5. PICK p \in 1 .. Len(q) :
        /\ AtRecord(fdno, loop, q, p)
        /\ \A h \in FdQueue, a \in 1 .. p - 1 :
             h = q[a] => \A n \in Events(h) : Reason(noti, loop, n) = {}
  BY <1>1 DEF CollectInv
<1>6. /\ q \in Seq(FdRec) /\ Len(q) \in Nat /\ NoRepeat(q)
      /\ \A i \in 1 .. Len(q) : TAILQ_NEXT(fdm, q[i]) = IF i = Len(q) THEN NULL ELSE q[i + 1]
  BY <1>2, FdOrderIs
<1>7. f = q[p] /\ loop.fdmax = Cardinality(Findings(fdno, loop.sets, q, p + 1))
  BY <1>5 DEF AtRecord
<1>8. g # NULL
  BY <1>1 DEF EnterFd
<1> HIDE DEF f, g
<1>9. p + 1 \in 1 .. Len(q) /\ g = q[p + 1]
  BY <1>6, <1>7, <1>8 DEF g
<1>10. /\ g \in FdQueue /\ loop'.ev_fd = g /\ loop'.ev_noti = TAILQ_FIRST(notim, g)
       /\ loop'.sets = loop.sets /\ loop'.ts = loop.ts
       /\ loop'.triggered = FoundFor(fdno, g, loop.sets)
       /\ loop'.fdmax = Cardinality(Findings(fdno, loop.sets, q, (p + 1) + 1))
  BY <1>1, <1>2, <1>3, <1>4, <1>7, <1>9, EnterCounts
<1>11. \A n : Reason(noti, loop', n) = Reason(noti, loop, n)
  BY <1>10 DEF Reason
<1>12. \A h \in FdQueue, a \in 1 .. p :
             h = q[a] => \A n \in Events(h) : Reason(noti, loop', n) = {}
  <2>1. \A n \in Events(f) : Reason(noti, loop, n) = {}
    BY <1>1, LeftQuiet DEF f
  <2> HIDE DEF q
  <2>2. \A a \in 1 .. p : a = p \/ a \in 1 .. p - 1
    BY <1>6
  <2> QED
    BY <1>5, <1>7, <1>11, <2>1, <2>2
<1>13. CASE ~ TAILQ_EMPTY(notim, f)
  <2>1. FdQueue' = FdQueue /\ FdOrder' = q
    BY <1>1, <1>13 DEF FdQueue, FdOrder
  <2> HIDE DEF q
  <2>2. \A h \in FdQueue, a \in 1 .. (p + 1) - 1 :
             h = q[a] => \A n \in Events(h) : Reason(noti, loop', n) = {}
    BY <1>6, <1>12
  <2> QED
    BY <1>1, <1>2, <1>4, <1>9, <1>10, <2>1, <2>2, EnteredCollectInv
<1>14. CASE TAILQ_EMPTY(notim, f)
  <2> DEFINE w == Without(q, q[p])
  <2>1. FdQueue' \subseteq FdQueue /\ FdOrder' = w
    BY <1>1, <1>7, <1>14 DEF Spares
  <2> HIDE DEF q
  <2>2. /\ Len(w) = Len(q) - 1
        /\ \A j \in 1 .. Len(w) : w[j] = IF j < p THEN q[j] ELSE q[j + 1]
    BY <1>6, WithoutItem
  <2>3. Findings(fdno, loop.sets, w, p + 1) = Findings(fdno, loop.sets, q, (p + 1) + 1)
    <3>1. p + 1 \in Nat /\ p + 1 >= p
      BY <1>6
    <3> QED
      BY <1>6, <3>1, FindingsWithout
  <2> HIDE DEF w
  <2>4. p \in 1 .. Len(w) /\ w[p] = g
    BY <1>6, <1>9, <2>2
  <2>5. \A h \in FdQueue, a \in 1 .. p - 1 :
             h = w[a] => \A n \in Events(h) : Reason(noti, loop', n) = {}
    <3>1. \A a \in 1 .. p - 1 : w[a] = q[a] /\ a \in 1 .. p
      BY <1>6, <2>2, <2>4
    <3> QED
      BY <1>12, <3>1
  <2>6. loop'.fdmax = Cardinality(Findings(fdno, loop'.sets, w, p + 1))
    BY <1>10, <2>3
  <2> QED
    BY <1>1, <1>2, <1>4, <1>10, <2>1, <2>4, <2>5, <2>6, EnteredCollectInv
<1> QED
  BY <1>13, <1>14

LEMMA CollectNotiCollectInv ==
  ASSUME EvInv, CollectInv, CollectNoti
  PROVE  CollectInv'
<1> USE DEF EvInv
<1> SUFFICES ASSUME ~ corrupt PROVE CollectInv'
  BY DEF CollectNoti, CollectInv
<1>1. PICK f \in FdQueue, n \in Noti :
             /\ f = loop.ev_fd /\ n = loop.ev_noti
             /\ pc = "collect" /\ n \in Events(f)
             /\ UNCHANGED <<fdm, fdno, pc, corrupt>>
             /\ noti' = [noti EXCEPT ![n].ev_noti = Notified(n)]
             /\ loop' = [loop EXCEPT !.ev_noti = TAILQ_NEXT(notim, n)]
             /\ Notified(n) = {} => UNCHANGED <<notim, regs>>
             /\ Notified(n) # {} =>
                  /\ Events(f)' = Events(f) \ {n}
                  /\ \A h \in {"spare_noti_q"} \union FdQueue : h # f => Events(h)' = Events(h)
                  /\ Order(f)' = Without(Order(f), n)
                  /\ \A h \in FdQueue : h # f => Order(h)' = Order(h)
  BY CollectNotiEffect
<1>2. Running /\ FdQueue' = FdQueue /\ FdOrder' = FdOrder
  BY <1>1 DEF Running, FdQueue, FdOrder
<1>3. /\ loop'.sets = loop.sets /\ loop'.ts = loop.ts /\ loop'.fdmax = loop.fdmax
      /\ loop'.triggered = loop.triggered /\ loop'.ev_fd = loop.ev_fd
      /\ loop'.ev_noti = TAILQ_NEXT(notim, n)
  BY <1>1, TypeOKParts DEF LoopOK, Frame
<1>4. \A x \in Noti : Reason(noti', loop', x) = Reason(noti, loop, x)
  <2>1. \A x \in Noti : /\ noti'[x].ev_wait = noti[x].ev_wait /\ noti'[x].fd = noti[x].fd
                        /\ noti'[x].due = noti[x].due
    <3>1. noti \in [Noti -> Event]
      BY TypeOKParts DEF FieldsOK
    <3> QED
      BY <1>1, <3>1 DEF Event
  <2> QED
    BY <1>3, <2>1 DEF Reason
<1> DEFINE s == Order(f)
<1>5. /\ s \in Seq(Noti) /\ NoRepeat(s) /\ Events(f) = Items(s) /\ Len(s) \in Nat
      /\ \A i \in 1 .. Len(s) : TAILQ_NEXT(notim, s[i]) = IF i = Len(s) THEN NULL ELSE s[i + 1]
  BY <1>2, OrderIs
<1>6. PICK j \in 1 .. Len(s) + 1 : AtEvent(noti, loop, s, j)
  BY <1>1 DEF CollectInv
<1>7. Notified(n) = Reason(noti, loop, n) /\ n # NULL
  BY <1>1, NotifiedIsReason, Cells
<1>8. \A h \in FdQueue : Events(h)' \subseteq Events(h)
  <2>1. CASE Notified(n) = {}
    BY <1>1, <2>1 DEF Events
  <2>2. CASE Notified(n) # {}
    BY <1>1, <2>2
  <2> QED
    BY <2>1, <2>2
<1> HIDE DEF s
<1>9. j \in 1 .. Len(s) /\ s[j] = n
  BY <1>1, <1>5, <1>6, <1>7 DEF AtEvent
<1>10. \A i \in 1 .. j - 1 : i \in 1 .. Len(s) /\ s[i] \in Noti /\ Reason(noti, loop, s[i]) = {}
  <2>1. \A i \in 1 .. j - 1 : i \in 1 .. Len(s)
    BY <1>5, <1>9
  <2>2. \A i \in 1 .. Len(s) : s[i] \in Noti
    BY <1>5
  <2>3. \A i \in 1 .. j - 1 : Reason(noti, loop, s[i]) = {}
    BY <1>6 DEF AtEvent
  <2> QED
    BY <2>1, <2>2, <2>3
<1>11. \E k \in 1 .. Len(Order(f)') + 1 : AtEvent(noti', loop', Order(f)', k)
  <2>1. CASE Notified(n) = {}
    <3>1. Order(f)' = s
      BY <1>1, <2>1 DEF Order, s
    <3>2. j + 1 \in 1 .. Len(s) + 1
      BY <1>5, <1>9
    <3>3. \A i \in 1 .. (j + 1) - 1 : Reason(noti', loop', s[i]) = {}
      <4>1. \A i \in 1 .. (j + 1) - 1 : i = j \/ i \in 1 .. j - 1
        BY <1>5, <1>9
      <4>2. Reason(noti', loop', s[j]) = {}
        BY <1>4, <1>7, <1>9, <2>1
      <4> QED
        BY <1>4, <1>10, <4>1, <4>2
    <3>4. loop'.ev_noti = IF j + 1 = Len(s) + 1 THEN NULL ELSE s[j + 1]
      BY <1>3, <1>5, <1>9
    <3>5. AtEvent(noti', loop', s, j + 1)
      BY <3>3, <3>4 DEF AtEvent
    <3> QED
      BY <3>1, <3>2, <3>5
  <2>2. CASE Notified(n) # {}
    <3> DEFINE w == Without(s, s[j])
    <3>1. Order(f)' = w
      BY <1>1, <1>9, <2>2 DEF s
    <3>2. /\ w \in Seq(Noti) /\ Len(w) = Len(s) - 1
          /\ \A i \in 1 .. Len(w) : w[i] = IF i < j THEN s[i] ELSE s[i + 1]
      BY <1>5, <1>9, WithoutItem
    <3> HIDE DEF w
    <3>3. j \in 1 .. Len(w) + 1
      BY <1>5, <1>9, <3>2
    <3>4. loop'.ev_noti = IF j = Len(w) + 1 THEN NULL ELSE w[j]
      BY <1>3, <1>5, <1>9, <3>2
    <3>5. \A i \in 1 .. j - 1 : Reason(noti', loop', w[i]) = {}
      <4>1. \A i \in 1 .. j - 1 : w[i] = s[i]
        BY <1>5, <1>9, <3>2
      <4> QED
        BY <1>4, <1>10, <4>1
    <3>6. AtEvent(noti', loop', w, j)
      BY <3>4, <3>5 DEF AtEvent
    <3> QED
      BY <3>1, <3>3, <3>6
  <2> QED
    BY <2>1, <2>2
<1>12. \E p \in 1 .. Len(FdOrder') :
         /\ AtRecord(fdno', loop', FdOrder', p)
         /\ \A h \in FdQueue', a \in 1 .. p - 1 :
              h = FdOrder'[a] => \A x \in Events(h)' : Reason(noti', loop', x) = {}
  <2>1. PICK p \in 1 .. Len(FdOrder) :
          /\ AtRecord(fdno, loop, FdOrder, p)
          /\ \A h \in FdQueue, a \in 1 .. p - 1 :
               h = FdOrder[a] => \A x \in Events(h) : Reason(noti, loop, x) = {}
    BY <1>1 DEF CollectInv
  <2>2. AtRecord(fdno, loop', FdOrder, p)
    BY <1>3, <2>1 DEF AtRecord
  <2>3. ASSUME NEW h \in FdQueue, NEW a \in 1 .. p - 1, h = FdOrder[a], NEW x \in Events(h)'
        PROVE  Reason(noti', loop', x) = {}
    <3>1. x \in Events(h) /\ x \in Noti
      BY <1>8, <2>3 DEF Events, Visited
    <3> QED
      BY <1>4, <2>1, <2>3, <3>1
  <2> QED
    BY <1>1, <1>2, <2>2, <2>3
<1>13. /\ \A x \in loop'.sets : x[1] # -1
       /\ loop'.triggered = FoundFor(fdno', loop'.ev_fd, loop'.sets)
  BY <1>1, <1>3 DEF CollectInv
<1> QED
  BY <1>1, <1>2, <1>3, <1>11, <1>12, <1>13 DEF CollectInv

LEMMA NextCollectInv ==
  ASSUME EvInv, FoundInv, CollectInv, [Next]_vars
  PROVE  CollectInv'
<1> USE DEF EvInv
<1>1. CASE ReadClock
  BY <1>1, ReadClockCollectInv
<1>2. CASE CollectNoti
  BY <1>2, CollectNotiCollectInv
<1>3. CASE CollectFd
  BY <1>3, CollectFdCollectInv
<1>4. CASE Idle \/ UNCHANGED vars
  <2>1. /\ UNCHANGED <<queues, corrupt>> /\ (pc' = "collect" => pc = "collect")
        /\ pc = "collect" => loop' = loop
    BY <1>4, IdleEffect
  <2>2. FdQueue' = FdQueue /\ FdOrder' = FdOrder /\ \A h : Events(h)' = Events(h) /\ Order(h)' = Order(h)
    BY <2>1 DEF queues, FdQueue, FdOrder, Events, Order
  <2>3. noti' = noti /\ fdno' = fdno
    BY <2>1 DEF queues
  <2> QED
    BY <2>1, <2>2, <2>3 DEF CollectInv
<1>5. CASE Client
  <2>1. InClient /\ pc' \in {pc, "hung", "free_fd"}
    BY <1>5 DEF Client, aloe_ev_put, PutNoMemory, CancelArmed, CancelPending, CancelMiss, CancelCall,
                Recycle, DestroyBegin, InClient
  <2> QED
    BY <2>1 DEF CollectInv, InClient
<1>6. CASE Freeing
  BY <1>6, FreeingStops DEF CollectInv, Running
<1>7. CASE Dispatch
  BY <1>7 DEF Dispatch, CollectInv
<1> QED
  BY <1>1, <1>2, <1>3, <1>4, <1>5, <1>6, <1>7 DEF Next, Once, Idle

-----------------------------------------------------------------------------
(***************************************************************************)
(* Every step of the event context is a step of module EvAbs, or none.     *)
(***************************************************************************)

\* What module EvAbs sees of the registrations, and of the events of queue q.
EventsOf(s)     == [i \in 1 .. Len(s) |-> [req |-> s[i].req, due |-> s[i].due]]
PendingOf(m, q) == [i \in 1 .. Len(q) |-> [event |-> m[q[i]].cbarg, why |-> m[q[i]].ev_noti]]
ArmedOf(s)      == { i \in 1 .. Len(s) : s[i].st = "armed" }

\* A registration waits if and only if its state says so.
ArmedSeen == Running /\ ~ corrupt => Armed = ArmedOf(regs)

LEMMA ArmedIs == EvInv => ArmedSeen
<1> SUFFICES ASSUME EvInv, Running, ~ corrupt PROVE ArmedEvents = ArmedOf(regs)
  BY DEF Armed, ArmedSeen
<1> USE DEF EvInv
<1>1. \A i \in Registrations : Kept(i)
  BY DEF RegInv
<1>2. ASSUME NEW f \in FdQueue, NEW n \in Events(f) PROVE noti[n].cbarg \in ArmedOf(regs)
  BY <1>2, ArmedEvent DEF ArmedOf, Registrations
<1>3. ASSUME NEW i \in ArmedOf(regs) PROVE \E f \in FdQueue : \E n \in Events(f) : noti[n].cbarg = i
  BY <1>1 DEF Kept, ArmedOf, Registrations
<1> QED
  BY <1>2, <1>3 DEF ArmedEvents

LEMMA ArmedIsNext == EvInv' => ArmedSeen'
BY ArmedIs, PTL

LEMMA MappingIs ==
  /\ Running => Registered = EventsOf(regs) /\ Pending = PendingOf(noti, Order("noti_q"))
  /\ ~ Running => Registered = <<>> /\ Armed = {} /\ Pending = <<>>
BY DEF Registered, Armed, Pending, Registrations, EventsOf, PendingEvents, PendingOf, Order

LEMMA MappingIsNext ==
  /\ Running' => Registered' = EventsOf(regs') /\ Pending' = PendingOf(noti', Order("noti_q")')
  /\ ~ Running' => Registered' = <<>> /\ Armed' = {} /\ Pending' = <<>>
BY DEF Registered, Armed, Pending, Registrations, EventsOf, PendingEvents, PendingOf, Order

LEMMA PhaseIs ==
  /\ pc \in {"idle", "select"} => Phase = "client"
  /\ pc = "clock" => Phase = "polled"
  /\ pc = "collect" => Phase = "collect"
  /\ pc = "dispatch" => Phase = "deliver"
  /\ pc = "cb" => Phase = "callback"
  /\ ~ Running => Phase = "closed"
  /\ Seen = [found |-> IF pc \in {"clock", "collect"} THEN loop.sets ELSE {},
             ts    |-> IF pc = "collect" THEN loop.ts ELSE 0]
BY DEF Phase, Running, Seen

LEMMA PhaseIsNext ==
  /\ pc' \in {"idle", "select"} => Phase' = "client"
  /\ pc' = "clock" => Phase' = "polled"
  /\ pc' = "collect" => Phase' = "collect"
  /\ pc' = "dispatch" => Phase' = "deliver"
  /\ pc' = "cb" => Phase' = "callback"
  /\ ~ Running' => Phase' = "closed"
  /\ Seen' = [found |-> IF pc' \in {"clock", "collect"} THEN loop'.sets ELSE {},
              ts    |-> IF pc' = "collect" THEN loop'.ts ELSE 0]
BY DEF Phase, Running, Seen

\* The steps after which the registrations and the queues are as they were.
LEMMA SameMapping ==
  ASSUME UNCHANGED <<fdm, notim, noti, regs>>, Running' <=> Running
  PROVE  UNCHANGED <<Registered, Armed, Pending>>
BY DEF Registered, Registrations, Armed, ArmedEvents, FdQueue, Events, Pending, PendingEvents

\* A sequence that is one item longer, or one item shorter, than another.
LEMMA AppendMapped ==
  ASSUME NEW n \in Nat, NEW A, NEW a \in [1 .. n -> A], NEW B, NEW b \in [1 .. n + 1 -> B], NEW e,
         b[n + 1] = e, \A i \in 1 .. n : b[i] = a[i]
  PROVE  b = Append(a, e) /\ Len(a) = n
<1> DEFINE U == { a[i] : i \in 1 .. n } \union {e}
           c == Append(a, e)
<1>1. a \in [1 .. n -> U] /\ e \in U
  OBVIOUS
<1>2. \A i \in 1 .. n + 1 : b[i] \in U
  <2>1. \A i \in 1 .. n + 1 : i \in 1 .. n \/ i = n + 1
    OBVIOUS
  <2> QED
    BY <2>1
<1> HIDE DEF U
<1>3. b \in [1 .. n + 1 -> U]
  BY <1>2
<1>4. a \in Seq(U) /\ Len(a) = n
  BY <1>1
<1>5. c \in Seq(U) /\ Len(c) = n + 1 /\ c[n + 1] = e /\ \A i \in 1 .. n : c[i] = a[i]
  BY <1>1, <1>4
<1> HIDE DEF c
<1>6. c \in [1 .. n + 1 -> U]
  BY <1>5
<1>7. \A i \in 1 .. n + 1 : b[i] = c[i]
  <2>1. \A i \in 1 .. n + 1 : i \in 1 .. n \/ i = n + 1
    OBVIOUS
  <2> QED
    BY <1>5, <2>1
<1>8. b = c
  BY <1>3, <1>6, <1>7
<1> QED
  BY <1>4, <1>8 DEF c

LEMMA TailMapped ==
  ASSUME NEW n \in Nat, NEW A, NEW a \in [1 .. n + 1 -> A], NEW B, NEW b \in [1 .. n -> B],
         \A i \in 1 .. n : b[i] = a[i + 1]
  PROVE  a # <<>> /\ Head(a) = a[1] /\ b = Tail(a)
<1> DEFINE U == { a[i] : i \in 1 .. n + 1 }
           c == Tail(a)
<1>1. a \in [1 .. n + 1 -> U]
  OBVIOUS
<1>2. \A i \in 1 .. n : b[i] \in U
  <2>1. \A i \in 1 .. n : i + 1 \in 1 .. n + 1
    OBVIOUS
  <2> QED
    BY <2>1
<1> HIDE DEF U
<1>3. b \in [1 .. n -> U]
  BY <1>2
<1>4. a \in Seq(U) /\ Len(a) = n + 1 /\ a # <<>> /\ Head(a) = a[1]
  BY <1>1
<1>5. c \in Seq(U) /\ Len(c) = n /\ \A i \in 1 .. n : c[i] = a[i + 1]
  BY <1>4
<1> HIDE DEF c
<1>6. c \in [1 .. n -> U]
  BY <1>5
<1>7. b = c
  BY <1>3, <1>5, <1>6
<1> QED
  BY <1>4, <1>7 DEF c

\* t is s but for the state of item j, which does not wait in t.
NoLonger(s, t, j) ==
  /\ Len(t) = Len(s) /\ j \in 1 .. Len(s) /\ t[j].st # "armed"
  /\ \A i \in 1 .. Len(s) : /\ t[i].req = s[i].req /\ t[i].due = s[i].due
                            /\ i # j => t[i].st = s[i].st

\* Changing the state of a registration is not seen, unless it was waiting.
LEMMA StateSeen ==
  ASSUME NEW s, NEW t, NEW j, NoLonger(s, t, j)
  PROVE  EventsOf(t) = EventsOf(s) /\ ArmedOf(t) = ArmedOf(s) \ {j}
<1>1. EventsOf(t) = EventsOf(s)
  BY DEF EventsOf, NoLonger
<1>2. ArmedOf(t) = ArmedOf(s) \ {j}
  BY DEF ArmedOf, NoLonger
<1> QED
  BY <1>1, <1>2

LEMMA AppendSeen ==
  ASSUME NEW s \in Seq(Registration), NEW x \in Registration, x.st = "armed"
  PROVE  /\ EventsOf(Append(s, x)) = Append(EventsOf(s), [req |-> x.req, due |-> x.due])
         /\ ArmedOf(Append(s, x)) = ArmedOf(s) \union {Len(s) + 1}
         /\ Len(EventsOf(s)) = Len(s)
<1> DEFINE t == Append(s, x)
           e == [req |-> x.req, due |-> x.due]
<1>1. /\ Len(s) \in Nat /\ Len(t) = Len(s) + 1 /\ t[Len(s) + 1] = x
      /\ \A i \in 1 .. Len(s) : t[i] = s[i]
  OBVIOUS
<1> HIDE DEF t
<1>2. 1 .. Len(t) = (1 .. Len(s)) \union {Len(s) + 1} /\ Len(s) + 1 \notin 1 .. Len(s)
  BY <1>1
<1>3. ArmedOf(t) = ArmedOf(s) \union {Len(s) + 1}
  BY <1>1, <1>2 DEF ArmedOf
<1> DEFINE a == EventsOf(s)
           b == EventsOf(t)
           A == { a[i] : i \in 1 .. Len(s) }
           B == { b[i] : i \in 1 .. Len(s) + 1 }
<1>4. /\ a \in [1 .. Len(s) -> A] /\ b \in [1 .. Len(s) + 1 -> B]
      /\ b[Len(s) + 1] = e /\ \A i \in 1 .. Len(s) : b[i] = a[i]
  BY <1>1, <1>2 DEF EventsOf
<1> HIDE DEF a, b, e, A, B
<1>5. b = Append(a, e) /\ Len(a) = Len(s)
  BY <1>1, <1>4, AppendMapped
<1> QED
  BY <1>3, <1>5 DEF a, b, t, e

\* What EvAbs calls the reason of a registration.
LEMMA WhyIsReason ==
  ASSUME EvInv, pc = "collect", ~ corrupt, NEW f \in FdQueue, NEW n \in Events(f)
  PROVE  Abs!Why(noti[n].cbarg) = Reason(noti, loop, n)
<1> DEFINE i == noti[n].cbarg
<1>1. Running
  BY DEF Running
<1>2. /\ i \in Registrations
      /\ noti[n].fd = regs[i].req.fd /\ noti[n].ev_wait = regs[i].req.ev_wait
      /\ noti[n].due = regs[i].due
  BY <1>1, ArmedEvent
<1> HIDE DEF i
<1>3. Registered[i] = [req |-> regs[i].req, due |-> regs[i].due]
  BY <1>1, <1>2, MappingIs DEF EventsOf, Registrations
<1>4. Seen.found = loop.sets /\ Seen.ts = loop.ts
  BY PhaseIs
<1> QED
  BY <1>2, <1>3, <1>4 DEF Abs!Why, Reason, i

\* aloe_ev_put registers an event.
LEMMA PutIsRegister ==
  ASSUME EvInv, EvInv', ~ corrupt, NEW r \in Requests, aloe_ev_put(r)
  PROVE  Abs!Register(r)
<1> USE DEF EvInv
<1>1. PICK c \in FdRec, e \in Noti : PutTakes(r, c, e)
  BY PutEffect
<1>2. InClient /\ UNCHANGED <<now, ready, pc, loop, call, corrupt>>
  BY PutEffect
<1>3. Running /\ Running' /\ ~ corrupt'
  BY <1>2 DEF InClient, Running
<1> DEFINE x == [req |-> r, due |-> Due(r), ev |-> e, st |-> "armed"]
<1>4. /\ regs' = Append(regs, x) /\ e \notin Events("noti_q")
      /\ noti' = [noti EXCEPT ![e] =
                   [fd |-> r.fd, cb |-> r.cb, cbarg |-> Len(regs) + 1, ev_wait |-> r.ev_wait,
                    due |-> Due(r), ev_noti |-> @.ev_noti]]
      /\ "noti_q" # c => Order("noti_q")' = Order("noti_q")
  BY <1>1 DEF PutTakes
<1>5. x \in Registration /\ regs \in Seq(Registration)
  <2>1. r \in Request /\ Due(r) \in Nat \union {INFINITE}
    BY TypeOKParts, RequestsAssumption DEF Request, Due, FieldsOK, Event
  <2> QED
    BY <2>1, TypeOKParts DEF Registration, RegsOK
<1>6. /\ Registered' = Append(Registered, [req |-> r, due |-> Due(r)])
      /\ Armed' = Armed \union {Len(Registered) + 1}
  <2>1. x.st = "armed" /\ x.req = r /\ x.due = Due(r)
    OBVIOUS
  <2>2. Registered = EventsOf(regs) /\ Registered' = EventsOf(regs')
    BY <1>3, MappingIs, MappingIsNext
  <2>3. Armed = ArmedOf(regs) /\ Armed' = ArmedOf(regs')
    BY <1>3, ArmedIs, ArmedIsNext DEF ArmedSeen
  <2> HIDE DEF x
  <2>4. /\ EventsOf(regs') = Append(EventsOf(regs), [req |-> x.req, due |-> x.due])
        /\ ArmedOf(regs') = ArmedOf(regs) \union {Len(regs) + 1}
        /\ Len(EventsOf(regs)) = Len(regs)
    BY <1>4, <1>5, <2>1, AppendSeen
  <2> QED
    BY <2>1, <2>2, <2>3, <2>4
<1>7. Pending' = Pending
  <2> DEFINE s == Order("noti_q")
  <2>1. s \in Seq(Noti) /\ Events("noti_q") = Items(s)
    BY <1>3, OrderIs, Cells
  <2>2. Order("noti_q")' = s
    BY <1>4, Cells
  <2> HIDE DEF s
  <2>3. \A i \in 1 .. Len(s) : noti'[s[i]] = noti[s[i]]
    <3>1. \A i \in 1 .. Len(s) : s[i] # e /\ s[i] \in Noti
      BY <1>4, <2>1 DEF Items
    <3>2. DOMAIN noti = Noti
      BY TypeOKParts DEF FieldsOK
    <3> QED
      BY <1>4, <3>1, <3>2
  <2>4. PendingOf(noti', s) = PendingOf(noti, s)
    BY <2>3 DEF PendingOf
  <2> QED
    BY <1>3, <2>2, <2>4, MappingIs, MappingIsNext DEF s
<1>8. Phase \in {"client", "callback"} /\ Phase' = Phase /\ Seen' = Seen
  BY <1>2, PhaseIs, PhaseIsNext DEF InClient
<1> QED
  BY <1>2, <1>6, <1>7, <1>8 DEF Abs!Register, Due

\* The steps of the client that EvAbs does not see, but for aloe_ev_destroy.
LEMMA NoMemoryIsSeen ==
  ASSUME EvInv, EvInv', ~ corrupt, NEW r \in Requests, PutNoMemory(r)
  PROVE  UNCHANGED Abs!vars
<1> USE DEF EvInv
<1>1. InClient /\ UNCHANGED <<notim, noti, now, ready, pc, loop, call, regs, corrupt>>
  BY NoMemoryEffect
<1>2. Running /\ Running' /\ ~ corrupt'
  BY <1>1 DEF InClient, Running
<1>3. Registered' = Registered /\ Armed' = Armed
  BY <1>1, <1>2, MappingIs, MappingIsNext, ArmedIs, ArmedIsNext DEF ArmedSeen
<1>4. Order("noti_q")' = Order("noti_q")
  BY <1>1 DEF Order
<1>5. Pending' = Pending
  BY <1>1, <1>2, <1>4, MappingIs, MappingIsNext
<1>6. Phase' = Phase /\ Seen' = Seen
  BY <1>1 DEF Phase, Seen
<1> QED
  BY <1>1, <1>3, <1>5, <1>6 DEF Abs!vars

LEMMA DestroyIsClose ==
  ASSUME DestroyBegin
  PROVE  Abs!Close
<1>1. /\ pc = "idle" /\ pc' = "free_fd" /\ UNCHANGED <<now, ready, call>>
  BY DEF DestroyBegin
<1>2. ~ Running'
  BY <1>1 DEF Running
<1>3. Phase = "client" /\ Phase' = "closed" /\ Seen' = Seen
  BY <1>1, <1>2, PhaseIs, PhaseIsNext
<1> QED
  BY <1>1, <1>2, <1>3, MappingIsNext DEF Abs!Close

LEMMA FreeingIsSeen ==
  ASSUME Freeing
  PROVE  UNCHANGED Abs!vars
<1>1. /\ pc \in {"free_fd", "free_spare_fd", "free_noti", "free_spare_noti"}
      /\ UNCHANGED <<now, ready, call>>
  BY DEF Freeing, DestroyFd, DestroySpareFd, DestroyNoti
<1>2. ~ Running /\ ~ Running' /\ pc' \notin {"clock", "collect"}
  BY <1>1, FreeingStops DEF Running
<1>3. Phase' = Phase /\ Seen' = Seen
  BY <1>1, <1>2, PhaseIs, PhaseIsNext
<1> QED
  BY <1>1, <1>2, <1>3, MappingIs, MappingIsNext DEF Abs!vars

\* The steps that only look: nothing is collected or delivered.
LEMMA LookingIsSeen ==
  ASSUME EvInv, ~ corrupt, OnceBegin \/ Tick \/ Stopped \/ UNCHANGED vars
  PROVE  Abs!Tick \/ UNCHANGED Abs!vars
<1> USE DEF EvInv
<1>1. /\ UNCHANGED <<queues, regs, corrupt>> /\ (Running' => Running) /\ (Running => Running')
  BY IdleEffect DEF Idle
<1>2. UNCHANGED <<Registered, Armed, Pending>>
  BY <1>1, SameMapping DEF queues
<1>3. CASE OnceBegin
  <2>1. pc = "idle" /\ pc' = "select" /\ UNCHANGED <<now, ready, call>>
    BY <1>1, <1>3 DEF OnceBegin, Running
  <2>2. Phase' = Phase /\ Seen' = Seen
    BY <2>1, PhaseIs, PhaseIsNext
  <2> QED
    BY <1>2, <2>1, <2>2 DEF Abs!vars
<1>4. CASE Tick
  <2>1. now' = now + 1 /\ UNCHANGED <<pc, loop, ready, call>>
    BY <1>4 DEF Tick
  <2>2. Phase' = Phase /\ Seen' = Seen
    BY <2>1 DEF Phase, Seen
  <2> QED
    BY <1>2, <2>1, <2>2 DEF Abs!Tick
<1>5. CASE Stopped \/ UNCHANGED vars
  <2>1. UNCHANGED <<pc, loop, now, ready, call>>
    BY <1>5 DEF Stopped, vars
  <2>2. Phase' = Phase /\ Seen' = Seen
    BY <2>1 DEF Phase, Seen
  <2> QED
    BY <1>2, <2>1, <2>2 DEF Abs!vars
<1> QED
  BY <1>3, <1>4, <1>5

\* What select is asked for is what the registrations wait for.
LEMMA AwaitedIsAsked ==
  ASSUME EvInv, FoundInv, pc = "select", ~ corrupt
  PROVE  loop.sets = Abs!Awaited
<1> USE DEF EvInv
<1>1. Running
  BY DEF Running
<1>2. /\ \A x \in loop.sets : Waits(x)
      /\ \A f \in FdQueue : \A n \in Events(f), k \in Kinds :
           k \in noti[n].ev_wait => <<noti[n].fd, k>> \in loop.sets
  BY DEF FoundInv
<1>3. Registered = EventsOf(regs) /\ Armed = ArmedOf(regs)
  BY <1>1, MappingIs, ArmedIs DEF ArmedSeen
<1>4. \A i \in Armed : i \in Registrations /\ regs[i].st = "armed" /\ Registered[i].req = regs[i].req
  BY <1>3 DEF EventsOf, ArmedOf, Registrations
<1>5. ASSUME NEW x \in loop.sets PROVE x \in Abs!Awaited
  <2>1. PICK f \in FdQueue, n \in Noti :
          n \in Events(f) /\ x[1] = noti[n].fd /\ x[2] \in noti[n].ev_wait
    BY <1>2 DEF Waits, Events, Visited
  <2> DEFINE i == noti[n].cbarg
  <2>2. /\ i \in Registrations /\ regs[i].st = "armed"
        /\ noti[n].fd = regs[i].req.fd /\ noti[n].ev_wait = regs[i].req.ev_wait
    BY <1>1, <2>1, ArmedEvent
  <2> HIDE DEF i
  <2>3. x = <<x[1], x[2]>>
    BY TypeOKParts DEF LoopOK, Frame
  <2>4. i \in Armed
    BY <1>3, <2>2 DEF ArmedOf, Registrations
  <2>5. x = <<Registered[i].req.fd, x[2]>> /\ x[2] \in Registered[i].req.ev_wait
    BY <1>4, <2>1, <2>2, <2>3, <2>4
  <2>6. x \in { <<Registered[i].req.fd, k>> : k \in Registered[i].req.ev_wait }
    BY <2>5
  <2> QED
    BY <2>4, <2>6 DEF Abs!Awaited
<1>6. ASSUME NEW i \in Armed, NEW k \in Registered[i].req.ev_wait
      PROVE  <<Registered[i].req.fd, k>> \in loop.sets
  <2> DEFINE n == regs[i].ev
  <2>1. Kept(i) /\ regs[i].st = "armed" /\ Registered[i].req = regs[i].req
    BY <1>1, <1>4 DEF RegInv
  <2>2. PICK f \in FdQueue : n \in Events(f)
    BY <2>1 DEF Kept
  <2>3. noti[n].fd = regs[i].req.fd /\ noti[n].ev_wait = regs[i].req.ev_wait
    BY <2>1 DEF Kept
  <2> HIDE DEF n
  <2>4. noti[n].ev_wait \subseteq Kinds
    BY <1>1, <2>2, ArmedEvent
  <2>5. k \in Kinds /\ k \in noti[n].ev_wait
    BY <1>6, <2>1, <2>3, <2>4
  <2>6. <<noti[n].fd, k>> \in loop.sets
    BY <1>2, <2>2, <2>5
  <2> QED
    BY <2>1, <2>3, <2>6
<1> QED
  BY <1>5, <1>6 DEF Abs!Awaited

LEMMA SelectIsPoll ==
  ASSUME EvInv, FoundInv, ~ corrupt, SelectReturn
  PROVE  Abs!Poll
<1> USE DEF EvInv
<1> DEFINE found == { x \in loop.sets \intersect ready : x[1] <= loop.fdmax }
<1>1. /\ pc = "select" /\ pc' = "clock" /\ UNCHANGED <<queues, now, ready, call, regs, corrupt>>
      /\ loop' = [loop EXCEPT !.sets = found, !.fdmax = Cardinality(found)]
  BY DEF SelectReturn
<1>2. found = Abs!Awaited \intersect ready
  <2>1. \A x \in loop.sets : x[1] <= loop.fdmax
    BY <1>1 DEF FoundInv
  <2> QED
    BY <1>1, <2>1, AwaitedIsAsked
<1> HIDE DEF found
<1>3. loop'.sets = found
  BY <1>1, TypeOKParts DEF LoopOK, Frame
<1>4. UNCHANGED <<Registered, Armed, Pending>>
  BY <1>1, SameMapping DEF queues, Running
<1>5. /\ Phase = "client" /\ Phase' = "polled"
      /\ Seen' = [found |-> Abs!Awaited \intersect ready, ts |-> 0]
  BY <1>1, <1>2, <1>3, PhaseIs, PhaseIsNext
<1> QED
  BY <1>1, <1>4, <1>5 DEF Abs!Poll, Abs!NothingSeen

LEMMA ErrorIsSeen ==
  ASSUME OnceError
  PROVE  Abs!PollFails \/ UNCHANGED Abs!vars
<1>1. /\ pc \in {"select", "clock"} /\ pc' = "idle" /\ UNCHANGED <<queues, now, ready, call, regs>>
  BY DEF OnceError
<1>2. UNCHANGED <<Registered, Armed, Pending>>
  BY <1>1, SameMapping DEF queues, Running
<1>3. Phase' = "client" /\ Seen' = [found |-> {}, ts |-> 0]
  BY <1>1, PhaseIsNext
<1>4. CASE pc = "select"
  <2>1. Phase = "client" /\ Seen = [found |-> {}, ts |-> 0]
    BY <1>4, PhaseIs
  <2> QED
    BY <1>1, <1>2, <1>3, <2>1 DEF Abs!vars
<1>5. CASE pc = "clock"
  BY <1>1, <1>2, <1>3, <1>5, PhaseIs DEF Abs!PollFails, Abs!NothingSeen
<1> QED
  BY <1>1, <1>4, <1>5

LEMMA ArriveIsArrive ==
  ASSUME EvInv, FoundInv, ~ corrupt, Arrive
  PROVE  Abs!Arrive
<1> USE DEF EvInv
<1>1. PICK x \in loop.sets : x \notin ready /\ ready' = ready \union {x}
  BY DEF Arrive
<1>2. pc = "select" /\ UNCHANGED <<queues, now, pc, loop, call, regs, corrupt>>
  BY DEF Arrive
<1>3. UNCHANGED <<Registered, Armed, Pending>>
  BY <1>2, SameMapping DEF queues, Running
<1>4. Phase' = Phase /\ Seen' = Seen
  BY <1>2 DEF Phase, Seen
<1>5. x \in ({ r.fd : r \in Requests } \X Abs!Kinds) \ ready
  <2>1. PICK f \in FdQueue, n \in Noti : n \in Events(f) /\ x[1] = noti[n].fd
    BY <1>2 DEF FoundInv, Waits, Events, Visited
  <2> DEFINE i == noti[n].cbarg
  <2>2. regs[i] \in Registration /\ noti[n].fd = regs[i].req.fd
    BY <1>2, <2>1, ArmedEvent DEF Running
  <2> HIDE DEF i
  <2>3. x \in Int \X Kinds
    BY TypeOKParts DEF LoopOK, Frame
  <2>4. x[1] \in { r.fd : r \in Requests }
    BY <2>1, <2>2 DEF Registration
  <2> QED
    BY <1>1, <2>3, <2>4 DEF Kinds, Abs!Kinds
<1> QED
  BY <1>1, <1>2, <1>3, <1>4, <1>5 DEF Abs!Arrive

LEMMA ReturnIsReturn ==
  ASSUME CbReturn
  PROVE  Abs!Return
<1>1. /\ pc = "cb" /\ pc' = "dispatch" /\ call' = NoCall
      /\ ready' \in SUBSET ready /\ UNCHANGED <<queues, now, loop, regs>>
  BY DEF CbReturn
<1>2. UNCHANGED <<Registered, Armed, Pending>>
  BY <1>1, SameMapping DEF queues, Running
<1>3. Phase = "callback" /\ Phase' = "deliver" /\ Seen' = Seen
  BY <1>1, PhaseIs, PhaseIsNext
<1> QED
  BY <1>1, <1>2, <1>3 DEF Abs!Return, NoCall, Abs!NoCall

\* aloe_ev_once returns when noti_q is empty.
LEMMA OnceReturnIsDelivered ==
  ASSUME EvInv, ~ corrupt, OnceReturn
  PROVE  Abs!Delivered
<1> USE DEF EvInv
<1>1. /\ pc = "dispatch" /\ pc' = "idle" /\ TAILQ_EMPTY(notim, "noti_q")
      /\ UNCHANGED <<queues, now, ready, loop, call, regs>>
  BY DEF OnceReturn
<1>2. UNCHANGED <<Registered, Armed, Pending>>
  BY <1>1, SameMapping DEF queues, Running
<1>3. Phase = "deliver" /\ Phase' = "client" /\ Seen' = Seen
  BY <1>1, PhaseIs, PhaseIsNext
<1>4. Pending = <<>>
  <2> DEFINE s == Order("noti_q")
  <2>1. Running
    BY <1>1 DEF Running
  <2>2. s \in Seq(Noti) /\ TAILQ_FIRST(notim, "noti_q") = IF s = <<>> THEN NULL ELSE s[1]
    BY <2>1, OrderIs, Cells
  <2> HIDE DEF s
  <2>3. s = <<>>
    <3>1. TAILQ_FIRST(notim, "noti_q") = NULL
      BY <1>1 DEF TAILQ_FIRST, TAILQ_EMPTY
    <3>2. s # <<>> => s[1] \in Noti
      BY <2>2
    <3> QED
      BY <2>2, <3>1, <3>2, Cells
  <2>4. PendingOf(noti, <<>>) = <<>>
    BY DEF PendingOf
  <2> QED
    BY <2>1, <2>3, <2>4, MappingIs DEF s
<1> QED
  BY <1>1, <1>2, <1>3, <1>4 DEF Abs!Delivered

\* The clock is read, and the first record entered; without one the round is over.
LEMMA ReadClockIsSeen ==
  ASSUME EvInv, ~ corrupt, ReadClock
  PROVE  Abs!ReadClock \/ Abs!Collected
<1> USE DEF EvInv
<1>1. /\ pc = "clock" /\ UNCHANGED <<queues, now, ready, call, regs, corrupt>>
      /\ EnterFd(First, [loop EXCEPT !.ts = now])
  BY ReadClockEffect
<1>2. Running
  BY <1>1 DEF Running
<1>3. pc' \in {"dispatch", "collect"} /\ Running'
  BY <1>1 DEF EnterFd, Running
<1>4. UNCHANGED <<Registered, Armed, Pending>>
  BY <1>1, <1>2, <1>3, SameMapping DEF queues
<1>5. Phase = "polled" /\ Seen = [found |-> loop.sets, ts |-> 0]
  BY <1>1, PhaseIs
<1>6. CASE First = NULL
  <2>1. pc' = "dispatch"
    BY <1>1, <1>6 DEF EnterFd
  <2>2. Phase' = "deliver" /\ Seen' = [found |-> {}, ts |-> 0]
    BY <2>1, PhaseIsNext
  <2>3. Armed = {}
    BY <1>2, <1>6, FindTimer DEF Armed, ArmedEvents
  <2> QED
    BY <1>1, <1>4, <1>5, <2>2, <2>3 DEF Abs!Collected, Abs!NothingSeen
<1>7. CASE First # NULL
  <2>1. pc' = "collect" /\ loop'.sets = loop.sets /\ loop'.ts = now
    BY <1>1, <1>7, TypeOKParts DEF EnterFd, LoopOK, Frame
  <2>2. Phase' = "collect" /\ Seen' = [found |-> loop.sets, ts |-> now]
    BY <2>1, PhaseIsNext
  <2>3. Seen' = [Seen EXCEPT !.ts = now]
    BY <1>5, <2>2
  <2> QED
    BY <1>1, <1>4, <1>5, <2>2, <2>3 DEF Abs!ReadClock
<1> QED
  BY <1>6, <1>7

\* A waiting registration, where it is.
LEMMA ArmedWhere ==
  ASSUME EvInv, Running, ~ corrupt, NEW i \in Armed
  PROVE  \E f \in FdQueue : \E n \in Events(f) :
            noti[n].cbarg = i /\ noti[n].fd = regs[i].req.fd /\ i \in Registrations
<1>1. \E f \in FdQueue : \E n \in Events(f) : noti[n].cbarg = i
  BY DEF Armed, ArmedEvents
<1>2. PICK f \in FdQueue, n \in Noti : n \in Events(f) /\ noti[n].cbarg = i
  BY <1>1 DEF Events, Visited
<1>3. noti[n].fd = regs[noti[n].cbarg].req.fd /\ noti[n].cbarg \in Registrations
  BY <1>2, ArmedEvent
<1> QED
  BY <1>2, <1>3

\* The last record is left: no event that waits is to be collected.
LEMMA CollectFdIsSeen ==
  ASSUME EvInv, EvInv', CollectInv, ~ corrupt, CollectFd
  PROVE  Abs!Collected \/ UNCHANGED Abs!vars
<1> USE DEF EvInv
<1> DEFINE f == loop.ev_fd
           g == TAILQ_NEXT(fdm, f)
           q == FdOrder
<1>1. /\ pc = "collect" /\ f \in FdQueue /\ loop.ev_noti = NULL
      /\ UNCHANGED <<notim, fdno, noti, now, ready, call, regs, corrupt>>
      /\ EnterFd(g, loop)
  BY CollectFdEffect
<1>2. Running /\ ~ corrupt'
  BY <1>1 DEF Running
<1>3. pc' \in {"dispatch", "collect"} /\ Running'
  BY <1>1 DEF EnterFd, Running
<1>4. UNCHANGED <<Registered, Armed, Pending>>
  <2>1. Registered' = Registered /\ Armed' = Armed
    BY <1>1, <1>2, <1>3, MappingIs, MappingIsNext, ArmedIs, ArmedIsNext DEF ArmedSeen
  <2>2. Order("noti_q")' = Order("noti_q")
    BY <1>1 DEF Order
  <2>3. Pending' = Pending
    BY <1>1, <1>2, <1>3, <2>2, MappingIs, MappingIsNext
  <2> QED
    BY <2>1, <2>3
<1>5. Phase = "collect" /\ Seen = [found |-> loop.sets, ts |-> loop.ts]
  BY <1>1, PhaseIs
<1>6. CASE g # NULL
  <2>1. pc' = "collect" /\ loop'.sets = loop.sets /\ loop'.ts = loop.ts
    BY <1>1, <1>6, TypeOKParts DEF EnterFd, LoopOK, Frame
  <2>2. Phase' = Phase /\ Seen' = Seen
    BY <1>5, <2>1, PhaseIsNext
  <2> QED
    BY <1>1, <1>4, <2>2 DEF Abs!vars
<1>7. CASE g = NULL
  <2>1. pc' = "dispatch"
    BY <1>1, <1>7 DEF EnterFd
  <2>2. Phase' = "deliver" /\ Seen' = [found |-> {}, ts |-> 0]
    BY <2>1, PhaseIsNext
  <2>3. PICK p \in 1 .. Len(q) :
          /\ AtRecord(fdno, loop, q, p)
          /\ \A h \in FdQueue, a \in 1 .. p - 1 :
               h = q[a] => \A n \in Events(h) : Reason(noti, loop, n) = {}
    BY <1>1 DEF CollectInv
  <2>4. /\ q \in Seq(FdRec) /\ Len(q) \in Nat /\ FdQueue = Items(q)
        /\ TAILQ_NEXT(fdm, q[p]) = IF p = Len(q) THEN NULL ELSE q[p + 1]
    BY <1>2, FdOrderIs
  <2> HIDE DEF q
  <2>5. f = q[p]
    BY <2>3 DEF AtRecord
  <2>6. p = Len(q)
    <3> SUFFICES ASSUME p # Len(q) PROVE FALSE
      OBVIOUS
    <3>1. q[p + 1] = NULL /\ p + 1 \in 1 .. Len(q)
      BY <1>7, <2>4, <2>5
    <3>2. q[p + 1] \in FdRec
      BY <2>4, <3>1
    <3> QED
      BY <3>1, <3>2, Cells
  <2>7. \A n \in Events(f) : Reason(noti, loop, n) = {}
    BY <1>1, LeftQuiet
  <2> HIDE DEF f
  <2>8. ASSUME NEW i \in Armed PROVE Abs!Why(i) = {}
    <3>1. PICK h \in FdQueue, n \in Noti : n \in Events(h) /\ noti[n].cbarg = i
      BY <1>2, ArmedWhere DEF Events, Visited
    <3>2. PICK a \in 1 .. Len(q) : q[a] = h
      BY <2>4 DEF Items
    <3>3. Reason(noti, loop, n) = {}
      <4>1. CASE a = p
        BY <2>5, <2>7, <3>1, <3>2, <4>1
      <4>2. CASE a # p
        <5>1. a \in 1 .. p - 1
          BY <2>4, <2>6, <4>2
        <5> QED
          BY <2>3, <3>1, <3>2, <5>1
      <4> QED
        BY <4>1, <4>2
    <3> QED
      BY <1>1, <3>1, <3>3, WhyIsReason
  <2> QED
    BY <1>1, <1>4, <1>5, <2>2, <2>8 DEF Abs!Collected, Abs!NothingSeen
<1> QED
  BY <1>6, <1>7

\* The first event of noti_q is the first that was collected.
LEMMA DispatchIsDeliver ==
  ASSUME EvInv, EvInv', ~ corrupt, Dispatch
  PROVE  Abs!Deliver
<1> USE DEF EvInv
<1> DEFINE n == TAILQ_FIRST(notim, "noti_q")
           i == noti[n].cbarg
           s == Order("noti_q")
<1>1. /\ pc = "dispatch" /\ pc' = "cb" /\ n \in Events("noti_q")
      /\ UNCHANGED <<noti, now, ready, loop, corrupt>>
      /\ call' = [fd |-> noti[n].fd, cb |-> noti[n].cb,
                  triggered |-> noti[n].ev_noti, cbarg |-> noti[n].cbarg]
      /\ regs' = [regs EXCEPT ![i].st = IF @ = "pending" THEN "done" ELSE @]
      /\ Order("noti_q")' = Without(s, n)
  BY DispatchEffect
<1>2. Running /\ Running' /\ ~ corrupt'
  BY <1>1 DEF Running
<1>3. Holds(n, "pending") /\ \A k \in Registrations : Kept(k)
  BY <1>1, <1>2 DEF RegInv, PendingInv
<1>4. /\ i \in Registrations /\ regs[i].ev = n /\ regs[i].st = "pending"
      /\ noti[n].fd = regs[i].req.fd /\ noti[n].cb = regs[i].req.cb
  BY <1>3 DEF Holds, Kept
<1>5. /\ s \in Seq(Noti) /\ NoRepeat(s) /\ Events("noti_q") = Items(s) /\ Len(s) \in Nat
      /\ n = IF s = <<>> THEN NULL ELSE s[1]
  BY <1>2, OrderIs, Cells
<1> HIDE DEF n, s
<1>6. s # <<>> /\ Len(s) # 0 /\ n = s[1]
  <2>1. n \in Noti
    BY <1>1 DEF Events, Visited
  <2> QED
    BY <1>5, <2>1, Cells
<1> HIDE DEF i
<1>7. Registered' = Registered /\ Armed' = Armed /\ Registered[i] = [req |-> regs[i].req, due |-> regs[i].due]
  <2> DEFINE v == IF regs[i].st = "pending" THEN "done" ELSE regs[i].st
  <2>1. v # "armed"
    BY <1>4
  <2>2. regs' = [regs EXCEPT ![i].st = v] /\ regs \in Seq(Registration) /\ i \in 1 .. Len(regs)
    BY <1>1, <1>4, TypeOKParts DEF RegsOK, Registrations
  <2> HIDE DEF v
  <2>6. /\ Len(regs') = Len(regs)
        /\ \A k \in 1 .. Len(regs) : /\ regs'[k].req = regs[k].req /\ regs'[k].due = regs[k].due
                                      /\ regs'[k].st = IF k = i THEN v ELSE regs[k].st
    BY <2>2, StateChange
  <2>7. NoLonger(regs, regs', i)
    BY <2>1, <2>2, <2>6 DEF NoLonger
  <2>3. EventsOf(regs') = EventsOf(regs) /\ ArmedOf(regs') = ArmedOf(regs) \ {i}
    BY <2>7, StateSeen
  <2>4. i \notin ArmedOf(regs)
    BY <1>4 DEF ArmedOf
  <2>5. EventsOf(regs)[i] = [req |-> regs[i].req, due |-> regs[i].due]
    BY <2>2 DEF EventsOf
  <2> QED
    BY <1>2, <2>3, <2>4, <2>5, MappingIs, MappingIsNext, ArmedIs, ArmedIsNext DEF ArmedSeen
<1>8. /\ Pending # <<>> /\ Pending' = Tail(Pending)
      /\ Head(Pending) = [event |-> i, why |-> noti[n].ev_noti]
  <2> DEFINE w == Without(s, s[1])
             a == PendingOf(noti, s)
             b == PendingOf(noti, w)
             A == { a[j] : j \in 1 .. Len(s) }
             B == { b[j] : j \in 1 .. Len(w) }
  <2>1. /\ Len(w) = Len(s) - 1 /\ Len(w) \in Nat
        /\ \A j \in 1 .. Len(w) : w[j] = s[j + 1]
    <3>1. 1 \in 1 .. Len(s)
      BY <1>5, <1>6
    <3> HIDE DEF w
    <3>2. /\ Len(w) = Len(s) - 1
          /\ \A j \in 1 .. Len(w) : w[j] = IF j < 1 THEN s[j] ELSE s[j + 1]
      BY <1>5, <3>1, WithoutItem DEF w
    <3> QED
      BY <1>5, <3>1, <3>2
  <2>2. a \in [1 .. Len(s) -> A] /\ b \in [1 .. Len(w) -> B]
    BY DEF PendingOf
  <2>3. \A j \in 1 .. Len(w) : b[j] = a[j + 1]
    <3> HIDE DEF w
    <3>1. \A j \in 1 .. Len(w) : j + 1 \in 1 .. Len(s)
      BY <1>5, <2>1
    <3> QED
      BY <2>1, <3>1 DEF PendingOf
  <2>4. a[1] = [event |-> i, why |-> noti[n].ev_noti]
    <3>1. 1 \in 1 .. Len(s)
      BY <1>5, <1>6
    <3> QED
      BY <1>6, <3>1 DEF PendingOf, i
  <2>5. Pending = a /\ Pending' = b
    BY <1>1, <1>2, <1>6, MappingIs, MappingIsNext DEF s
  <2> HIDE DEF a, b, A, B, w
  <2>6. a # <<>> /\ Head(a) = a[1] /\ b = Tail(a)
    <3>1. Len(s) = Len(w) + 1
      BY <1>5, <2>1
    <3> QED
      BY <2>1, <2>2, <2>3, <3>1, TailMapped
  <2> QED
    BY <2>4, <2>5, <2>6
<1>9. Phase = "deliver" /\ Phase' = "callback" /\ Seen' = Seen
  BY <1>1, PhaseIs, PhaseIsNext
<1>10. call' = [fd |-> Registered[i].req.fd, cb |-> Registered[i].req.cb,
                triggered |-> Head(Pending).why, cbarg |-> i]
  BY <1>1, <1>4, <1>7, <1>8 DEF i
<1> QED
  BY <1>1, <1>7, <1>8, <1>9, <1>10 DEF Abs!Deliver

\* Registrations of the same descriptor are on the queue of the same record.
LEMMA SameRecord ==
  ASSUME EvInv, Running, ~ corrupt, NEW f \in FdQueue, NEW g \in FdQueue,
         NEW n \in Events(f), NEW m \in Events(g), noti[n].fd = noti[m].fd
  PROVE  f = g
<1>1. /\ noti[n].fd = -1 => f = First
      /\ noti[n].fd # -1 => fdno[f] = noti[n].fd
  BY ArmedEvent
<1>2. /\ noti[m].fd = -1 => g = First
      /\ noti[m].fd # -1 => fdno[g] = noti[m].fd
  BY ArmedEvent
<1> QED
  BY <1>1, <1>2 DEF EvInv, RecordInv

\* No event that was registered before the one the loop is at, for the same descriptor,
\* is to be collected.
LEMMA EarlierQuiet ==
  ASSUME EvInv, OrderInv, CollectInv, pc = "collect", ~ corrupt, loop.ev_noti # NULL,
         NEW g \in FdQueue, NEW m \in Events(g), noti[m].fd = noti[loop.ev_noti].fd,
         noti[m].cbarg < noti[loop.ev_noti].cbarg
  PROVE  Reason(noti, loop, m) = {}
<1> USE DEF EvInv
<1> DEFINE n == loop.ev_noti
           f == loop.ev_fd
           s == Order(f)
<1>1. Running /\ f \in FdQueue /\ n \in Events(f)
  BY DEF Running, FdInv, NotiInv
<1>2. f = g
  BY <1>1, SameRecord
<1>3. s \in Seq(Noti) /\ Events(f) = Items(s) /\ Len(s) \in Nat /\ Ascending(noti, s)
  BY <1>1, OrderIs DEF OrderInv
<1>4. PICK j \in 1 .. Len(s) + 1 : AtEvent(noti, loop, s, j)
  BY <1>1 DEF CollectInv
<1>5. \A x \in Noti : noti[x].cbarg \in Nat
  BY TypeOKParts DEF FieldsOK, Event
<1> HIDE DEF n, f, s
<1>6. j \in 1 .. Len(s) /\ s[j] = n
  BY <1>3, <1>4 DEF AtEvent, n
<1>7. PICK a \in 1 .. Len(s) : s[a] = m
  BY <1>2, <1>3 DEF Items
<1>8. a < j
  <2> SUFFICES ASSUME ~ (a < j) PROVE FALSE
    OBVIOUS
  <2>1. a = j \/ j < a
    BY <1>3
  <2>2. noti[s[j]].cbarg <= noti[s[a]].cbarg
    <3>1. noti[s[j]].cbarg \in Nat /\ noti[s[a]].cbarg \in Nat
      BY <1>3, <1>5, <1>6
    <3>2. j < a => noti[s[j]].cbarg < noti[s[a]].cbarg
      BY <1>3, <1>6 DEF Ascending
    <3> QED
      BY <2>1, <3>1, <3>2
  <2>3. noti[s[a]].cbarg < noti[s[j]].cbarg /\ noti[s[j]].cbarg \in Nat /\ noti[s[a]].cbarg \in Nat
    BY <1>3, <1>5, <1>6, <1>7 DEF n
  <2> QED
    BY <2>2, <2>3
<1>9. a \in 1 .. j - 1
  BY <1>3, <1>8
<1> QED
  BY <1>4, <1>7, <1>9 DEF AtEvent

LEMMA CollectNotiIsCollect ==
  ASSUME EvInv, EvInv', OrderInv, CollectInv, ~ corrupt, CollectNoti
  PROVE  (\E i \in Armed : Abs!Collect(i)) \/ UNCHANGED Abs!vars
<1> USE DEF EvInv
<1>1. PICK f \in FdQueue, n \in Noti :
             /\ f = loop.ev_fd /\ n = loop.ev_noti
             /\ pc = "collect" /\ n \in Events(f)
             /\ UNCHANGED <<fdm, now, ready, pc, call, corrupt>>
             /\ noti' = [noti EXCEPT ![n].ev_noti = Notified(n)]
             /\ loop' = [loop EXCEPT !.ev_noti = TAILQ_NEXT(notim, n)]
             /\ Notified(n) = {} => UNCHANGED <<notim, regs>>
             /\ Notified(n) # {} =>
                  /\ regs' = [regs EXCEPT ![noti[n].cbarg].st = IF @ = "armed" THEN "pending" ELSE @]
                  /\ Order("noti_q")' = Append(Order("noti_q"), n)
  BY CollectNotiEffect
<1> DEFINE i == noti[n].cbarg
           s == Order("noti_q")
<1>2. Running /\ Running' /\ ~ corrupt' /\ n # NULL
  BY <1>1, Cells DEF Running
<1>3. /\ i \in Registrations /\ regs[i].ev = n /\ regs[i].st = "armed"
      /\ noti[n].fd = regs[i].req.fd
  BY <1>1, <1>2, ArmedEvent
<1>4. Phase = "collect" /\ Phase' = "collect" /\ Seen' = Seen
  <2>1. loop'.sets = loop.sets /\ loop'.ts = loop.ts
    BY <1>1, TypeOKParts DEF LoopOK, Frame
  <2> QED
    BY <1>1, <2>1, PhaseIs, PhaseIsNext
<1>5. s \in Seq(Noti) /\ Len(s) \in Nat /\ \A j \in 1 .. Len(s) : s[j] \in Events("noti_q") /\ s[j] \in Noti
  <2>1. s \in Seq(Noti) /\ Events("noti_q") = Items(s)
    BY <1>2, OrderIs, Cells
  <2> HIDE DEF s
  <2> QED
    BY <2>1 DEF Items
<1>6. /\ \A x \in Noti : x # n => noti'[x] = noti[x]
      /\ noti'[n].cbarg = i /\ noti'[n].ev_noti = Notified(n)
  <2>1. noti \in [Noti -> Event]
    BY TypeOKParts DEF FieldsOK
  <2> QED
    BY <1>1, <2>1 DEF Event
<1> HIDE DEF s
<1>7. \A j \in 1 .. Len(s) : noti'[s[j]] = noti[s[j]]
  <2>1. f # "noti_q"
    BY Cells DEF FdQueue, Visited
  <2>2. Events(f) \cap Events("noti_q") = {}
    BY <1>2, <2>1, EventsDisjoint, Cells
  <2> QED
    BY <1>1, <1>5, <1>6, <2>2
<1>8. PendingOf(noti', s) = PendingOf(noti, s)
  BY <1>7 DEF PendingOf
<1>9. CASE Notified(n) = {}
  <2>1. Registered' = Registered /\ Armed' = Armed
    BY <1>1, <1>2, <1>9, MappingIs, MappingIsNext, ArmedIs, ArmedIsNext DEF ArmedSeen
  <2>2. Order("noti_q")' = s
    BY <1>1, <1>9 DEF Order, s
  <2>3. Pending' = Pending
    BY <1>2, <1>8, <2>2, MappingIs, MappingIsNext DEF s
  <2> QED
    BY <1>1, <1>4, <2>1, <2>3 DEF Abs!vars
<1>10. CASE Notified(n) # {}
  <2>1. Abs!Why(i) = Notified(n)
    BY <1>1, <1>2, WhyIsReason, NotifiedIsReason
  <2>2. Registered' = Registered /\ Armed' = Armed \ {i} /\ i \in Armed
    <3> DEFINE v == IF regs[i].st = "armed" THEN "pending" ELSE regs[i].st
    <3>1. v # "armed"
      BY <1>3
    <3>2. regs' = [regs EXCEPT ![i].st = v] /\ regs \in Seq(Registration) /\ i \in 1 .. Len(regs)
      BY <1>1, <1>3, <1>10, TypeOKParts DEF RegsOK, Registrations
    <3> HIDE DEF v, i
    <3>3. /\ Len(regs') = Len(regs)
          /\ \A k \in 1 .. Len(regs) : /\ regs'[k].req = regs[k].req /\ regs'[k].due = regs[k].due
                                        /\ regs'[k].st = IF k = i THEN v ELSE regs[k].st
      BY <3>2, StateChange
    <3>4. NoLonger(regs, regs', i)
      BY <3>1, <3>2, <3>3 DEF NoLonger
    <3>5. EventsOf(regs') = EventsOf(regs) /\ ArmedOf(regs') = ArmedOf(regs) \ {i}
      BY <3>4, StateSeen
    <3>6. i \in ArmedOf(regs)
      BY <1>3, <3>2 DEF ArmedOf
    <3> QED
      BY <1>2, <3>5, <3>6, MappingIs, MappingIsNext, ArmedIs, ArmedIsNext DEF ArmedSeen
  <2>3. Pending' = Append(Pending, [event |-> i, why |-> Notified(n)])
    <3> DEFINE t == Append(s, n)
               a == PendingOf(noti, s)
               b == PendingOf(noti', t)
               A == { a[j] : j \in 1 .. Len(s) }
               B == { b[j] : j \in 1 .. Len(s) + 1 }
    <3>1. /\ Len(t) = Len(s) + 1 /\ t[Len(s) + 1] = n
          /\ \A j \in 1 .. Len(s) : t[j] = s[j]
      BY <1>5
    <3> HIDE DEF t
    <3>2. a \in [1 .. Len(s) -> A] /\ b \in [1 .. Len(s) + 1 -> B]
      BY <3>1 DEF PendingOf
    <3>3. b[Len(s) + 1] = [event |-> i, why |-> Notified(n)]
      <4>1. Len(s) + 1 \in 1 .. Len(t)
        BY <1>5, <3>1
      <4> QED
        BY <1>6, <3>1, <4>1 DEF PendingOf
    <3>4. \A j \in 1 .. Len(s) : b[j] = a[j]
      <4>1. \A j \in 1 .. Len(s) : j \in 1 .. Len(t)
        BY <1>5, <3>1
      <4> QED
        BY <1>7, <3>1, <4>1 DEF PendingOf
    <3> HIDE DEF a, b, A, B, i
    <3>5. b = Append(a, [event |-> i, why |-> Notified(n)])
      BY <1>5, <3>2, <3>3, <3>4, AppendMapped
    <3>6. Pending = a /\ Pending' = b
      BY <1>1, <1>2, <1>10, MappingIs, MappingIsNext DEF a, b, s, t
    <3> QED
      BY <3>5, <3>6
  <2>4. ASSUME NEW k \in Armed, k < i, Registered[k].req.fd = Registered[i].req.fd
        PROVE  Abs!Why(k) = {}
    <3>1. PICK g \in FdQueue, m \in Noti :
            /\ m \in Events(g) /\ noti[m].cbarg = k /\ noti[m].fd = regs[k].req.fd
            /\ k \in Registrations
      BY <1>2, ArmedWhere DEF Events, Visited
    <3>2. Registered[k].req = regs[k].req /\ Registered[i].req = regs[i].req
      BY <1>2, <1>3, <3>1, MappingIs DEF EventsOf, Registrations
    <3>3. noti[m].fd = noti[n].fd
      BY <1>3, <2>4, <3>1, <3>2
    <3>4. Reason(noti, loop, m) = {}
      BY <1>1, <1>2, <2>4, <3>1, <3>3, EarlierQuiet
    <3> QED
      BY <1>1, <3>1, <3>4, WhyIsReason
  <2> HIDE DEF i
  <2>5. Abs!Collect(i)
    BY <1>1, <1>4, <1>10, <2>1, <2>2, <2>3, <2>4 DEF Abs!Collect
  <2> QED
    BY <2>2, <2>5
<1> QED
  BY <1>9, <1>10

\* Everything the steps are seen from.
SeenInv == EvInv /\ OrderInv /\ FoundInv /\ CollectInv /\ ~ corrupt

LEMMA InitSeenInv == Init => SeenInv
<1>1. Init => ~ corrupt
  BY DEF Init
<1> QED
  BY <1>1, InitEvInv, InitOrderInv DEF SeenInv

\* Without aloe_ev_cancel the queues are never spoilt.
LEMMA NothingSpoilt ==
  ASSUME CancelKinds = {}, ~ corrupt, [Next]_vars
  PROVE  ~ corrupt' /\ \A i \in 1 .. Len(regs) : ~ (CancelArmed(i) \/ CancelPending(i) \/ CancelMiss(i))
<1>1. \A i \in 1 .. Len(regs) : ~ (CancelArmed(i) \/ CancelPending(i) \/ CancelMiss(i))
  BY DEF CancelArmed, CancelPending, CancelMiss, CancelCall
<1>2. Client => corrupt' = corrupt
  BY <1>1 DEF Client, aloe_ev_put, PutNoMemory, DestroyBegin
<1>3. Once => corrupt' = corrupt
  BY DEF Once, OnceBegin, SelectReturn, ReadClock, CollectNoti, CollectFd, Dispatch, CbReturn, OnceReturn
<1>4. OnceError \/ Tick \/ Arrive \/ Stopped \/ UNCHANGED vars => corrupt' = corrupt
  BY DEF OnceError, Tick, Arrive, Stopped, vars
<1>5. Freeing => corrupt' = corrupt
  BY DEF Freeing, DestroyFd, DestroySpareFd, DestroyNoti
<1>6. corrupt' = corrupt
  BY <1>2, <1>3, <1>4, <1>5 DEF Next
<1> QED
  BY <1>1, <1>6

LEMMA NextSeenInv ==
  ASSUME CancelKinds = {}, SeenInv, [Next]_vars
  PROVE  SeenInv'
<1>1. EvInv'
  BY NextEvInv DEF SeenInv
<1>2. OrderInv'
  BY NextOrderInv DEF SeenInv
<1>3. FoundInv'
  BY NextFoundInv DEF SeenInv
<1>4. CollectInv'
  BY NextCollectInv DEF SeenInv
<1>5. ~ corrupt'
  BY NothingSpoilt DEF SeenInv
<1> QED
  BY <1>1, <1>2, <1>3, <1>4, <1>5 DEF SeenInv

LEMMA InitIsInit ==
  ASSUME Init, EvInv
  PROVE  Abs!Init
<1>1. pc = "idle" /\ regs = <<>> /\ now = 0 /\ ready = {} /\ call = NoCall /\ ~ corrupt /\ Running
  BY DEF Init, Running
<1>2. Registered = <<>>
  BY <1>1 DEF Registered, Registrations
<1>3. Armed = {}
  BY InitNothing DEF Armed, ArmedEvents
<1>4. Pending = <<>>
  <2> DEFINE s == Order("noti_q")
  <2>1. s \in Seq(Noti) /\ Events("noti_q") = Items(s)
    BY <1>1, OrderIs, Cells DEF EvInv
  <2> HIDE DEF s
  <2>2. s = <<>>
    <3>1. Items(s) = {}
      BY <2>1, InitNothing
    <3>2. ~ 1 \in 1 .. Len(s)
      BY <3>1 DEF Items
    <3>3. Len(s) = 0
      BY <2>1, <3>2
    <3> QED
      BY <2>1, <3>3
  <2>3. PendingOf(noti, <<>>) = <<>>
    BY DEF PendingOf
  <2> QED
    BY <1>1, <2>2, <2>3, MappingIs DEF s
<1>5. Phase = "client" /\ Seen = [found |-> {}, ts |-> 0]
  BY <1>1, PhaseIs
<1> QED
  BY <1>1, <1>2, <1>3, <1>4, <1>5 DEF Abs!Init, Abs!NothingSeen, NoCall, Abs!NoCall

LEMMA StepIsStep ==
  ASSUME CancelKinds = {}, SeenInv, SeenInv', [Next]_vars
  PROVE  [Abs!Next]_(Abs!vars)
<1> USE DEF SeenInv
<1>1. CASE Client
  <2>1. ASSUME NEW r \in Requests, aloe_ev_put(r) PROVE Abs!Next
    BY <2>1, PutIsRegister DEF Abs!Next
  <2>2. ASSUME NEW r \in Requests, PutNoMemory(r) PROVE UNCHANGED Abs!vars
    BY <2>2, NoMemoryIsSeen
  <2>3. ASSUME DestroyBegin PROVE Abs!Next
    BY <2>3, DestroyIsClose DEF Abs!Next
  <2> QED
    BY <1>1, <2>1, <2>2, <2>3, NothingSpoilt DEF Client
<1>2. CASE OnceBegin \/ Tick \/ Stopped \/ UNCHANGED vars
  BY <1>2, LookingIsSeen DEF Abs!Next
<1>3. CASE SelectReturn
  BY <1>3, SelectIsPoll DEF Abs!Next
<1>4. CASE ReadClock
  BY <1>4, ReadClockIsSeen DEF Abs!Next
<1>5. CASE CollectNoti
  BY <1>5, CollectNotiIsCollect DEF Abs!Next
<1>6. CASE CollectFd
  BY <1>6, CollectFdIsSeen DEF Abs!Next
<1>7. CASE Dispatch
  BY <1>7, DispatchIsDeliver DEF Abs!Next
<1>8. CASE CbReturn
  BY <1>8, ReturnIsReturn DEF Abs!Next
<1>9. CASE OnceReturn
  BY <1>9, OnceReturnIsDelivered DEF Abs!Next
<1>10. CASE OnceError
  BY <1>10, ErrorIsSeen DEF Abs!Next
<1>11. CASE Arrive
  BY <1>11, ArriveIsArrive DEF Abs!Next
<1>12. CASE Freeing
  BY <1>12, FreeingIsSeen
<1> QED
  BY <1>1, <1>2, <1>3, <1>4, <1>5, <1>6, <1>7, <1>8, <1>9, <1>10, <1>11, <1>12 DEF Next, Once

\* Where aloe_ev_cancel is not used, every step of ev.c is a step of EvAbs, or none: each
\* registration is collected in the first round that finds it ready or due, after those
\* of its descriptor that were registered before it, and is delivered once to its own
\* callback, in the order in which all were collected.
THEOREM ImplementsEvAbsAlways ==
  ASSUME CancelKinds = {}
  PROVE  Spec => ImplementsEvAbs
<1>1. Init => SeenInv /\ Abs!Init
  BY InitSeenInv, InitIsInit DEF SeenInv
<1>2. SeenInv /\ [Next]_vars => SeenInv'
  BY NextSeenInv
<1>3. SeenInv /\ SeenInv' /\ [Next]_vars => [Abs!Next]_(Abs!vars)
  BY StepIsStep
<1> QED
  BY <1>1, <1>2, <1>3, PTL DEF Spec, ImplementsEvAbs, Abs!Spec

=============================================================================
