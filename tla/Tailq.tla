------------------------------- MODULE Tailq -------------------------------
(***************************************************************************)
(* The tail queue of compat/openbsd/sys/queue.h at the level of pointers.  *)
(*                                                                         *)
(* A TAILQ_HEAD and a TAILQ_ENTRY have the same layout: a pointer to an    *)
(* element (tqh_first, tqe_next) and the address of such a pointer         *)
(* (tqh_last, tqe_prev).  Both are called cells here.  The memory of the   *)
(* queues is a record m:                                                   *)
(*   m.ptr[c]    tqh_first of a head c, tqe_next of an element c           *)
(*   m.back[c]   tqh_last of a head c, tqe_prev of an element c: the cell  *)
(*               whose ptr it is the address of                            *)
(* The operators return the memory the macro of the same name leaves.  No  *)
(* operator checks that its argument is, or is not, on a queue: neither do *)
(* the macros.                                                             *)
(***************************************************************************)
EXTENDS Integers, Sequences, FiniteSets

CONSTANT NULL

TAILQ_FIRST(m, h) == m.ptr[h]

TAILQ_NEXT(m, e) == m.ptr[e]

TAILQ_EMPTY(m, h) == m.ptr[h] = NULL

InitFirstOnly(m, h) ==      \* fault: tqh_last is not set
  [ptr  |-> [m.ptr EXCEPT ![h] = NULL],
   back |-> [m.back EXCEPT ![h] = NULL]]

TAILQ_INIT(m, h) ==
  [ptr  |-> [m.ptr EXCEPT ![h] = NULL],
   back |-> [m.back EXCEPT ![h] = h]]

TAILQ_INSERT_HEAD(m, h, e) ==      \* fault, where TAILQ_INSERT_TAIL is meant
  [ptr  |-> [m.ptr EXCEPT ![e] = m.ptr[h], ![h] = e],
   back |-> [m.back EXCEPT ![IF m.ptr[h] # NULL THEN m.ptr[h] ELSE h] = e, ![e] = h]]

\* The four assignments of the macro, in its order: when e is itself the tail
\* of h, the write through tqh_last lands on the tqe_next just cleared.
TAILQ_INSERT_TAIL(m, h, e) ==
  [ptr  |-> [m.ptr EXCEPT ![e] = NULL, ![m.back[h]] = e],
   back |-> [m.back EXCEPT ![e] = m.back[h], ![h] = e]]

\* The successor, or h when e has none, gets e's tqe_prev; the cell tqe_prev
\* points at gets e's successor.  h is used only when e is the last element.
TAILQ_REMOVE(m, h, e) ==
  [ptr  |-> [m.ptr EXCEPT ![m.back[e]] = m.ptr[e]],
   back |-> [m.back EXCEPT ![IF m.ptr[e] # NULL THEN m.ptr[e] ELSE h] = m.back[e]]]

\* The elements (of E) a TAILQ_FOREACH over h visits: the least set that
\* contains the first element and is closed under tqe_next.
Visited(m, h, E) ==
  { e \in E : \A S \in SUBSET E :
                 (\A c \in S \union {h} : m.ptr[c] \in S \union {NULL}) => e \in S }

\* A TAILQ_FOREACH over h never meets the NULL that ends it.
Endless(m, h, E) == \A c \in Visited(m, h, E) \union {h} : m.ptr[c] # NULL

-----------------------------------------------------------------------------
(***************************************************************************)
(* What the pointers stand for: a sequence of elements without repetition. *)
(***************************************************************************)

Items(s) == { s[i] : i \in 1 .. Len(s) }

NoRepeat(s) == \A i, j \in 1 .. Len(s) : s[i] = s[j] => i = j

\* The sequence s without its item e, which occurs in it once.
Without(s, e) ==
  LET k == CHOOSE i \in 1 .. Len(s) : s[i] = e
  IN  [j \in 1 .. Len(s) - 1 |-> IF j < k THEN s[j] ELSE s[j + 1]]

\* The pointers of head h and of the items of s chain exactly s.
Represents(m, h, s) ==
  /\ m.ptr[h] = IF s = <<>> THEN NULL ELSE s[1]
  /\ m.back[h] = IF s = <<>> THEN h ELSE s[Len(s)]
  /\ \A i \in 1 .. Len(s) :
        /\ m.ptr[s[i]] = IF i = Len(s) THEN NULL ELSE s[i + 1]
        /\ m.back[s[i]] = IF i = 1 THEN h ELSE s[i - 1]

\* The heads H hold the sequences q[h], and no element is on two queues.
WellLinkedAs(m, H, E, q) ==
  /\ \A h \in H : /\ q[h] \in Seq(E)
                  /\ NoRepeat(q[h])
                  /\ Represents(m, h, q[h])
  /\ \A g, h \in H : g # h => Items(q[g]) \cap Items(q[h]) = {}

\* The sequences without repetition over a finite set E.
Orders(E) ==
  { s \in UNION { [1 .. n -> E] : n \in 0 .. Cardinality(E) } : NoRepeat(s) }

\* The items head h chains, first to last.
Contents(m, h, E) == CHOOSE s \in Orders(E) : Represents(m, h, s)

\* The same as \E q : WellLinkedAs(m, H, E, q), in a form that is cheap to check.
WellLinked(m, H, E) ==
  /\ \A h \in H : \E s \in Orders(E) : Represents(m, h, s)
  /\ \A g, h \in H : g # h => Visited(m, g, E) \cap Visited(m, h, E) = {}

=============================================================================
