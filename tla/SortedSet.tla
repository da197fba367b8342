----------------------------- MODULE SortedSet -----------------------------
(***************************************************************************)
(* What cfg.c needs of its tree: a set of keys, in which a key can be      *)
(* found and which can be gone through in order, both ways, at any moment. *)
(* A reset takes keys away one by one, the least first, until none of      *)
(* those it is about is left.                                              *)
(***************************************************************************)
EXTENDS Integers

CONSTANTS NULL, Key

VARIABLES set,
          scope,    \* the keys a reset in progress is about
          answers   \* to all that can be asked

vars == <<set, scope, answers>>

Least(S)    == IF S = {} THEN NULL ELSE CHOOSE k \in S : \A x \in S : k <= x
Greatest(S) == IF S = {} THEN NULL ELSE CHOOSE k \in S : \A x \in S : x <= k

Answers(S) ==
  [find  |-> [k \in Key |-> IF k \in S THEN k ELSE NULL],
   first |-> Least(S),
   last  |-> Greatest(S),
   next  |-> [k \in S |-> Least({ x \in S : x > k })],
   prev  |-> [k \in S |-> Greatest({ x \in S : x < k })]]

Init == set = {} /\ scope = {} /\ answers = Answers({})

Insert(k) ==
  /\ scope = {} /\ UNCHANGED scope
  /\ set' = set \union {k} /\ answers' = Answers(set')

Remove(S, k) ==
  /\ scope \in {{}, S} /\ scope' = S
  /\ set' = set \ {k} /\ answers' = Answers(set')

ResetEnds == scope \cap set = {} /\ scope' = {} /\ UNCHANGED <<set, answers>>

Next ==
  \/ \E k \in Key : Insert(k)
  \/ \E k \in set : Remove({k}, k) \/ (k = Least(set) /\ Remove(Key, k))
  \/ ResetEnds

Spec == Init /\ [][Next]_vars

=============================================================================
