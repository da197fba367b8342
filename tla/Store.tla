------------------------------- MODULE Store -------------------------------
(***************************************************************************)
(* What the configuration store of cfg.c promises: a value, with its type, *)
(* under every key that was set.  To set one key leaves the others alone.  *)
(*                                                                         *)
(* Memory may run out.  Then a key that was not there stays away, and the  *)
(* answer says so; one that was there keeps its value or, when that is a   *)
(* text, may be left with the beginning of the new one (CUT), and the      *)
(* answer does not tell.                                                   *)
(***************************************************************************)
EXTENDS Integers

CONSTANTS ABSENT, EMPTY, CUT, NULL, Key, Values(_)

VARIABLES store, answer, open

vars == <<store, answer, open>>

Types == {"number", "data", "string"}

Init == store = [k \in Key |-> ABSENT] /\ answer = NULL /\ open = TRUE

Item(type, value) == [type |-> type, value |-> IF value = NULL THEN EMPTY ELSE value]

Set(key, type, value) ==
  /\ open /\ UNCHANGED open
  /\ answer' \in {key, NULL}
  /\ LET old == store[key]
     IN  \E x \in {Item(type, value), old} \union
                 (IF old = ABSENT THEN {} ELSE { [old EXCEPT !.value = CUT] }) :
           /\ answer' = IF x = ABSENT THEN NULL ELSE key
           /\ store' = [store EXCEPT ![key] = x]

Reset(K) ==
  /\ open /\ UNCHANGED open
  /\ store' = [k \in Key |-> IF k \in K THEN ABSENT ELSE store[k]]
  /\ answer' = NULL

Destroy ==
  /\ open /\ open' = FALSE
  /\ store' = [k \in Key |-> ABSENT] /\ answer' = NULL

Next ==
  \/ \E key \in Key, type \in Types : \E value \in Values(type) : Set(key, type, value)
  \/ \E key \in Key : Reset({key})
  \/ Reset(Key)
  \/ Destroy

Spec == Init /\ [][Next]_vars

=============================================================================
