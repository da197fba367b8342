------------------------------- MODULE MCCfg -------------------------------
(***************************************************************************)
(* A small store for TLC: two keys; a text that the least capacity is      *)
(* enough for, one that it is not, and what a format prints, for whose NUL *)
(* it is just too small.  Data of no bytes have less.                      *)
(***************************************************************************)
EXTENDS CfgProps, TLC

CONSTANTS short, long, junk

TwoTexts == {short, long}
OneJunk  == {junk}
Lengths  == [t \in Texts \union {EMPTY} |->
               IF t = EMPTY THEN 0 ELSE IF t = short THEN 1 ELSE IF t = junk THEN 2 ELSE 3]
TwoKeys  == {1, 2}

\* No definition chooses an address, so addresses are interchangeable.
Symmetry == Permutations(Addr)
=============================================================================
