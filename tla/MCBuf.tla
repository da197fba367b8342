------------------------------- MODULE MCBuf -------------------------------
(***************************************************************************)
(* A small buffer for TLC: two doublings and a maximum that is no double.  *)
(* A line may end in each of its pieces; header and body may not fit.      *)
(***************************************************************************)
EXTENDS BufUsers

SmallMaxima == {-1, 0, 1, 3, 5}
=============================================================================
