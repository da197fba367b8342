------------------------------ MODULE MCRinBuf ------------------------------
(***************************************************************************)
(* A small ring for TLC: requests longer than the largest capacity, so     *)
(* that the content wraps, fills the ring and empties it.                  *)
(***************************************************************************)
EXTENDS RinBufProps

SmallCaps == {2, 4}
=============================================================================
