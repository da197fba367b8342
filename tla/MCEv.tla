-------------------------------- MODULE MCEv --------------------------------
(***************************************************************************)
(* Small instances of the event context for TLC.                           *)
(***************************************************************************)
EXTENDS EvRefines

\* A descriptor that is waited for with a timeout; another descriptor; a timer.
Both1(delay) ==
  [fd |-> 1, cb |-> "on_both", ev_wait |-> {"read", "write"}, delay |-> delay]
Read2        == [fd |-> 2, cb |-> "on_read", ev_wait |-> {"read"}, delay |-> INFINITE]
Timer(delay) == [fd |-> -1, cb |-> "on_time", ev_wait |-> {}, delay |-> delay]

\* With TICK = 2: a timeout of two microseconds and a half, which select gets cut
\* to two, and a shorter one that is due before, with or after it.
MixedRequests == {Both1(5), Read2, Timer(3)}
FewRequests   == {Both1(5), Timer(3)}
=============================================================================
