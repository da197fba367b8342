------------------------------ MODULE TimeSec ------------------------------
(***************************************************************************)
(* The arithmetic on pairs of seconds and subseconds: the ALOE_TIMESEC     *)
(* macros of main.h, of which time.c makes the functions for a timeval,    *)
(* and ev.c its due times in a timespec.                                   *)
(*                                                                         *)
(* Seconds and subseconds are long.  The scale is unsigned long (1000000ul *)
(* in time.c), so what is computed with it is computed modulo ULONG and    *)
(* converted back when it is stored.                                       *)
(***************************************************************************)
EXTENDS Integers

CONSTANTS LONG_MAX, Scale

Pair(sec, sub) == [sec |-> sec, sub |-> sub]

\* The conversions between long and unsigned long.
ULONG       == 2 * LONG_MAX + 2
Unsigned(x) == x % ULONG
Signed(x)   == IF Unsigned(x) <= LONG_MAX THEN Unsigned(x) ELSE Unsigned(x) - ULONG

ALOE_TIMESEC_NORM(p) ==
  IF Unsigned(p.sub) >= Scale
  THEN Pair(Signed(p.sec + Unsigned(p.sub) \div Scale), Signed(Unsigned(p.sub) % Scale))
  ELSE p

ALOE_TIMESEC_CMP(a, b) ==
  IF a.sec > b.sec \/ (a.sec = b.sec /\ a.sub > b.sub) THEN 1
  ELSE IF a = b THEN 0 ELSE -1

ALOE_TIMESEC_SUB(a, b) ==
  IF a.sub < b.sub
  THEN Pair(a.sec - b.sec - 1, Signed(Scale + a.sub - b.sub))
  ELSE Pair(a.sec - b.sec, a.sub - b.sub)

ALOE_TIMESEC_ADD(a, b) == ALOE_TIMESEC_NORM(Pair(a.sec + b.sec, a.sub + b.sub))

-----------------------------------------------------------------------------
\* The time a pair stands for, in subseconds; the pairs that are normal.
Value(p)    == p.sec * Scale + p.sub
Normal(p)   == p.sub \in 0 .. Scale - 1
Long        == -LONG_MAX - 1 .. LONG_MAX
TimePairs   == [sec : Long, sub : Long]
NormalPairs == { p \in TimePairs : Normal(p) }

\* The scale is small against what a long holds.
ScaleFits == LONG_MAX \in Nat /\ Scale \in Nat \ {0} /\ 2 * Scale <= LONG_MAX

=============================================================================
