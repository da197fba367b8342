-------------------------------- MODULE Buf --------------------------------
(***************************************************************************)
(* The index buffer of misc.c: a text is printed between pos and lmt, in   *)
(* memory of a fixed size (aloe_buf_printf) or that grows                  *)
(* (aloe_buf_aprintf).                                                     *)
(*                                                                         *)
(* An aloe_buf_t is a record [data, cap, pos, lmt]; data is a function on  *)
(* 0 .. cap-1, empty when the pointer is NULL.  A text stands for what the *)
(* format and its arguments make.  aloe_buf_vaprintf takes a step for      *)
(* every attempt to print.                                                 *)
(***************************************************************************)
EXTENDS Integers, Sequences

CONSTANTS Char, NUL, GARBAGE,   \* letters, the end of a string, memory not yet written
          Least,                \* the capacity aloe_buf_vaprintf starts with (32)
          Maxima,               \* the maxima given to aloe_buf_aprintf; 0: do not grow
          MaxText, MaxCap       \* bounds: a text printed at once; what malloc can give

ASSUME CharsAssumption == NUL # GARBAGE /\ NUL \notin Char /\ GARBAGE \notin Char
ASSUME SizesAssumption == Maxima \subseteq Int /\ Least \in Nat \ {0} /\ MaxText \in Nat /\ MaxCap \in Nat

VARIABLES buf,
          pc,     \* idle, or try: in the loop of aloe_buf_vaprintf
          io      \* the arguments of the last aloe_buf_*printf, and what it returned

vars == <<buf, pc, io>>

\* before: history, the buffer at the call; nomem: history, malloc has failed;
\* ret: 1 when the text was printed, -1 when not, 2 when there was none to print, 0 when
\* no printf was called yet or something else was done since.
NoBuf == [data |-> <<>>, cap |-> 0, pos |-> 0, lmt |-> 0]
NoIO  == [text |-> <<>>, max |-> 0, before |-> NoBuf, nomem |-> FALSE, ret |-> 0]

MinOf(a, b) == IF a <= b THEN a ELSE b

Init == buf = NoBuf /\ pc = "idle" /\ io = NoIO

-----------------------------------------------------------------------------
Unended(data, at, s) ==      \* fault: no NUL, as strncpy
  [i \in DOMAIN data |-> IF i \in at .. at + Len(s) - 1 THEN s[i - at + 1] ELSE data[i]]

\* The letters of s, then NUL, at data + at.
Written(data, at, s) ==
  [i \in DOMAIN data |->
     IF i \in at .. at + Len(s) - 1 THEN s[i - at + 1]
     ELSE IF i = at + Len(s) THEN NUL ELSE data[i]]

\* vsnprintf with room for n: what does not fit is cut off.
Vsnprintf(data, at, n, t) ==
  IF n > 0 THEN Written(data, at, SubSeq(t, 1, MinOf(Len(t), n - 1))) ELSE data

Fits(b, t) == Len(t) < b.lmt - b.pos

aloe_buf_vprintf(b, t) ==
  [b EXCEPT !.data = Vsnprintf(b.data, b.pos, b.lmt - b.pos, t),
            !.pos = IF Fits(b, t) THEN @ + Len(t) ELSE @]

\* The memory of b made larger; the first n bytes and the indexes are kept.  A limit
\* at the end of the memory moves with it (and one there is not yet is set).
Grown(b, cap, n) ==
  [data |-> [i \in 0 .. cap - 1 |-> IF i < n THEN b.data[i] ELSE GARBAGE],
   cap |-> cap, pos |-> b.pos, lmt |-> IF b.lmt = b.cap THEN cap ELSE b.lmt]

NoRetain(b, cap)    == Grown(b, cap, 0)      \* fault: aloe_buf_flag_none
RetainIndex(b, cap) == Grown(b, cap, b.pos)

\* What aloe_buf_expand(b, cap, aloe_buf_flag_retain_index) may give; malloc may fail.
aloe_buf_expand(b, cap) ==
  IF cap <= b.cap THEN { [ok |-> TRUE, b |-> b] }
  ELSE { [ok |-> FALSE, b |-> b] } \union
       (IF cap <= MaxCap THEN { [ok |-> TRUE, b |-> RetainIndex(b, cap)] } ELSE {})

-----------------------------------------------------------------------------
Text(b) == [i \in 1 .. b.pos |-> b.data[i - 1]]

Called(t, max) == [text |-> t, max |-> max, before |-> buf, nomem |-> FALSE, ret |-> 0]

\* aloe_buf_printf, or aloe_buf_aprintf that may not grow.
aloe_buf_printf(t, max) ==
  /\ pc = "idle" /\ (max # 0 => buf.lmt # buf.cap)
  /\ buf' = aloe_buf_vprintf(buf, t)
  /\ io' = [Called(t, max) EXCEPT !.ret = IF Fits(buf, t) THEN 1 ELSE -1]
  /\ UNCHANGED pc

\* aloe_buf_aprintf begins with a least capacity.  A negative max is no maximum.
Aprintf(t, max) ==
  /\ pc = "idle" /\ max # 0 /\ buf.lmt = buf.cap
  /\ \E x \in aloe_buf_expand(buf, IF max > 0 THEN MinOf(max, Least) ELSE Least) :
       /\ buf' = x.b
       /\ pc' = IF x.ok THEN "try" ELSE "idle"
       /\ io' = [Called(t, max) EXCEPT !.nomem = ~ x.ok, !.ret = IF x.ok THEN 0 ELSE -1]

\* A format that is NULL, or is empty for aloe_buf_aprintf (not one that makes an empty
\* text): no failure, but the buffer is not looked at, nor the maximum.
AprintfNothing ==
  /\ pc = "idle"
  /\ io' = [Called(<<>>, 0) EXCEPT !.ret = 2]
  /\ UNCHANGED <<buf, pc>>

TryFits ==
  /\ pc = "try" /\ Fits(buf, io.text)
  /\ pc' = "idle"
  /\ buf' = aloe_buf_vprintf(buf, io.text)
  /\ io' = [io EXCEPT !.ret = 1]

\* Faults: a doubling too early; never, when cap is just the maximum.
GivesUpSoon(b) == io.max > 0 /\ b.cap * 2 >= io.max
GivesUpLate(b) == io.max > 0 /\ b.cap > io.max
GivesUp(b)     == io.max > 0 /\ b.cap >= io.max

NoMaximum(cap) == cap * 2      \* fault: the maximum is not looked at
Doubled(cap)   == IF io.max > 0 THEN MinOf(cap * 2, io.max) ELSE cap * 2

TryAgain ==
  LET b == aloe_buf_vprintf(buf, io.text)
  IN  /\ pc = "try" /\ ~ Fits(buf, io.text)
      /\ \/ /\ GivesUp(b)
            /\ pc' = "idle" /\ buf' = b
            /\ io' = [io EXCEPT !.ret = -1]
         \/ /\ ~ GivesUp(b)
            /\ \E x \in aloe_buf_expand(b, Doubled(b.cap)) :
                 /\ buf' = x.b
                 /\ pc' = IF x.ok THEN "try" ELSE "idle"
                 /\ io' = [io EXCEPT !.nomem = ~ x.ok, !.ret = IF x.ok THEN 0 ELSE -1]

-----------------------------------------------------------------------------
aloe_buf_clear ==
  /\ pc = "idle"
  /\ buf' = [buf EXCEPT !.lmt = buf.cap, !.pos = 0]
  /\ io' = NoIO /\ UNCHANGED pc

aloe_buf_flip ==
  /\ pc = "idle"
  /\ buf' = [buf EXCEPT !.lmt = buf.pos, !.pos = 0]
  /\ io' = NoIO /\ UNCHANGED pc

ShiftedTooFar(b, offset) ==      \* fault: a byte more is given up than the indexes say
  [i \in DOMAIN b.data |-> IF i < b.pos - offset - 1 THEN b.data[i + offset + 1] ELSE b.data[i]]
Shifted(b, offset) ==
  [i \in DOMAIN b.data |-> IF i < b.pos - offset THEN b.data[i + offset] ELSE b.data[i]]

\* The first bytes of what lies before pos are given up.
aloe_buf_shift_left(b, offset) ==
  IF b.data = <<>> \/ offset > b.pos \/ b.pos > b.lmt THEN b
  ELSE [b EXCEPT !.data = Shifted(b, offset), !.pos = @ - offset, !.lmt = @ - offset]

Shift(offset) ==
  /\ pc = "idle"
  /\ buf' = aloe_buf_shift_left(buf, offset)
  /\ io' = NoIO /\ UNCHANGED pc

\* aloe_buf_expand with aloe_buf_flag_none, then aloe_buf_clear, as in ctrl_on_read.
Renew(cap) ==
  /\ pc = "idle" /\ cap > buf.cap
  /\ buf' = [data |-> [i \in 0 .. cap - 1 |-> GARBAGE], cap |-> cap, pos |-> 0, lmt |-> cap]
  /\ io' = NoIO /\ UNCHANGED pc

Texts == UNION { [1 .. n -> Char] : n \in 0 .. MaxText }

Next ==
  \/ \E t \in Texts, max \in Maxima : aloe_buf_printf(t, max) \/ Aprintf(t, max)
  \/ AprintfNothing \/ TryFits \/ TryAgain
  \/ aloe_buf_clear \/ aloe_buf_flip
  \/ \E offset \in 1 .. MaxCap : Shift(offset)
  \/ \E cap \in 1 .. MaxCap : Renew(cap)

Spec == Init /\ [][Next]_vars

\* A call that has begun is not abandoned.
FairSpec == Spec /\ WF_vars(TryFits \/ TryAgain)

=============================================================================
