------------------------------ MODULE BufProps ------------------------------
(***************************************************************************)
(* What the index buffer of misc.c promises: the properties of module Buf. *)
(***************************************************************************)
EXTENDS Buf

MaxOf(a, b) == IF a >= b THEN a ELSE b

\* The indexes are in order and within the memory, so that vsnprintf and memmove are given
\* nothing outside it.  After every printf of a format that malloc did not stop, whether the
\* text fitted or not, the buffer can be used as a string: a NUL follows before the limit (if
\* there is room for one at all), and at once when the text fitted.  (Of no format, NULL or
\* "" (misc.c:136), there is no such promise, though the answer is that of a success.)
StringEnds ==
  /\ 0 <= buf.pos /\ buf.pos <= buf.lmt /\ buf.lmt <= buf.cap
  /\ DOMAIN buf.data = 0 .. buf.cap - 1
  /\ pc = "idle" =>
       /\ io.ret = 1 => buf.data[buf.pos] = NUL
       /\ io.ret = -1 /\ ~ io.nomem /\ buf.pos < buf.lmt =>
            \E i \in buf.pos .. buf.lmt - 1 : buf.data[i] = NUL

\* A printf (of io) has just returned.
Returned == io'.ret # 0 /\ pc' = "idle" /\ (pc = "try" \/ io'.before = buf)

\* "Update buf index when all fmt fulfill" (include/aloe/main.h:152): the text is
\* appended whole to what is before pos, or that is as it was, however often the memory
\* was replaced on the way.
AllOrNothing ==
  [][ Returned =>
        Text(buf') = Text(io'.before) \o (IF io'.ret = 1 THEN io'.text ELSE <<>>) ]_vars

\* A printf fails only when the text and its NUL do not fit below the limit, or the
\* maximum, or malloc has failed.
FailsForReason ==
  [][ Returned /\ io'.ret = -1 /\ ~ io'.nomem =>
        LET b     == io'.before
            limit == IF io'.max = 0 \/ b.lmt # b.cap THEN b.lmt ELSE io'.max
        IN  b.pos + Len(io'.text) + 1 > limit ]_vars

\* The memory grows no further than the maximum, and no further than the text asks for
\* (the least capacity, or less than twice what is needed).
GrowsAsNeeded ==
  [][ LET b == io'.before
      IN  Returned => /\ io'.max > 0 => buf'.cap <= MaxOf(b.cap, io'.max)
                      /\ buf'.cap <= MaxOf(MaxOf(b.cap, Least), 2 * (b.pos + Len(io'.text))) ]_vars

\* Every printf returns: the memory does not fail to grow for ever.
PrintfReturns == pc = "try" ~> pc = "idle"

=============================================================================
