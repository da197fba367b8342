---------------------------- MODULE RinBufProps ----------------------------
(***************************************************************************)
(* What the ring buffer of misc.c promises: the properties of RinBuf.      *)
(***************************************************************************)
EXTENDS RinBuf

\* The bytes of the ring from pos on, around the end of the memory.
Content == [i \in 1 .. buf.lmt |-> buf.data[(buf.pos + i - 1) % buf.cap]]

\* pos and lmt are within the memory, which has the size cap says; and every memcpy stays
\* within it, on both sides of the point where it wraps, and never reads a byte that was
\* not written.
InMemory ==
  /\ DOMAIN buf.data = 0 .. buf.cap - 1
  /\ buf.lmt <= buf.cap
  /\ IF buf.cap = 0 THEN buf.pos = 0 ELSE buf.pos < buf.cap
  /\ pc = "write" /\ io.rest # <<>> /\ buf.lmt < buf.cap =>
       LET at == (buf.pos + buf.lmt) % buf.cap
       IN  at + ToTheEnd(MinOf(Len(io.rest), buf.cap - buf.lmt), at) <= buf.cap
  /\ pc \in {"read", "retain"} => io.left <= buf.lmt
  /\ \A i \in 1 .. Len(Content) : Content[i] # GARBAGE

\* The flag aloe_buf_flag_retain_rinbuf (include/aloe/main.h:135) asks for the content
\* of the ring to be retained when it grows: what was read is what the ring then holds.
RetainKeeps == [][ pc = "retain" /\ pc' = "idle" => Content' = io.out ]_vars

-----------------------------------------------------------------------------
\* The bytes on their way into new memory still count as content.
Queue == IF pc = "retain" THEN io.out \o Content ELSE Content
Doing == CASE pc = "idle" -> "nothing" [] pc = "write" -> "put"
           [] pc = "read" -> "get" [] pc = "retain" -> "grow"
Got   == IF pc = "retain" THEN <<>> ELSE io.out
Due   == IF pc = "retain" THEN 0 ELSE io.ret - io.moved

Abs == INSTANCE Fifo WITH
  q <- Queue, cap <- buf.cap, doing <- Doing, todo <- io.rest, got <- Got, due <- Due

\* The bytes come out in the order they went in, none lost and none twice, and a call
\* returns the number of bytes it has moved - wherever the content wraps.
ImplementsFifo == Abs!Spec

\* Every call returns: no loop spins on a chunk of nothing.
CallsReturn == pc # "idle" ~> pc = "idle"

=============================================================================
