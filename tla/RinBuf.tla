------------------------------- MODULE RinBuf -------------------------------
(***************************************************************************)
(* The ring buffer of misc.c: aloe_rinbuf_read, aloe_rinbuf_write, and     *)
(* aloe_buf_expand as it is used for a ring (aloe_buf_flag_retain_rinbuf). *)
(*                                                                         *)
(* An aloe_buf_t is a record [data, cap, pos, lmt]; data is a function on  *)
(* 0 .. cap-1, empty when the pointer is NULL.  A copying loop is the pair *)
(* of its state pc and its locals io, and takes a step for every memcpy.   *)
(***************************************************************************)
EXTENDS Integers, Sequences

CONSTANTS Byte,       \* the bytes written
          GARBAGE,    \* the content of memory not yet written
          Caps,       \* the capacities asked of aloe_buf_expand
          MaxSize     \* bound: bytes in one request

ASSUME BytesAssumption == GARBAGE \notin Byte
ASSUME SizesAssumption == Caps \subseteq Nat /\ MaxSize \in Nat

VARIABLES buf,    \* the ring
          pc,     \* idle, or the loop that runs: read, write, retain
          io      \* its locals, and what the last call returned

vars == <<buf, pc, io>>

MinOf(a, b) == IF a <= b THEN a ELSE b

\* rest: still to be written; left: still to be read; out: what was read so far;
\* moved: history, the bytes moved so far; ret: ret_sz; cap: the capacity wanted.
NoIO == [rest |-> <<>>, left |-> 0, out |-> <<>>, moved |-> 0, ret |-> 0, cap |-> 0]

Init ==
  /\ buf = [data |-> <<>>, cap |-> 0, pos |-> 0, lmt |-> 0]
  /\ pc = "idle" /\ io = NoIO

Memory(cap) == [i \in 0 .. cap - 1 |-> GARBAGE]

\* memcpy of the first n items of s to data + at.
Copied(data, at, s, n) ==
  [i \in DOMAIN data |-> IF i \in at .. at + n - 1 THEN s[i - at + 1] ELSE data[i]]

Drop(s, n) == SubSeq(s, n + 1, Len(s))

-----------------------------------------------------------------------------
aloe_rinbuf_write(s) ==
  /\ pc = "idle" /\ pc' = "write"
  /\ io' = [NoIO EXCEPT !.rest = s, !.ret = MinOf(Len(s), buf.cap - buf.lmt)]
  /\ UNCHANGED buf

\* Faults: the end of the memory is forgotten; the last cell is kept free.
NoWrap(n, at)      == n
KeepOneFree(n, at) == MinOf(n, buf.cap - at - 1)
ToTheEnd(n, at) == MinOf(n, buf.cap - at)

WriteChunk ==
  LET room == MinOf(Len(io.rest), buf.cap - buf.lmt)
      at   == (buf.pos + buf.lmt) % buf.cap
      n    == ToTheEnd(room, at)
  IN  /\ pc = "write" /\ room > 0
      /\ buf' = [buf EXCEPT !.data = Copied(@, at, io.rest, n), !.lmt = @ + n]
      /\ IF n >= Len(io.rest) THEN pc' = "idle" ELSE UNCHANGED pc
      /\ io' = [io EXCEPT !.rest = Drop(@, n), !.moved = @ + n]

WriteFull ==
  /\ pc = "write" /\ MinOf(Len(io.rest), buf.cap - buf.lmt) = 0
  /\ pc' = "idle"
  /\ UNCHANGED <<buf, io>>

Asked(sz) == MinOf(sz, buf.lmt)

aloe_rinbuf_read(sz) ==
  /\ pc = "idle" /\ pc' = "read"
  /\ io' = [NoIO EXCEPT !.left = Asked(sz), !.ret = Asked(sz)]
  /\ UNCHANGED buf

\* A chunk ends at the end of the memory, where pos starts over.
AdvancedAt(pos, n) == IF pos + n > buf.cap THEN 0 ELSE pos + n   \* fault: one too late
Advanced(pos, n)   == (pos + n) % buf.cap

ReadChunk ==
  LET n == MinOf(io.left, buf.cap - buf.pos)
  IN  /\ pc \in {"read", "retain"} /\ n > 0
      /\ buf' = [buf EXCEPT !.pos = Advanced(@, n), !.lmt = @ - n]
      /\ io' = [io EXCEPT !.left = @ - n, !.moved = @ + n,
                          !.out = @ \o [i \in 1 .. n |-> buf.data[buf.pos + i - 1]]]
      /\ UNCHANGED pc

\* The end of aloe_buf_expand: the new memory, filled from its start, replaces the old.
Install ==
  buf' = [buf EXCEPT !.data = Copied(Memory(io.cap), 0, io.out, Len(io.out)),
                     !.cap = io.cap, !.pos = 0]

\* Nothing is left to read, or nothing can be.  (The break after a last chunk comes to
\* the same.)
ReadEnd ==
  /\ pc \in {"read", "retain"} /\ MinOf(io.left, buf.cap - buf.pos) = 0
  /\ pc' = "idle"
  /\ IF pc = "retain" THEN Install /\ io' = NoIO ELSE UNCHANGED <<buf, io>>

\* (When malloc fails, or the capacity is there already, nothing changes.)
aloe_buf_expand(cap) ==
  /\ pc = "idle" /\ cap > buf.cap
  /\ IF buf.data = <<>>
     THEN /\ buf' = [buf EXCEPT !.data = Memory(cap), !.cap = cap]
          /\ io' = NoIO
          /\ UNCHANGED pc
     ELSE /\ pc' = "retain"
          /\ io' = [NoIO EXCEPT !.left = buf.lmt, !.ret = buf.lmt, !.cap = cap]
          /\ UNCHANGED buf

-----------------------------------------------------------------------------
Requests == UNION { [1 .. n -> Byte] : n \in 0 .. MaxSize }

Call ==
  \/ \E s \in Requests : aloe_rinbuf_write(s)
  \/ \E sz \in 0 .. MaxSize : aloe_rinbuf_read(sz)
  \/ \E cap \in Caps : aloe_buf_expand(cap)

Copying == WriteChunk \/ WriteFull \/ ReadChunk \/ ReadEnd

Next == Call \/ Copying

Spec == Init /\ [][Next]_vars

\* A call that has begun is not abandoned.
FairSpec == Spec /\ WF_vars(Copying)

=============================================================================
