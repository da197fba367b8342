---------------------------- MODULE FftestProps ----------------------------
(***************************************************************************)
(* What the decoder program promises about its input buffer and about what *)
(* it leaves behind.                                                       *)
(***************************************************************************)
EXTENDS Fftest

\* What the parser is given next is the file from the first byte it has not consumed,
\* none skipped or repeated, and the progress counters agree with the buffer: through any
\* order of consuming, sliding the rest and short reads (fftest1.c:237-263).
StreamInOrder ==
  /\ aubuf_pos + aubuf_len <= AUBUF_SZ
  /\ \A i \in 0 .. aubuf_len - 1 : aubuf[aubuf_pos + i] = au_prog + i
  /\ au_prog + aubuf_len = aubuf_prog
  /\ aubuf_prog = file

\* The decoder is told the end only when the parser has consumed the whole file, unless
\* reading it failed (fftest1.c:228, 266).
AllConsumed == pc \in {"send_end", "receive_end"} => au_prog = FileSize \/ ioerr

\* Whichever step of the preparation, the parsing or the decoding fails, all that was
\* opened is released, but for dec itself; and main dies only when it has no dec, which
\* is after -h and a failing calloc (fftest1.c:273-281).
ReleasedAtEnd ==
  /\ pc = "exit"  => held \subseteq {"dec"}
  /\ pc = "crash" => setup = 0

\* The program ends, with a parser that does not refuse its input for ever
\* (fftest1.c:228-265).
Ends == <> (pc \in {"exit", "crash"})

=============================================================================
