------------------------------- MODULE Fftest -------------------------------
(***************************************************************************)
(* The decoder program fftest1.c: the input file is read into a buffer,    *)
(* the parser takes what it wants from the front of the buffer, the rest   *)
(* slides to its start and is filled up; every packet the parser makes is  *)
(* sent to the decoder and the frames it then has are received.            *)
(*                                                                         *)
(* A byte is its place in the file.  libavcodec is external: the parser    *)
(* consumes any part of its input and may return a packet; the decoder     *)
(* makes any number of frames (up to MaxFrames) of a packet, or fails.     *)
(***************************************************************************)
EXTENDS Integers, Sequences

CONSTANTS FileSize,     \* bytes in the input file
          AUBUF_SZ, AUBUF_THR,
          MaxFrames     \* bound: frames of one packet

ASSUME SizesAssumption ==
  /\ FileSize \in Nat /\ MaxFrames \in Nat
  /\ AUBUF_SZ \in Nat \ {0} /\ AUBUF_THR \in 1 .. AUBUF_SZ

\* What main obtains before the loop, in its order.  The file for the output is opened
\* only when one is asked for; codec is not a resource.
Steps == <<"dec", "pkt", "codec", "parser", "codec_ctx", "open2", "ofd", "aufd", "frm">>
Resources == {"dec", "pkt", "parser", "codec_ctx", "ofd", "aufd", "frm"}

VARIABLES
  pc,
  held,                     \* the resources obtained and not released
  setup,                    \* how many of Steps are done
  aubuf, aubuf_pos, aubuf_len,
  aubuf_prog, au_prog,      \* bytes read into, and taken from, the buffer
  file,                     \* the next byte of the file
  ioerr,                    \* history: reading the file has failed
  frames                    \* the frames the decoder has not handed out

input   == <<aubuf, aubuf_pos, aubuf_len, aubuf_prog, au_prog, file, ioerr>>
vars    == <<pc, held, setup, input, frames>>

MinOf(a, b) == IF a <= b THEN a ELSE b

Init ==
  /\ pc = "setup" /\ held = {} /\ setup = 0
  /\ aubuf = [i \in 0 .. AUBUF_SZ - 1 |-> -1] /\ aubuf_pos = 0 /\ aubuf_len = 0
  /\ aubuf_prog = 0 /\ au_prog = 0 /\ file = 0 /\ ioerr = FALSE
  /\ frames = 0

-----------------------------------------------------------------------------
\* The next step succeeds (or is left out), or main goes to its end.
SetUp ==
  LET s == Steps[setup + 1]
  IN  /\ pc = "setup" /\ setup < Len(Steps)
      /\ \/ /\ setup' = setup + 1
            /\ \/ held' = held \union ({s} \cap Resources)
               \/ s = "ofd" /\ UNCHANGED held
            /\ UNCHANGED pc
         \/ pc' = "finally" /\ UNCHANGED <<held, setup>>
      /\ UNCHANGED <<input, frames>>

\* fread gives what there is, less only when reading fails.
Read(room) == 0 .. MinOf(room, FileSize - file)

\* n bytes of the file go to aubuf behind what is there, of which len bytes are kept.
Filled(data, len, n) ==
  [i \in DOMAIN data |-> IF i \in len .. len + n - 1 THEN file + (i - len) ELSE data[i]]

Loaded(n, room) ==
  /\ file' = file + n /\ aubuf_prog' = aubuf_prog + n
  /\ ioerr' = (ioerr \/ n < MinOf(room, FileSize - file))

FirstRead ==
  /\ pc = "setup" /\ setup = Len(Steps)
  /\ \E n \in Read(AUBUF_SZ) :
       /\ Loaded(n, AUBUF_SZ)
       /\ aubuf' = Filled(aubuf, 0, n) /\ aubuf_pos' = 0 /\ aubuf_len' = n
  /\ pc' = "parse"
  /\ UNCHANGED <<held, setup, au_prog, frames>>

MoreWhileOpen(len) == TRUE              \* fault: as long as the file is open
More(len)          == len > 0

\* The parser consumes psz bytes; it may have a packet then, or fail.
Parse(psz) ==
  /\ pc = "parse" /\ More(aubuf_len) /\ psz <= aubuf_len
  /\ aubuf_pos' = aubuf_pos + psz
  /\ aubuf_len' = aubuf_len - psz
  /\ au_prog' = au_prog + psz
  /\ pc' \in {"send", "refill"}
  /\ UNCHANGED <<held, setup, aubuf, aubuf_prog, file, ioerr, frames>>

ParseFails ==
  /\ pc = "parse" /\ More(aubuf_len) /\ pc' = "finally"
  /\ UNCHANGED <<held, setup, input, frames>>

\* Fault: the last byte of the rest is left behind.
OffByOne(data, pos, len) ==
  [i \in DOMAIN data |-> IF i < len - 1 THEN data[pos + i] ELSE data[i]]
Slid(data, pos, len) ==
  [i \in DOMAIN data |-> IF i < len THEN data[pos + i] ELSE data[i]]

Room(len) == AUBUF_SZ - len

LowNotEmpty(len) == len \in 1 .. AUBUF_THR - 1      \* fault: not when all is consumed
Low(len)         == len < AUBUF_THR

Refill ==
  /\ pc = "refill" /\ pc' = "parse"
  /\ IF Low(aubuf_len)
     THEN \E n \in Read(Room(aubuf_len)) :
            /\ Loaded(n, Room(aubuf_len))
            /\ aubuf' = Filled(Slid(aubuf, aubuf_pos, aubuf_len), aubuf_len, n)
            /\ aubuf_pos' = 0 /\ aubuf_len' = aubuf_len + n
     ELSE UNCHANGED <<aubuf, aubuf_pos, aubuf_len, aubuf_prog, file, ioerr>>
  /\ UNCHANGED <<held, setup, au_prog, frames>>

\* The loop is left when the buffer is empty; the decoder is told the end.
Drain ==
  /\ pc = "parse" /\ ~ More(aubuf_len) /\ pc' = "send_end"
  /\ UNCHANGED <<held, setup, input, frames>>

-----------------------------------------------------------------------------
\* decode: the packet is sent ...
Send ==
  /\ pc \in {"send", "send_end"}
  /\ \/ /\ pc' = IF pc = "send" THEN "receive" ELSE "receive_end"
        /\ frames' \in 0 .. MaxFrames
     \/ pc' = "finally" /\ UNCHANGED frames
  /\ UNCHANGED <<held, setup, input>>

\* ... and frames are received and written until the decoder has no more.  It may fail,
\* or hand out a frame without a sample size, which decode takes for a failure too.
Receive ==
  /\ pc \in {"receive", "receive_end"}
  /\ \/ frames = 0 /\ pc' = (IF pc = "receive" THEN "refill" ELSE "finally") /\ UNCHANGED frames
     \/ frames > 0 /\ frames' = frames - 1 /\ UNCHANGED pc
     \/ pc' = "finally" /\ UNCHANGED frames
  /\ UNCHANGED <<held, setup, input>>

Forgotten(r) == r \in {"dec", "ofd"}    \* fault: the output is not closed
NotFreed(r)  == r = "dec"

\* main frees what dec names, not dec itself; -h or a failing calloc leave it NULL.
Finally ==
  /\ pc = "finally"
  /\ pc' = IF "dec" \in held THEN "exit" ELSE "crash"
  /\ held' = { r \in held : NotFreed(r) }
  /\ UNCHANGED <<setup, input, frames>>

Ended == pc \in {"exit", "crash"} /\ UNCHANGED vars

Loop == (\E psz \in 0 .. AUBUF_SZ : Parse(psz)) \/ ParseFails \/ Refill \/ Drain \/ Send \/ Receive

Next == SetUp \/ FirstRead \/ Loop \/ Finally \/ Ended

Spec == Init /\ [][Next]_vars

\* main runs on; a parser that is called again and again consumes something at last.
FairSpec ==
  /\ Spec /\ WF_vars(SetUp \/ FirstRead \/ Loop \/ Finally)
  /\ SF_vars(\E psz \in 1 .. AUBUF_SZ : Parse(psz))

=============================================================================
