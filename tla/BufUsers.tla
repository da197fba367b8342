------------------------------ MODULE BufUsers ------------------------------
(***************************************************************************)
(* Two users of the index buffer: log_printf of evmtest1.cpp, which        *)
(* appends the pieces of a line to a buffer on the stack, and test_buf1 of *)
(* mod_test1_buf1.c, which prints a body behind a gap and then, through a  *)
(* second view of the same memory, the header that tells the body's length *)
(* into the gap, and closes what is left of it.  A third user is any.      *)
(***************************************************************************)
EXTENDS BufProps

CONSTANTS LineCap,      \* the size of a line (500)
          LogLevel,     \* impl.log_level
          RespCap, Gap  \* the sizes of a response (2000) and of the gap (200)

ASSUME UsersAssumption == {LineCap, LogLevel, RespCap, Gap} \subseteq Nat /\ Gap < RespCap

VARIABLES user,
          at,     \* where the user is
          want,   \* history: what was to be printed
          left,   \* what is still to be printed
          hdr,    \* the indexes of respHdr
          shown   \* the stream the line went to, and the line

mine == <<want, left, hdr, shown>>
all  == <<vars, user, at, mine>>

NoView  == [pos |-> 0, lmt |-> 0]
Nowhere == [to |-> "none", text |-> <<>>]

UsersInit ==
  /\ Init /\ user \in {"any", "log", "response"}
  /\ at = "idle" /\ want = <<>> /\ left = <<>> /\ hdr = NoView /\ shown = Nowhere

\* A buffer on the stack.
Stack(cap, pos) == [data |-> [i \in 0 .. cap - 1 |-> GARBAGE], cap |-> cap, pos |-> pos, lmt |-> cap]

\* Where a user is after a printf: ahead, or, when the text did not fit, at the end.
GoesOn(ahead, failed)       == at' = ahead                                   \* fault
AfterPrintf(ahead, failed) == at' = IF io'.ret = 1 THEN ahead ELSE failed

-----------------------------------------------------------------------------
\* log_printf of the pieces p: time, level, place, and the message.
log_printf(lvl, p) ==
  /\ user = "log" /\ at = "idle"
  /\ want' = p /\ left' = p
  /\ shown' = [Nowhere EXCEPT !.to = IF lvl > LogLevel THEN "none"
                                     ELSE IF lvl >= 2 THEN "stderr" ELSE "stdout"]
  /\ IF lvl > LogLevel
     THEN at' = "logged" /\ UNCHANGED <<buf, io>>
     ELSE at' = "log" /\ buf' = Stack(LineCap, 0) /\ io' = NoIO
  /\ UNCHANGED <<pc, user, hdr>>

LogPiece ==
  /\ at = "log" /\ left # <<>>
  /\ aloe_buf_printf(Head(left), 0)
  /\ left' = Tail(left)
  /\ AfterPrintf("log", "logged")
  /\ UNCHANGED <<user, want, hdr, shown>>

LogShow ==
  /\ at = "log" /\ left = <<>> /\ at' = "logged"
  /\ aloe_buf_flip
  /\ shown' = [shown EXCEPT !.text = [i \in 1 .. buf'.lmt |-> buf'.data[i - 1]]]
  /\ UNCHANGED <<user, want, left, hdr>>

-----------------------------------------------------------------------------
\* test_buf1: p is the body and the header.
test_buf1(p) ==
  /\ user = "response" /\ at = "idle" /\ at' = "body"
  /\ want' = p /\ left' = p
  /\ buf' = Stack(RespCap, Gap) /\ hdr' = [pos |-> 0, lmt |-> Gap]
  /\ io' = NoIO /\ UNCHANGED <<pc, user, shown>>

PrintBody ==
  /\ at = "body"
  /\ aloe_buf_printf(left[1], 0)
  /\ left' = Tail(left)
  /\ AfterPrintf("header", "failed")
  /\ UNCHANGED <<user, want, hdr, shown>>

\* The header is printed through its own view.
PrintHeader ==
  LET view == [buf EXCEPT !.pos = hdr.pos, !.lmt = hdr.lmt]
      x    == aloe_buf_vprintf(view, left[1])
  IN  /\ at = "header"
      /\ buf' = [buf EXCEPT !.data = x.data]
      /\ hdr' = [pos |-> x.pos, lmt |-> x.lmt]
      /\ at' = IF Fits(view, left[1]) THEN "join" ELSE "failed"
      /\ left' = Tail(left) /\ io' = NoIO
      /\ UNCHANGED <<pc, user, want, shown>>

\* respHdr is made to view what follows the header, and the gap is shifted out of it.
Join ==
  LET gap  == hdr.lmt - hdr.pos
      from == hdr.pos                           \* respHdr.lmt, flipped
      size == buf.pos - from                    \* respBuf.lmt, flipped, from there on
      view == [data |-> [i \in 0 .. size - 1 |-> buf.data[from + i]], cap |-> size,
               pos |-> size, lmt |-> size]
      x    == aloe_buf_shift_left(view, gap)
      data == [i \in DOMAIN buf.data |->
                 IF i \in from .. buf.pos - 1 THEN x.data[i - from] ELSE buf.data[i]]
  IN  /\ at = "join" /\ at' = "responded"
      /\ buf' = [buf EXCEPT !.data = [data EXCEPT ![buf.pos - gap] = NUL],
                            !.pos = 0, !.lmt = buf.pos - gap]
      /\ hdr' = [pos |-> x.pos, lmt |-> x.lmt]
      /\ io' = NoIO /\ UNCHANGED <<pc, user, want, left, shown>>

\* The buffers on the stack are gone.
Return ==
  /\ at \in {"logged", "responded", "failed"} /\ at' = "idle"
  /\ buf' = NoBuf /\ io' = NoIO /\ hdr' = NoView
  /\ want' = <<>> /\ left' = <<>> /\ shown' = Nowhere
  /\ UNCHANGED <<pc, user>>

-----------------------------------------------------------------------------
Sizes(m, n) == UNION { [1 .. i -> Char] : i \in m .. n }

Same(m, n)  == UNION { [1 .. i -> {c}] : i \in m .. n, c \in Char }

\* Only a message may be empty.
Lines     == { p \in [1 .. 4 -> Same(0, 2)] : \A i \in 1 .. 3 : p[i] # <<>> }
Responses == Sizes(1, RespCap - Gap) \X Sizes(1, Gap)

UsersNext ==
  \/ user = "any" /\ Next /\ UNCHANGED <<user, at, mine>>
  \/ \E lvl \in 0 .. 4, p \in Lines : log_printf(lvl, p)
  \/ LogPiece \/ LogShow
  \/ \E p \in Responses : test_buf1(p)
  \/ PrintBody \/ PrintHeader \/ Join
  \/ Return

UsersSpec == UsersInit /\ [][UsersNext]_all /\ WF_vars(TryFits \/ TryAgain)

-----------------------------------------------------------------------------
\* A line is shown whole or not at all: exactly if its level is asked for and its pieces,
\* one after the other, leave room for the NUL of the last (evmtest1.cpp:60-137).
LineWhole ==
  LET line == want[1] \o want[2] \o want[3] \o want[4]
  IN  at = "logged" =>
        shown.text = IF shown.to # "none" /\ Len(line) < LineCap THEN line ELSE <<>>

\* The response is the header and, right behind it, the body, and ends there as a string,
\* whatever is left of the gap; it fails only when one of the two has no room
\* (mod_test1_buf1.c:32-91).
ResponseWhole ==
  /\ at = "responded" =>
       LET text == want[2] \o want[1]
       IN  /\ buf.lmt = Len(text) /\ buf.data[buf.lmt] = NUL
           /\ \A i \in 1 .. Len(text) : buf.data[i - 1] = text[i]
  /\ at = "failed" => Len(want[1]) >= RespCap - Gap \/ Len(want[2]) >= Gap

=============================================================================
