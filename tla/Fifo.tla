-------------------------------- MODULE Fifo --------------------------------
(***************************************************************************)
(* What the ring buffer of misc.c promises: a queue of bytes with a        *)
(* capacity.  A call moves bytes in or out in portions of any size, and    *)
(* returns when it has moved what it will say it has: all of the request,  *)
(* or as much as there was room or content for.                            *)
(*                                                                         *)
(* Growing empties the queue.  (This is what the code does.  The flag      *)
(* aloe_buf_flag_retain_rinbuf asks for the content to be retained: see    *)
(* RetainKeeps in module RinBufProps.)                                     *)
(***************************************************************************)
EXTENDS Integers, Sequences

CONSTANTS Byte, Caps, MaxSize

VARIABLES q, cap,   \* the content, first byte first, and the most it may hold
          doing,    \* nothing, put, get or grow
          todo,     \* the bytes still to be put
          got,      \* the bytes got so far
          due       \* how many more this call will move

vars == <<q, cap, doing, todo, got, due>>

MinOf(a, b) == IF a <= b THEN a ELSE b

Init == q = <<>> /\ cap = 0 /\ doing = "nothing" /\ todo = <<>> /\ got = <<>> /\ due = 0

\* A call does not end before it has moved all it is due to move.
Goes == doing' \in {"nothing", doing} /\ (doing' = "nothing" => due' = 0)

Put(s) ==
  /\ doing = "nothing" /\ doing' = "put"
  /\ todo' = s /\ got' = <<>> /\ due' = MinOf(Len(s), cap - Len(q))
  /\ UNCHANGED <<q, cap>>

Accept(n) ==
  /\ doing = "put" /\ n <= due
  /\ q' = q \o SubSeq(todo, 1, n) /\ todo' = SubSeq(todo, n + 1, Len(todo))
  /\ due' = due - n
  /\ Goes
  /\ UNCHANGED <<cap, got>>

Get(n) ==
  /\ doing = "nothing" /\ doing' = "get"
  /\ todo' = <<>> /\ got' = <<>> /\ due' = MinOf(n, Len(q))
  /\ UNCHANGED <<q, cap>>

Yield(n) ==
  /\ doing = "get" /\ n <= due
  /\ got' = got \o SubSeq(q, 1, n) /\ q' = SubSeq(q, n + 1, Len(q))
  /\ due' = due - n
  /\ Goes
  /\ UNCHANGED <<cap, todo>>

\* A queue that has no memory yet grows at once.
Grow ==
  /\ doing = "nothing" /\ todo' = <<>> /\ got' = <<>> /\ due' = 0
  /\ \/ doing' = "grow" /\ UNCHANGED <<q, cap>>
     \/ \E c \in Caps : c > cap /\ q = <<>> /\ cap' = c /\ UNCHANGED <<q, doing>>

Grown ==
  /\ doing = "grow" /\ doing' = "nothing"
  /\ \E c \in Caps : c > cap /\ cap' = c
  /\ q' = <<>>
  /\ UNCHANGED <<todo, got, due>>

Next ==
  \/ \E n \in 0 .. MaxSize : \E s \in [1 .. n -> Byte] : Put(s)
  \/ \E n \in 0 .. MaxSize : Get(n)
  \/ \E n \in 0 .. due : Accept(n) \/ Yield(n)
  \/ Grow \/ Grown

Spec == Init /\ [][Next]_vars

=============================================================================
