---------------------------- MODULE ProgramProps ----------------------------
(***************************************************************************)
(* What the program promises its user, and what its modules rely on.       *)
(***************************************************************************)
EXTENDS Program

\* The registrations of the fifo that will still be called back, and the callback that
\* has yet to renew its own.
Waiting   == { i \in armed : events[i].req.fd = Fifo }
Collected == { i \in DOMAIN pending : events[pending[i].event].req.fd = Fifo }
Renewing  == step \in {"read", "rearm"}

\* As long as main loops with a control path, the fifo has exactly one registration, in
\* the event context or about to be renewed: through any reads that fail, find nothing or
\* take a part.  A registration lasts for one delivery, so one forgotten renewal ends the
\* control interface, and one too many multiplies it.  Only a failing aloe_ev_put ends it
\* (mod_cli.c:42-79).
FifoStaysServed ==
  pc = "loop" /\ ctrl_path # NULL /\ ~ starved =>
    \/ \E i \in armed : Waiting = {i} /\ Collected = {} /\ ~ Renewing
    \/ \E i \in DOMAIN pending : Waiting = {} /\ Collected = {i} /\ ~ Renewing
    \/ Waiting = {} /\ Collected = {} /\ Renewing

\* What the event context waits for while main loops is open: on a closed descriptor
\* select fails in every round, for all (mod_cli.c:66, 185; ev.c:199).
WaitsOnOpen == pc = "loop" => \A i \in armed : events[i].req.fd \in open

\* No module outlives the event context, nor that the configuration, whatever fails
\* during the start (evmtest1.cpp:231-277).
Nested ==
  /\ held \intersect {"cli", "micloop"} # {} => "ev" \in held
  /\ "ev" \in held => "cfg" \in held

\* main returns with everything it allocated freed.  It dies only in the error path of
\* the cli module's init, with the module's context allocated and not started
\* (evmtest1.cpp:267-279, mod_cli.c:180-191).
ReleasedAtExit ==
  /\ pc = "exit"  => held = {}
  /\ pc = "crash" => "cli" \in held /\ mod_q = <<>>

\* Data in the control fifo is read in the end, unless aloe_ev_put fails
\* (mod_cli.c:42-79, evmtest1.cpp:262-265).
CommandsRead == (pc = "loop" /\ data > 0) ~> (data = 0 \/ starved)

=============================================================================
