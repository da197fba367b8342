----------------------------- MODULE EvRefines -----------------------------
(***************************************************************************)
(* The event context of ev.c implements module EvAbs, when aloe_ev_cancel  *)
(* is not used.  What waits and what is pending is read off the pointers.  *)
(***************************************************************************)
EXTENDS EvProps

\* The registrations on the queues of the records of fd_q, and those on noti_q.
ArmedEvents == UNION { { noti[n].cbarg : n \in Events(f) } : f \in FdQueue }

PendingEvents ==
  LET q == Contents(notim, "noti_q", Noti)
  IN  [i \in 1 .. Len(q) |-> [event |-> noti[q[i]].cbarg, why |-> noti[q[i]].ev_noti]]

\* The waiting in select is part of the client's time in EvAbs.
Phase ==
  CASE pc \in {"idle", "select"} -> "client"
    [] pc = "clock"              -> "polled"
    [] pc = "collect"            -> "collect"
    [] pc = "dispatch"           -> "deliver"
    [] pc = "cb"                 -> "callback"
    [] OTHER                     -> "closed"

\* fd_set and clock of the round; loop.sets holds the request until select returns.
Seen ==
  [found |-> IF pc \in {"clock", "collect"} THEN loop.sets ELSE {},
   ts    |-> IF pc = "collect" THEN loop.ts ELSE 0]

\* A context that is destroyed has forgotten its events.
Registered ==
  IF Running THEN [i \in Registrations |-> [req |-> regs[i].req, due |-> regs[i].due]] ELSE <<>>
Armed   == IF Running THEN ArmedEvents ELSE {}
Pending == IF Running THEN PendingEvents ELSE <<>>

Abs == INSTANCE EvAbs WITH
  events <- Registered, armed <- Armed, pending <- Pending, phase <- Phase, seen <- Seen

\* Every step of ev.c on its records and queues is a step of EvAbs, or none: each
\* event is collected exactly when it is ready or due, in order, and delivered once
\* to its own callback.
ImplementsEvAbs == Abs!Spec

=============================================================================
