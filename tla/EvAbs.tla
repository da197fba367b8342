------------------------------- MODULE EvAbs -------------------------------
(***************************************************************************)
(* What aloe_ev_put and aloe_ev_once promise, without the records, queues  *)
(* and counters of ev.c: an event is armed by its registration, collected  *)
(* when it is due or its descriptor is ready, and then delivered to its    *)
(* callback, once.                                                         *)
(*                                                                         *)
(* The order is free between descriptors.  Events of one descriptor (the   *)
(* timers, of descriptor -1, count as one) are collected in the order of   *)
(* their registration, and all are delivered in the order they were        *)
(* collected.                                                              *)
(***************************************************************************)
EXTENDS Integers, Sequences

CONSTANTS NULL, INFINITE, Requests

Kinds == {"read", "write", "except"}

VARIABLES
  events,     \* the registrations so far, with the time they are due
  armed,      \* the events that wait
  pending,    \* the events collected, in the order they will be delivered
  now, ready, \* the clock, and the <<fd, kind>> the kernel would report
  phase,      \* client -> polled -> collect -> (deliver -> callback)* -> client
  seen,       \* what this round has found ready, and its time
  call        \* the callback that is running

vars == <<events, armed, pending, now, ready, phase, seen, call>>

NothingSeen == [found |-> {}, ts |-> 0]
NoCall      == [fd |-> -1, cb |-> NULL, triggered |-> {}, cbarg |-> 0]

Init ==
  /\ events = <<>> /\ armed = {} /\ pending = <<>>
  /\ now = 0 /\ ready = {}
  /\ phase = "client" /\ seen = NothingSeen /\ call = NoCall

Register(r) ==
  /\ phase \in {"client", "callback"}
  /\ events' = Append(events, [req |-> r, due |-> IF r.delay = INFINITE THEN INFINITE
                                                  ELSE now + r.delay])
  /\ armed' = armed \union {Len(events) + 1}
  /\ UNCHANGED <<pending, now, ready, phase, seen, call>>

\* The <<fd, kind>> the armed events wait for.
Awaited == UNION { { <<events[i].req.fd, k>> : k \in events[i].req.ev_wait } : i \in armed }

Poll ==
  /\ phase = "client" /\ phase' = "polled"
  /\ seen' = [NothingSeen EXCEPT !.found = Awaited \intersect ready]
  /\ UNCHANGED <<events, armed, pending, now, ready, call>>

PollFails ==
  /\ phase = "polled" /\ phase' = "client" /\ seen' = NothingSeen
  /\ UNCHANGED <<events, armed, pending, now, ready, call>>

ReadClock ==
  /\ phase = "polled" /\ phase' = "collect"
  /\ seen' = [seen EXCEPT !.ts = now]
  /\ UNCHANGED <<events, armed, pending, now, ready, call>>

\* Why event i is collected in this round: not at all, if this is empty.
Why(i) ==
  LET e  == events[i]
      io == { k \in e.req.ev_wait : <<e.req.fd, k>> \in seen.found }
  IN  IF io = {} /\ e.due # INFINITE /\ e.due <= seen.ts THEN {"time"} ELSE io

Collect(i) ==
  /\ phase = "collect" /\ i \in armed /\ Why(i) # {}
  /\ \A j \in armed : j < i /\ events[j].req.fd = events[i].req.fd => Why(j) = {}
  /\ armed' = armed \ {i}
  /\ pending' = Append(pending, [event |-> i, why |-> Why(i)])
  /\ UNCHANGED <<events, now, ready, phase, seen, call>>

\* Delivery begins when no armed event is ready or due.
Collected ==
  /\ \/ phase = "collect" /\ \A i \in armed : Why(i) = {}
     \/ phase = "polled" /\ armed = {}
  /\ phase' = "deliver" /\ seen' = NothingSeen
  /\ UNCHANGED <<events, armed, pending, now, ready, call>>

Deliver ==
  /\ phase = "deliver" /\ pending # <<>>
  /\ phase' = "callback" /\ pending' = Tail(pending)
  /\ LET i == Head(pending).event
     IN  call' = [fd |-> events[i].req.fd, cb |-> events[i].req.cb,
                  triggered |-> Head(pending).why, cbarg |-> i]
  /\ UNCHANGED <<events, armed, now, ready, seen>>

Return ==
  /\ phase = "callback" /\ phase' = "deliver" /\ call' = NoCall
  /\ ready' \in SUBSET ready
  /\ UNCHANGED <<events, armed, pending, now, seen>>

Delivered ==
  /\ phase = "deliver" /\ pending = <<>> /\ phase' = "client"
  /\ UNCHANGED <<events, armed, pending, now, ready, seen, call>>

Close ==
  /\ phase = "client" /\ phase' = "closed"
  /\ events' = <<>> /\ armed' = {} /\ pending' = <<>>
  /\ UNCHANGED <<now, ready, seen, call>>

Tick == now' = now + 1 /\ UNCHANGED <<events, armed, pending, ready, phase, seen, call>>

Arrive ==
  /\ \E x \in ({ r.fd : r \in Requests } \X Kinds) \ ready : ready' = ready \union {x}
  /\ UNCHANGED <<events, armed, pending, now, phase, seen, call>>

Next ==
  \/ \E r \in Requests : Register(r)
  \/ Poll \/ PollFails \/ ReadClock
  \/ (\E i \in armed : Collect(i)) \/ Collected
  \/ Deliver \/ Return \/ Delivered
  \/ Close \/ Tick \/ Arrive

Spec == Init /\ [][Next]_vars

=============================================================================
