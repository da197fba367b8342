------------------------------ MODULE EvProps ------------------------------
(***************************************************************************)
(* What the event context of ev.c promises: the properties of module Ev.   *)
(***************************************************************************)
EXTENDS Ev

Registrations == 1 .. Len(regs)

\* The context exists and aloe_ev_destroy has not been called.
Running == pc \in {"idle", "select", "clock", "collect", "dispatch", "cb"}

\* The records of fd_q, and the events on the queue of head h.
FdQueue   == Visited(fdm, "fd_q", FdRec)
Events(h) == Visited(notim, h, Noti)

-----------------------------------------------------------------------------
\* Every variable has its type, and the records the collecting loop works on are
\* records.  (ev.c keeps no type information at run time: every void* is cast.)
TypeOK ==
  /\ fdm.ptr \in [FdCells -> FdRec \union {NULL}]
  /\ fdm.back \in [FdCells -> FdCells]
  /\ notim.ptr \in [NotiCells -> Noti \union {NULL}]
  /\ notim.back \in [NotiCells -> NotiCells]
  /\ fdno \in [FdRec -> Int]
  /\ noti \in [Noti -> [fd : Int, cb : STRING \union {NULL}, cbarg : Nat, ev_wait : SUBSET Kinds,
                        due : Nat \union {INFINITE}, ev_noti : SUBSET (Kinds \union {"time"})]]
  /\ alloc \subseteq FdRec \union Noti
  /\ now \in Nat /\ errors \in Nat /\ corrupt \in BOOLEAN
  /\ ready \subseteq Int \X Kinds
  /\ pc \in {"idle", "select", "clock", "collect", "dispatch", "cb", "hung",
             "free_fd", "free_spare_fd", "free_noti", "free_spare_noti", "gone", "dead"}
  /\ loop \in [fdmax : Int, sets : SUBSET (Int \X Kinds), until : Nat \union {INFINITE},
               ts : Nat, ev_fd : FdRec \union {NULL}, ev_noti : Noti \union {NULL},
               triggered : SUBSET Kinds]
  /\ IsFiniteSet(loop.sets)
  /\ pc = "collect" => loop.ev_fd # NULL
  /\ call \in [fd : Int, cb : STRING \union {NULL}, triggered : SUBSET (Kinds \union {"time"}), cbarg : Nat]
  /\ regs \in Seq([req : Requests, due : Nat \union {INFINITE}, ev : Noti,
                   st : {"armed", "pending", "done", "cancelled"}])

\* The queues of descriptor records are always well linked, and no record is on
\* both: even when aloe_ev_cancel has spoilt the queues of events.
FdQueuesOK == Running => WellLinked(fdm, FdHeads, FdRec)

\* The queues of events - the two of the context and the one of every record on
\* fd_q - are well linked and no event is on two of them, as long as no
\* aloe_ev_cancel has found its event.
NotiQueuesOK ==
  Running /\ ~ corrupt => WellLinked(notim, NotiHeads \union FdQueue, Noti)

\* fd_q has one record to a descriptor and, as long as no aloe_ev_cancel has found its
\* event, none that waits for nothing (but the one aloe_ev_once is just emptying).
OneRecordPerFd ==
  Running =>
    /\ \A f, g \in FdQueue : fdno[f] = fdno[g] => f = g
    /\ \A f \in FdQueue :
         TAILQ_EMPTY(notim, f) /\ ~ corrupt => pc = "collect" /\ loop.ev_fd = f

\* Every registration not yet delivered is on exactly the queue that its state
\* demands, in a record that still holds it; a timer (fd -1) is on the queue of the
\* first record, whichever descriptor that is for.  What is on these queues is a
\* registration not yet delivered.
Accounted ==
  Running /\ ~ corrupt =>
    /\ \A i \in Registrations :
         LET r == regs[i]
         IN  /\ r.st = "armed" =>
                  \E f \in FdQueue :
                     /\ r.ev \in Events(f)
                     /\ IF r.req.fd = -1 THEN f = TAILQ_FIRST(fdm, "fd_q")
                                         ELSE r.req.fd = fdno[f]
             /\ r.st = "pending" => r.ev \in Events("noti_q")
             /\ r.st \in {"armed", "pending"} => noti[r.ev].cbarg = i
    /\ \A f \in FdQueue : \A n \in Events(f) : regs[noti[n].cbarg].st = "armed"
    /\ \A n \in Events("noti_q") : regs[noti[n].cbarg].st = "pending"

\* Every record that malloc gave out is on a queue, where it is used or kept for
\* later, and what is on a queue was given out: nothing leaks on the error paths.
NothingLeaks ==
  Running /\ ~ corrupt =>
    alloc = (UNION { Visited(fdm, h, FdRec) : h \in FdHeads })
            \union (UNION { Events(h) : h \in NotiHeads \union FdQueue })

\* What select is given: the descriptors and the kinds of every armed registration,
\* and a timeout that ends by the earliest due time, or after the pause that
\* ALOE_EV_PREVENT_BUSY_WAITING asks for.
SelectsWhatIsArmed ==
  pc = "select" /\ ~ corrupt =>
    \A i \in Registrations :
      LET r == regs[i]
      IN  r.st = "armed" =>
            /\ \A k \in r.req.ev_wait : /\ <<r.req.fd, k>> \in loop.sets
                                        /\ r.req.fd <= loop.fdmax
            /\ r.due # INFINITE =>
                 /\ loop.until # INFINITE
                 /\ loop.until <= r.due \/ loop.until <= now + TICK * BusyWait

\* As long as no aloe_ev_cancel has found its event: no loop is endless, nothing is
\* freed twice, and aloe_ev_destroy frees all there is.
FreedOnce == ~ corrupt => pc \notin {"hung", "dead"} /\ (pc = "gone" => alloc = {})

-----------------------------------------------------------------------------
\* "Remove the event from internal process." (include/aloe/ev.h:40)  The callback of
\* a registration that was withdrawn before it was called is not called.
CancelledNotDelivered ==
  [][ pc = "dispatch" /\ pc' = "cb" => regs[call'.cbarg].st # "cancelled" ]_vars

-----------------------------------------------------------------------------
(***************************************************************************)
(* Liveness, as long as no aloe_ev_cancel has found its event: after that  *)
(* a loop may be endless.                                                  *)
(***************************************************************************)

\* Once select has returned aloe_ev_once returns, whatever its callbacks register.
OnceReturns == pc \in {"clock", "collect", "dispatch", "cb"} ~> pc = "idle" \/ corrupt

\* Every registration with a timeout is delivered, unless the context is destroyed
\* first.
TimerDelivered ==
  \A i \in 1 .. MaxPuts :
    i \in Registrations /\ regs[i].due # INFINITE
      ~> (i \in Registrations /\ regs[i].st = "done") \/ ~ Running \/ corrupt

\* No registration stays armed for ever while its descriptor is ready.
ReadyDelivered ==
  \A i \in 1 .. MaxPuts :
    []<> ~ ( /\ i \in Registrations /\ regs[i].st = "armed"
             /\ \E k \in regs[i].req.ev_wait : <<regs[i].req.fd, k>> \in ready
             /\ Running /\ ~ corrupt )

=============================================================================
