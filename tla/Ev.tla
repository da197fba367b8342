--------------------------------- MODULE Ev ---------------------------------
(***************************************************************************)
(* The event context of ev.c: one thread that registers events on file     *)
(* descriptors and timeouts (aloe_ev_put), withdraws them (aloe_ev_cancel) *)
(* and runs them (aloe_ev_once: scan, select, collect, dispatch).          *)
(*                                                                         *)
(* The four queues of the context and the queue of every descriptor record *)
(* are modelled by their pointers (module Tailq), because aloe_ev_cancel   *)
(* does not keep the discipline that would let them be sequences.          *)
(*                                                                         *)
(* Time is counted in ticks, TICK of them to the microsecond (the code     *)
(* keeps nanoseconds and gives select microseconds).                       *)
(***************************************************************************)
EXTENDS Tailq

CONSTANTS INFINITE,     \* ALOE_EV_INFINITE
          FdRec,        \* addresses malloc may return for an aloe_ev_ctx_fd_t
          Noti,         \* addresses malloc may return for an aloe_ev_ctx_noti_t
          Requests,     \* the arguments the client may pass to aloe_ev_put
          TICK,         \* clock ticks in a microsecond
          BusyWait,     \* ALOE_EV_PREVENT_BUSY_WAITING, in microseconds
          CancelKinds,  \* "live": withdraw armed or pending events;
                        \* "stale": handles whose event was already delivered
          MaxPuts, MaxErrors, MaxTime   \* bounds

Kinds == {"read", "write", "except"}

Request == [fd : Int, cb : STRING, ev_wait : SUBSET Kinds, delay : Nat \union {INFINITE}]

FdHeads   == {"fd_q", "spare_fd_q"}
NotiHeads == {"noti_q", "spare_noti_q"}

ASSUME PoolsAssumption ==
  /\ IsFiniteSet(FdRec) /\ IsFiniteSet(Noti)
  /\ FdRec \cap Noti = {} /\ NULL \notin FdRec \union Noti
  /\ FdHeads \cap FdRec = {} /\ NotiHeads \cap (FdRec \union Noti) = {}
ASSUME RequestsAssumption ==
  /\ Requests \subseteq Request /\ INFINITE \notin Int
  /\ \A r \in Requests : r.fd >= -1 /\ (r.fd = -1 => r.ev_wait = {})
ASSUME BoundsAssumption ==
  /\ TICK \in Nat \ {0} /\ BusyWait \in Nat
  /\ CancelKinds \subseteq {"live", "stale"}
  /\ MaxPuts \in Nat /\ MaxErrors \in Nat /\ MaxTime \in Nat

VARIABLES
  fdm, notim,   \* the pointers of the queues of aloe_ev_ctx_fd_t and aloe_ev_ctx_noti_t
  fdno,         \* aloe_ev_ctx_fd_t.fd
  noti,         \* the other fields of aloe_ev_ctx_noti_t; cbarg numbers the registration
  alloc,        \* the records malloc has given out
  now,          \* CLOCK_MONOTONIC
  ready,        \* the <<fd, kind>> the kernel would report
  pc, loop,     \* where aloe_ev_once or aloe_ev_destroy is, and its locals
  call,         \* the callback that is running
  regs,         \* history: the registrations, their handle and what became of them
  errors,       \* history: system calls that failed
  corrupt       \* history: aloe_ev_cancel has found its event on a queue

queues == <<fdm, notim, fdno, noti, alloc>>
vars   == <<queues, now, ready, pc, loop, call, regs, errors, corrupt>>

FdCells   == FdHeads \union FdRec
NotiCells == NotiHeads \union FdRec \union Noti

\* Neither a descriptor nor an event: the content of memory not yet written.
NoNoti  == [fd |-> -1, cb |-> NULL, cbarg |-> 0, ev_wait |-> {}, due |-> INFINITE, ev_noti |-> {}]
NoFrame == [fdmax |-> -1, sets |-> {}, until |-> INFINITE, ts |-> 0,
            ev_fd |-> NULL, ev_noti |-> NULL, triggered |-> {}]
NoCall  == [fd |-> -1, cb |-> NULL, triggered |-> {}, cbarg |-> 0]

-----------------------------------------------------------------------------
\* aloe_ev_init
Init ==
  /\ fdm = [ptr |-> [c \in FdCells |-> NULL], back |-> [c \in FdCells |-> c]]
  /\ notim = [ptr |-> [c \in NotiCells |-> NULL], back |-> [c \in NotiCells |-> c]]
  /\ fdno = [f \in FdRec |-> -1]
  /\ noti = [n \in Noti |-> NoNoti]
  /\ alloc = {}
  /\ now = 0 /\ ready = {}
  /\ pc = "idle" /\ loop = NoFrame /\ call = NoCall
  /\ regs = <<>> /\ errors = 0 /\ corrupt = FALSE

\* An element changes from one queue to another.
KeepAndInsert(m, from, to, e) == TAILQ_INSERT_TAIL(m, to, e)   \* fault: not taken off
Move(m, from, to, e) == TAILQ_INSERT_TAIL(TAILQ_REMOVE(m, from, e), to, e)

\* The client runs between two calls of aloe_ev_once, or in a callback.
InClient == pc \in {"idle", "cb"}

\* A record of Q with descriptor fd; -1 stands for the first record, whatever its fd.
Find(fd, Q) ==
  LET found == { f \in Q : fdno[f] = fd }
  IN  IF fd = -1 THEN TAILQ_FIRST(fdm, "fd_q")
      ELSE IF found = {} THEN NULL ELSE CHOOSE f \in found : TRUE

FirstFd(fd)    == TAILQ_FIRST(fdm, "fd_q")                                \* fault: any record will do
FindBehind(fd) ==                                                         \* fault: the first is skipped
  Find(fd, Visited(fdm, "fd_q", FdRec) \ {TAILQ_FIRST(fdm, "fd_q")})
fd_q_find(fd)  == Find(fd, Visited(fdm, "fd_q", FdRec))

ObtainKept(m, spare, pool) ==      \* fault: what a spare queue gives stays on it
  IF TAILQ_EMPTY(m, spare)
  THEN { [rec |-> x, m |-> m] : x \in {NULL} \union (pool \ alloc) }
  ELSE { [rec |-> TAILQ_FIRST(m, spare), m |-> m] }

\* What a spare queue or, when it is empty, malloc may give.
Obtain(m, spare, pool) ==
  IF TAILQ_EMPTY(m, spare)
  THEN { [rec |-> x, m |-> m] :
           x \in {NULL} \union (IF pool \subseteq alloc THEN {}
                                ELSE { CHOOSE y \in pool \ alloc : TRUE }) }
  ELSE { [rec |-> TAILQ_FIRST(m, spare),
          m |-> TAILQ_REMOVE(m, spare, TAILQ_FIRST(m, spare))] }

ObtainFd(fd) ==
  IF fd_q_find(fd) # NULL THEN { [rec |-> fd_q_find(fd), m |-> fdm] }
                          ELSE Obtain(fdm, "spare_fd_q", FdRec)

ObtainNoti == Obtain(notim, "spare_noti_q", Noti)

Due(r) == IF r.delay = INFINITE THEN INFINITE ELSE now + r.delay

aloe_ev_put(r) ==
  \E f \in ObtainFd(r.fd), n \in ObtainNoti :
     /\ f.rec # NULL /\ n.rec # NULL
     /\ InClient /\ Len(regs) < MaxPuts
     /\ r.delay # INFINITE => now + r.delay <= MaxTime
     /\ IF fd_q_find(r.fd) # NULL
        THEN /\ UNCHANGED <<fdm, fdno>>
             /\ notim' = TAILQ_INSERT_TAIL(n.m, f.rec, n.rec)
        ELSE /\ fdm' = TAILQ_INSERT_TAIL(f.m, "fd_q", f.rec)
             /\ fdno' = [fdno EXCEPT ![f.rec] = r.fd]
             /\ notim' = TAILQ_INSERT_TAIL(TAILQ_INIT(n.m, f.rec), f.rec, n.rec)
     /\ noti' = [noti EXCEPT ![n.rec] =
                   [fd |-> r.fd, cb |-> r.cb, cbarg |-> Len(regs) + 1, ev_wait |-> r.ev_wait,
                    due |-> Due(r), ev_noti |-> @.ev_noti]]
     /\ alloc' = alloc \union {f.rec, n.rec}
     /\ regs' = Append(regs, [req |-> r, due |-> Due(r), ev |-> n.rec, st |-> "armed"])
     /\ UNCHANGED <<now, ready, pc, loop, call, errors, corrupt>>

PutNoMemoryLeak(r) ==      \* fault: the descriptor record is forgotten
  \E f \in ObtainFd(r.fd), n \in ObtainNoti :
     /\ InClient /\ Len(regs) < MaxPuts
     /\ f.rec # NULL /\ n.rec = NULL /\ fd_q_find(r.fd) = NULL
     /\ fdm' = f.m /\ alloc' = alloc \union {f.rec}
     /\ UNCHANGED <<notim, fdno, noti, now, ready, pc, loop, call, regs, errors, corrupt>>

\* malloc fails for the event: the descriptor record just obtained is kept spare.
\* (When it fails for the descriptor record nothing has changed.)
PutNoMemory(r) ==
  \E f \in ObtainFd(r.fd), n \in ObtainNoti :
     /\ InClient /\ Len(regs) < MaxPuts
     /\ f.rec # NULL /\ n.rec = NULL /\ fd_q_find(r.fd) = NULL
     /\ fdm' = TAILQ_INSERT_TAIL(f.m, "spare_fd_q", f.rec)
     /\ alloc' = alloc \union {f.rec}
     /\ UNCHANGED <<notim, fdno, noti, now, ready, pc, loop, call, regs, errors, corrupt>>

\* The client's view of a call of aloe_ev_cancel on registration i.
CancelCall(i) ==
  /\ InClient
  /\ (IF regs[i].st \in {"armed", "pending"} THEN "live" ELSE "stale") \in CancelKinds
  /\ regs' = [regs EXCEPT ![i].st = IF @ = "done" THEN @ ELSE "cancelled"]
  /\ UNCHANGED <<fdno, noti, alloc, now, ready, loop, call, errors>>

\* The event is on the queue of head h: it is put on spare_noti_q, but (as
\* noti_q_find does not pop an event it searches by address) not taken off h.
Recycle(h, n) ==
  /\ n \in Visited(notim, h, Noti)
  /\ notim' = TAILQ_INSERT_TAIL(notim, "spare_noti_q", n)
  /\ corrupt' = TRUE
  /\ UNCHANGED pc

\* The queue of the descriptor, which is searched first, if there is one.
SearchedFirst(n) == { fd_q_find(noti[n].fd) } \ {NULL}

CancelArmed(i) ==
  LET n == regs[i].ev
  IN  /\ CancelCall(i)
      /\ \E f \in SearchedFirst(n) :
           /\ Recycle(f, n)
           /\ fdm' = IF TAILQ_EMPTY(notim', f)
                     THEN Move(fdm, "fd_q", "spare_fd_q", f) ELSE fdm

CancelPending(i) ==
  LET n == regs[i].ev
  IN  /\ CancelCall(i)
      /\ \A f \in SearchedFirst(n) : n \notin Visited(notim, f, Noti) /\ ~ Endless(notim, f, Noti)
      /\ Recycle("noti_q", n)
      /\ UNCHANGED fdm

\* The event is on neither queue: nothing happens, or the search never ends.
CancelMiss(i) ==
  LET n        == regs[i].ev
      searched == SearchedFirst(n) \union {"noti_q"}
  IN  /\ CancelCall(i)
      /\ \A h \in searched : n \notin Visited(notim, h, Noti)
      /\ pc' = IF \E h \in searched : Endless(notim, h, Noti) THEN "hung" ELSE pc
      /\ UNCHANGED <<fdm, notim, corrupt>>

-----------------------------------------------------------------------------
(***************************************************************************)
(* aloe_ev_once.  The queues are scanned in one step, since nothing        *)
(* interrupts the scan; the loops that change them take a step for every   *)
(* record.                                                                 *)
(***************************************************************************)

\* Fault: a due time counts only without descriptors.
WaitForFds(due, fdmax) == IF fdmax = -1 THEN BusyWait ELSE INFINITE

\* Microseconds select may wait, when due is the earliest of the events' dues.
SelectTimeout(due, fdmax) ==
  LET wait == IF due # INFINITE THEN (IF now < due THEN (due - now) \div TICK ELSE 0)
              ELSE IF fdmax = -1 THEN 0 ELSE INFINITE
  IN  IF wait # INFINITE /\ wait < BusyWait THEN BusyWait ELSE wait

\* The scan keeps the earliest of the due times.  (Fault: the latest.)
Latest(due, dues)   == \A d \in dues : d <= due
Earliest(due, dues) == \A d \in dues : due <= d

OnceBegin ==
  LET fds   == Visited(fdm, "fd_q", FdRec)
      on(f) == Visited(notim, f, Noti)
      fdnos == { fdno[f] : f \in fds } \ {-1}
      dues  == (UNION { { noti[n].due : n \in on(f) } : f \in fds }) \ {INFINITE}
      sets  == { x \in fdnos \X Kinds :
                   \E f \in fds : /\ fdno[f] = x[1]
                                  /\ \E n \in on(f) : x[2] \in noti[n].ev_wait }
  IN  /\ pc = "idle"
      /\ IF \E f \in fds : Endless(notim, f, Noti)
         THEN pc' = "hung" /\ UNCHANGED loop
         ELSE /\ pc' = "select"
              /\ \E due \in IF dues = {} THEN {INFINITE} ELSE dues, fdmax \in fdnos \union {-1} :
                   /\ Earliest(due, dues)
                   /\ \A fd \in fdnos : fd <= fdmax
                   /\ loop' = [NoFrame EXCEPT
                        !.fdmax = fdmax, !.sets = sets,
                        !.until = LET wait == SelectTimeout(due, fdmax)
                                  IN IF wait = INFINITE THEN INFINITE ELSE now + TICK * wait]
      /\ UNCHANGED <<queues, now, ready, call, regs, errors, corrupt>>

\* select looks at the descriptors up to fdmax.  It returns when one of those in
\* the sets is ready, or when the time is over (the clock stops at MaxTime).
SelectReturn ==
  LET found == { x \in loop.sets \intersect ready : x[1] <= loop.fdmax }
  IN  /\ pc = "select"
      /\ \/ found # {}
         \/ loop.until # INFINITE /\ (now >= loop.until \/ now = MaxTime)
      /\ pc' = "clock"
      /\ loop' = [loop EXCEPT !.sets = found, !.fdmax = Cardinality(found)]
      /\ UNCHANGED <<queues, now, ready, call, regs, errors, corrupt>>

\* A failing select or clock_gettime: aloe_ev_once returns before it collects.
OnceError ==
  /\ pc \in {"select", "clock"} /\ errors < MaxErrors
  /\ pc' = "idle" /\ loop' = NoFrame /\ errors' = errors + 1
  /\ UNCHANGED <<queues, now, ready, call, regs, corrupt>>

\* What select has found for record f, given the locals l of the collecting loop:
\* fdmax counts down the findings that are still to come.
TriggeredEarlyEnd(f, l) ==      \* fault: the last finding is not looked for
  IF l.fdmax > 1 /\ fdno[f] # -1 THEN { k \in Kinds : <<fdno[f], k>> \in l.sets } ELSE {}
Triggered(f, l) ==
  IF l.fdmax > 0 /\ fdno[f] # -1 THEN { k \in Kinds : <<fdno[f], k>> \in l.sets } ELSE {}

\* The collecting loop enters record f (of fd_q), or ends.
EnterFd(f, l) ==
  IF f = NULL THEN pc' = "dispatch" /\ loop' = NoFrame
  ELSE /\ pc' = "collect"
       /\ loop' = [l EXCEPT !.ev_fd = f, !.ev_noti = TAILQ_FIRST(notim, f),
                            !.triggered = Triggered(f, l),
                            !.fdmax = @ - Cardinality(Triggered(f, l))]

ReadClock ==
  /\ pc = "clock"
  /\ EnterFd(TAILQ_FIRST(fdm, "fd_q"), [loop EXCEPT !.ts = now])
  /\ UNCHANGED <<queues, now, ready, call, regs, errors, corrupt>>

\* What aloe_ev_once reports for event n: time only when no descriptor is ready.
Notified(n) ==
  LET io == loop.triggered \intersect noti[n].ev_wait
  IN  IF io = {} /\ noti[n].due # INFINITE /\ noti[n].due <= loop.ts THEN {"time"} ELSE io

CollectNoti ==
  LET n == loop.ev_noti
      f == loop.ev_fd
  IN  /\ pc = "collect" /\ n # NULL
      /\ noti' = [noti EXCEPT ![n].ev_noti = Notified(n)]
      /\ loop' = [loop EXCEPT !.ev_noti = TAILQ_NEXT(notim, n)]
      /\ IF Notified(n) = {} THEN UNCHANGED <<notim, regs>>
         ELSE /\ notim' = Move(notim, f, "noti_q", n)
              /\ regs' = [regs EXCEPT ![noti[n].cbarg].st = IF @ = "armed" THEN "pending" ELSE @]
      /\ UNCHANGED <<fdm, fdno, alloc, now, ready, pc, call, errors, corrupt>>

CollectFd ==
  LET f == loop.ev_fd
  IN  /\ pc = "collect" /\ loop.ev_noti = NULL
      /\ fdm' = IF TAILQ_EMPTY(notim, f)
                THEN Move(fdm, "fd_q", "spare_fd_q", f) ELSE fdm
      /\ EnterFd(TAILQ_NEXT(fdm, f), loop)
      /\ UNCHANGED <<notim, fdno, noti, alloc, now, ready, call, regs, errors, corrupt>>

\* The record is spare before its callback runs, which may put it to use again.
Dispatch ==
  LET n == TAILQ_FIRST(notim, "noti_q")
  IN  /\ pc = "dispatch" /\ n # NULL
      /\ pc' = "cb"
      /\ notim' = Move(notim, "noti_q", "spare_noti_q", n)
      /\ call' = [fd |-> noti[n].fd, cb |-> noti[n].cb,
                  triggered |-> noti[n].ev_noti, cbarg |-> noti[n].cbarg]
      /\ regs' = [regs EXCEPT ![noti[n].cbarg].st = IF @ = "pending" THEN "done" ELSE @]
      /\ UNCHANGED <<fdm, fdno, noti, alloc, now, ready, loop, errors, corrupt>>

\* The callback serves the descriptor it was told of.  (One that leaves data unread
\* is as one whose descriptor becomes ready again before the next select.)
CbReturn ==
  /\ pc = "cb" /\ pc' = "dispatch" /\ call' = NoCall
  /\ ready' = ready \ { <<call.fd, k>> : k \in call.triggered }
  /\ UNCHANGED <<queues, now, loop, regs, errors, corrupt>>

OnceReturn ==
  /\ pc = "dispatch" /\ TAILQ_EMPTY(notim, "noti_q")
  /\ pc' = "idle"
  /\ UNCHANGED <<queues, now, ready, loop, call, regs, errors, corrupt>>

-----------------------------------------------------------------------------
(***************************************************************************)
(* aloe_ev_destroy, a step for every record freed.  Freeing a record that  *)
(* is not allocated ends the program in the state "dead".                  *)
(***************************************************************************)

DestroyBegin ==
  /\ pc = "idle" /\ pc' = "free_fd"
  /\ UNCHANGED <<queues, now, ready, loop, call, regs, errors, corrupt>>

\* The first event of queue h is taken off and freed.
FreeNoti(h) ==
  LET n == TAILQ_FIRST(notim, h)
  IN  /\ n # NULL
      /\ notim' = TAILQ_REMOVE(notim, h, n)
      /\ alloc' = alloc \ {n}
      /\ pc' = IF {n, notim.ptr[n], notim.back[n]} \ ({NULL} \union NotiHeads) \subseteq alloc
               THEN pc ELSE "dead"

DestroyFd ==
  LET f == loop.ev_fd
  IN  /\ pc = "free_fd"
      /\ \/ /\ f = NULL /\ ~ TAILQ_EMPTY(fdm, "fd_q")
            /\ fdm' = TAILQ_REMOVE(fdm, "fd_q", TAILQ_FIRST(fdm, "fd_q"))
            /\ loop' = [loop EXCEPT !.ev_fd = TAILQ_FIRST(fdm, "fd_q")]
            /\ UNCHANGED <<notim, alloc, pc>>
         \/ /\ f = NULL /\ TAILQ_EMPTY(fdm, "fd_q")
            /\ pc' = "free_spare_fd"
            /\ UNCHANGED <<fdm, notim, alloc, loop>>
         \/ /\ f # NULL /\ FreeNoti(f)
            /\ UNCHANGED <<fdm, loop>>
         \/ /\ f # NULL /\ TAILQ_EMPTY(notim, f)
            /\ alloc' = alloc \ {f}
            /\ loop' = NoFrame
            /\ UNCHANGED <<fdm, notim, pc>>
      /\ UNCHANGED <<fdno, noti, now, ready, call, regs, errors, corrupt>>

DestroyNoSpareFd ==      \* fault: the spare records are not freed
  /\ pc = "free_spare_fd" /\ pc' = "free_noti"
  /\ UNCHANGED <<queues, now, ready, loop, call, regs, errors, corrupt>>

\* The records of spare_fd_q are taken off with fd_q for the head, as in the code.
DestroySpareFd ==
  LET f == TAILQ_FIRST(fdm, "spare_fd_q")
  IN  /\ pc = "free_spare_fd"
      /\ IF f = NULL
         THEN pc' = "free_noti" /\ UNCHANGED <<fdm, alloc>>
         ELSE /\ fdm' = TAILQ_REMOVE(fdm, "fd_q", f)
              /\ alloc' = alloc \ {f}
              /\ pc' = IF {f, fdm.ptr[f], fdm.back[f]} \ ({NULL} \union FdHeads) \subseteq alloc
                       THEN pc ELSE "dead"
      /\ UNCHANGED <<notim, fdno, noti, now, ready, loop, call, regs, errors, corrupt>>

DestroyNoti ==
  /\ \/ pc = "free_noti" /\ FreeNoti("noti_q")
     \/ pc = "free_spare_noti" /\ FreeNoti("spare_noti_q")
     \/ /\ pc = "free_noti" /\ TAILQ_EMPTY(notim, "noti_q")
        /\ pc' = "free_spare_noti" /\ UNCHANGED <<notim, alloc>>
     \/ /\ pc = "free_spare_noti" /\ TAILQ_EMPTY(notim, "spare_noti_q")
        /\ pc' = "gone" /\ UNCHANGED <<notim, alloc>>
  /\ UNCHANGED <<fdm, fdno, noti, now, ready, loop, call, regs, errors, corrupt>>

-----------------------------------------------------------------------------
(***************************************************************************)
(* The environment.  Time passes and descriptors become ready whenever     *)
(* they like; as steps of their own they are only needed where the clock   *)
(* or the descriptors are looked at next.                                  *)
(***************************************************************************)

Tick ==
  /\ pc \in {"idle", "cb", "select", "clock"} /\ now < MaxTime
  /\ now' = now + 1
  /\ UNCHANGED <<queues, ready, pc, loop, call, regs, errors, corrupt>>

Arrive ==
  /\ pc = "select"
  /\ \E x \in loop.sets \ ready : ready' = ready \union {x}
  /\ UNCHANGED <<queues, now, pc, loop, call, regs, errors, corrupt>>

\* The context is destroyed, or the program is lost.
Stopped == pc \in {"gone", "dead", "hung"} /\ UNCHANGED vars

Client ==
  \/ \E r \in Requests : aloe_ev_put(r) \/ PutNoMemory(r)
  \/ \E i \in 1 .. Len(regs) : CancelArmed(i) \/ CancelPending(i) \/ CancelMiss(i)
  \/ DestroyBegin

Once ==
  \/ OnceBegin \/ SelectReturn \/ ReadClock
  \/ CollectNoti \/ CollectFd
  \/ Dispatch \/ CbReturn \/ OnceReturn

Freeing == DestroyFd \/ DestroySpareFd \/ DestroyNoti

Next == Client \/ Once \/ OnceError \/ Freeing \/ Tick \/ Arrive \/ Stopped

Spec == Init /\ [][Next]_vars

\* main calls aloe_ev_once again and again, callbacks return, time passes.
FairSpec == Spec /\ WF_vars(Once) /\ WF_vars(Freeing) /\ WF_vars(Tick)

=============================================================================
