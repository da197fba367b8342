---------------------------- MODULE ProgramProofs ----------------------------
(***************************************************************************)
(* Proofs about Program, for every number of options, registrations and    *)
(* writes, and every port: what was started is unwound in order, what is   *)
(* waited for is open, and the control fifo stays served.                  *)
(***************************************************************************)
EXTENDS ProgramProps, SequenceTheorems, TLAPS

USE DEF Fifo, Port, Listeners, CTRL_PORT, CTRL_PORT_NONE

Before == {"options", "cfg", "ev", "cli", "fifo"}       \* nothing is registered yet
Up     == {"port", "cli_up", "micloop", "loop"}         \* the fifo is, if it is asked for

\* Where main is, and where within a callback.
Places ==
  /\ pc \in Before \union Up \union {"undo", "crash", "finally", "exit"}
  /\ step \in {"idle", "read", "rearm", "return"}
  /\ pc # "loop" => step = "idle"
  /\ pc \in Before \union (Up \ {"loop"}) => phase = "client"
  /\ pc = "loop" => phase \in {"client", "polled", "collect", "deliver", "callback"}
  /\ pc = "loop" => (phase = "callback" <=> step # "idle")

\* What is allocated, and what is queued to be unwound, by the place main is at.
Held ==
  /\ pc \in {"options", "cfg"} => held = {} /\ mod_q = <<>>
  /\ pc = "ev"  => held = {"cfg"} /\ mod_q = <<>>
  /\ pc = "cli" => held = {"cfg", "ev"} /\ mod_q = <<>>
  /\ pc \in {"fifo", "port", "cli_up", "undo", "crash"} =>
       held = {"cfg", "ev", "cli"} /\ mod_q = <<>>
  /\ pc = "micloop" => held = {"cfg", "ev", "cli"} /\ mod_q = <<"cli">>
  /\ pc = "loop"    => {"cfg", "ev", "cli"} \subseteq held
  /\ pc = "finally" => \/ held = {"cfg", "ev", "cli"} /\ mod_q = <<"cli">>
                       \/ held \in {{}, {"cfg"}, {"cfg", "ev"}} /\ mod_q = <<>>
  /\ pc = "exit"    => held = {}

\* The registrations, and the places they are at.
Event   == [req : Requests, due : {INFINITE}]
Outcome == [event : Nat, why : SUBSET {"read"}]

Registered ==
  /\ events \in Seq(Event) /\ armed \subseteq 1 .. Len(events)
  /\ pending \in Seq(Outcome)
  /\ \A k \in 1 .. Len(pending) : pending[k].event \in 1 .. Len(events)
  /\ pc \in Before => events = <<>>
  /\ pc \in Before \union (Up \ {"loop"}) => pending = <<>>

\* All that was registered is open, as is the fifo that is being read.
Opened ==
  pc \in Up =>
    /\ \A i \in 1 .. Len(events) : events[i].req.fd \in open
    /\ Renewing => Fifo \in open

\* FifoStaysServed, element by element, and from the start of the fifo on.
OneWaits  == \E i \in armed : \A j \in armed : events[j].req.fd = Fifo <=> j = i
NoneWaits == \A j \in armed : events[j].req.fd # Fifo
OneCame   == \E k \in 1 .. Len(pending) : \A l \in 1 .. Len(pending) :
                 events[pending[l].event].req.fd = Fifo <=> l = k
NoneCame  == \A l \in 1 .. Len(pending) : events[pending[l].event].req.fd # Fifo

Served ==
  pc \in Up /\ ctrl_path # NULL /\ ~ starved =>
    \/ OneWaits  /\ NoneCame /\ ~ Renewing
    \/ NoneWaits /\ OneCame  /\ ~ Renewing
    \/ NoneWaits /\ NoneCame /\ Renewing

ProgramInv == Places /\ Held /\ Registered /\ Opened /\ Served

-----------------------------------------------------------------------------
LEMMA ProgramInit == Init => ProgramInv
<1> SUFFICES ASSUME Init PROVE ProgramInv
  OBVIOUS
<1>1. Places /\ Held /\ Opened /\ Served
  BY DEF Init, ev!Init, Places, Before, Up, Held, Opened, Served
<1>2. Registered
  <2>1. <<>> \in Seq(Event) /\ <<>> \in Seq(Outcome) /\ Len(<<>>) = 0
    BY EmptySeq
  <2> QED
    BY <2>1 DEF Init, ev!Init, Registered
<1> QED
  BY <1>1, <1>2 DEF ProgramInv

\* The requests tell their descriptor and callback.
LEMMA RequestsKnown ==
  /\ ReadRequest.fd = Fifo /\ ReadRequest.cb = "ctrl_on_read" /\ ReadRequest.ev_wait = {"read"}
  /\ AcceptRequest.fd = Port /\ AcceptRequest.cb = "ctrl_on_accept" /\ AcceptRequest.ev_wait = {"read"}
  /\ ReadRequest.delay = INFINITE /\ AcceptRequest.delay = INFINITE
  BY DEF ReadRequest, AcceptRequest, Request

\* Before main loops nothing but registering happens to the event context; the options and
\* the contexts do not touch it.
LEMMA StartKeeps ==
  ASSUME ProgramInv, Option \/ OptionsRead \/ InitContexts \/ CliAlloc \/ CliUp \/ InitMicloop
  PROVE  ProgramInv'
<1>1. /\ UNCHANGED <<events, armed, pending, phase, step, open, starved>>
      /\ pc \in {"options", "cfg", "ev", "cli", "cli_up", "micloop"}
      /\ pc' \in {"options", "cfg", "ev", "cli", "fifo", "micloop", "loop", "finally"}
      /\ pc' \in Before => pc \in Before
      /\ pc' \in Up => pc \in Up
      /\ pc' \in Up => UNCHANGED ctrl_path
  BY DEF Option, OptionsRead, InitContexts, CliAlloc, CliUp, InitMicloop, Obtain, evvars, cli,
         settings, Before, Up
<1>2. Places'
  BY <1>1 DEF ProgramInv, Places, Before, Up
<1>3. Held'
  <2> USE DEF ProgramInv, Held
  <2>1. CASE Option \/ OptionsRead
    BY <2>1 DEF Option, OptionsRead
  <2>2. CASE InitContexts
    BY <2>2 DEF InitContexts, Obtain
  <2>3. CASE CliAlloc
    BY <2>3 DEF CliAlloc, Obtain
  <2>4. CASE CliUp
    BY <2>4 DEF CliUp, Started
  <2>5. CASE InitMicloop
    BY <2>5 DEF InitMicloop, Obtain, Started
  <2> QED
    BY <2>1, <2>2, <2>3, <2>4, <2>5
<1>4. Registered'
  BY <1>1 DEF ProgramInv, Registered, Before, Up
<1>5. Opened'
  BY <1>1 DEF ProgramInv, Opened, Renewing
<1>6. Served'
  BY <1>1 DEF ProgramInv, Served, Renewing, OneWaits, NoneWaits, OneCame, NoneCame
<1> QED
  BY <1>2, <1>3, <1>4, <1>5, <1>6 DEF ProgramInv

-----------------------------------------------------------------------------
\* A registration comes behind the others, and waits.
LEMMA Registers ==
  ASSUME Registered, NEW r \in Requests, ev!Register(r)
  PROVE  /\ events' \in Seq(Event) /\ Len(events) \in Nat /\ Len(events') = Len(events) + 1
         /\ \A i \in 1 .. Len(events) : events'[i] = events[i]
         /\ events'[Len(events) + 1].req = r
         /\ armed' = armed \union {Len(events) + 1}
         /\ UNCHANGED <<pending, phase>>
<1>1. /\ armed' = armed \union {Len(events) + 1} /\ UNCHANGED <<pending, phase>>
      /\ events' = Append(events, [req |-> r, due |-> INFINITE])
  BY RequestsKnown DEF ev!Register, Requests
<1>2. PICK e \in Event : e = [req |-> r, due |-> INFINITE]
  BY DEF Event
<1>3. events \in Seq(Event)
  BY DEF Registered
<1>4. /\ Append(events, e) \in Seq(Event) /\ Len(Append(events, e)) = Len(events) + 1
      /\ \A i \in 1 .. Len(events) : Append(events, e)[i] = events[i]
      /\ Append(events, e)[Len(events) + 1] = e
  BY <1>3, AppendProperties
<1>5. Len(events) \in Nat
  BY <1>3, LenProperties
<1> QED
  BY <1>1, <1>2, <1>4, <1>5

\* The number of a registration is of one of the requests.
LEMMA EventsKnown ==
  ASSUME Registered
  PROVE  /\ Len(events) \in Nat /\ Len(pending) \in Nat
         /\ DOMAIN events = 1 .. Len(events) /\ DOMAIN pending = 1 .. Len(pending)
         /\ \A i \in 1 .. Len(events) :
              events[i].req \in {ReadRequest, AcceptRequest} /\ events[i].due = INFINITE
<1>1. events \in Seq(Event) /\ pending \in Seq(Outcome)
  BY DEF Registered
<1>2. \A i \in 1 .. Len(events) : events[i] \in Event
  BY <1>1, ElementOfSeq
<1>3. /\ Len(events) \in Nat /\ Len(pending) \in Nat
      /\ DOMAIN events = 1 .. Len(events) /\ DOMAIN pending = 1 .. Len(pending)
  BY <1>1, LenProperties
<1> QED
  BY <1>2, <1>3 DEF Event, Requests

\* The cli module opens and registers its fifo, as the first of all, or fails.
LEMMA InitFifoKeeps ==
  ASSUME ProgramInv, InitFifo
  PROVE  ProgramInv'
<1>1. /\ Places /\ Held /\ Registered /\ pc = "fifo" /\ phase = "client" /\ step = "idle"
      /\ events = <<>> /\ pending = <<>>
  BY DEF ProgramInv, Places, Registered, InitFifo, Before
<1>2. Len(events) = 0 /\ armed = {} /\ Len(pending) = 0
  BY <1>1, EmptySeq DEF Registered
<1>3. UNCHANGED <<held, mod_q, step, ctrl_path>>
  BY DEF InitFifo, settings
<1>4. CASE ctrl_path = NULL /\ pc' = "port" /\ UNCHANGED <<cli, starved, evvars>>
  <2>1. UNCHANGED <<events, armed, pending, phase>>
    BY <1>4 DEF evvars
  <2>2. Places' /\ Held' /\ Registered'
    BY <1>1, <1>3, <1>4, <2>1 DEF Places, Held, Registered, Before, Up
  <2>3. Opened' /\ Served'
    BY <1>1, <1>2, <1>3, <1>4, <2>1 DEF Opened, Served, Renewing
  <2> QED
    BY <2>2, <2>3 DEF ProgramInv
<1>5. CASE pc' = "undo" /\ UNCHANGED <<starved, evvars>>
  <2>1. UNCHANGED <<events, armed, pending, phase>>
    BY <1>5 DEF evvars
  <2>2. Places' /\ Held' /\ Registered'
    BY <1>1, <1>3, <1>5, <2>1 DEF Places, Held, Registered, Before, Up
  <2>3. Opened' /\ Served'
    BY <1>5 DEF Opened, Served, Up
  <2> QED
    BY <2>2, <2>3 DEF ProgramInv
<1>6. ASSUME NEW h, Put(ReadRequest, h), open' = open \union {Fifo},
             pc' = IF h = NULL THEN "undo" ELSE "port"
      PROVE  ProgramInv'
  <2>1. CASE h = NULL /\ UNCHANGED evvars
    BY <1>1, <1>3, <1>6, <2>1
    DEF evvars, Places, Held, Registered, Opened, Served, Before, Up, ProgramInv
  <2>2. CASE ev!Register(ReadRequest)
    <3>1. /\ events' \in Seq(Event) /\ Len(events') = 1
          /\ events'[1].req = ReadRequest /\ armed' = {1} /\ UNCHANGED <<pending, phase>>
      BY <1>1, <1>2, <2>2, Registers DEF Requests
    <3>2. Places' /\ Held'
      BY <1>1, <1>3, <1>6, <3>1 DEF Places, Held, Before, Up
    <3>3. Registered'
      BY <1>1, <1>2, <1>6, <3>1 DEF Registered, Before, Up
    <3>4. Opened'
      BY <1>1, <1>3, <1>6, <3>1, RequestsKnown DEF Opened, Renewing
    <3>5. OneWaits' /\ NoneCame' /\ ~ Renewing'
      BY <1>1, <1>2, <1>3, <3>1, RequestsKnown DEF OneWaits, NoneCame, Renewing
    <3> QED
      BY <3>2, <3>3, <3>4, <3>5 DEF ProgramInv, Served
  <2> QED
    BY <1>6, <2>1, <2>2 DEF Put
<1> QED
  BY <1>4, <1>5, <1>6 DEF InitFifo, Listen

\* The port comes next; whoever is asked for, the fifo waits as before.
LEMMA InitPortKeeps ==
  ASSUME ProgramInv, InitPort
  PROVE  ProgramInv'
<1>1. /\ Places /\ Held /\ Registered /\ Opened /\ Served
      /\ pc = "port" /\ phase = "client" /\ step = "idle" /\ pending = <<>>
  BY DEF ProgramInv, Places, Registered, InitPort, Before, Up
<1>2. Len(pending) = 0
  BY <1>1, EmptySeq
<1>3. UNCHANGED <<held, mod_q, step, ctrl_path>>
  BY DEF InitPort, settings
<1>4. CASE pc' = "cli_up" /\ UNCHANGED <<cli, starved, evvars>>
  <2>1. UNCHANGED <<events, armed, pending, phase, open, starved>>
    BY <1>4 DEF evvars, cli
  <2>2. Places' /\ Held' /\ Registered'
    BY <1>1, <1>3, <1>4, <2>1 DEF Places, Held, Registered, Before, Up
  <2>3. Opened' /\ Served'
    BY <1>1, <1>3, <1>4, <2>1 DEF Opened, Served, Renewing, OneWaits, NoneWaits, OneCame, NoneCame, Up
  <2> QED
    BY <2>2, <2>3 DEF ProgramInv
<1>5. CASE pc' = "undo" /\ UNCHANGED <<starved, evvars>>
  <2>1. UNCHANGED <<events, armed, pending, phase>>
    BY <1>5 DEF evvars
  <2>2. Places' /\ Held' /\ Registered'
    BY <1>1, <1>3, <1>5, <2>1 DEF Places, Held, Registered, Before, Up
  <2>3. Opened' /\ Served'
    BY <1>5 DEF Opened, Served, Up
  <2> QED
    BY <2>2, <2>3 DEF ProgramInv
<1>6. ASSUME NEW h, Put(AcceptRequest, h), open' = open \union {Port},
             pc' = IF h = NULL THEN "undo" ELSE "cli_up"
      PROVE  ProgramInv'
  <2>1. CASE h = NULL /\ UNCHANGED evvars
    BY <1>1, <1>3, <1>6, <2>1
    DEF evvars, Places, Held, Registered, Opened, Served, Before, Up, ProgramInv
  <2>2. CASE UNCHANGED starved /\ ev!Register(AcceptRequest)
    <3> DEFINE n == Len(events)
    <3>1. /\ events' \in Seq(Event) /\ n \in Nat /\ Len(events') = n + 1
          /\ \A i \in 1 .. n : events'[i] = events[i]
          /\ events'[n + 1].req = AcceptRequest
          /\ armed' = armed \union {n + 1} /\ armed \subseteq 1 .. n /\ UNCHANGED <<pending, phase>>
      BY <1>1, <2>2, Registers DEF Requests, Registered
    <3> HIDE DEF n
    <3>2. Places' /\ Held'
      BY <1>1, <1>3, <1>6, <3>1 DEF Places, Held, Before, Up
    <3>3. Registered'
      BY <1>1, <1>2, <1>6, <3>1 DEF Registered, Before, Up
    <3>4. Opened'
      BY <1>1, <1>3, <1>6, <3>1, RequestsKnown DEF Opened, Renewing, Up, n
    <3>5. OneWaits => OneWaits'
      <4> SUFFICES ASSUME OneWaits PROVE OneWaits'
        OBVIOUS
      <4>1. PICK i \in armed : \A j \in armed : events[j].req.fd = Fifo <=> j = i
        BY DEF OneWaits
      <4>2. ASSUME NEW j \in armed' PROVE events'[j].req.fd = Fifo <=> j = i
        <5>1. CASE j \in armed
          BY <3>1, <4>1, <5>1
        <5>2. CASE j = n + 1
          <6>1. events'[j].req.fd = Port /\ j # i
            BY <3>1, <5>2, RequestsKnown
          <6> QED
            BY <6>1
        <5> QED
          BY <3>1, <4>2, <5>1, <5>2
      <4> QED
        BY <3>1, <4>2 DEF OneWaits
    <3>6. NoneCame' /\ ~ OneCame /\ ~ Renewing /\ ~ Renewing'
      BY <1>1, <1>2, <1>3, <3>1 DEF NoneCame, OneCame, Renewing
    <3>7. Served'
      BY <1>1, <1>3, <2>2, <3>5, <3>6 DEF Served, Up
    <3> QED
      BY <3>2, <3>3, <3>4, <3>7 DEF ProgramInv
  <2> QED
    BY <1>6, <2>1, <2>2 DEF Put
<1> QED
  BY <1>4, <1>5, <1>6 DEF InitPort, Listen

\* The error path of the cli module's init, and what follows main's loop.
LEMMA UnwindKeeps ==
  ASSUME ProgramInv, Undo \/ DestroyMod \/ DestroyContext \/ Exit
  PROVE  ProgramInv'
<1>1. /\ pc \in {"undo", "finally"} /\ pc' \in {"crash", "finally", "exit"} /\ UNCHANGED step
      /\ step = "idle"
  BY DEF Undo, DestroyMod, DestroyContext, Exit, ProgramInv, Places
<1>2. Places' /\ Opened' /\ Served'
  BY <1>1 DEF Places, Opened, Served, Before, Up
<1>3. Held'
  <2> USE DEF ProgramInv, Held
  <2>1. CASE Undo
    BY <2>1 DEF Undo
  <2>2. CASE DestroyMod
    <3>1. held = {"cfg", "ev", "cli"} /\ mod_q = <<"cli">> /\ pc = "finally"
      BY <2>2 DEF DestroyMod
    <3>2. Last(mod_q) = "cli" /\ Front(mod_q) = <<>>
      BY <3>1 DEF Last, Front
    <3> QED
      BY <2>2, <3>1, <3>2 DEF DestroyMod
  <2>3. CASE DestroyContext
    BY <2>3 DEF DestroyContext, Contexts
  <2>4. CASE Exit
    BY <2>4 DEF Exit
  <2> QED
    BY <2>1, <2>2, <2>3, <2>4
<1>4. Registered'
  <2>1. CASE UNCHANGED evvars
    BY <1>1, <2>1 DEF evvars, ProgramInv, Registered, Before, Up
  <2>2. CASE ev!Close
    <3>1. events' = <<>> /\ armed' = {} /\ pending' = <<>>
      BY <2>2 DEF ev!Close
    <3>2. <<>> \in Seq(Event) /\ <<>> \in Seq(Outcome) /\ Len(<<>>) = 0
      BY EmptySeq
    <3> QED
      BY <3>1, <3>2 DEF Registered
  <2> QED
    BY <2>1, <2>2 DEF Undo, DestroyMod, DestroyContext, Exit
<1> QED
  BY <1>2, <1>3, <1>4 DEF ProgramInv

\* In the loop: what the steps have in common that leave the registrations alone.
LEMMA QuietKeeps ==
  ASSUME ProgramInv, pc = "loop",
         UNCHANGED <<pc, held, mod_q, ctrl_path, open, events, armed, pending, starved>>,
         Places', Renewing' = Renewing
  PROVE  ProgramInv'
<1>1. Held'
  BY DEF ProgramInv, Held
<1>2. Registered'
  BY DEF ProgramInv, Registered
<1>3. Opened'
  BY DEF ProgramInv, Opened
<1>4. Served'
  BY DEF ProgramInv, Served, OneWaits, NoneWaits, OneCame, NoneCame
<1> QED
  BY <1>1, <1>2, <1>3, <1>4 DEF ProgramInv

\* An event is collected only for the readiness it waits for: none has a time.
LEMMA WhyKnown ==
  ASSUME Registered, NEW i \in armed
  PROVE  ev!Why(i) \subseteq {"read"}
<1>1. events[i].req \in {ReadRequest, AcceptRequest} /\ events[i].due = INFINITE
  BY EventsKnown DEF Registered
<1> QED
  BY <1>1, RequestsKnown DEF ev!Why

\* A collected event goes from those that wait to those that came.
LEMMA CollectKeeps ==
  ASSUME ProgramInv, pc = "loop", NEW i \in armed, ev!Collect(i),
         UNCHANGED <<pc, held, mod_q, ctrl_path, open, starved, step>>
  PROVE  ProgramInv'
<1> DEFINE n == Len(pending)
           e == [event |-> i, why |-> ev!Why(i)]
<1>1. Registered /\ armed \subseteq 1 .. Len(events) /\ n \in Nat /\ pending \in Seq(Outcome)
  BY EventsKnown DEF ProgramInv, Registered
<1>2. /\ armed' = armed \ {i} /\ pending' = Append(pending, e)
      /\ UNCHANGED <<events, phase>>
  BY DEF ev!Collect
<1>3. e \in Outcome
  <2>1. i \in Nat
    BY <1>1, EventsKnown
  <2> QED
    BY <1>1, <2>1, WhyKnown DEF Outcome
<1>4. /\ pending' \in Seq(Outcome) /\ Len(pending') = n + 1
      /\ \A k \in 1 .. n : pending'[k] = pending[k]
      /\ pending'[n + 1].event = i
  BY <1>1, <1>2, <1>3, AppendProperties
<1> HIDE DEF n, e
<1>5. Places' /\ Held'
  BY <1>2 DEF ProgramInv, Places, Held
<1>6. Registered'
  BY <1>1, <1>2, <1>4 DEF ProgramInv, Registered, Before, Up, n
<1>7. Opened'
  BY <1>2 DEF ProgramInv, Opened, Renewing
<1>8. Served'
  <2> SUFFICES ASSUME ctrl_path # NULL, ~ starved
               PROVE  (\/ OneWaits  /\ NoneCame /\ ~ Renewing
                       \/ NoneWaits /\ OneCame  /\ ~ Renewing
                       \/ NoneWaits /\ NoneCame /\ Renewing)'
    BY DEF Served
  <2>1. \/ OneWaits  /\ NoneCame /\ ~ Renewing
        \/ NoneWaits /\ OneCame  /\ ~ Renewing
        \/ NoneWaits /\ NoneCame /\ Renewing
    BY DEF ProgramInv, Served, Up
  <2>2. Renewing' = Renewing
    BY DEF Renewing
  <2>3. CASE events[i].req.fd = Fifo
    <3>1. OneWaits /\ NoneCame /\ ~ Renewing
      BY <2>1, <2>3 DEF NoneWaits
    <3>2. NoneWaits'
      BY <1>2, <2>3, <3>1 DEF OneWaits, NoneWaits
    <3>3. OneCame'
      <4>1. ASSUME NEW l \in 1 .. n + 1
            PROVE  events[pending'[l].event].req.fd = Fifo <=> l = n + 1
        <5>1. CASE l = n + 1
          BY <1>4, <2>3, <5>1
        <5>2. CASE l # n + 1
          <6>1. l \in 1 .. n
            BY <1>1, <5>2
          <6> QED
            BY <1>4, <3>1, <5>2, <6>1 DEF NoneCame, n
        <5> QED
          BY <5>1, <5>2
      <4>2. n + 1 \in 1 .. n + 1
        BY <1>1
      <4>4. events' = events /\ Len(pending') = n + 1
        BY <1>2, <1>4
      <4> QED
        BY <4>1, <4>2, <4>4 DEF OneCame
    <3> QED
      BY <2>2, <3>1, <3>2, <3>3
  <2>4. CASE events[i].req.fd # Fifo
    <3>1. (OneWaits => OneWaits') /\ (NoneWaits => NoneWaits')
      BY <1>2, <2>4 DEF OneWaits, NoneWaits
    <3>2. NoneCame => NoneCame'
      BY <1>1, <1>2, <1>4, <2>4 DEF NoneCame, n
    <3>3. OneCame => OneCame'
      <4> SUFFICES ASSUME OneCame PROVE OneCame'
        OBVIOUS
      <4>1. PICK k \in 1 .. n : \A l \in 1 .. n : events[pending[l].event].req.fd = Fifo <=> l = k
        BY DEF OneCame, n
      <4>2. ASSUME NEW l \in 1 .. n + 1
            PROVE  events[pending'[l].event].req.fd = Fifo <=> l = k
        <5>1. CASE l = n + 1
          <6>1. l # k
            BY <1>1, <4>1, <5>1
          <6> QED
            BY <1>4, <2>4, <5>1, <6>1
        <5>2. CASE l # n + 1
          <6>1. l \in 1 .. n
            BY <1>1, <5>2
          <6> QED
            BY <1>4, <4>1, <6>1
        <5> QED
          BY <5>1, <5>2
      <4>3. k \in 1 .. n + 1
        BY <1>1, <4>1
      <4>4. events' = events /\ Len(pending') = n + 1
        BY <1>2, <1>4
      <4> QED
        BY <4>2, <4>3, <4>4 DEF OneCame
    <3> QED
      BY <2>1, <2>2, <3>1, <3>2, <3>3
  <2> QED
    BY <2>3, <2>4
<1> QED
  BY <1>5, <1>6, <1>7, <1>8 DEF ProgramInv

\* The other steps of aloe_ev_once, and what other processes do.
LEMMA OnceKeeps ==
  ASSUME ProgramInv, Once
  PROVE  ProgramInv'
<1>1. pc = "loop" /\ UNCHANGED <<pc, held, mod_q, ctrl_path, open, starved, step>>
  BY DEF Once, Within, settings
<1>2. CASE \E i \in armed : ev!Collect(i)
  BY <1>1, <1>2, CollectKeeps
<1>3. CASE ev!Poll \/ ev!PollFails \/ ev!ReadClock \/ ev!Collected \/ ev!Delivered
  <2>1. /\ UNCHANGED <<events, armed, pending>> /\ phase # "callback"
        /\ phase' \in {"client", "polled", "collect", "deliver"}
    BY <1>3 DEF ev!Poll, ev!PollFails, ev!ReadClock, ev!Collected, ev!Delivered
  <2>2. Places' /\ Renewing' = Renewing
    BY <1>1, <2>1 DEF ProgramInv, Places, Renewing, Before, Up
  <2> QED
    BY <1>1, <2>1, <2>2, QuietKeeps
<1> QED
  BY <1>2, <1>3 DEF Once

\* A callback begins with the first that came.
LEMMA CallKeeps ==
  ASSUME ProgramInv, Call
  PROVE  ProgramInv'
<1> DEFINE n == Len(pending)
           i == pending[1].event
<1>1. Registered /\ pc = "loop" /\ n \in Nat /\ pending \in Seq(Outcome) /\ pending # <<>>
  <2>1. Registered
    BY DEF ProgramInv
  <2>2. Len(pending) \in Nat
    BY <2>1, EventsKnown
  <2> QED
    BY <2>1, <2>2 DEF Call, Within, ev!Deliver, Registered
<1>2. /\ UNCHANGED <<pc, held, mod_q, ctrl_path, open, starved, events, armed>>
      /\ phase = "deliver" /\ phase' = "callback" /\ pending' = Tail(pending)
      /\ call'.cb = events[Head(pending).event].req.cb
      /\ step' = IF call'.cb = "ctrl_on_read" THEN "read" ELSE "return"
  BY DEF Call, Within, settings, ev!Deliver
<1>3. /\ n >= 1 /\ Tail(pending) \in Seq(Outcome) /\ Len(Tail(pending)) = n - 1
      /\ \A k \in 1 .. n - 1 : Tail(pending)[k] = pending[k + 1]
      /\ Head(pending) = pending[1]
  <2>1. n \in Nat \ {0}
    BY <1>1, EmptySeq
  <2> QED
    BY <1>1, <2>1, HeadTailProperties
<1>4. i \in 1 .. Len(events)
  BY <1>1, <1>3 DEF Registered
<1>5. /\ step' = IF events[i].req.fd = Fifo THEN "read" ELSE "return"
      /\ events[i].req.fd = Fifo \/ events[i].req.fd = Port
  <2>1. events[i].req \in {ReadRequest, AcceptRequest}
    BY <1>1, <1>4, EventsKnown
  <2>2. call'.cb = events[i].req.cb
    BY <1>2, <1>3
  <2>3. CASE events[i].req = ReadRequest
    BY <1>2, <2>2, <2>3, RequestsKnown
  <2>4. CASE events[i].req = AcceptRequest
    BY <1>2, <2>2, <2>4, RequestsKnown
  <2> QED
    BY <2>1, <2>3, <2>4
<1> HIDE DEF n, i
<1>6. step = "idle" /\ Places'
  BY <1>1, <1>2, <1>5 DEF ProgramInv, Places, Before, Up
<1>7. Held'
  BY <1>2 DEF ProgramInv, Held
<1>8. Registered'
  <2>1. pending' \in Seq(Outcome) /\ Len(pending') = n - 1
    BY <1>2, <1>3
  <2>2. ASSUME NEW k \in 1 .. Len(pending') PROVE pending'[k].event \in 1 .. Len(events)
    <3>1. k \in 1 .. n - 1 /\ k + 1 \in 1 .. n
      BY <1>1, <2>1
    <3>2. pending'[k] = pending[k + 1]
      BY <1>2, <1>3, <3>1
    <3>3. pending[k + 1].event \in 1 .. Len(events)
      BY <1>1, <3>1 DEF Registered, n
    <3> QED
      BY <3>2, <3>3
  <2> QED
    BY <1>1, <1>2, <2>1, <2>2 DEF Registered, Before, Up
<1>9. Opened'
  <2>1. \A j \in 1 .. Len(events) : events[j].req.fd \in open
    BY <1>1 DEF ProgramInv, Opened, Up
  <2>2. Renewing' => Fifo \in open
    BY <1>4, <1>5, <2>1 DEF Renewing
  <2> QED
    BY <1>2, <2>1, <2>2 DEF Opened
<1>10. Served'
  <2> SUFFICES ASSUME ctrl_path # NULL, ~ starved
               PROVE  (\/ OneWaits  /\ NoneCame /\ ~ Renewing
                       \/ NoneWaits /\ OneCame  /\ ~ Renewing
                       \/ NoneWaits /\ NoneCame /\ Renewing)'
    BY <1>2 DEF Served
  <2>1. \/ OneWaits  /\ NoneCame
        \/ NoneWaits /\ OneCame
    BY <1>1, <1>6 DEF ProgramInv, Served, Up, Renewing
  <2>2. (OneWaits => OneWaits') /\ (NoneWaits => NoneWaits')
    BY <1>2 DEF OneWaits, NoneWaits
  <2>3. /\ Len(pending') = n - 1 /\ \A k \in 1 .. n - 1 : pending'[k] = pending[k + 1]
        /\ events' = events
    BY <1>2, <1>3
  <2>4. CASE events[i].req.fd = Fifo
    <3>1. NoneWaits /\ OneCame
      BY <1>3, <2>1, <2>4, <1>1 DEF NoneCame, i, n
    <3>2. \A l \in 1 .. n : events[pending[l].event].req.fd = Fifo <=> l = 1
      BY <1>1, <1>3, <2>4, <3>1 DEF OneCame, i, n
    <3>3. NoneCame'
      <4> SUFFICES ASSUME NEW l \in 1 .. n - 1
                   PROVE  events[pending[l + 1].event].req.fd # Fifo
        BY <2>3 DEF NoneCame
      <4> QED
        BY <1>1, <3>2
    <3>4. Renewing'
      BY <1>5, <2>4 DEF Renewing
    <3> QED
      BY <2>2, <3>1, <3>3, <3>4
  <2>5. CASE events[i].req.fd # Fifo
    <3>1. ~ Renewing'
      BY <1>5, <2>5 DEF Renewing
    <3>2. NoneCame => NoneCame'
      BY <1>1, <2>3 DEF NoneCame, n
    <3>3. OneCame => OneCame'
      <4> SUFFICES ASSUME OneCame PROVE OneCame'
        OBVIOUS
      <4>1. PICK k \in 1 .. n : \A l \in 1 .. n : events[pending[l].event].req.fd = Fifo <=> l = k
        BY DEF OneCame, n
      <4>2. k # 1
        BY <1>3, <1>1, <2>5, <4>1 DEF i
      <4>3. k - 1 \in 1 .. n - 1
        BY <1>1, <4>2
      <4>4. ASSUME NEW l \in 1 .. n - 1
            PROVE  events[pending'[l].event].req.fd = Fifo <=> l = k - 1
        <5>1. l + 1 \in 1 .. n /\ (l + 1 = k <=> l = k - 1)
          BY <1>1
        <5> QED
          BY <2>3, <4>1, <5>1
      <4> QED
        BY <2>3, <4>3, <4>4 DEF OneCame
    <3> QED
      BY <2>1, <2>2, <3>1, <3>2, <3>3
  <2> QED
    BY <2>4, <2>5
<1> QED
  BY <1>6, <1>7, <1>8, <1>9, <1>10 DEF ProgramInv

\* Within ctrl_on_read, and the end of a callback.
LEMMA ReadKeeps ==
  ASSUME ProgramInv, Read \/ ReadNothing \/ Return
  PROVE  ProgramInv'
<1>1. CASE Read
  <2>1. /\ pc = "loop" /\ step = "read" /\ step' = "rearm" /\ UNCHANGED phase
        /\ UNCHANGED <<pc, held, mod_q, ctrl_path, open, events, armed, pending, starved>>
    BY <1>1 DEF Read, settings, cli, evvars
  <2>2. Places' /\ Renewing' = Renewing
    BY <2>1 DEF ProgramInv, Places, Renewing, Before, Up
  <2> QED
    BY <2>1, <2>2, QuietKeeps
<1>2. CASE ReadNothing
  <2>1. /\ pc = "loop" /\ step = "read" /\ step' = "rearm" /\ UNCHANGED phase
        /\ UNCHANGED <<pc, held, mod_q, ctrl_path, open, events, armed, pending, starved>>
    BY <1>2 DEF ReadNothing, Within, AfterNothing, OpenOnNothing, settings, evvars
  <2>2. Places' /\ Renewing' = Renewing
    BY <2>1 DEF ProgramInv, Places, Renewing, Before, Up
  <2> QED
    BY <2>1, <2>2, QuietKeeps
<1>3. CASE Return
  <2>1. /\ pc = "loop" /\ step = "return" /\ step' = "idle" /\ phase' = "deliver"
        /\ UNCHANGED <<pc, held, mod_q, ctrl_path, open, events, armed, pending, starved>>
    BY <1>3 DEF Return, ev!Return, Within, settings
  <2>2. Places' /\ Renewing' = Renewing
    BY <2>1 DEF ProgramInv, Places, Renewing, Before, Up
  <2> QED
    BY <2>1, <2>2, QuietKeeps
<1> QED
  BY <1>1, <1>2, <1>3

\* The registration is renewed, or aloe_ev_put fails.
LEMMA RearmKeeps ==
  ASSUME ProgramInv, Rearm
  PROVE  ProgramInv'
<1>1. /\ Registered /\ Places /\ pc = "loop" /\ step = "rearm" /\ step' = "return"
      /\ UNCHANGED <<pc, held, mod_q, ctrl_path, open>>
      /\ Renewing /\ ~ Renewing'
  BY DEF ProgramInv, Rearm, settings, Renewing
<1>2. Held'
  BY <1>1 DEF ProgramInv, Held
<1>3. CASE starved' = TRUE /\ UNCHANGED evvars
  <2>1. UNCHANGED <<events, armed, pending, phase>>
    BY <1>3 DEF evvars
  <2>2. Places' /\ Registered'
    BY <1>1, <2>1 DEF Places, Registered, Before, Up
  <2>3. Opened'
    BY <1>1, <2>1 DEF ProgramInv, Opened
  <2>4. Served'
    BY <1>3 DEF Served
  <2> QED
    BY <1>2, <2>2, <2>3, <2>4 DEF ProgramInv
<1>4. CASE ev!Register(ReadRequest) /\ UNCHANGED starved
  <2> DEFINE n == Len(events)
  <2>1. /\ events' \in Seq(Event) /\ n \in Nat /\ Len(events') = n + 1
        /\ \A i \in 1 .. n : events'[i] = events[i]
        /\ events'[n + 1].req = ReadRequest
        /\ armed' = armed \union {n + 1} /\ armed \subseteq 1 .. n /\ UNCHANGED <<pending, phase>>
        /\ \A k \in 1 .. Len(pending) : pending[k].event \in 1 .. n
    BY <1>1, <1>4, Registers DEF Requests, Registered
  <2>2. Places'
    BY <1>1, <2>1 DEF Places, Before, Up
  <2>3. Registered'
    <3> HIDE DEF n
    <3>1. armed' \subseteq 1 .. n + 1 /\ \A k \in 1 .. Len(pending) : pending[k].event \in 1 .. n + 1
      BY <2>1
    <3> QED
      BY <1>1, <2>1, <3>1 DEF Registered, Before, Up
  <2> HIDE DEF n
  <2>4. Opened'
    <3>1. Fifo \in open /\ \A i \in 1 .. n : events[i].req.fd \in open
      BY <1>1 DEF ProgramInv, Opened, Up, n
    <3>2. \A i \in 1 .. n + 1 : events'[i].req.fd \in open
      <4> TAKE i \in 1 .. n + 1
      <4>1. CASE i = n + 1
        BY <2>1, <3>1, <4>1, RequestsKnown
      <4>2. CASE i # n + 1
        BY <2>1, <3>1, <4>2
      <4> QED
        BY <4>1, <4>2
    <3> QED
      BY <1>1, <2>1, <3>2 DEF Opened
  <2>5. Served'
    <3> SUFFICES ASSUME ctrl_path # NULL, ~ starved
                 PROVE  OneWaits' /\ NoneCame' /\ ~ Renewing'
      BY <1>1, <1>4 DEF Served
    <3>1. NoneWaits /\ NoneCame
      BY <1>1 DEF ProgramInv, Served, Up
    <3>2. ASSUME NEW j \in armed' PROVE events'[j].req.fd = Fifo <=> j = n + 1
      <4>1. CASE j \in armed
        BY <2>1, <3>1, <4>1 DEF NoneWaits
      <4>2. CASE j = n + 1
        BY <2>1, <4>2, RequestsKnown
      <4> QED
        BY <2>1, <3>2, <4>1, <4>2
    <3>3. OneWaits'
      BY <2>1, <3>2 DEF OneWaits
    <3>4. NoneCame'
      BY <2>1, <3>1 DEF NoneCame
    <3> QED
      BY <1>1, <3>3, <3>4
  <2> QED
    BY <1>2, <2>2, <2>3, <2>4, <2>5 DEF ProgramInv
<1> QED
  BY <1>3, <1>4 DEF Rearm, Put, Handler

\* Other processes touch nothing but what is ready; nor does the end.
LEMMA OthersKeep ==
  ASSUME ProgramInv, Write \/ Connect \/ Ended \/ UNCHANGED vars
  PROVE  ProgramInv'
<1>1. UNCHANGED <<pc, step, held, mod_q, ctrl_path, open, events, armed, pending, phase, starved>>
  BY DEF Write, Connect, Ended, vars, ev!Arrive, settings, cli, evvars
<1>2. Places' /\ Held' /\ Registered' /\ Opened'
  BY <1>1 DEF ProgramInv, Places, Held, Registered, Opened, Renewing
<1>3. Served'
  BY <1>1 DEF ProgramInv, Served, Renewing, OneWaits, NoneWaits, OneCame, NoneCame
<1> QED
  BY <1>2, <1>3 DEF ProgramInv

-----------------------------------------------------------------------------
\* ProgramInv always holds: where main is, what it has allocated by then, and where the
\* registrations of the fifo are.
THEOREM ProgramAlways == Spec => []ProgramInv
<1>1. ASSUME ProgramInv, [Next]_vars PROVE ProgramInv'
  BY <1>1, StartKeeps, InitFifoKeeps, InitPortKeeps, UnwindKeeps, OnceKeeps, CallKeeps,
     ReadKeeps, RearmKeeps, OthersKeep DEF Next, Main
<1> QED
  BY <1>1, ProgramInit, PTL DEF Spec

\* No module outlives the event context, nor that the configuration
\* (evmtest1.cpp:231-277).
THEOREM AlwaysNested == Spec => []Nested
<1>1. ProgramInv => Nested
  BY DEF ProgramInv, Places, Held, Nested, Before, Up
<1> QED
  BY <1>1, ProgramAlways, PTL

\* main returns with everything freed, and dies only in the error path of the cli module's
\* init (evmtest1.cpp:267-279, mod_cli.c:180-191).
THEOREM AlwaysReleased == Spec => []ReleasedAtExit
<1>1. ProgramInv => ReleasedAtExit
  BY DEF ProgramInv, Held, ReleasedAtExit
<1> QED
  BY <1>1, ProgramAlways, PTL

\* What select is given while main loops is open (ev.c:199).
THEOREM AlwaysOpen == Spec => []WaitsOnOpen
<1>1. ProgramInv => WaitsOnOpen
  BY DEF ProgramInv, Registered, Opened, Up, WaitsOnOpen
<1> QED
  BY <1>1, ProgramAlways, PTL

\* The fifo has exactly one registration, or is about to renew it, as long as main loops
\* and aloe_ev_put has not failed (mod_cli.c:42-79).
THEOREM FifoAlwaysServed == Spec => []FifoStaysServed
<1>1. ASSUME ProgramInv, pc = "loop", ctrl_path # NULL, ~ starved
      PROVE  \/ \E i \in armed : Waiting = {i} /\ Collected = {} /\ ~ Renewing
             \/ \E i \in DOMAIN pending : Waiting = {} /\ Collected = {i} /\ ~ Renewing
             \/ Waiting = {} /\ Collected = {} /\ Renewing
  <2>1. DOMAIN pending = 1 .. Len(pending)
    BY <1>1, EventsKnown DEF ProgramInv
  <2>2. /\ NoneWaits => Waiting = {}
        /\ OneWaits => \E i \in armed : Waiting = {i}
    BY DEF NoneWaits, OneWaits, Waiting
  <2>3. /\ NoneCame => Collected = {}
        /\ OneCame => \E i \in DOMAIN pending : Collected = {i}
    BY <2>1 DEF NoneCame, OneCame, Collected
  <2>4. \/ OneWaits  /\ NoneCame /\ ~ Renewing
        \/ NoneWaits /\ OneCame  /\ ~ Renewing
        \/ NoneWaits /\ NoneCame /\ Renewing
    BY <1>1 DEF ProgramInv, Served, Up
  <2> QED
    BY <2>2, <2>3, <2>4
<1>2. ProgramInv => FifoStaysServed
  BY <1>1 DEF FifoStaysServed
<1> QED
  BY <1>2, ProgramAlways, PTL

=============================================================================
