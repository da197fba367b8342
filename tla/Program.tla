------------------------------ MODULE Program ------------------------------
(***************************************************************************)
(* The program evmtest1: main with its options, what it starts and unwinds *)
(* in order, the event loop, and the cli module with its control fifo and  *)
(* control port, over an event context of which only what EvAbs promises   *)
(* is used.  The writer of the fifo and the peers of the port are other    *)
(* processes.                                                              *)
(***************************************************************************)
EXTENDS Integers, Sequences, SequencesExt

CONSTANTS NULL, INFINITE,
          WithAlsa,             \* the build has the micloop module
          PortArgs,             \* arguments of the port options
          MaxOptions, MaxPuts, MaxWrites        \* bounds

ASSUME ProgramAssumption ==
  /\ WithAlsa \in BOOLEAN /\ PortArgs \subseteq Int
  /\ {MaxOptions, MaxPuts, MaxWrites} \subseteq Nat

CTRL_PORT_NONE == -1
CTRL_PORT == CTRL_PORT_NONE

Fifo == 3                       \* the two descriptors the cli module opens
Port == 4
Listeners == 0 .. 2

\* What the cli module registers with the event context.
Request(fd, cb) == [fd |-> fd, cb |-> cb, ev_wait |-> {"read"}, delay |-> INFINITE]
ReadRequest   == Request(Fifo, "ctrl_on_read")
AcceptRequest == Request(Port, "ctrl_on_accept")
Requests == {ReadRequest, AcceptRequest}

VARIABLES
  pc, opt_exit, ctrl_path, ctrl_port,
  options,              \* how many options were read
  held,                 \* contexts allocated and not freed
  mod_q,                \* main's modules, in the order of their start
  open,                 \* descriptors that are open
  listener,             \* the cli module's connections: descriptor and handle
  step,                 \* within a callback of the cli module
  data, writes,         \* reads' worth of data in the fifo; how many were written
  starved,              \* history: aloe_ev_put has failed
  events, armed, pending, now, ready, phase, seen, call     \* the event context

ev == INSTANCE EvAbs

evvars   == <<events, armed, pending, now, ready, phase, seen, call>>

settings == <<opt_exit, ctrl_path, ctrl_port, options>>
cli      == <<open, listener>>
fifo     == <<data, writes>>
vars     == <<pc, settings, held, mod_q, cli, step, fifo, starved, evvars>>

NoConn == [fd |-> -1, ev |-> NULL]

Init ==
  /\ pc = "options"
  /\ opt_exit = FALSE /\ ctrl_path = NULL /\ ctrl_port = CTRL_PORT
  /\ options = 0
  /\ held = {} /\ mod_q = <<>> /\ open = {}
  /\ listener = [i \in Listeners |-> NoConn]
  /\ step = "idle" /\ data = 0 /\ writes = 0 /\ starved = FALSE
  /\ ev!Init

-----------------------------------------------------------------------------
\* One option of the command line.  opt_short does not have p: getopt_long answers '?' to
\* it, which main passes over, and its argument is no option.
Option ==
  /\ pc = "options" /\ options < MaxOptions
  /\ options' = options + 1
  /\ \/ opt_exit' = TRUE /\ UNCHANGED <<ctrl_path, ctrl_port>>
     \/ ctrl_path' = "path" /\ UNCHANGED <<opt_exit, ctrl_port>>
     \/ \E p \in PortArgs :
          /\ ctrl_port' \in {p, ctrl_port}      \* --ctrlport and -p
          /\ UNCHANGED <<opt_exit, ctrl_path>>
  /\ UNCHANGED <<pc, held, mod_q, cli, step, fifo, starved, evvars>>

OptionsRead ==
  /\ pc = "options"
  /\ ctrl_port' = IF ctrl_port <= 0 \/ ctrl_port >= 65535 THEN CTRL_PORT ELSE ctrl_port
  /\ pc' = IF opt_exit THEN "finally" ELSE "cfg"
  /\ UNCHANGED <<opt_exit, ctrl_path, options, held, mod_q, cli, step, fifo, starved, evvars>>

\* main allocates a context, or goes to its end.
Obtain(what, next) ==
  /\ pc = what
  /\ \/ held' = held \union {what} /\ pc' = next
     \/ pc' = "finally" /\ UNCHANGED held

InitContexts ==
  /\ Obtain("cfg", "ev") \/ Obtain("ev", "cli")
  /\ UNCHANGED <<settings, mod_q, cli, step, fifo, starved, evvars>>

-----------------------------------------------------------------------------
\* The cli module's init: its context, then the fifo and the port if they are asked for.
CliAlloc ==
  /\ Obtain("cli", "fifo")
  /\ listener' = [i \in Listeners |-> NoConn]
  /\ UNCHANGED <<settings, mod_q, open, step, fifo, starved, evvars>>

\* aloe_ev_put registers r and returns its handle h, or fails.
Put(r, h) ==
  \/ /\ Len(events) < MaxPuts
     /\ h = Len(events) + 1 /\ ev!Register(r) /\ UNCHANGED starved
  \/ /\ h = NULL /\ starved' = TRUE /\ UNCHANGED evvars

\* Connection i is opened with descriptor fd and registered.  The descriptor may not be
\* had; it may be had and then not be made ready for use; the registration may fail.
Listen(i, fd, r, next) ==
  \/ /\ pc' = "undo"
     /\ \/ UNCHANGED cli
        \/ listener' = [listener EXCEPT ![i].fd = fd] /\ open' = open \union {fd}
     /\ UNCHANGED <<starved, evvars>>
  \/ \E h \in {NULL} \union 1 .. MaxPuts :
       /\ Put(r, h)
       /\ listener' = [listener EXCEPT ![i] = [fd |-> fd, ev |-> h]]
       /\ open' = open \union {fd}
       /\ pc' = IF h = NULL THEN "undo" ELSE next

InitFifo ==
  /\ pc = "fifo"
  /\ \/ /\ ctrl_path = NULL /\ pc' = "port" /\ UNCHANGED <<cli, starved, evvars>>
     \/ ctrl_path # NULL /\ Listen(0, Fifo, ReadRequest, "port")
  /\ UNCHANGED <<settings, held, mod_q, step, fifo>>

InitPort ==
  /\ pc = "port"
  /\ \/ /\ ctrl_port = CTRL_PORT_NONE /\ pc' = "cli_up" /\ UNCHANGED <<cli, starved, evvars>>
     \/ ctrl_port # CTRL_PORT_NONE /\ Listen(1, Port, AcceptRequest, "cli_up")
  /\ UNCHANGED <<settings, held, mod_q, step, fifo>>

\* init failed: descriptors are closed, and aloe_ev_cancel is called for the first
\* connection that has no handle, to which NULL is passed.  The last has none ever.
Undo ==
  LET first == CHOOSE i \in Listeners :
                 listener[i].ev = NULL /\ \A j \in 0 .. i - 1 : listener[j].ev # NULL
  IN  /\ pc = "undo" /\ pc' = "crash"
      /\ open' = open \ { listener[i].fd : i \in 0 .. first }
      /\ UNCHANGED <<settings, held, mod_q, listener, step, fifo, starved, evvars>>

\* main puts a module that has started on its queue.
NotQueued(m) == mod_q                   \* fault
Started(m)   == Append(mod_q, m)

CliUp ==
  /\ pc = "cli_up" /\ pc' = IF WithAlsa THEN "micloop" ELSE "loop"
  /\ mod_q' = Started("cli")
  /\ UNCHANGED <<settings, held, cli, step, fifo, starved, evvars>>

InitMicloop ==
  /\ Obtain("micloop", "loop")
  /\ mod_q' = IF pc' = "loop" THEN Started("micloop") ELSE mod_q
  /\ UNCHANGED <<settings, cli, step, fifo, starved, evvars>>

-----------------------------------------------------------------------------
\* main's loop: aloe_ev_once again and again.
Within == pc = "loop" /\ UNCHANGED <<pc, settings, held, mod_q, listener, fifo>>

Once ==
  /\ Within /\ UNCHANGED <<open, step, starved>>
  /\ \/ ev!Poll \/ ev!PollFails \/ ev!ReadClock
     \/ (\E i \in armed : ev!Collect(i)) \/ ev!Collected \/ ev!Delivered

Answers == Within /\ UNCHANGED <<open, step, starved>> /\ ev!ReadClock

\* A callback of the cli module begins.
Call ==
  /\ Within /\ UNCHANGED <<open, starved>> /\ ev!Deliver
  /\ step' = IF call'.cb = "ctrl_on_read" THEN "read" ELSE "return"

\* ctrl_on_read: the buffer may not be had, read may fail or find nothing, or the data of
\* one read is taken.
StopAfterNothing == "return"            \* fault: the registration is not renewed then
AfterNothing     == "rearm"

Read ==
  /\ pc = "loop" /\ step = "read" /\ data > 0
  /\ data' = data - 1 /\ step' = "rearm"
  /\ UNCHANGED <<pc, settings, held, mod_q, cli, writes, starved, evvars>>

ClosedOnNothing == open \ {Fifo}        \* fault: an empty read is taken for the end
OpenOnNothing   == open

ReadNothing ==
  /\ Within /\ step = "read" /\ step' = AfterNothing
  /\ open' = OpenOnNothing
  /\ UNCHANGED <<starved, evvars>>

OtherHandler == AcceptRequest           \* fault: the port is registered
Handler      == ReadRequest

Rearm ==
  /\ pc = "loop" /\ step = "rearm" /\ step' = "return"
  /\ \E h \in {NULL} \union 1 .. MaxPuts :
       Put(Handler, h) /\ listener' = [listener EXCEPT ![0].ev = h]
  /\ UNCHANGED <<pc, settings, held, mod_q, open, fifo>>

\* The callback returns.  The fifo stays readable as long as data is left in it; the port
\* stays readable, its connection is not accepted.
Return ==
  /\ Within /\ step = "return" /\ step' = "idle" /\ UNCHANGED <<open, starved>>
  /\ ev!Return
  /\ ready' = { x \in ready : x[1] = Fifo => data > 0 }

-----------------------------------------------------------------------------
\* main's end: the modules in the reverse order of their start, then the contexts.
DestroyMod ==
  /\ pc = "finally" /\ mod_q # <<>>
  /\ held' = held \ {Last(mod_q)} /\ mod_q' = Front(mod_q)
  /\ UNCHANGED <<pc, settings, cli, step, fifo, starved, evvars>>

CfgFirst == <<"cfg", "ev">>             \* fault
Contexts == <<"ev", "cfg">>

\* The first of them that there is, when the modules are gone.
DestroyContext ==
  /\ pc = "finally" /\ mod_q = <<>>
  /\ \E i \in 1 .. 2 :
       /\ Contexts[i] \in held /\ \A j \in 1 .. i - 1 : Contexts[j] \notin held
       /\ held' = held \ {Contexts[i]}
       /\ IF Contexts[i] = "ev" THEN ev!Close ELSE UNCHANGED evvars
  /\ UNCHANGED <<pc, settings, mod_q, cli, step, fifo, starved>>

Exit ==
  /\ pc = "finally" /\ mod_q = <<>> /\ held \intersect {"ev", "cfg"} = {}
  /\ pc' = "exit"
  /\ open' = {}                         \* by the kernel
  /\ UNCHANGED <<settings, held, mod_q, listener, step, fifo, starved, evvars>>

Ended == pc \in {"exit", "crash"} /\ UNCHANGED vars

-----------------------------------------------------------------------------
\* Other processes: a writer of the fifo, a peer of the port.
Write ==
  /\ Fifo \in open /\ writes < MaxWrites
  /\ writes' = writes + 1 /\ data' = data + 1
  /\ ready' = ready \union {<<Fifo, "read">>}
  /\ UNCHANGED <<pc, settings, held, mod_q, cli, step, starved,
                 events, armed, pending, now, phase, seen, call>>

Connect ==
  /\ Port \in open /\ ev!Arrive /\ ready' = ready \union {<<Port, "read">>}
  /\ UNCHANGED <<pc, settings, held, mod_q, cli, step, fifo, starved>>

Main ==
  \/ OptionsRead \/ InitContexts
  \/ CliAlloc \/ InitFifo \/ InitPort \/ Undo \/ CliUp \/ InitMicloop
  \/ Once \/ Call \/ Read \/ ReadNothing \/ Rearm \/ Return
  \/ DestroyMod \/ DestroyContext \/ Exit

Next == Option \/ Main \/ Write \/ Connect \/ Ended

Spec == Init /\ [][Next]_vars

\* main runs on; select and read do not fail for ever.
FairSpec == Spec /\ WF_vars(Main) /\ SF_vars(Answers) /\ SF_vars(Read)

=============================================================================
