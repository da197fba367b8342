# Verification of aloe_ev and its programs

TLA+ models of the event library in this repository (`ev.c`, `cfg.c`, `misc.c`,
`time.c`), of the program built on it (`evmtest1.cpp`, `mod_cli.c`,
`mod_micloop.c`) and of the decoder program `fftest1.c`; the TLC configurations
that check them on small instances; and proofs, checked by TLAPS, of what holds for
all instances: of the event context, the main program, the two buffers, the configuration
store, the wrappers of files, the decoder program and the time arithmetic.

Line numbers refer to the sources. `PROJECT.json` maps every definition to the
lines it stands for, and lists the runs, the mutants that show that each
property can fail, the hazards of the code, the findings and the theorems.

Contents: [The system](#the-system) · [Modules](#modules) ·
[Event context](#the-event-context) · [Program](#main-and-the-cli-module) ·
[Ring buffer](#the-ring-buffer) · [Index buffer](#the-index-buffer-and-its-users) ·
[Configuration](#the-configuration-store) · [Red-black tree](#the-red-black-tree) · [Files](#files-and-sockets) ·
[Time](#time-arithmetic) · [Decoder](#the-decoder-program) ·
[Findings](#findings) · [Proofs](#proofs) · [Not modelled](#what-is-not-modelled) ·
[Plan](#plan)

## The system

One thread runs everything. What interleaves with it are its own callbacks, the
clock, other processes at the far end of descriptors, and system calls that
fail.

| component | state it keeps | operations | what makes it correct |
|---|---|---|---|
| event context, `ev.c` | four tail queues: descriptor records in use and spare, events to deliver and spare; a queue of events in every descriptor record | `aloe_ev_init`, `put`, `get`, `cancel`, `once`, `destroy` | a registration is delivered once, to its own callback, when its descriptor is ready or its time has come, and not before; the queues stay queues; memory is recycled and freed once |
| tail queues, `queue.h` | pointers `next` and `prev`, the latter to a `next` | `TAILQ_INIT`, `INSERT_TAIL`, `REMOVE`, `FIRST`, `NEXT`, `EMPTY`, `FOREACH` | elements of one queue stay in it, in order; other queues are not touched |
| ring buffer, `misc.c` | memory, capacity, position, amount | `aloe_rinbuf_read`, `write`, `aloe_buf_expand` | bytes come out in order, none lost or doubled, across the wrap |
| index buffer, `misc.c` | memory, capacity, position, limit | `aloe_buf_vprintf`, `vaprintf`, `expand`, clear, flip | a text is appended whole or not at all, memory grows as needed up to a maximum |
| configuration, `cfg.c` | records in an RB tree and on a spare queue; a value is a number or owns a buffer | `aloe_cfg_init`, `find`, `set`, `next`, `destroy` | a map from keys to values; every buffer owned once and freed once |
| files and sockets, `misc.c` | descriptors | `aloe_ip_listener`, `_aloe_file_stdout`, `aloe_file_vfprintf2`, ... | no descriptor lost or closed for another on any failing path |
| time, `main.h`, `time.c` | none | normalise, compare, add, subtract | exact, normal results |
| main, `evmtest1.cpp` | options, contexts, a queue of modules, the log level | start, loop, unwind, log | what was started is unwound in reverse order; a line is logged whole or not at all |
| cli module, `mod_cli.c` | a control fifo and a control port, each with its handle in the event context | init, destroy, `ctrl_on_read`, `ctrl_on_accept` | the fifo stays registered and is read; failures of init are undone |
| micloop, test1_buf1 | a context; two views of one buffer | init, destroy, `test_buf1` | as above; a header printed after its body stands right before it |
| decoder, `fftest1.c` | an input buffer that slides, a parser, a decoder, files | refill, parse, decode, drain, release | the parser sees the file whole and in order; everything is released |
| red-black tree, `tree.h` as `cfg.c` expands it | pointers `left`, `right`, `parent` and a color | `RB_INSERT`, `REMOVE`, `FIND`, `MIN`, `MAX`, `NEXT`, `PREV` | it is in order and balanced after any insertions and removals |

How they interact: `main` makes the configuration and the event context, then
starts the modules, which register descriptors with the event context and are
called back from `aloe_ev_once`, which `main` calls for ever. A registration
lasts for one delivery; a callback that wants another registers anew, from
within the loop that called it. Configuration values and log lines are index
buffers. The event context computes its timeouts with the time macros.

What is hard here:

- **Re-entrance.** Callbacks register (and may withdraw) while `aloe_ev_once`
  walks its queues, and the record of the event being delivered is recycled
  before its callback runs.
- **Pointers, not sequences.** `aloe_ev_cancel` puts an event on a queue without
  taking it off another, so that what a queue contains is a question of
  pointers, and a search may not end.
- **Recycled memory.** Event records, descriptor records and configuration
  records return from spare queues with old content.
- **Partial failure.** The second of two allocations, the third system call of
  four, the fourth step of a start.
- **Boundaries.** Wrapping indexes, growing memory, a countdown of ready
  descriptors, microseconds cut from nanoseconds.
- **Rotations.** A removal repairs the tree on its way up, in four cases and their
  mirrors, and reads children and colors that an earlier turn has changed.

## Modules

| module | role |
|---|---|
| `Tailq` | TAILQ on pointers: operators, `WellLinked`, `Contents` |
| `Ev` | state machine of `ev.c` over `Tailq` |
| `EvProps` | its properties |
| `EvAbs` | abstract specification: registrations that are armed, pending, delivered |
| `EvRefines`, `MCEv` | refinement mapping from `Ev` to `EvAbs`; instances for TLC |
| `EvProofs` | lemmas about TAILQ, and theorems about the event context |
| `Program`, `ProgramProps`, `ProgramProofs` | `main` and the cli module, composed with `EvAbs`; theorems |
| `RinBuf`, `RinBufProps`, `MCRinBuf` | ring buffer |
| `Fifo` | abstract specification: a bounded queue of bytes with partial transfers |
| `RinBufProofs` | theorems: the ring stays in its memory and implements `Fifo` |
| `Buf`, `BufProps` | index buffer and growing printf |
| `BufUsers`, `MCBuf` | the logger and `test_buf1`, composed with `Buf` |
| `BufProofs` | theorems about the index buffer and its users |
| `Cfg`, `CfgProps`, `MCCfg` | configuration store over memory |
| `Store` | abstract specification: a map |
| `CfgProofs` | theorems: buffers are owned once, and the store implements the map |
| `RbTree`, `RbTreeProps` | red-black tree of `tree.h` on pointers, with the loops of `cfg.c` around it |
| `SortedSet` | abstract specification: a set of keys in order |
| `RbTreeProofs` | theorems: the tree stays red-black and implements the sorted set |
| `Files` | descriptors of the wrappers in `misc.c` |
| `TimeSec` | time arithmetic with unsigned conversions |
| `MiscProofs` | theorems about `Files` and `TimeSec` |
| `Fftest`, `FftestProps`, `FftestProofs` | decoder program; theorems about it |

Each state machine also contains a few operators marked *fault*. They are not
used by it: each is a form of a definition with a likely bug, named in
`PROJECT.json` under "mutants" together with the property that must catch it.

## The event context

`Ev.tla`; `ev.c` and the types of `priv.h`.

**State.** `fdm` and `notim` hold the pointers of the two kinds of queues: `ptr`
of a cell is `tqh_first` of a head or `tqe_next` of an element, `back` is
`tqh_last` or `tqe_prev`. A cell is named by the head or element it is in;
the event queue of a descriptor record is headed by the record. `fdno` and `noti`
are the fields of the records, `alloc` what `malloc` has given out. `pc` and
`loop` are where `aloe_ev_once` or `aloe_ev_destroy` is, with its locals. `regs`
is history: the registrations in order, with their handle and whether they are
armed, pending, done or cancelled; `cbarg` of an event is its number there.
`corrupt` is history: `aloe_ev_cancel` has found an event.

**Actions.** `aloe_ev_put` and `PutNoMemory` (second `malloc` fails);
`CancelArmed`, `CancelPending`, `CancelMiss` for the three outcomes of
`aloe_ev_cancel`; `OnceBegin` (the scan up to `select`, lines 144-198),
`SelectReturn`, `OnceError`, `ReadClock`, `CollectNoti` and `CollectFd` (the two
nested loops, a step for every turn), `Dispatch`, `CbReturn`, `OnceReturn`;
`DestroyBegin`, `DestroyFd`, `DestroySpareFd`, `DestroyNoti`. The client acts in
`idle` and in `cb`, that is also from callbacks. `Tick` and `Arrive` are the
clock and the descriptors.

**Reductions.** Time may pass and descriptors may become ready at any moment, but
nobody looks between, so `Tick` is enabled only where the clock is read next and
`Arrive` only in `select`. A callback consumes the readiness it was told of; one
that leaves data is one whose descriptor becomes ready again. `malloc` gives a
chosen free record, which is sound as addresses are never compared otherwise.
`aloe_ev_get` only reads and is left out.

**Runs.**

| run | instance | shows |
|---|---|---|
| `EvSafety` | 3 kinds of request, 3 registrations, 3 + 3 records, `TICK` 2, timeouts of 5 and of 3 ticks | without withdrawals: types, `NotiQueuesOK`, `Accounted`, `NothingLeaks`, `SelectsWhatIsArmed`, `FreedOnce`; and `ImplementsEvAbs`, every step of `Ev` is a step of `EvAbs` or none |
| `EvLive` | 2 kinds of request, 2 registrations, the same timeouts, 1 failing system call, withdrawals of live and delivered handles | `FdQueuesOK` and `OneRecordPerFd` whatever a withdrawal has done to the event queues; until one does, `OnceReturns`, `TimerDelivered`, `ReadyDelivered` |
| `EvCancel` | live withdrawals | a withdrawn event is delivered: see [Findings](#findings) |

What `ImplementsEvAbs` says beyond the invariants: a registration is delivered once, with
its own callback; an event is collected exactly when
it is ready or due in this round, none that is so is left behind by the countdown of
`fdmax`, it is told its descriptor's readiness or else the time, and events are
delivered in the order they were collected.

Three registrations are what it takes for two events of one descriptor and one
of another, or a timer that moves in with a descriptor (for fd -1 the search
answers the first record, whatever it is); a fourth adds states and no new
position in a queue. Pools are as large as the registrations, so records run out
only through `malloc`. `MaxTime` 5 lets the timer of 3 ticks be due before the descriptor's
timeout of 5, or with it when it is registered two ticks later. With `TICK` 2 and the pause
against busy waiting of one microsecond (`BusyWait`, 1001 in the code, `ev.c:16`), the longer
timeout is cut from two microseconds and a half to two, more than the pause: `select` may
return a tick before the event is due, and after the shorter, if the scan kept the latest of
the due times and not the earliest, which is the fault `SelectsWhatIsArmed` is tried with.
A failing system call only ends the round, and has its place in `EvLive`. In `EvLive`
two registrations suffice for a record that is emptied and reused while another is
armed, and the two kinds of request are a descriptor with a timeout and a timer.

**Fairness.** `FairSpec` has weak fairness of `Once` (main calls it for ever and
callbacks return, `evmtest1.cpp:262`), of `Freeing` (loops without a wait) and of
`Tick`. None is assumed of the client or of descriptors. System calls fail at most
`MaxErrors` times, without which nothing need ever be delivered.

**Withdrawal.** `aloe_ev_cancel` (lines 124-142) does not take the event off the
queue it finds it on, so nothing about event queues holds after it:
`corrupt` bounds those properties, and the descriptor queues are checked, and
proved, without that bound. `CancelKinds` tells which handles a client withdraws.
Withdrawing a delivered handle, whose record may be another registration by now,
is the client's mistake; it is included in `EvLive`.

All the invariants of these runs are [proved](#proofs) for pools, requests and bounds of
any size, and without withdrawals the refinement is.

## main and the cli module

`Program.tla`; `evmtest1.cpp`, `mod_cli.c`, the init of `mod_micloop.c`, over an
instance of `EvAbs` in place of `ev.c`, which is what the refinement allows.

**State.** `pc` is where `main` is; `held` the contexts allocated, `mod_q` the
queue of modules, `open` the descriptors, `listener` the cli module's three
connections (`ctrl_listener`), `step` the place in a callback. Fifo data is counted
in what one `read` takes (up to 499 bytes). `starved` is history: `aloe_ev_put` has
failed.

**Actions.** `Option`, `OptionsRead`, `InitContexts`, `CliAlloc`, `InitFifo`,
`InitPort` (each with its failures: no descriptor; a descriptor that cannot be
made nonblocking or asked for its name; no registration), `Undo` (the error path
of init), `CliUp`, `InitMicloop`; `Once` for the steps of the event context;
`Call`, `Read`, `ReadNothing`, `Rearm`, `Return` for the callbacks; `DestroyMod`,
`DestroyContext`, `Exit`. `Write` and `Connect` are other processes.

`Undo` always ends the program: line 186 calls `aloe_ev_cancel` for connections
*without* a handle, the third connection never has one, and `aloe_ev_cancel` reads
through the NULL it is given. `ReleasedAtExit` states precisely this: main dies
only there. `quit` is never set in the code as built, so the loop has no end and
modules are unwound only when a later one fails to start; an unwinding of two
modules does not occur.

**Runs.** `Program` (options, all failures, four registrations, two writes):
`FifoStaysServed` - exactly one registration of the fifo, in the event context or
about to be renewed, through every outcome of a read; `WaitsOnOpen` - no
closed descriptor is waited for, which would make every `select` fail;
`Nested` - no module outlives the event context, nor that the configuration;
`ReleasedAtExit`; and `CommandsRead`, under weak fairness of main and strong
fairness of a `select` and a `read` that do not fail for ever. Four registrations
are the two of init and two renewals; the registration after that fails, as one
may for lack of memory, and the properties about the fifo allow for it. All but
`CommandsRead` are [proved](#proofs) for every bound.

The option `-p` is documented and handled, but is not among the short options that
`getopt_long` is given (`evmtest1.cpp:139`, against lines 170 and 211), so a port named
with it is passed over. The model has it as it is, as an option without effect.

After one connection to the port, nothing waits on the port any more:
`ctrl_on_accept` is a stub and does not renew its registration. Nothing in the
repository says it should, so no property does.

## The ring buffer

`RinBuf.tla`; `misc.c:35-81` and `aloe_buf_expand` with
`aloe_buf_flag_retain_rinbuf`. A step is one `memcpy`; `io` holds the locals of the
copying loop. `RinBuf` checks `InMemory` (all copies within the memory, no unwritten
byte read), `ImplementsFifo` (a bounded queue of bytes, `Fifo.tla`, with
partial transfers and their return values) and `CallsReturn`, for capacities 2 and 4
and requests of up to 5 bytes of two values: requests beyond the capacity, every
position of the wrap, growth when full and when wrapped. Fairness: the loops run on.
`RinBufRetain` is a finding. Of every capacity and request, `InMemory` and
`ImplementsFifo` are [proved](#proofs). The comment of `aloe_rinbuf_write`
(`main.h:118`) takes `pos` for the start of the spare memory; the code takes it for the
start of the content, and so does the model.

## The index buffer and its users

`Buf.tla`; `misc.c:83-193`. A text stands for a format with its arguments;
`vsnprintf` is what it does to memory: it cuts off and ends with NUL. A step of
`aloe_buf_vaprintf` is one attempt to print, with its growth. A format that is empty is not
a text that is: `aloe_buf_vaprintf` answers it with 0, as a success, and neither looks at
the buffer nor writes a NUL (`misc.c:136`, `AprintfNothing`), so no property promises a
string after it.

`BufUsers.tla` composes `Buf` with the two programs that depend on what it leaves behind;
`user` says which of them, or any other, a behaviour has.

- *log*: `log_printf` (`evmtest1.cpp:60-137`) prints a line in four pieces - time, level,
  place, message - into 500 bytes on the stack, and shows it on a stream that the level
  chooses. `LineWhole`: a line is shown whole or, if any piece does not fit, not at all.
- *response*: `test_buf1` (`mod_test1_buf1.c:32-91`) prints a body behind a gap, then the
  header that tells its length into the gap, through a second `aloe_buf_t` over the same
  memory, and shifts the rest of the gap out with `aloe_buf_shift_left`. `ResponseWhole`:
  header and body stand next to each other as one string, whatever the gap leaves over.

A user's buffer is on the stack: `Return` forgets it.

Run `Buf` checks `LineWhole` and `ResponseWhole` and, of each printf of any user,
`StringEnds` (which includes that all indexes are within the memory), `AllOrNothing`,
`FailsForReason`, `GrowsAsNeeded` and `PrintfReturns`. Its least capacity is 2 (32 in the
code), with maxima -1 (none), 0 (do not grow), 1, 3 and 5 and texts of up to two letters:
two doublings, a maximum below the least capacity, and maxima that are no power of two. A
line has room for 6 bytes and pieces of up to 2 letters, so that it may end in each of its
pieces, or fit but for the NUL; the letters of a piece are the same, which tells pieces
apart. A response has room for 7 bytes with a gap of 3, so that body and header may fill
their room, leave a part of it, or not fit. All but `PrintfReturns` are [proved](#proofs)
for texts, capacities and maxima of any size.

## The configuration store

`Cfg.tla`; `cfg.c`. The tree is the set of its records; the union of a value is one
`word` (a number or a pointer) with `cap` and `lmt`. Memory is a set `live` of
addresses: a program that writes or frees what is not live is dead. `mem` is their content.
Sizes are numbers of bytes: data get what they need (line 97), a string the `Least` capacity
(32), in which it is printed, and cut off, before that is doubled.

A client is *careless* in two ways the interface permits: it gives a key a value of
another type (`retype`), or sets a buffer in a record that a reset has recycled
(`recycle`). `Usage` says which it does, and whether it sets strings with conversions
(`format`).

A string with conversions is one the code does not print. `cfg_set_val` hands its
`va_list` as the one argument to `aloe_buf_aprintf` (line 108), which takes arguments one by
one; `aloe_buf_vaprintf` would take the list. What `%s` then finds is the list, and further
conversions find what was never passed. `SetFormat` leaves open what comes of it: any text
of `Junk`, failing and growing like others, or the end of the program. `main.h:329` describes
the value as `set( ,const char*, ...)`, which a reader takes for a format and its
arguments: the code does not do this, and nothing here shows that it does. A format without
conversions is printed as it is. An empty one, or NULL, prints nothing, and the string has
length 0, with or without memory (`SetNothing`).

- `Cfg`, a client with `format` that is not careless, through recycled records of numbers,
  growing buffers, and `malloc` failing anywhere. `RecordsOnce`. `OwnBuffers`: every buffer is
  live, of one record, and large enough for its text, and the program dies in printing a
  format with conversions or not at all. `NothingLeaks`: memory is held by a record of the
  tree or is among the `lost`, and these are, exactly, the beginnings of strings: when a
  string does not fit the least capacity, its key is new and there is no more memory, the
  record is freed and its buffer not, for `cfg_free` looks at a type that is still void
  (line 188). `ImplementsStore`: every call that prints no format with conversions is one
  of a map (`Store.tla`), also after calls that did, failures included: a failing set of an
  existing key answers with the record all the same (line 186).
- `CfgReset`, `recycle` only: a finding, a reset followed by a set.

The properties of the first run do not speak of a client that is careless, but for
`RecordsOnce`. Its states are too many for a run with `recycle` and `retype` besides: there
`RecordsOnce` rests on its theorem, which is for any `Usage`. What a careless client's sets
end in is only in `CfgReset`; no property covers `retype`.

Two records, three addresses, two keys: a record is recycled while another holds a
buffer, and a buffer grows while an old address is free. `Least` is 2, with a text of 1
byte, one of 3, and junk of 2, for whose NUL the least capacity is just too small; data of
no bytes have a capacity below it. Addresses are symmetric. The accessors only read;
`aloe_cfg_next` is in `RbTree`. All four properties are [proved](#proofs) for any records,
addresses, keys and values.

That a set of records stands for the tree is what the next section justifies.

## The red-black tree

`RbTree.tla`; `tree.h:401-770` as `cfg.c:38-42` generates it, and the loops of `cfg.c` that
insert, find, remove one key or all, and go through the keys. A record is named by its key.
`t` holds the root and, for every record, `left`, `right`, `parent` and `color`. The source
writes each case twice, for the left and for the right; here the side is an argument, and
`t[s][e]` is the child of `e` on side `s`. A step is a turn of a loop that rebalances, or
the insertion or removal before it. A record that was removed keeps its fields in the
code and is freed or put aside; none is read before it is set, so the model forgets them
(`STALE`). A walk along pointers ends at what is no record; that it is then at `NULL` and
has met no forgotten record is part of what is proved (`Tree`).

Run `RbTree` checks, for every order in which keys are set, reset one by one and reset all
at once:

- `RedBlack`: children and parents agree, no red record below a red one or at the root, the
  same number of black records on every path, *in every turn of the loops*, with the one
  exception each loop has: an insertion's record may be red where it must not be, and a
  removal leaves one record whose paths are one black short and which may be below a red
  parent, or be its parent.
- `ImplementsSortedSet` (`SortedSet.tla`): find, first, last, next and previous answer, in
  every state, as the set of the keys that were set and not reset does; a reset takes
  exactly its keys away, the least first. This is what `Cfg` and `Store` take the tree for.

Both are [proved](#proofs) for every finite set of keys. The run has ten keys, because with
fewer the repair of no removal climbs two levels, and a mistake in the second turn goes
unseen.
Every tree of up to ten keys that insertions and removals can make is reached.
`RB_NFIND` and the splay tree of the header have no user.

## Files and sockets

`Files.tla`; `misc.c:203-225, 256-343`. Calls are made one after the other, each
system call a step that may fail. `NothingLeaks`: between calls exactly those
descriptors are open that the process was given, and its stream's. `FailureKeeps`:
a failing call leaves the others as they were. `Redirected`: however often `dup2` is
interrupted, success means the descriptor was replaced. Four descriptors, one of
them a stream's, let calls run out of descriptors. That the retries end is up to the
kernel, so no liveness is claimed. The three are [proved](#proofs) for any set of
descriptors.

## Time arithmetic

`TimeSec.tla`; `main.h:237-268`, `time.c`. The four macros as operators on pairs, over
a `long` of any width and any scale of at most half its range. They keep no state, so
there is no run: the theorems `NormExact`, `AddExact`, `SubExact` and `CmpExact` say that results
are normal and stand for the exact time, and that pairs compare as times do, unless the
seconds overflow (hypotheses of the first three). Subseconds are not negative: the unsigned scale would make a negative
one huge, and no code here has one. Differences below zero are included: the
documentation asks for a later first operand, the code does not need it. A result
written over an operand is covered, for no macro reads a field it has written.

`aloe_timeval_sub` "Hold result if not NULL" (`main.h:295`) does not look whether its
third parameter is NULL (`time.c:23`); nobody passes NULL.

## The decoder program

`Fftest.tla`; `fftest1.c`. A byte is its place in the file. libavcodec is external: a
parser that takes any part of its input and may return a packet, a decoder that makes
up to `MaxFrames` frames of it, or fails. `Fftest` checks, for a file of 7 bytes, a
buffer of 4 and a threshold of 3 (the code: half the buffer), so that the buffer is
refilled empty, with a rest and at the end of the file, with short reads:
`StreamInOrder`, `AllConsumed`, `ReleasedAtEnd` and, with strong fairness of a parser that consumes something, `Ends`. The fairness is needed: a
parser that refuses a full buffer for ever makes line 228 an endless loop. `-h` and a
failing `calloc` end at line 274, which looks into `dec`, NULL then; `ReleasedAtEnd`
says that main dies only so. But for `Ends`, all of this is [proved](#proofs) for every
size of file, buffer and threshold.

## Findings

Each is a run in which TLC finds the quoted statement violated.

| run | code | statement |
|---|---|---|
| `EvCancel` | `ev.c:45`: an event searched by its handle is not taken off its queue, so a withdrawn event is still delivered | `ev.h:40` "Remove the event from internal process." |
| `RinBufRetain` | `misc.c:97`: the content moved to new memory is taken off the ring by the read that moves it | `main.h:135` the flag asks to retain it |
| `CfgReset` | `cfg.c:48`: a freed buffer is used again by the next set | `main.h:337` "reset all cfg" |

One more disagreement is in the model and has no run of its own: `cfg.c:108` does not
pass on the arguments of a string, which `main.h:329` has as `set( ,const char*, ...)`. It
follows from the types of the two functions; see [Configuration](#the-configuration-store).

## Proofs

**Event context.** These hold for every value of its constants under the assumptions named
there: `PoolsAssumption` (the pools of addresses are finite, disjoint, and neither heads nor
NULL), `RequestsAssumption` (requests have their types; descriptor -1 waits for no readiness),
`BoundsAssumption` (bounds are numbers).

- **`TypeCorrect`**: `TypeOK` is inductive; it is split into parts by what actions
  change, with a lemma for each action. What is more than bookkeeping is that the records
  the collecting loop holds across its own changes are records, and that the result of
  `select` is a finite set to be counted.
- **`FdQueuesCorrect`**: `fd_q` and `spare_fd_q` are well linked and disjoint until the
  context is destroyed, whatever `aloe_ev_cancel` did to the event queues. `FdQueuesOK`
  says that there *is* an arrangement of the records in two sequences that the pointers
  agree with; the inductive invariant `FdInv` adds that the record the collecting loop is
  at is on `fd_q`: without it the removal at `ev.c:246` could be of a record that is
  elsewhere.
- **`NotiQueuesCorrect`**: the event queues, one to each record of `fd_q` and two of the
  context, are well linked and disjoint as long as no `aloe_ev_cancel` has found its event.
  The number of queues varies: a record that becomes spare gives up its queue, one that is
  taken into use gets an empty one. The inductive invariant `NotiInv` adds that the event
  the collecting loop is at is on the queue of its record, and uses `FdInv` for which
  queues there are.
- **`OneRecordCorrect`**: no two records of `fd_q` are for one descriptor. It is about
  descriptors other than -1 in `fd_q_find` and about -1 because the first record is
  taken for it, so `RecordInv` adds that a record on `fd_q` has an event, but for the one
  the collecting loop has just emptied and not yet removed.
- **`NothingLeaksCorrect`**: what `malloc` has given out is on a queue or, until
  `aloe_ev_destroy` gets to it, known to the context (`AllocInv`). A removal that is
  followed by no insertion would leak a record, an insertion of a record still on another
  queue would let two queues share it; the second is what `NotiInv` excludes.
- **`AccountedCorrect`**: every registration that is armed or pending has one event, on the
  queue that its state says, and every event there is one of a registration. `RegInv` adds
  what the event and the descriptor's record keep of the request (`Kept`): the handle, the
  descriptor, what is waited for and until when.
- **`SelectCorrect`**: at the moment of `select` its sets and its timeout are those of the
  registrations that are armed.
- **`FreedOnceCorrect`**: `aloe_ev_destroy` ends with nothing allocated and frees nothing
  twice. `FreeInv` says for each of its four loops which queues are still whole; the
  records of `fd_q` are freed after their events were moved to a queue of the context, so the
  argument is again which queues there are.

- **`ImplementsEvAbsAlways`**: `CancelKinds = {}` implies `Spec => ImplementsEvAbs`.
  The assumption is that of the run: once `aloe_ev_cancel` has found an event the queues say
  nothing (see Withdrawal above), and `EvAbs` has no withdrawal. The argument is a
  step simulation from the invariants above and three more. `OrderInv`: the events of a record are in
  the order of their registration, since an insertion is at the tail and a removal keeps the
  order of the rest. `FoundInv`: `select` is asked for exactly what is waited for, and
  `fdmax` becomes the number of descriptors and conditions found. `CollectInv`: the record
  and the event that the loops are at have places in their queues (`AtRecord`,
  `AtEvent`), no event at an earlier place is ready or due, and `fdmax` still counts the
  findings of the records behind, so that a record whose sets the code does not look at any
  more because the count is down to 0 (`ev.c:219`) has nothing in them. Then every action
  is a step of `EvAbs` or none: one lemma each, from `PutIsRegister` to `DispatchIsDeliver`. The hard ones are of the collecting loops
  (`CollectNotiIsCollect`, `CollectFdIsSeen`): events are collected after all of
  their descriptor that were registered before them (`EarlierQuiet`), and
  delivery begins when no armed event is left that is ready or due.

The first part of `EvProofs` is the basis: what `TAILQ_INIT`, `INSERT_TAIL` and `REMOVE` do to any set of
queues that share a memory of pointers - the lemmas `InsertTailKeeps`, `RemoveKeeps`,
`RemoveInsertKeeps` and `InitKeeps` say that linked queues stay so and which elements each
has, `BackPointers`, `InsertFirst` and `RemoveFirst` what the ends of a queue are - and that
a walk along the pointers visits the elements of its queue (`Visited`), in its order
(`Contents`, with `InsertTailOrder` and `RemoveOrder`).

**Ring buffer** (`RinBufProofs`, for every set of bytes, of capacities and every bound on a
request). `RingAlways`: `Spec => []RingInv`, from which `AlwaysInMemory` and `RingIsFifo`
follow. `RingInv` says that the indexes are within the memory (`Ring`), that every place
between them was written (`AllWritten`), and what relates a copying loop to the ring
(`Calls`): a write has yet to report exactly what there is room for, a read what is there,
and a growing ring has read nothing that is not its own. Without the last, neither is
inductive: `InMemory` of a read would fail in its second chunk. `RingIsFifo` is a step
simulation, `RingInv /\ [Next]_vars => [Abs!Next]_(Abs!vars)`, with a lemma for each
action. Its core is arithmetic of places: a place behind the content is not a place of it
(`PlacesBehind`), and the content from its second chunk on is at the places it was
(`TakenBefore`), around the end of the memory (`Wraps`).

**Index buffer and its users** (`BufProofs`, for every set of letters, every text, maximum
and capacity). `StringEndsCorrect`, `AllOrNothingCorrect`, `FailsForReasonCorrect`,
`GrowsAsNeededCorrect`, `LineWholeCorrect`, `ResponseWholeCorrect`. The first four are of a
`printf` that returns; what they need of one that is still trying is `TryInv`: nothing that
was printed before the call has changed (`Keeps`), the limit has moved with the memory, and
the memory is no larger than the maximum, nor than twice what the text needs. `LogInv` says
that after any number of pieces the line is exactly those pieces in order, each whole and
with room for its NUL: the check of `log_printf` is made after each piece, and a piece that
is cut off would be followed by the next if it were made at the end. `ResponseInv` has the
body at its place behind the gap while the header is printed in front of it, through
another `aloe_buf_t` with another limit: that the NUL of the header does not
fall on the body is `Len(want[2]) < Gap`.

**Configuration** (`CfgProofs`, for every set of records, addresses, keys and values, under
`MemoryAssumption`, NULL, addresses and numbers are different things; `KeysAssumption`, keys
are ordered; `SizesAssumption` and `AbsentAssumption`). `RecordsOnceAlways`,
`OwnBuffersAlways`, `NothingLeaksAlways`, and `ImplementsStoreAlways`, the refinement of
`Store`. `OwnBuffers` alone is not inductive: whether `aloe_cfg_set` frees or fills the
right memory depends on the type and the capacity that its record had before, also as a
spare one. `CfgInv` therefore adds `NoData` (a value without memory has no capacity; a
record that is not in the tree has no type), and `Owned` of it that the data of a record,
shown or not, is its own and large enough and that memory that is not live has no text.
Every function that `cfg_set_val` calls is proved once, as a relation of the outcome to
what was before: `Sane` of the value with its memory, `Turned` for what becomes of the
memory of others, `Spilt` for what is left when `malloc` fails - the old memory, or the
beginning of a string - from which follows what may be lost. That `Junk` prints like any
text is all that is assumed of a format with conversions, unless it ends the program.
The refinement is a step simulation: a set is a
set of the map or its failure (`SetExistingIsSet`, `SetNewIsSet`, `SetNoKeyIsSet`), a reset
removes the keys in order (`InOrderExists`, `InOrderOnce`: a finite set of records with
distinct keys has one order).

**main and the cli module** (`ProgramProofs`, for every number of options, registrations and
writes, and every port). `AlwaysNested`, `AlwaysReleased`, `AlwaysOpen`, `FifoAlwaysServed`.
The inductive invariant `ProgramInv` gives, for every place in `main`, what is allocated and
queued (`Held`) and how far the event context is (`Places`); it has the requests among the
registrations and no other (`Registered`), their descriptors open whether they wait or
not (`Opened`: a callback renews what is not armed), and the fifo served from the start of
the fifo on and not only in the loop (`Served`). That a callback runs only in the phase
`callback` is what keeps two renewals from overlapping.

**Red-black tree** (`RbTreeProofs`, under `KeysAssumption`: the keys are a finite set of
numbers, `NULL` and `STALE` are no keys, and `STALE` is no color). `RedBlackAlways` and
`SortedSetAlways`, from one inductive invariant, `RbInv`. What `RedBlack` says of paths and
`SortedSet` of answers is recursion over the tree, which these provers do not do; so the
invariant says it of neighbours only, by two functions that it asserts to exist:

- `Tree`: children and parents agree, and each record lies between the keys `lim` gives
  it; a child has the limits of its parent, but on one side its parent. That is the order.
- `Even`: `h` gives every record the number of black records on a path down from it, one
  equation for each child. In the loop of a removal the record it is at - or, where it is at
  no record, the place below `parent` - counts for one more (`Count`, `Below`).
- `Reds`: which records may be red where they must not be: `elm` in the loop of an insertion;
  in that of a removal `elm` and what is right below it.

Each is disturbed at a few records only, so each operation is a short list of equations:
what a macro returns (`RotateIs`, `LinkedIs`, `UnlinkIs`), then why the tree is one again
(`RotatedTree`, `RotatedEven`), then a lemma for each kind of turn: `InsertUp`, `InsertOuter`,
`InsertInner` for a red and a black uncle, `RedSibling`, `BlackNephews`, `NearNephew`,
`FarNephew` for a removal, and `InsertEnds` and `LoopEnds` for what the loops leave.
`RB_REMOVE` of a record with two children is taken apart: its successor is unlinked
(`UnlinkedTree`, `UnlinkedEven`), then takes the name and place of what is removed
(`RenamedTree`, `RenamedEven`); that the limits of all other records allow for it is
`SuccessorIs`.

A search is a walk, and a walk ends because the finite set of records has no part that it
cannot leave (`Grounded`, proved of walks down and up by the well-founded order of sets).
`PathIs` shows that the function that defines `Path` exists, and `PathLeast` that its value is
the least set closed under the walk: what takes the place of induction along it. From these
`SearchEnds` (a search for an absent key ends where the key belongs), `MinMaxIs` and
`NeighbourIs`, and together `FoundIs`: the tree answers as the set of its keys. For
`RedBlack`, `DeepEven` adds up the equations of `Even` along the way from the root
to every leaf.

**Files** (`MiscProofs`, for every set of descriptors). `NothingLeaksAlways`,
`FailureKeepsAlways`, `RedirectedAlways`. The three speak of states between calls; the
inductive invariant `FilesInv` says of every step within one which descriptor the call
owns (`OwnedOnce`), which it has touched so far (`AsBefore`), and that the file which
replaces another is open in the call's own descriptor (`Replacing`).

**Decoder program** (`FftestProofs`, for every `FileSize`, `AUBUF_SZ` and threshold under
`SizesAssumption`). `StreamAlwaysInOrder`, `AllConsumedAlways`, `ReleasedAtEndAlways`. The
inductive invariant adds that an empty buffer in front of the parser means the end of the
file (`EmptyAtEnd`) - true only because the threshold is at least 1 - and that `dec` is
obtained before all else (`DecFirst`).

**Time** (`MiscProofs`): four theorems about the operators of `TimeSec`, under `ScaleFits` (twice the scale
fits in a `long`): `NormExact`, `AddExact`, `SubExact`, `CmpExact`. The conversions keep
what is in range (`UnsignedKeeps`, `ConversionKeeps`), quotient and remainder make up the
number (`DivMod`), the sum of two normal subseconds carries at most one second
(`SmallQuotient`), and a second more outweighs any subseconds (`SecondsDecide`).

Only model-checked: all liveness (`OnceReturns`, `TimerDelivered`, `ReadyDelivered`,
`CallsReturn`, `PrintfReturns`, `Ends`, `CommandsRead`), as TLAPS does neither fairness nor
ENABLED. Every invariant, action property and refinement that a passing run checks
is a theorem.

## What is not modelled

- `aloe_ev_put` when `clock_gettime` fails and `aloe_ev_init` when `malloc` does: nothing
  changes. Descriptors at or above `FD_SETSIZE`: a condition on the caller that the
  code does not state. Callbacks that call `aloe_ev_once` or `aloe_ev_destroy`: none does.
- `RB_NFIND` and the splay tree of `tree.h`, and the queue families of `queue.h` other than
  TAILQ, which have no user.
- `aloe_file_size` and `aloe_file_nonblock`: the first only asks, and nobody calls it; the
  second changes a flag that no property is about, and that it may fail is in `Program`.
- The wording of log lines and help texts; a piece of a line is its length and a letter.
- The accessors of the configuration: they only read.
- The build files: no behaviour at run time.

## Plan

Done, in this order: `Tailq` and `Ev` with its properties, `EvAbs` and the refinement, the
theorems about it; `RinBuf` and `Fifo`; `Buf`; `Cfg` and `Store`; `Fftest`; `Program` over
`EvAbs`; `TimeSec`; `Files`; `RbTree` over `SortedSet`; `BufUsers`; the theorems about
`Files`, `Fftest`, `Program`, and `RinBuf` with its refinement; those about `Buf` and
`BufUsers`, about `Cfg` with its refinement, and about all invariants of `Ev` and the
refinement of `EvAbs`; those about `RbTree` and its refinement of `SortedSet`.

Next, in proofs:

`main` over `ev.c` itself: `Program` is proved over `EvAbs`, and `Ev` implements `EvAbs`;
what is left is to say of one behaviour that it is of both.
