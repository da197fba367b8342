------------------------------- MODULE Files -------------------------------
(***************************************************************************)
(* The wrappers of system calls in misc.c that open descriptors:           *)
(* aloe_ip_listener, _aloe_file_stdout and aloe_file_vfprintf2, called one *)
(* after the other by a process.  The kernel is external: every call may   *)
(* fail, and dup2 may be interrupted.                                      *)
(***************************************************************************)
EXTENDS Integers

CONSTANTS Fds           \* bound: the descriptors the process may have

ASSUME FdsAssumption == Fds \subseteq Nat /\ 1 \in Fds

NONE == -1

\* What the calls wait for, by name of the system call; a call ends in "returned" with a
\* result, or in "failed", and the process goes on from there.
VARIABLES
  pc,
  file,         \* what each descriptor refers to
  stream,       \* the descriptor of the stream the process has, or NONE when it is closed
  given,        \* the descriptors the process has been given
  fd,           \* the call's own descriptor
  sfd,          \* the descriptor to replace, or NONE
  sfp,          \* was the stream given?
  inet,         \* is the address one of the internet families?
  before        \* history: file and stream at the call

args == <<sfd, sfp, inet, before>>
vars == <<pc, file, stream, given, fd, args>>

IsOpen(d) == file[d] # "closed"
Free      == { d \in Fds : ~ IsOpen(d) }

Init ==
  /\ pc = "idle"
  /\ file = [d \in Fds |-> IF d = 1 THEN "terminal" ELSE "closed"]
  /\ stream = 1 /\ given = {}
  /\ fd = NONE /\ sfd = NONE /\ sfp = FALSE /\ inet = FALSE
  /\ before = [file |-> file, stream |-> stream]

Ready == pc \in {"idle", "returned", "failed"}

\* The process closes a descriptor it was given.
Close ==
  /\ Ready /\ \E d \in given :
       /\ file' = [file EXCEPT ![d] = "closed"] /\ given' = given \ {d}
  /\ pc' = "idle" /\ fd' = NONE
  /\ UNCHANGED <<stream, args>>

\* A call begins.
Begin(first, d, s, i) ==
  /\ Ready /\ pc' = first
  /\ fd' = NONE /\ sfd' = d /\ sfp' = s /\ inet' = i
  /\ before' = [file |-> file, stream |-> stream]
  /\ UNCHANGED <<file, stream, given>>

\* A descriptor is opened for f, the lowest that is free.
Open(f) ==
  \E d \in Free :
    /\ \A x \in Free : d <= x
    /\ fd' = d /\ file' = [file EXCEPT ![d] = f]

Fails == pc' = "failed" /\ UNCHANGED <<file, fd>>

FailsOpen == pc' = "failed" /\ UNCHANGED <<file, fd>>      \* fault: fd is left open
FailsClosing ==
  /\ pc' = "failed"
  /\ file' = [file EXCEPT ![fd] = "closed"] /\ fd' = NONE

\* The call returns fd to the process.
Returns ==
  /\ pc' = "returned" /\ given' = given \union ({fd} \ {stream})
  /\ UNCHANGED <<file, stream, fd, args>>

-----------------------------------------------------------------------------
\* aloe_ip_listener.  An unknown family fails at once.
Listener ==
  \/ \E i \in BOOLEAN : Begin("socket", NONE, FALSE, i)
  \/ Begin("failed", NONE, FALSE, FALSE)

Socket ==
  /\ pc = "socket"
  /\ \/ Fails
     \/ Open("socket") /\ pc' = IF inet THEN "setsockopt" ELSE "bind"
  /\ UNCHANGED <<stream, given, args>>

SocketStep(this, next) ==
  /\ pc = this
  /\ \/ FailsClosing
     \/ pc' = next /\ UNCHANGED <<file, fd>>
  /\ UNCHANGED <<stream, given, args>>

Listen ==
  \/ SocketStep("setsockopt", "bind") \/ SocketStep("bind", "listen")
  \/ pc = "listen" /\ (Returns \/ (FailsClosing /\ UNCHANGED <<stream, given, args>>))

-----------------------------------------------------------------------------
\* _aloe_file_stdout: a stream is reopened, or the file is opened and its end sought.
Stdout ==
  \E d \in Fds \union {NONE} :
    \/ stream # NONE /\ Begin("freopen", d, TRUE, FALSE)
    \/ Begin("open", d, FALSE, FALSE)

\* A failing freopen has closed the stream.
Freopen ==
  /\ pc = "freopen"
  /\ \/ /\ pc' = "dup2" /\ fd' = stream
        /\ file' = [file EXCEPT ![stream] = "log"] /\ UNCHANGED stream
     \/ /\ pc' = "failed" /\ fd' = NONE
        /\ file' = [file EXCEPT ![stream] = "closed"] /\ stream' = NONE
  /\ UNCHANGED <<given, args>>

OpenLog ==
  /\ pc = "open"
  /\ Fails \/ (Open("log") /\ pc' = "lseek")
  /\ UNCHANGED <<stream, given, args>>

SeekEnd ==
  /\ pc = "lseek"
  /\ FailsClosing \/ (pc' = "dup2" /\ UNCHANGED <<file, fd>>)
  /\ UNCHANGED <<stream, given, args>>

\* When dup2 fails for good, the descriptor is closed if the call has opened it.
ClosesAny == TRUE               \* fault: also that of the stream
ClosesOwn == ~ sfp

\* fd's file replaces that of sfd, if one is to be replaced.
Dup2 ==
  /\ pc = "dup2"
  /\ \/ sfd = NONE /\ Returns
     \/ /\ sfd # NONE /\ pc' = "returned"
        /\ file' = [file EXCEPT ![sfd] = file[fd]]
        /\ given' = (given \union {fd, sfd}) \ {stream}
        /\ UNCHANGED <<stream, fd, args>>
     \/ /\ sfd # NONE
        /\ IF ClosesOwn THEN FailsClosing ELSE Fails
        /\ UNCHANGED <<stream, given, args>>

\* EBUSY or EINTR: the loop goes on.
GivesUp    == "returned"        \* fault: as if it had been replaced
AgainAfter == "dup2"

Dup2Interrupted ==
  /\ pc = "dup2" /\ sfd # NONE
  /\ pc' = AgainAfter
  /\ UNCHANGED <<file, stream, given, fd, args>>

-----------------------------------------------------------------------------
\* aloe_file_vfprintf2: the file is open only while it is printed to.
Fprintf == Begin("fopen", NONE, FALSE, FALSE)

Fopen ==
  /\ pc = "fopen"
  /\ Fails \/ (Open("log") /\ pc' = "vfprintf")
  /\ UNCHANGED <<stream, given, args>>

Vfprintf ==
  /\ pc = "vfprintf" /\ pc' \in {"returned", "failed"}
  /\ file' = [file EXCEPT ![fd] = "closed"] /\ fd' = NONE
  /\ UNCHANGED <<stream, given, args>>

-----------------------------------------------------------------------------
Step ==
  \/ Socket \/ Listen
  \/ Freopen \/ OpenLog \/ SeekEnd \/ Dup2 \/ Dup2Interrupted
  \/ Fopen \/ Vfprintf

Next == Close \/ Listener \/ Stdout \/ Fprintf \/ Step

Spec == Init /\ [][Next]_vars

-----------------------------------------------------------------------------
\* Between calls exactly those descriptors are open that the process was given, and the
\* stream's: whichever system call failed, no call leaves one behind and none closes one
\* that is not its own (misc.c:203-343).
NothingLeaks == Ready => { d \in Fds : IsOpen(d) } = given \union ({stream} \ {NONE})

\* A call that fails leaves every descriptor as it was, but that of the stream it was to
\* reopen: which is reopened, or closed and the stream gone (misc.c:259-292, 317-342).
FailureKeeps ==
  pc = "failed" => \A d \in Fds :
    \/ file[d] = before.file[d]
    \/ sfp /\ d = before.stream /\ (stream = NONE \/ file[d] = "log")

\* A call that was to replace a descriptor and succeeds has done so, however often dup2
\* was interrupted (misc.c:283-295).
Redirected == pc = "returned" /\ sfd # NONE => file[sfd] = "log"

=============================================================================
