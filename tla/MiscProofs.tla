----------------------------- MODULE MiscProofs -----------------------------
(***************************************************************************)
(* Proofs about the functions the rest is built with: the arithmetic of    *)
(* time.c (TimeSec), for any scale that is small against what a long       *)
(* holds, and the files and sockets of misc.c (Files).                     *)
(*                                                                         *)
(* Whatever system calls fail, and however many descriptors there are, no  *)
(* call leaves a descriptor behind, closes one that is not its own, or     *)
(* says it has replaced one it has not.                                    *)
(***************************************************************************)
EXTENDS Files, TimeSec, TLAPS

-----------------------------------------------------------------------------
\* A value that fits is what its conversion gives.
LEMMA UnsignedKeeps ==
  ASSUME ScaleFits, NEW x \in 0 .. LONG_MAX
  PROVE  Unsigned(x) = x /\ Signed(x) = x
PROOF
<1>1. x % ULONG = x
  BY DEF ScaleFits, ULONG
<1>. QED BY <1>1 DEF Unsigned, Signed

LEMMA ConversionKeeps ==
  ASSUME ScaleFits, NEW x \in Long
  PROVE  Signed(x) = x
PROOF
<1>1. CASE x >= 0
  BY <1>1, UnsignedKeeps DEF Long, ScaleFits
<1>2. CASE x < 0
  <2>1. x % ULONG = x + ULONG
    BY <1>2 DEF ScaleFits, ULONG, Long
  <2>. QED BY <2>1, <1>2 DEF Unsigned, Signed, ULONG, Long, ScaleFits
<1>. QED BY <1>1, <1>2 DEF Long, ScaleFits

\* Quotient and remainder, and the quotient of what is less than twice the divisor.
LEMMA DivMod ==
  ASSUME NEW n \in Int, NEW k \in Nat \ {0}
  PROVE  n \div k \in Int /\ n % k \in 0 .. k - 1 /\ n = k * (n \div k) + (n % k)
PROOF
<1>1. n \div k \in Int
  OBVIOUS
<1>2. n % k \in 0 .. k - 1
  OBVIOUS
<1>3. n = k * (n \div k) + (n % k)
  OBVIOUS
<1>. QED BY <1>1, <1>2, <1>3

LEMMA SmallQuotient ==
  ASSUME NEW k \in Nat \ {0}, NEW n \in 0 .. 2 * k - 1
  PROVE  n \div k \in {0, 1}
PROOF
<1>. DEFINE q == n \div k
<1>1. q \in Int /\ k * q <= n /\ n < k * q + k
  BY DivMod
<1>. HIDE DEF q
<1>2. q < 2
  <2>1. q >= 2 => k * (q - 2) >= 0
    BY <1>1
  <2>2. k * (q - 2) = k * q - 2 * k
    BY <1>1
  <2>. QED BY <1>1, <2>1, <2>2
<1>3. q > -1
  <2>1. q <= -1 => k * (-1 - q) >= 0
    BY <1>1
  <2>2. k * (-1 - q) = -k - k * q
    BY <1>1
  <2>. QED BY <1>1, <2>1, <2>2
<1>4. q \in {0, 1}
  BY <1>1, <1>2, <1>3
<1>. QED BY <1>4 DEF q

\* aloe_timeval_norm (time.c:12-15) neither loses nor gains time and leaves a normal pair,
\* for subseconds that are not negative and seconds that do not overflow.
THEOREM NormExact ==
  ASSUME ScaleFits, NEW p \in TimePairs, p.sub >= 0, p.sec + p.sub \div Scale \in Long
  PROVE  LET q == ALOE_TIMESEC_NORM(p)
         IN  Normal(q) /\ Value(q) = Value(p)
PROOF
<1>. DEFINE d == p.sub \div Scale
            r == p.sub % Scale
<1>1. p.sec \in Int /\ p.sub \in 0 .. LONG_MAX /\ Scale \in Nat \ {0} /\ LONG_MAX \in Nat
  BY DEF TimePairs, Long, ScaleFits
<1>2. d \in Int /\ r \in 0 .. Scale - 1 /\ p.sub = d * Scale + r
  <2>1. p.sub \in Int
    BY <1>1
  <2>2. d \in Int /\ r \in 0 .. Scale - 1 /\ p.sub = Scale * d + r
    BY <2>1, <1>1, DivMod
  <2>3. Scale * d = d * Scale
    BY <2>2, <1>1
  <2>. QED BY <2>2, <2>3
<1>3. CASE p.sub >= Scale
  <2>1. r \in 0 .. LONG_MAX
    BY <1>1, <1>2 DEF ScaleFits
  <2>2. ALOE_TIMESEC_NORM(p) = Pair(p.sec + d, r)
    BY <1>1, <1>3, <2>1, UnsignedKeeps, ConversionKeeps DEF ALOE_TIMESEC_NORM
  <2>3. (p.sec + d) * Scale = p.sec * Scale + d * Scale
    BY <1>1, <1>2
  <2>. QED BY <1>1, <1>2, <2>2, <2>3 DEF Pair, Normal, Value
<1>4. CASE p.sub < Scale
  <2>1. ALOE_TIMESEC_NORM(p) = p
    BY <1>1, <1>4, UnsignedKeeps DEF ALOE_TIMESEC_NORM
  <2>. QED BY <2>1, <1>1, <1>4 DEF Normal
<1>. QED BY <1>1, <1>3, <1>4

\* The sum of normal pairs (time.c:28-33, and the due time of ev.c:75-85) is exact and
\* normal, unless its seconds overflow.
THEOREM AddExact ==
  ASSUME ScaleFits, NEW a \in NormalPairs, NEW b \in NormalPairs, a.sec + b.sec \in Long,
         a.sec + b.sec + 1 \in Long
  PROVE  LET c == ALOE_TIMESEC_ADD(a, b)
         IN  Normal(c) /\ Value(c) = Value(a) + Value(b)
PROOF
<1>. DEFINE p == Pair(a.sec + b.sec, a.sub + b.sub)
<1>1. /\ {a.sec, b.sec} \subseteq Int /\ {a.sub, b.sub} \subseteq 0 .. Scale - 1
      /\ Scale \in Nat \ {0} /\ LONG_MAX \in Nat /\ 2 * Scale <= LONG_MAX
  BY DEF NormalPairs, TimePairs, Long, Normal, ScaleFits
<1>2. p \in TimePairs /\ p.sec = a.sec + b.sec /\ p.sub = a.sub + b.sub /\ p.sub >= 0
  BY <1>1 DEF Pair, TimePairs, Long
<1>3. p.sub \div Scale \in {0, 1}
  <2>1. p.sub \in 0 .. 2 * Scale - 1
    BY <1>1, <1>2
  <2>. QED BY <1>1, <2>1, SmallQuotient
<1>4. p.sec + p.sub \div Scale \in Long
  BY <1>1, <1>2, <1>3 DEF Long
<1>5. Normal(ALOE_TIMESEC_NORM(p)) /\ Value(ALOE_TIMESEC_NORM(p)) = Value(p)
  BY <1>2, <1>4, NormExact
<1>6. Value(p) = Value(a) + Value(b)
  <2>1. (a.sec + b.sec) * Scale = a.sec * Scale + b.sec * Scale
    BY <1>1
  <2>. QED BY <1>1, <1>2, <2>1 DEF Value
<1>. QED BY <1>5, <1>6 DEF ALOE_TIMESEC_ADD

\* The difference of normal pairs (time.c:21-26) is exact and normal, also when it is
\* less than nothing, which the comment of aloe_timeval_sub excludes, unless its seconds
\* overflow.
THEOREM SubExact ==
  ASSUME ScaleFits, NEW a \in NormalPairs, NEW b \in NormalPairs, a.sec - b.sec \in Long,
         a.sec - b.sec - 1 \in Long
  PROVE  LET c == ALOE_TIMESEC_SUB(a, b)
         IN  Normal(c) /\ Value(c) = Value(a) - Value(b)
PROOF
<1>1. /\ {a.sec, b.sec} \subseteq Int /\ {a.sub, b.sub} \subseteq 0 .. Scale - 1
      /\ Scale \in Nat \ {0} /\ LONG_MAX \in Nat /\ 2 * Scale <= LONG_MAX
  BY DEF NormalPairs, TimePairs, Long, Normal, ScaleFits
<1>2. CASE a.sub < b.sub
  <2>1. Scale + a.sub - b.sub \in 0 .. Scale - 1 /\ Scale + a.sub - b.sub \in 0 .. LONG_MAX
    BY <1>1, <1>2
  <2>2. ALOE_TIMESEC_SUB(a, b) = Pair(a.sec - b.sec - 1, Scale + a.sub - b.sub)
    BY <1>2, <2>1, UnsignedKeeps DEF ALOE_TIMESEC_SUB
  <2>3. (a.sec - b.sec - 1) * Scale = a.sec * Scale - b.sec * Scale - Scale
    BY <1>1
  <2>. QED BY <1>1, <2>1, <2>2, <2>3 DEF Pair, Normal, Value
<1>3. CASE ~ (a.sub < b.sub)
  <2>1. ALOE_TIMESEC_SUB(a, b) = Pair(a.sec - b.sec, a.sub - b.sub)
    BY <1>3 DEF ALOE_TIMESEC_SUB
  <2>2. (a.sec - b.sec) * Scale = a.sec * Scale - b.sec * Scale
    BY <1>1
  <2>. QED BY <1>1, <1>3, <2>1, <2>2 DEF Pair, Normal, Value
<1>. QED BY <1>2, <1>3

\* A second more outweighs any subseconds.
LEMMA SecondsDecide ==
  ASSUME NEW k \in Nat \ {0}, NEW m \in Int, NEW n \in Int, m >= n + k,
         NEW x \in 0 .. k - 1, NEW y \in 0 .. k - 1
  PROVE  m + x > n + y
PROOF OBVIOUS

\* The comparison of normal pairs (time.c:17-19, and the due times of ev.c:234) is that of
\* the times they stand for.
THEOREM CmpExact ==
  ASSUME ScaleFits, NEW a \in NormalPairs, NEW b \in NormalPairs
  PROVE  /\ ALOE_TIMESEC_CMP(a, b) = 1 <=> Value(a) > Value(b)
         /\ ALOE_TIMESEC_CMP(a, b) = 0 <=> Value(a) = Value(b)
         /\ ALOE_TIMESEC_CMP(a, b) = -1 <=> Value(a) < Value(b)
PROOF
<1>1. /\ a.sec \in Int /\ b.sec \in Int /\ a.sub \in 0 .. Scale - 1 /\ b.sub \in 0 .. Scale - 1
      /\ Scale \in Nat \ {0}
  BY DEF NormalPairs, TimePairs, Long, Normal, ScaleFits
<1>2. a = b <=> a.sec = b.sec /\ a.sub = b.sub
  BY DEF NormalPairs, TimePairs
<1>3. ASSUME NEW x \in Int, NEW y \in Int, x > y
      PROVE  x * Scale >= y * Scale + Scale
  <2>1. (x - y - 1) * Scale >= 0
    BY <1>1, <1>3
  <2>2. (x - y - 1) * Scale = x * Scale - y * Scale - Scale
    BY <1>1
  <2>. QED BY <1>1, <2>1, <2>2
<1>4. a.sec > b.sec => Value(a) > Value(b)
  <2>1. a.sec > b.sec => a.sec * Scale >= b.sec * Scale + Scale
    BY <1>1, <1>3
  <2>. QED BY <1>1, <2>1, SecondsDecide DEF Value
<1>5. a.sec < b.sec => Value(a) < Value(b)
  <2>1. a.sec < b.sec => b.sec * Scale >= a.sec * Scale + Scale
    BY <1>1, <1>3
  <2>. QED BY <1>1, <2>1, SecondsDecide DEF Value
<1>6. a.sec = b.sec => (a.sub > b.sub <=> Value(a) > Value(b)) /\ (a.sub = b.sub <=> Value(a) = Value(b))
  BY <1>1 DEF Value
<1>7. Value(a) \in Int /\ Value(b) \in Int
  BY <1>1 DEF Value
<1>. QED BY <1>1, <1>2, <1>4, <1>5, <1>6, <1>7 DEF ALOE_TIMESEC_CMP

-----------------------------------------------------------------------------
\* Where a call holds a descriptor of its own, and where it has none yet.
Owning  == pc \in {"setsockopt", "bind", "listen", "lseek", "vfprintf"} \/ (pc = "dup2" /\ ~ sfp)
Early   == pc \in {"socket", "freopen", "open", "fopen"}

Types ==
  /\ pc \in {"idle", "returned", "failed", "socket", "setsockopt", "bind", "listen",
             "freopen", "open", "lseek", "dup2", "fopen", "vfprintf"}
  /\ file \in [Fds -> {"closed", "terminal", "socket", "log"}]
  /\ stream \in Fds \union {NONE} /\ given \subseteq Fds
  /\ fd \in Fds \union {NONE} /\ sfd \in Fds \union {NONE} /\ sfp \in BOOLEAN

\* What is open is what the process holds and, during a call, the call's own descriptor,
\* which the process does not hold; or the call works with that of the stream.
OwnedOnce ==
  /\ \A d \in Fds : IsOpen(d) <=> d \in given \/ d = stream \/ (Owning /\ d = fd)
  /\ Owning => fd \in Fds /\ fd \notin given /\ fd # stream
  /\ stream \notin given
  /\ pc = "freopen" => sfp /\ stream # NONE
  /\ pc = "dup2" /\ sfp => fd = stream /\ stream # NONE

\* During a call, and when it has failed, descriptors are as they were at its beginning,
\* but for the call's own, that was closed, and that of the stream it was to reopen.
AsBefore ==
  /\ pc \notin {"idle", "returned"} =>
       \A d \in Fds :
         \/ file[d] = before.file[d]
         \/ Owning /\ d = fd
         \/ sfp /\ d = before.stream /\ (stream = NONE \/ file[d] = "log")
  /\ Early \/ Owning \/ pc = "dup2" => before.stream = stream
  /\ Owning => before.file[fd] = "closed"
  /\ Owning \/ (Early /\ pc # "freopen") => ~ sfp

\* The file that is to replace another is open in the call's descriptor.
Replacing ==
  /\ pc \in {"lseek", "dup2"} => fd \in Fds /\ file[fd] = "log"
  /\ pc \in {"socket", "setsockopt", "bind", "listen", "fopen", "vfprintf"} => sfd = NONE
  /\ Redirected

FilesInv == Types /\ OwnedOnce /\ AsBefore /\ Replacing

USE FdsAssumption DEF NONE

-----------------------------------------------------------------------------
\* In its first state the process has one descriptor open, that of its stream.
LEMMA FilesInit == Init => FilesInv
<1> SUFFICES ASSUME Init PROVE FilesInv
  OBVIOUS
<1>1. Types
  BY DEF Init, Types
<1>2. OwnedOnce
  BY DEF Init, OwnedOnce, IsOpen, Owning
<1>3. AsBefore
  BY DEF Init, AsBefore, Owning, Early
<1>4. Replacing
  BY DEF Init, Replacing, Redirected
<1> QED
  BY <1>1, <1>2, <1>3, <1>4 DEF FilesInv

\* The process closes a descriptor between calls.
LEMMA CloseKeeps == FilesInv /\ Close => FilesInv'
<1> SUFFICES ASSUME FilesInv, Close PROVE FilesInv'
  OBVIOUS
<1> USE DEF FilesInv, Types, Close, Ready, args
<1>1. Types'
  BY DEF OwnedOnce, Owning
<1>2. OwnedOnce'
  BY DEF OwnedOnce, AsBefore, IsOpen, Owning, Early
<1>3. AsBefore'
  BY DEF AsBefore, OwnedOnce, IsOpen, Owning, Early
<1>4. Replacing'
  BY DEF OwnedOnce, Replacing, Redirected
<1> QED
  BY <1>1, <1>2, <1>3, <1>4

\* A call begins with nothing of its own.
LEMMA BeginKeeps ==
  ASSUME NEW first \in {"socket", "failed", "open", "fopen", "freopen"},
         NEW d \in Fds \union {NONE}, NEW s \in BOOLEAN, NEW i \in BOOLEAN,
         FilesInv, Begin(first, d, s, i),
         IF first = "freopen" THEN s /\ stream # NONE ELSE ~ s,
         first \in {"socket", "fopen"} => d = NONE
  PROVE  FilesInv'
<1> USE DEF FilesInv, Types, Begin, Ready
<1>1. Types'
  BY DEF OwnedOnce, Owning
<1>2. OwnedOnce'
  BY DEF OwnedOnce, AsBefore, IsOpen, Owning, Early
<1>3. AsBefore'
  BY DEF AsBefore, OwnedOnce, IsOpen, Owning, Early
<1>4. Replacing'
  BY DEF OwnedOnce, Replacing, Redirected
<1> QED
  BY <1>1, <1>2, <1>3, <1>4

\* A descriptor that was free is the call's own, or none is.
LEMMA SocketKeeps == FilesInv /\ Socket => FilesInv'
<1> SUFFICES ASSUME FilesInv, Socket PROVE FilesInv'
  OBVIOUS
<1> USE DEF FilesInv, Types, Socket, Open, Fails, Free, IsOpen, args
<1>1. Types'
  BY DEF OwnedOnce, Owning
<1>2. OwnedOnce'
  BY DEF OwnedOnce, AsBefore, IsOpen, Owning, Early
<1>3. AsBefore'
  BY DEF AsBefore, OwnedOnce, IsOpen, Owning, Early
<1>4. Replacing'
  BY DEF OwnedOnce, Replacing, Redirected
<1> QED
  BY <1>1, <1>2, <1>3, <1>4

\* A step on the call's own socket goes on with it, or closes it.
LEMMA SocketStepKeeps ==
  ASSUME NEW this \in {"setsockopt", "bind"}, NEW next \in {"bind", "listen"},
         FilesInv, SocketStep(this, next)
  PROVE  FilesInv'
<1> USE DEF FilesInv, Types, SocketStep, FailsClosing, args
<1>1. Types'
  BY DEF OwnedOnce, Owning
<1>2. OwnedOnce'
  BY DEF OwnedOnce, AsBefore, IsOpen, Owning, Early
<1>3. AsBefore'
  BY DEF AsBefore, OwnedOnce, IsOpen, Owning, Early
<1>4. Replacing'
  BY DEF OwnedOnce, Replacing, Redirected
<1> QED
  BY <1>1, <1>2, <1>3, <1>4

\* What the call returns is no longer its own but the process's.
LEMMA ListenKeeps ==
  ASSUME FilesInv, pc = "listen", Returns \/ (FailsClosing /\ UNCHANGED <<stream, given, args>>)
  PROVE  FilesInv'
<1> USE DEF FilesInv, Types, Returns, FailsClosing, args
<1>1. Types'
  BY DEF OwnedOnce, Owning
<1>2. OwnedOnce'
  BY DEF OwnedOnce, AsBefore, IsOpen, Owning, Early
<1>3. AsBefore'
  BY DEF AsBefore, OwnedOnce, IsOpen, Owning, Early
<1>4. Replacing'
  BY DEF OwnedOnce, Replacing, Redirected
<1> QED
  BY <1>1, <1>2, <1>3, <1>4

\* The stream is reopened, or closed and gone.
LEMMA FreopenKeeps == FilesInv /\ Freopen => FilesInv'
<1> SUFFICES ASSUME FilesInv, Freopen PROVE FilesInv'
  OBVIOUS
<1> USE DEF FilesInv, Types, Freopen, args
<1>1. Types'
  BY DEF OwnedOnce, Owning
<1>2. OwnedOnce'
  BY DEF OwnedOnce, AsBefore, IsOpen, Owning, Early
<1>3. AsBefore'
  BY DEF AsBefore, OwnedOnce, IsOpen, Owning, Early
<1>4. Replacing'
  BY DEF OwnedOnce, Replacing, Redirected
<1> QED
  BY <1>1, <1>2, <1>3, <1>4

\* The log file is opened in a descriptor that was free.
LEMMA OpenLogKeeps == FilesInv /\ OpenLog => FilesInv'
<1> SUFFICES ASSUME FilesInv, OpenLog PROVE FilesInv'
  OBVIOUS
<1> USE DEF FilesInv, Types, OpenLog, Open, Fails, Free, IsOpen, args
<1>1. Types'
  BY DEF OwnedOnce, Owning
<1>2. OwnedOnce'
  BY DEF OwnedOnce, AsBefore, IsOpen, Owning, Early
<1>3. AsBefore'
  BY DEF AsBefore, OwnedOnce, IsOpen, Owning, Early
<1>4. Replacing'
  BY DEF OwnedOnce, Replacing, Redirected
<1> QED
  BY <1>1, <1>2, <1>3, <1>4

\* After a failing seek the call closes its own descriptor.
LEMMA SeekEndKeeps == FilesInv /\ SeekEnd => FilesInv'
<1> SUFFICES ASSUME FilesInv, SeekEnd PROVE FilesInv'
  OBVIOUS
<1> USE DEF FilesInv, Types, SeekEnd, FailsClosing, args
<1>1. Types'
  BY DEF OwnedOnce, Owning
<1>2. OwnedOnce'
  BY DEF OwnedOnce, AsBefore, IsOpen, Owning, Early
<1>3. AsBefore'
  BY DEF AsBefore, OwnedOnce, IsOpen, Owning, Early
<1>4. Replacing'
  BY DEF OwnedOnce, Replacing, Redirected
<1> QED
  BY <1>1, <1>2, <1>3, <1>4

\* The file replaces another, or stays where it was opened, or is closed if it is the call's.
LEMMA Dup2Keeps == FilesInv /\ Dup2 => FilesInv'
<1> SUFFICES ASSUME FilesInv, Dup2 PROVE FilesInv'
  OBVIOUS
<1> USE DEF FilesInv, Types, Dup2, Returns, FailsClosing, Fails, ClosesOwn, args
<1>1. Types'
  BY DEF OwnedOnce, Owning
<1>2. OwnedOnce'
  BY DEF OwnedOnce, AsBefore, IsOpen, Owning, Early
<1>3. AsBefore'
  BY DEF AsBefore, OwnedOnce, IsOpen, Owning, Early
<1>4. Replacing'
  BY DEF OwnedOnce, Replacing, Redirected
<1> QED
  BY <1>1, <1>2, <1>3, <1>4

\* An interruption changes nothing.
LEMMA Dup2InterruptedKeeps == FilesInv /\ Dup2Interrupted => FilesInv'
<1> SUFFICES ASSUME FilesInv, Dup2Interrupted PROVE FilesInv'
  OBVIOUS
<1> USE DEF FilesInv, Types, Dup2Interrupted, AgainAfter, args
<1>1. Types'
  BY DEF OwnedOnce, Owning
<1>2. OwnedOnce'
  BY DEF OwnedOnce, AsBefore, IsOpen, Owning, Early
<1>3. AsBefore'
  BY DEF AsBefore, OwnedOnce, IsOpen, Owning, Early
<1>4. Replacing'
  BY DEF OwnedOnce, Replacing, Redirected
<1> QED
  BY <1>1, <1>2, <1>3, <1>4

\* A file is opened for one print.
LEMMA FopenKeeps == FilesInv /\ Fopen => FilesInv'
<1> SUFFICES ASSUME FilesInv, Fopen PROVE FilesInv'
  OBVIOUS
<1> USE DEF FilesInv, Types, Fopen, Open, Fails, Free, IsOpen, args
<1>1. Types'
  BY DEF OwnedOnce, Owning
<1>2. OwnedOnce'
  BY DEF OwnedOnce, AsBefore, IsOpen, Owning, Early
<1>3. AsBefore'
  BY DEF AsBefore, OwnedOnce, IsOpen, Owning, Early
<1>4. Replacing'
  BY DEF OwnedOnce, Replacing, Redirected
<1> QED
  BY <1>1, <1>2, <1>3, <1>4

\* After the print the file is closed.
LEMMA VfprintfKeeps == FilesInv /\ Vfprintf => FilesInv'
<1> SUFFICES ASSUME FilesInv, Vfprintf PROVE FilesInv'
  OBVIOUS
<1> USE DEF FilesInv, Types, Vfprintf, args
<1>1. Types'
  BY DEF OwnedOnce, Owning
<1>2. OwnedOnce'
  BY DEF OwnedOnce, AsBefore, IsOpen, Owning, Early
<1>3. AsBefore'
  BY DEF AsBefore, OwnedOnce, IsOpen, Owning, Early
<1>4. Replacing'
  BY DEF OwnedOnce, Replacing, Redirected
<1> QED
  BY <1>1, <1>2, <1>3, <1>4

-----------------------------------------------------------------------------
\* Every step of a call, and every call, keeps the invariant.
LEMMA NextKeeps == FilesInv /\ [Next]_vars => FilesInv'
<1> SUFFICES ASSUME FilesInv, [Next]_vars PROVE FilesInv'
  OBVIOUS
<1>1. CASE Close
  BY <1>1, CloseKeeps
<1>2. CASE Listener
  BY <1>2, BeginKeeps DEF Listener
<1>3. CASE Stdout
  BY <1>3, BeginKeeps DEF Stdout
<1>4. CASE Fprintf
  BY <1>4, BeginKeeps DEF Fprintf
<1>5. CASE Listen
  BY <1>5, SocketStepKeeps, ListenKeeps DEF Listen
<1>6. CASE Step /\ ~ Listen
  BY <1>6, SocketKeeps, FreopenKeeps, OpenLogKeeps, SeekEndKeeps, Dup2Keeps,
     Dup2InterruptedKeeps, FopenKeeps, VfprintfKeeps DEF Step
<1>7. CASE UNCHANGED vars
  BY <1>7 DEF vars, args, FilesInv, Types, OwnedOnce, AsBefore, Replacing, Redirected,
              IsOpen, Owning, Early
<1> QED
  BY <1>1, <1>2, <1>3, <1>4, <1>5, <1>6, <1>7 DEF Next, Step

\* The invariant holds of every state.
THEOREM Invariant == Spec => []FilesInv
<1> QED
  BY FilesInit, NextKeeps, PTL DEF Spec

\* NothingLeaks (misc.c:203-343), for every set of descriptors: between calls exactly those
\* are open that the process was given, and the stream's.
THEOREM NothingLeaksAlways == Spec => []NothingLeaks
<1>1. FilesInv => NothingLeaks
  <2> SUFFICES ASSUME FilesInv, Ready
               PROVE  { d \in Fds : IsOpen(d) } = given \union ({stream} \ {NONE})
    BY DEF NothingLeaks
  <2>1. \A d \in Fds : IsOpen(d) <=> d \in given \/ d = stream
    BY DEF Ready, FilesInv, OwnedOnce, Owning
  <2>2. given \subseteq Fds /\ stream \in Fds \union {NONE} /\ NONE \notin Fds
    BY DEF FilesInv, Types
  <2> QED
    BY <2>1, <2>2
<1> QED
  BY <1>1, Invariant, PTL

\* FailureKeeps (misc.c:259-292, 317-342), for every set of descriptors: a call that fails
\* leaves every descriptor as it was, but for the stream it was to reopen.
THEOREM FailureKeepsAlways == Spec => []FailureKeeps
<1>1. FilesInv => FailureKeeps
  BY DEF FilesInv, AsBefore, Owning, FailureKeeps
<1> QED
  BY <1>1, Invariant, PTL

\* Redirected (misc.c:283-295), for every set of descriptors and any number of interruptions:
\* a call that was to replace a descriptor and succeeds has done so.
THEOREM RedirectedAlways == Spec => []Redirected
<1>1. FilesInv => Redirected
  BY DEF FilesInv, Replacing
<1> QED
  BY <1>1, Invariant, PTL

=============================================================================
