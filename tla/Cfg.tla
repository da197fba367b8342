-------------------------------- MODULE Cfg --------------------------------
(***************************************************************************)
(* The configuration store of cfg.c: values under keys, in records that    *)
(* are recycled, with buffers that are not cleared when they are.          *)
(*                                                                         *)
(* The red-black tree is the set of the records in it.  The union val of a *)
(* record is its word (a number, or the pointer data of the buffer, which  *)
(* share their place) and the fields cap and lmt of the buffer.  Memory is *)
(* modelled where that shows: an address is live between its malloc and    *)
(* its free, and a program that frees or writes what is not live is dead.  *)
(***************************************************************************)
EXTENDS Integers, Sequences, FiniteSets

CONSTANTS NULL,
          Rec, Addr,      \* what malloc may return for a record and for the data of a buffer
          Key, Number,
          Text,           \* data, and formats without conversions, which print as they are
          Format,         \* formats with conversions
          Junk,           \* what those print, see SetFormat
          EMPTY, CUT,     \* data of no bytes; what is no text: cut off, or not written
          Length,         \* the bytes of a text, without its NUL
          Least,          \* the capacity a string begins with (32)
          Usage           \* "recycle", "retype", see Careless, and "format": what the client does

Buffers == {"data", "string"}
Types   == Buffers \union {"number"}

Texts   == Text \union Junk

ASSUME MemoryAssumption ==
  /\ NULL \notin Rec \union Addr \union Number \union Key \union Texts \union Format
  /\ Number \cap Addr = {} /\ {EMPTY, CUT} \cap Texts = {} /\ EMPTY # CUT
  /\ NULL # EMPTY /\ Format \cap (Text \union Number \union {EMPTY}) = {}
\* A key is a number, in the place strcmp gives it among the others.
ASSUME KeysAssumption == Key \subseteq Int
\* A bound: one doubling is enough.
ASSUME SizesAssumption ==
  /\ Least \in Nat \ {0} /\ Length \in [Texts \union {EMPTY} -> Nat] /\ Length[EMPTY] = 0
  /\ \A t \in Texts : Length[t] \in 1 .. 2 * Least - 1
ASSUME UsageAssumption == Usage \subseteq {"recycle", "retype", "format"}

VARIABLES tree,     \* the records of cfg_rb
          spare,    \* spare_q
          rec,      \* the fields of the records
          live,     \* the buffers malloc has given out
          mem,      \* their content
          st,       \* running, gone after aloe_cfg_destroy, or dead
          ret,      \* what the last aloe_cfg_set returned: a record or NULL
          careless, \* history: the client has recycled or retyped
          format,   \* history: the last call printed a format with conversions
          lost      \* history: the buffers of records that were freed without them

vars == <<tree, spare, rec, live, mem, st, ret, careless, format, lost>>

\* calloc(1, sizeof(aloe_cfg_t))
Zero == [key |-> NULL, type |-> "void", word |-> NULL, cap |-> 0, lmt |-> 0]

Init ==
  /\ tree = {} /\ spare = <<>> /\ rec = [r \in Rec |-> Zero]
  /\ live = {} /\ mem = [a \in Addr |-> EMPTY]
  /\ st = "running" /\ ret = NULL /\ careless = FALSE /\ format = FALSE /\ lost = {}

cfg_rb_find(key) == { r \in tree : rec[r].key = key }

-----------------------------------------------------------------------------
(***************************************************************************)
(* cfg_set_val: the sets of outcomes [v, live, mem, ok, dead] that it, and *)
(* the functions it calls, may have on the record v.                       *)
(***************************************************************************)

Put(o, content) ==
  IF o.v.word \in o.live THEN [o EXCEPT !.mem[o.v.word] = content] ELSE [o EXCEPT !.dead = TRUE]

Write(o, text) == Put([o EXCEPT !.v.lmt = Length[text]], text)

\* What is freed has no content any more.
Forget(m, A) == [a \in Addr |-> IF a \in A THEN EMPTY ELSE m[a]]

ExpandOnce(o, cap) ==      \* fault: memory that is there is large enough
  IF o.v.word # NULL THEN {o}
  ELSE { [o EXCEPT !.v.word = a, !.v.cap = cap, !.live = @ \union {a}] : a \in Addr \ o.live }

\* aloe_buf_expand: the old data, if any, is freed; what the code would keep of it is
\* nothing, for pos is 0.
Expand(o, cap) ==
  IF o.v.cap >= cap THEN {o}
  ELSE { [o EXCEPT !.ok = FALSE] } \union
       { [o EXCEPT !.v.word = a, !.v.cap = cap,
                   !.live = (@ \ {o.v.word}) \union {a}, !.mem = Forget(@, {o.v.word}),
                   !.dead = @ \/ (o.v.word # NULL /\ o.v.word \notin o.live)] :
           a \in Addr \ o.live }

SetNumber(o, n) == { [o EXCEPT !.v.word = n] }

SetNothing(o) == { [o EXCEPT !.v.lmt = 0] }

SetDataNotNull(o, text) ==      \* fault: without data, the old data stays
  IF text = NULL THEN {o}
  ELSE { IF x.ok THEN Write(x, text) ELSE x : x \in Expand(o, Length[text] + 1) }

SetData(o, text) ==
  IF text = NULL THEN SetNothing(o)
  ELSE { IF x.ok THEN Write(x, text) ELSE x : x \in Expand(o, Length[text] + 1) }

\* The limit is the end of the memory, after aloe_buf_clear as after aloe_buf_expand.
Cleared(o)   == [o EXCEPT !.v.lmt = o.v.cap]
Room(o, cap) == { Cleared(x) : x \in Expand(o, cap) }

\* aloe_buf_clear, aloe_buf_aprintf and aloe_buf_flip.  The text is printed, and cut off,
\* in what memory there is before that is doubled.
Printed(o, text) ==
  LET again(x) == { IF y.ok THEN Write(y, text) ELSE y : y \in Room(Put(x, CUT), 2 * x.v.cap) }
  IN  UNION { IF ~ x.ok THEN {x}
              ELSE IF Length[text] < x.v.cap THEN { Write(x, text) } ELSE again(x)
              : x \in Room(o, Least) }

\* The arguments are passed on as one, the va_list itself, to a function that takes them
\* one by one.  The conversions find that, and what else lies about, and print something
\* or end the program.
SetFormat(o) == (UNION { Printed(o, text) : text \in Junk }) \union { [o EXCEPT !.dead = TRUE] }

\* Without a format, NULL or "", nothing is printed, and nothing is the string.
SetString(o, fmt) ==
  IF fmt = NULL THEN SetNothing(o)
  ELSE IF fmt \in Format THEN SetFormat(o) ELSE Printed(o, fmt)

cfg_set_val(r, type, value) ==
  LET o == [v |-> rec[r], live |-> live, mem |-> mem, ok |-> TRUE, dead |-> FALSE]
      set == CASE type = "number" -> SetNumber(o, value)
               [] type = "data"   -> SetData(o, value)
               [] type = "string" -> SetString(o, value)
  IN  { [x EXCEPT !.v.type = IF x.ok THEN type ELSE @] : x \in set }

\* A buffer is set where the word is not a buffer of the record, or a number where it
\* is: of a recycled record (whose word is not cleared), or of a key of another type.
Careless(r, type) ==
  IF type \in Buffers THEN rec[r].word # NULL /\ rec[r].type \notin Buffers
                      ELSE rec[r].word # NULL /\ rec[r].type \in Buffers

SetOutcome(o) ==
  /\ live' = o.live /\ mem' = o.mem
  /\ st' = IF o.dead THEN "dead" ELSE st

-----------------------------------------------------------------------------
\* The value cannot be set: the answer is the record all the same.
SetExisting(key, type, value) ==
  \E r \in cfg_rb_find(key) :
    /\ Careless(r, type) => "retype" \in Usage
    /\ \E o \in cfg_set_val(r, type, value) :
         SetOutcome(o) /\ rec' = [rec EXCEPT ![r] = o.v]
    /\ ret' = r
    /\ careless' = (careless \/ Careless(r, type))
    /\ format' = (value \in Format)
    /\ UNCHANGED <<tree, spare, lost>>

\* A spare record or, when there is none, a new one.
Obtained ==
  IF spare # <<>> THEN {Head(spare)}
  ELSE LET free == Rec \ tree
       IN  IF free = {} THEN {} ELSE { CHOOSE r \in free : TRUE }

Others(r) == IF spare # <<>> THEN Tail(spare) ELSE spare

\* fault: the record is put on spare_q again
KeptRecord(r)  == rec' = rec /\ spare' = Append(spare, r)

\* cfg_free of a record whose type is void: what its word points to is not freed.
FreedRecord(r) == rec' = [rec EXCEPT ![r] = Zero] /\ spare' = Others(r)

SetNew(key, type, value) ==
  /\ cfg_rb_find(key) = {}
  /\ \E r \in Obtained :
       /\ Careless(r, type) => "recycle" \in Usage
       /\ \E o \in cfg_set_val(r, type, value) :
            /\ SetOutcome(o)
            /\ IF o.ok
               THEN /\ rec' = [rec EXCEPT ![r] = [o.v EXCEPT !.key = key]]
                    /\ spare' = Others(r) /\ tree' = tree \union {r} /\ ret' = r
                    /\ UNCHANGED lost
               ELSE /\ FreedRecord(r)
                    /\ lost' = lost \union ({o.v.word} \cap o.live)
                    /\ ret' = NULL
                    /\ UNCHANGED tree
       /\ careless' = (careless \/ Careless(r, type))
       /\ format' = (value \in Format)

\* The key is empty or too long, or malloc fails for it, or for the record.
SetNoKey(key) ==
  /\ cfg_rb_find(key) = {}
  /\ ret' = NULL /\ format' = FALSE
  /\ \/ \E r \in Obtained : FreedRecord(r)
     \/ spare = <<>> /\ UNCHANGED <<spare, rec>>
  /\ UNCHANGED <<tree, live, mem, st, careless, lost>>

aloe_cfg_set(key, type, value) ==
  /\ st = "running"
  /\ \/ SetExisting(key, type, value)
     \/ SetNew(key, type, value)
     \/ SetNoKey(key)

\* cfg_reset_val of the records of R.  A word may be freed once, if it is live.
KeptData(R) == { rec[r].word : r \in { x \in R : rec[x].type = "string" } } \ {NULL}  \* fault
Freed(R)    == { rec[r].word : r \in { x \in R : rec[x].type \in Buffers } } \ {NULL}
Sound(R)    == /\ Freed(R) \subseteq live
               /\ \A q, r \in R : rec[q].type \in Buffers /\ rec[r].type \in Buffers
                                 /\ rec[q].word = rec[r].word /\ rec[q].word # NULL => q = r

Voided(r)   == [rec[r] EXCEPT !.type = "void", !.key = NULL]

\* The records of R in the order of their keys.
InOrder(R) ==
  CHOOSE s \in [1 .. Cardinality(R) -> R] : \A i, j \in DOMAIN s : i < j => rec[s[i]].key < rec[s[j]].key

\* aloe_cfg_set without a key, whatever the type, or with type aloe_cfg_type_void.  Only
\* type is cleared.  (The key of a spare record is never looked at.)
Reset(R) ==
  /\ st = "running" /\ st' = IF Sound(R) THEN st ELSE "dead"
  /\ tree' = tree \ R
  /\ spare' = spare \o InOrder(R)
  /\ rec' = [r \in Rec |-> IF r \in R THEN Voided(r) ELSE rec[r]]
  /\ live' = live \ Freed(R) /\ mem' = Forget(mem, Freed(R))
  /\ ret' = NULL /\ format' = FALSE
  /\ UNCHANGED <<careless, lost>>

aloe_cfg_destroy ==
  /\ st = "running" /\ st' = IF Sound(tree) THEN "gone" ELSE "dead"
  /\ tree' = {} /\ spare' = <<>> /\ rec' = [r \in Rec |-> Zero]
  /\ live' = live \ Freed(tree) /\ mem' = Forget(mem, Freed(tree))
  /\ format' = FALSE
  /\ UNCHANGED <<ret, careless, lost>>

Values(type) ==
  CASE type = "number" -> Number
    [] type = "data"   -> Text \union {NULL, EMPTY}
    [] type = "string" -> Text \union {NULL} \union (IF "format" \in Usage THEN Format ELSE {})

Stopped == st # "running" /\ UNCHANGED vars

Next ==
  \/ \E key \in Key, type \in Types : \E value \in Values(type) : aloe_cfg_set(key, type, value)
  \/ \E key \in Key : Reset(cfg_rb_find(key))
  \/ Reset(tree)
  \/ aloe_cfg_destroy
  \/ Stopped

Spec == Init /\ [][Next]_vars

=============================================================================
