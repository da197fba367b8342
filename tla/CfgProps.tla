------------------------------ MODULE CfgProps ------------------------------
(***************************************************************************)
(* What the configuration store of cfg.c promises: the properties of Cfg.  *)
(***************************************************************************)
EXTENDS Cfg

CONSTANT ABSENT

\* What a key has that was not set is nothing that it could be set to.
ASSUME AbsentAssumption ==
  ABSENT \notin [type : Types, value : Number \union Texts \union {EMPTY, CUT}]

Items(s) == { s[i] : i \in 1 .. Len(s) }

\* A record is in the tree, or once on spare_q, or freed; no two in the tree have one
\* key; a record in the tree has a value, a spare one has not; and the record that
\* aloe_cfg_set has answered with is in the tree.
RecordsOnce ==
  /\ \A i, j \in 1 .. Len(spare) : spare[i] = spare[j] => i = j
  /\ tree \cap Items(spare) = {}
  /\ \A q, r \in tree : rec[q].key = rec[r].key => q = r
  /\ \A r \in tree : rec[r].type # "void" /\ rec[r].key # NULL
  /\ \A r \in Items(spare) : rec[r].type = "void"
  /\ ret # NULL /\ st = "running" => ret \in tree

\* The records in the tree that hold a buffer.
Holding == { r \in tree : rec[r].type \in Buffers /\ rec[r].word # NULL }

\* As long as the client is not careless the program dies in the printing of a format with
\* conversions (cfg.c:108) or not at all, and the data of a buffer is memory that is live,
\* that no other record holds, and that is large enough for the text in it and its NUL.
OwnBuffers ==
  ~ careless =>
    /\ st = "dead" => format
    /\ \A r \in Holding : rec[r].word \in live /\ rec[r].lmt <= rec[r].cap
    /\ \A q, r \in Holding : rec[q].word = rec[r].word => q = r
    /\ \A r \in Holding :
         mem[rec[r].word] \in Texts => Length[mem[rec[r].word]] < rec[r].cap

\* The data of a record are freed or lost with it, and lost (cfg.c:188) in one case only:
\* of a key that was not there, with the beginning of a string that the least capacity is
\* too small for.  (Of a client that is not careless.)
NothingLeaks ==
  ~ careless =>
    /\ live = { rec[r].word : r \in Holding } \union lost
    /\ \A r \in Holding : rec[r].word \notin lost
    /\ \A a \in lost : mem[a] = CUT

\* "reset all cfg" (include/aloe/main.h:337): keys can be set after a reset as before it.
\* (Run with a client that never gives a key another type.)
ResetIsClean == st # "dead"

-----------------------------------------------------------------------------
\* What lies below lmt: the text that was written, or else (CUT) that of memory with
\* something else in it.
Below(lmt, content) ==
  IF lmt = 0 THEN EMPTY
  ELSE IF content \in Texts /\ lmt = Length[content] THEN content ELSE CUT

Content(r) ==
  [type  |-> rec[r].type,
   value |-> IF rec[r].type = "number" THEN rec[r].word
             ELSE IF rec[r].word \notin Addr THEN EMPTY
             ELSE Below(rec[r].lmt, mem[rec[r].word])]

\* The value under every key, and the key that aloe_cfg_set has answered with.
Stored == [k \in Key |-> IF cfg_rb_find(k) = {} THEN ABSENT
                        ELSE Content(CHOOSE r \in cfg_rb_find(k) : TRUE)]
Answer == IF ret = NULL \/ st # "running" THEN NULL ELSE rec[ret].key

Abs == INSTANCE Store WITH store <- Stored, answer <- Answer, open <- st = "running"

\* Recycled records, buffers and their growth implement a map from keys to values, as
\* long as the client is not careless, in every call that prints no format with
\* conversions.
ImplementsStore == Abs!Init /\ [][careless' \/ format' \/ Abs!Next]_(Abs!vars)

=============================================================================
