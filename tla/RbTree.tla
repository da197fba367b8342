------------------------------- MODULE RbTree -------------------------------
(***************************************************************************)
(* The red-black tree of compat/openbsd/sys/tree.h as cfg.c uses it: the   *)
(* functions RB_GENERATE makes, at the level of pointers, and the loops of *)
(* cfg.c around them.                                                      *)
(*                                                                         *)
(* A record is named by its key.  The memory is a record t: the root, and  *)
(* the fields left, right, parent and color of every record.  The source   *)
(* has each case twice, for the left and the right; here a side s is an    *)
(* argument, and t[s][e] is the child of e on it.  A loop that rebalances  *)
(* takes a step for every turn.                                            *)
(***************************************************************************)
EXTENDS Integers, FiniteSets

CONSTANTS NULL,
          Key,
          STALE         \* a field of a record that is not in the tree

ASSUME KeysAssumption ==
  /\ Key \subseteq Int /\ IsFiniteSet(Key) /\ {NULL, STALE} \cap Key = {}
  /\ NULL # STALE /\ STALE \notin {"red", "black"}

VARIABLES t,
          pc,           \* idle, or the loop the program is in
          elm, parent,  \* its locals
          key           \* what aloe_cfg_set resets: a key, or NULL for all

vars == <<t, pc, elm, parent, key>>

Sides    == {"left", "right"}
Other(s) == IF s = "left" THEN "right" ELSE "left"

Init ==
  /\ t = [root   |-> NULL,
          left   |-> [k \in Key |-> STALE], right |-> [k \in Key |-> STALE],
          parent |-> [k \in Key |-> STALE], color |-> [k \in Key |-> STALE]]
  /\ pc = "idle" /\ elm = NULL /\ parent = NULL /\ key = NULL

-----------------------------------------------------------------------------
(***************************************************************************)
(* Pointers.                                                               *)
(***************************************************************************)

\* The side of p that e is on; the code looks at the left first.
SideOf(m, p, e) == IF m.left[p] = e THEN "left" ELSE "right"

IsBlack(m, e) == e = NULL \/ m.color[e] = "black"

\* p, or the head, points to x instead of e.
Replace(m, p, e, x) ==
  IF p = NULL THEN [m EXCEPT !.root = x] ELSE [m EXCEPT ![SideOf(m, p, e)][p] = x]

\* A child that is there is told its parent.
Adopt(m, e, p) == IF e = NULL THEN m ELSE [m EXCEPT !.parent[e] = p]

Paint(m, e, color) == IF e = NULL THEN m ELSE [m EXCEPT !.color[e] = color]

\* RB_SET_BLACKRED
BlackRed(m, black, red) == [m EXCEPT !.color[black] = "black", !.color[red] = "red"]

\* RB_ROTATE_LEFT, for s = "left", and RB_ROTATE_RIGHT: e goes down on side s, and x, its
\* child on the other side, takes its place.
Rotate(m, e, x, s) ==
  LET o  == Other(s)
      m1 == Adopt([m EXCEPT ![o][e] = m[s][x]], m[s][x], e)
      m2 == Replace([m1 EXCEPT !.parent[x] = m.parent[e]], m.parent[e], e, x)
  IN  [m2 EXCEPT ![s][x] = e, !.parent[e] = x]

RB_ROTATE(m, e, s) == Rotate(m, e, m[Other(s)][e], s)

\* The records met from x on along next, until it leads to none; the last of them.
Path(x, next) ==
  LET met[y \in Key] == {y} \union (IF next[y] \in Key THEN met[next[y]] ELSE {})
  IN  IF x = NULL THEN {} ELSE met[x]

End(x, next) == CHOOSE y \in Path(x, next) : next[y] \notin Key

-----------------------------------------------------------------------------
(***************************************************************************)
(* Searches.                                                               *)
(***************************************************************************)

\* Where the comparison of k with the key of a record x leads.
Toward(m, k) == [x \in Key |-> IF k = x THEN NULL ELSE IF k < x THEN m.left[x] ELSE m.right[x]]

RB_FIND(m, k) == IF k \in Path(m.root, Toward(m, k)) THEN k ELSE NULL

\* RB_MIN, for s = "left", and RB_MAX.
RB_MINMAX(m, s) == IF m.root = NULL THEN NULL ELSE End(m.root, m[s])

\* The parent of x if x is its child on side s.
Up(m, s) ==
  [x \in Key |-> IF m.parent[x] \in Key /\ m[s][m.parent[x]] = x THEN m.parent[x] ELSE NULL]

ParentOnly(m, e, s) ==      \* fault: it climbs no further than the parent
  LET o == Other(s)
  IN  IF m[s][e] # NULL THEN End(m[s][e], m[o]) ELSE m.parent[e]

\* RB_NEXT, for s = "right", and RB_PREV.
Neighbour(m, e, s) ==
  LET o == Other(s)
  IN  IF m[s][e] # NULL THEN End(m[s][e], m[o])
                        ELSE m.parent[End(e, Up(m, s))]

cfg_rb_find(k) == IF k = NULL THEN RB_MINMAX(t, "left") ELSE RB_FIND(t, k)

-----------------------------------------------------------------------------
(***************************************************************************)
(* RB_INSERT.                                                              *)
(***************************************************************************)

\* RB_INSERT up to its call of RB_INSERT_COLOR, of a key that is not in m: below the last
\* record the comparisons lead to.
Linked(m, k) ==
  LET p == IF m.root = NULL THEN NULL ELSE End(m.root, Toward(m, k))
      set == [m EXCEPT !.parent[k] = p, !.left[k] = NULL, !.right[k] = NULL, !.color[k] = "red"]
  IN  IF p = NULL THEN [set EXCEPT !.root = k]
                  ELSE [set EXCEPT ![IF k < p THEN "left" ELSE "right"][p] = k]

\* A turn of the loop of RB_INSERT_COLOR, of e whose parent is red.
InsertTurn(m, e) ==
  LET p == m.parent[e]
      g == m.parent[p]
      s == SideOf(m, g, p)
      uncle == m[Other(s)][g]
      inner == m[Other(s)][p] = e
      top   == IF inner THEN e ELSE p
      low   == IF inner THEN p ELSE e
      m1    == IF inner THEN RB_ROTATE(m, p, s) ELSE m
  IN  IF ~ IsBlack(m, uncle)
      THEN [t |-> BlackRed(Paint(m, uncle, "black"), p, g), elm |-> g]
      ELSE [t |-> RB_ROTATE(BlackRed(m1, top, g), g, Other(s)), elm |-> low]

InsertColor ==
  /\ pc = "insert_color"
  /\ LET p == t.parent[elm]
     IN  IF ~ IsBlack(t, p)
         THEN /\ t' = InsertTurn(t, elm).t /\ elm' = InsertTurn(t, elm).elm
              /\ UNCHANGED pc
         ELSE t' = Paint(t, t.root, "black") /\ pc' = "idle" /\ elm' = NULL
  /\ UNCHANGED <<parent, key>>

-----------------------------------------------------------------------------
(***************************************************************************)
(* RB_REMOVE.                                                              *)
(***************************************************************************)

\* The fields of a record that was removed are set before they are read again.
Forgotten(m, e) ==
  [m EXCEPT !.left[e] = STALE, !.right[e] = STALE, !.parent[e] = STALE, !.color[e] = STALE]

OwnColor(m, old, e) == m.color[old]     \* fault: the color of what is removed
GapColor(m, old, e) == m.color[e]       \* of what leaves its place

\* RB_REMOVE of e up to its call of RB_REMOVE_COLOR.  A record with two children is
\* replaced by its successor, whose own place its right child takes.
RB_REMOVE(m, old) ==
  LET two   == m.left[old] # NULL /\ m.right[old] # NULL
      e     == IF two THEN End(m.right[old], m.left) ELSE old
      child == IF m.left[e] = NULL THEN m.right[e] ELSE m.left[e]
      p     == m.parent[e]
      m1    == Replace(Adopt(m, child, p), p, e, child)
      m2    == [m1 EXCEPT !.left[e] = m1.left[old], !.right[e] = m1.right[old],
                          !.parent[e] = m1.parent[old], !.color[e] = m1.color[old]]
      m3    == Replace(m2, m1.parent[old], old, e)
      m4    == Adopt(Adopt(m3, m1.left[old], e), m1.right[old], e)
  IN  [t      |-> Forgotten(IF two THEN m4 ELSE m1, old),
       elm    |-> child,
       parent |-> IF two /\ p = old THEN e ELSE p,
       color  |-> GapColor(m, old, e)]

\* A turn of the loop of RB_REMOVE_COLOR: the paths through e, below p, are one black
\* record short.
RemoveTurn(m, e, p) ==
  LET s  == SideOf(m, p, e)
      o  == Other(s)
      w  == m[o][p]
      m1 == IF IsBlack(m, w) THEN m ELSE RB_ROTATE(BlackRed(m, w, p), p, s)
      w1 == m1[o][p]
      m2 == IF IsBlack(m1, m1[o][w1])
            THEN RB_ROTATE(Paint(Paint(m1, m1[s][w1], "black"), w1, "red"), w1, o)
            ELSE m1
      w2 == m2[o][p]
      m3 == Paint(Paint(Paint(m2, w2, m2.color[p]), p, "black"), m2[o][w2], "black")
      m4 == RB_ROTATE(m3, p, s)
  IN  IF IsBlack(m1, m1.left[w1]) /\ IsBlack(m1, m1.right[w1])
      THEN [t |-> Paint(m1, w1, "red"), elm |-> p, parent |-> m1.parent[p]]
      ELSE [t |-> m4, elm |-> m4.root, parent |-> p]

Short(m, e) == IsBlack(m, e) /\ e # m.root

RemoveColor ==
  /\ pc = "remove_color"
  /\ IF Short(t, elm)
     THEN LET x == RemoveTurn(t, elm, parent)
          IN  t' = x.t /\ elm' = x.elm /\ parent' = x.parent /\ UNCHANGED pc
     ELSE t' = Paint(t, elm, "black") /\ pc' = "reset" /\ elm' = NULL /\ parent' = NULL
  /\ UNCHANGED key

-----------------------------------------------------------------------------
(***************************************************************************)
(* cfg.c.                                                                  *)
(***************************************************************************)

\* aloe_cfg_set of a value.  A key that is there keeps its record.
aloe_cfg_set(k) ==
  /\ pc = "idle" /\ cfg_rb_find(k) = NULL
  /\ t' = Linked(t, k) /\ elm' = k
  /\ pc' = "insert_color"
  /\ UNCHANGED <<parent, key>>

\* A turn, the first or another, of the loop of aloe_cfg_set without a value, which resets
\* one key or (k = NULL) all; and of aloe_cfg_destroy.
ResetTurn(k) ==
  /\ pc = "idle" \/ (pc = "reset" /\ key = k)
  /\ cfg_rb_find(k) # NULL
  /\ LET x     == RB_REMOVE(t, cfg_rb_find(k))
         short == x.color = "black"
     IN  /\ t' = x.t
         /\ pc' = IF short THEN "remove_color" ELSE "reset"
         /\ elm' = IF short THEN x.elm ELSE NULL
         /\ parent' = IF short THEN x.parent ELSE NULL
  /\ key' = k

ResetEnds ==
  /\ pc = "reset" /\ cfg_rb_find(key) = NULL
  /\ pc' = "idle" /\ key' = NULL
  /\ UNCHANGED <<t, elm, parent>>

\* aloe_cfg_next; the first record comes after NULL.
aloe_cfg_next(prev) == IF prev = NULL THEN cfg_rb_find(NULL) ELSE Neighbour(t, prev, "right")

Next ==
  \/ \E k \in Key : aloe_cfg_set(k)
  \/ \E k \in Key \union {NULL} : ResetTurn(k)
  \/ InsertColor \/ RemoveColor \/ ResetEnds

Spec == Init /\ [][Next]_vars

=============================================================================
