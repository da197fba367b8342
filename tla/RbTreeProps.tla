---------------------------- MODULE RbTreeProps ----------------------------
(***************************************************************************)
(* What makes the red-black tree of cfg.c one, and what it is there for:   *)
(* the properties of RbTree.                                               *)
(***************************************************************************)
EXTENDS RbTree

\* The records that were inserted and not removed.
Nodes == { e \in Key : t.color[e] # STALE }

\* e and the records above it.
Above(e) == Path(e, t.parent)

\* The places for a further record.
Leaves == { l \in Nodes \X Sides : t[l[2]][l[1]] = NULL }

\* The place l is elm, or below it, and elm is what a removal has left one black short.
BelowShort(l) ==
  pc = "remove_color" /\ IF elm = NULL THEN l[1] = parent ELSE elm \in Above(l[1])

BlackHeight(l) ==
  Cardinality({ x \in Above(l[1]) : IsBlack(t, x) }) + (IF BelowShort(l) THEN 1 ELSE 0)

\* Children and parents agree; a red record is not at the root and not below a red one; and
\* every path down has the same number of black records - in every turn of the loops, but
\* for the record the loop is at: an insertion's is red where it may not be, and a removal's
\* counts for one more, and will be black.  Between calls there is no exception, so that no
\* path is more than twice as long as another (sys/tree.h:401-589).
RedBlack ==
  /\ t.root # NULL => t.parent[t.root] = NULL
  /\ \A e \in Nodes, s \in Sides : t[s][e] # NULL => t.parent[t[s][e]] = e
  /\ \A e \in Nodes : t.color[e] = "red" /\ (e = t.root \/ ~ IsBlack(t, t.parent[e])) =>
                        e = elm \/ (pc = "remove_color" /\ t.parent[e] = elm)
  /\ Cardinality({ BlackHeight(l) : l \in Leaves }) <= 1

-----------------------------------------------------------------------------
Abs == INSTANCE SortedSet WITH
  set     <- Nodes,
  scope   <- IF pc \in {"idle", "insert_color"} THEN {} ELSE IF key = NULL THEN Key ELSE {key},
  answers <- [find  |-> [k \in Key |-> cfg_rb_find(k)],
              first |-> aloe_cfg_next(NULL),
              last  |-> RB_MINMAX(t, "right"),
              next  |-> [k \in Nodes |-> aloe_cfg_next(k)],
              prev  |-> [k \in Nodes |-> Neighbour(t, k, "left")]]

\* Through all rotations, of insertions and of removals of records with any number of
\* children: exactly what was set and not reset is found, and the tree is gone through in
\* the order of the keys (cfg.c:38-42, 128-142, 153-163, 192-206).
ImplementsSortedSet == Abs!Spec

=============================================================================
