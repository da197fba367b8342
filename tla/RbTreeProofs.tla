---------------------------- MODULE RbTreeProofs ----------------------------
(***************************************************************************)
(* What holds of the red-black tree of cfg.c for every set of keys.        *)
(*                                                                         *)
(*   Tree      the pointers are those of a tree, and its records are       *)
(*             between the keys lim gives them: so it is in order;         *)
(*   Even      h counts the black records below a record, the same on      *)
(*             every path, when one record counts for one more;            *)
(*   Reds      which records may be red where they must not be;            *)
(*   Sound     Tree and Even, for some lim and some h;                     *)
(*   RbInv     Sound and Reds in every turn of the loops.                  *)
(*                                                                         *)
(* Limits and heights are given by functions whose existence is asserted,  *)
(* since neither the range of a subtree nor its height can be computed     *)
(* without recursion.  A walk along pointers is dealt with in the same     *)
(* way: it ends because no set of records has all their successors in it   *)
(* (Grounded), and it meets the least set that is closed under next.       *)
(***************************************************************************)
EXTENDS RbTreeProps, FiniteSetTheorems, WellFoundedInduction, TLAPS
-----------------------------------------------------------------------------
(***************************************************************************)
(* The invariant.                                                          *)
(***************************************************************************)

Pointer == Key \union {NULL, STALE}
Trees ==
  [root : Key \union {NULL}, left : [Key -> Pointer], right : [Key -> Pointer],
   parent : [Key -> Pointer], color : [Key -> {"red", "black", STALE}]]

\* a is on side s of b, in the order of the keys.
Off(s, a, b) == IF s = "left" THEN a < b ELSE b < a

\* The keys between which those of the records from x on are: lim[s][x] is what limits them
\* on side s, NULL if nothing does.
Inside(lim, x, k) == \A s \in Sides : lim[s][x] # NULL => Off(s, lim[s][x], k)

Limits == [Sides -> [Key -> Key \union {NULL}]]

\* c is a child of e on side s.
IsChild(m, lim, c, e, s) ==
  /\ m.parent[c] = e
  /\ lim[s][c] = lim[s][e] /\ lim[Other(s)][c] = e

\* The pointers of the records N are those of a tree in the order of the keys.
Tree(m, N, lim) ==
  /\ N \in SUBSET Key /\ lim \in Limits
  /\ m.root \in N \union {NULL} /\ (m.root = NULL => N = {})
  /\ m.root # NULL => m.parent[m.root] = NULL /\ \A s \in Sides : lim[s][m.root] = NULL
  /\ \A e \in N, s \in Sides :
       m[s][e] # NULL => m[s][e] \in N /\ IsChild(m, lim, m[s][e], e, s)
  /\ \A e \in N : e # m.root => m.parent[e] \in N /\ \E s \in Sides : m[s][m.parent[e]] = e
  /\ \A e \in N : Inside(lim, e, e)

\* What record e counts for: x is the record that counts for one more.
Count(m, x, e) == (IF m.color[e] = "black" THEN 1 ELSE 0) + (IF e = x THEN 1 ELSE 0)

\* The black records on a path from the child of e on side s on, if h says so of records; y
\* is the record without a child that counts.
Below(m, h, y, e, s) == IF m[s][e] = NULL THEN (IF e = y THEN 1 ELSE 0) ELSE h[m[s][e]]

\* All paths down from a record e of N have h[e] black records.
Even(m, N, h, x, y) ==
  \A e \in N, s \in Sides : Below(m, h, y, e, s) + Count(m, x, e) = h[e]

RedRed(m, e) == m.color[e] = "red" /\ (e = m.root \/ ~ IsBlack(m, m.parent[e]))

\* Only x, and what is right below z, may be red where it must not be.
Reds(m, N, x, z) == \A e \in N : RedRed(m, e) => e = x \/ (z # NULL /\ m.parent[e] = z)

Colored(m, N) == N \subseteq Key /\ \A k \in Key : m.color[k] = STALE <=> k \notin N

-----------------------------------------------------------------------------
(***************************************************************************)
(* Walks.                                                                  *)
(***************************************************************************)

\* next does not lead out of S.
Closed(next, S) == \A y \in S : next[y] \in Key => next[y] \in S

\* On C, next leads nowhere twice, and so to an end.
Grounded(next, C) ==
  /\ C \in SUBSET Key /\ Closed(next, C)
  /\ \A S \in SUBSET C : S # {} => \E x \in S : next[x] \notin S

\* The least set with y that next does not lead out of.
Reached(y, next) == { z \in Key : \A S \in SUBSET Key : y \in S /\ Closed(next, S) => z \in S }

LEMMA ReachedIs ==
  ASSUME NEW next, NEW y \in Key
  PROVE  Reached(y, next) = {y} \union (IF next[y] \in Key THEN Reached(next[y], next) ELSE {})
<1> DEFINE R == {y} \union (IF next[y] \in Key THEN Reached(next[y], next) ELSE {})
<1>1. R \in SUBSET Key
  BY DEF Reached
<1>2. Closed(next, R)
  BY DEF Reached, Closed
<1>3. Reached(y, next) \subseteq R
  BY <1>1, <1>2 DEF Reached
<1>4. y \in Reached(y, next)
  BY DEF Reached
<1>5. ASSUME next[y] \in Key PROVE Reached(next[y], next) \subseteq Reached(y, next)
  BY <1>5 DEF Reached, Closed
<1> QED
  BY <1>3, <1>4, <1>5

\* What Path is defined by: there is a function of that kind.
LEMMA PathIs ==
  ASSUME NEW next, NEW y \in Key
  PROVE  Path(y, next) = {y} \union (IF next[y] \in Key THEN Path(next[y], next) ELSE {})
<1> DEFINE From(f) == [z \in Key |-> {z} \union (IF next[z] \in Key THEN f[next[z]] ELSE {})]
           met == CHOOSE f : f = From(f)
           g   == [z \in Key |-> Reached(z, next)]
<1>1. g = From(g)
  <2>1. \A z \in Key : g[z] = {z} \union (IF next[z] \in Key THEN g[next[z]] ELSE {})
    BY ReachedIs
  <2> QED
    BY <2>1
<1>2. met = From(met)
  BY <1>1
<1>3. \A z \in Key : Path(z, next) = met[z]
  BY KeysAssumption DEF Path
<1> HIDE DEF met
<1>4. \A z \in Key : met[z] = {z} \union (IF next[z] \in Key THEN met[next[z]] ELSE {})
  BY <1>2
<1> QED
  BY <1>3, <1>4

LEMMA PathLeast ==
  ASSUME NEW next, NEW C, Grounded(next, C), NEW x \in C, NEW S, x \in S, Closed(next, S)
  PROVE  Path(x, next) \subseteq S
<1> DEFINE Bad == { y \in C : y \in S /\ ~ (Path(y, next) \subseteq S) }
<1>1. ASSUME NEW y \in Bad PROVE next[y] \in Bad
  <2>1. y \in Key /\ y \in S /\ y \in C
    BY DEF Grounded
  <2>2. Path(y, next) = {y} \union (IF next[y] \in Key THEN Path(next[y], next) ELSE {})
    BY <2>1, PathIs
  <2>3. next[y] \in Key /\ ~ (Path(next[y], next) \subseteq S)
    BY <2>1, <2>2
  <2> QED
    BY <2>1, <2>3 DEF Closed, Grounded
<1>2. Bad = {}
  BY <1>1 DEF Grounded
<1> QED
  BY <1>2

\* A walk stays in C and has one end.
LEMMA PathEnds ==
  ASSUME NEW next, NEW C, Grounded(next, C), NEW x \in C
  PROVE  /\ Path(x, next) \in SUBSET C /\ x \in Path(x, next) /\ Closed(next, Path(x, next))
         /\ \A z \in Path(x, next) : Path(z, next) \subseteq Path(x, next)
         /\ End(x, next) \in Path(x, next) /\ next[End(x, next)] \notin Key
         /\ \A z \in Path(x, next) : next[z] \notin Key => z = End(x, next)
         /\ \A z \in Path(x, next) : z # x => \E y \in Path(x, next) : next[y] = z
<1> DEFINE P(y) == Path(y, next)
<1>0. C \in SUBSET Key /\ Closed(next, C)
  BY DEF Grounded
<1>1. \A y \in C : P(y) = {y} \union (IF next[y] \in Key THEN P(next[y]) ELSE {})
  BY <1>0, PathIs
<1>2. \A y \in C : P(y) \in SUBSET C /\ y \in P(y)
  BY <1>0, <1>1, PathLeast
<1> HIDE DEF P
<1>3. \A z \in P(x) : P(z) \subseteq P(x)
  <2> DEFINE S == { z \in C : P(z) \subseteq P(x) }
  <2>1. Closed(next, S)
    BY <1>0, <1>1 DEF Closed
  <2>2. P(x) \subseteq S
    BY <2>1, PathLeast DEF P
  <2> QED
    BY <2>2
<1>4. Closed(next, P(x))
  <2>1. ASSUME NEW z \in P(x), next[z] \in Key PROVE next[z] \in P(x)
    <3>1. z \in C /\ next[z] \in C
      BY <2>1, <1>0, <1>2 DEF Closed
    <3>2. next[z] \in P(z)
      BY <3>1, <2>1, <1>1, <1>2
    <3> QED
      BY <3>2, <1>3
  <2> QED
    BY <2>1 DEF Closed
<1>5. \E y \in P(x) : next[y] \notin Key
  <2>1. PICK y \in P(x) : next[y] \notin P(x)
    BY <1>2 DEF Grounded
  <2> QED
    BY <2>1, <1>4 DEF Closed
<1>6. End(x, next) \in P(x) /\ next[End(x, next)] \notin Key
  BY <1>5 DEF End, P
<1>7. ASSUME NEW z \in P(x), next[z] \notin Key PROVE z = End(x, next)
  <2> DEFINE Two == { y \in C : \E a, b \in P(y) : a # b /\ next[a] \notin Key /\ next[b] \notin Key }
  <2>1. ASSUME NEW y \in Two PROVE next[y] \in Two
    <3>1. PICK a \in P(y), b \in P(y) : a # b /\ next[a] \notin Key /\ next[b] \notin Key
      BY DEF Two
    <3>2. P(y) = {y} \union (IF next[y] \in Key THEN P(next[y]) ELSE {})
      BY <1>1
    <3>3. next[y] \in Key /\ a \in P(next[y]) /\ b \in P(next[y])
      BY <3>1, <3>2
    <3>4. next[y] \in C
      BY <3>3, <1>0 DEF Closed
    <3> QED
      BY <3>1, <3>3, <3>4
  <2>2. Two = {}
    BY <2>1 DEF Grounded
  <2> QED
    BY <2>2, <1>6, <1>7
<1>8. ASSUME NEW z \in P(x), z # x PROVE \E y \in P(x) : next[y] = z
  <2> DEFINE S == { w \in P(x) : w = x \/ \E y \in P(x) : next[y] = w }
  <2>1. Closed(next, S)
    BY <1>4 DEF Closed
  <2>2. P(x) \subseteq S
    BY <2>1, <1>2, PathLeast DEF P
  <2> QED
    BY <2>2, <1>8
<1> QED
  BY <1>2, <1>3, <1>4, <1>6, <1>7, <1>8 DEF P

-----------------------------------------------------------------------------
(***************************************************************************)
(* The order of the keys.                                                  *)
(***************************************************************************)

LEMMA TwoSides ==
  /\ \A s \in Sides : Other(s) \in Sides /\ Other(s) # s /\ Other(Other(s)) = s
  /\ \A r, s \in Sides : r = s \/ r = Other(s)
BY DEF Sides, Other

LEMMA OffOrders ==
  /\ \A s \in Sides, a, b, c \in Key : Off(s, a, b) /\ Off(s, b, c) => Off(s, a, c)
  /\ \A s \in Sides, a, b \in Key : ~ (Off(s, a, b) /\ Off(s, b, a))
  /\ \A s \in Sides, a, b \in Key : Off(s, a, b) => a # b
  /\ \A s \in Sides, a, b \in Key : Off(s, a, b) \/ a = b \/ Off(Other(s), a, b)
  /\ \A s \in Sides, a, b \in Key : Off(Other(s), a, b) <=> Off(s, b, a)
BY KeysAssumption DEF Off, Sides, Other

\* What a tree is, in a form that needs not be expanded.
LEMMA TreeFacts ==
  ASSUME NEW m, NEW N, NEW lim, Tree(m, N, lim)
  PROVE  /\ N \in SUBSET Key /\ NULL \notin N
         /\ m.root \in N \union {NULL} /\ (m.root = NULL => N = {})
         /\ \A e \in N, s \in Sides : m[s][e] \in Key <=> m[s][e] # NULL
         /\ \A e \in N, s \in Sides : m[s][e] # NULL => m[s][e] \in N /\ m.parent[m[s][e]] = e
         /\ \A e \in N : m.parent[e] \in Key <=> e # m.root
         /\ \A e \in N : e # m.root => m.parent[e] \in N /\ \E s \in Sides : m[s][m.parent[e]] = e
         /\ \A e \in N : Inside(lim, e, e)
BY KeysAssumption DEF Tree, IsChild

\* What is between the limits of a child is what is between those of its parent, on the
\* child's side of it.
LEMMA ChildInside ==
  ASSUME NEW m, NEW N, NEW lim, Tree(m, N, lim), NEW e \in N, NEW s \in Sides, m[s][e] # NULL,
         NEW k \in Key
  PROVE  Inside(lim, m[s][e], k) <=> Inside(lim, e, k) /\ Off(s, k, e)
<1> DEFINE c == m[s][e]
<1>1. /\ c \in N /\ lim[s][c] = lim[s][e] /\ lim[Other(s)][c] = e
      /\ e \in Key /\ e # NULL /\ lim[s][e] \in Key \union {NULL}
      /\ lim[Other(s)][e] \in Key \union {NULL} /\ Inside(lim, e, e)
  BY KeysAssumption, TwoSides DEF Tree, IsChild, Limits
<1> HIDE DEF c
<1>2. \A x : Inside(lim, x, k) <=> /\ lim[s][x] # NULL => Off(s, lim[s][x], k)
                                   /\ lim[Other(s)][x] # NULL => Off(Other(s), lim[Other(s)][x], k)
  BY TwoSides DEF Inside
<1>3. Inside(lim, c, k) <=> (lim[s][e] # NULL => Off(s, lim[s][e], k)) /\ Off(s, k, e)
  BY <1>1, <1>2, OffOrders
<1>4. lim[Other(s)][e] # NULL => Off(Other(s), lim[Other(s)][e], e)
  BY <1>1, TwoSides DEF Inside
<1>5. Off(s, k, e) /\ lim[Other(s)][e] # NULL => Off(Other(s), lim[Other(s)][e], k)
  <2> SUFFICES ASSUME Off(s, k, e), lim[Other(s)][e] # NULL PROVE Off(Other(s), lim[Other(s)][e], k)
    OBVIOUS
  <2>1. Off(Other(s), e, k)
    BY <1>1, OffOrders
  <2> QED
    BY <2>1, <1>1, <1>4, OffOrders, TwoSides
<1> QED
  BY <1>2, <1>3, <1>5 DEF c

\* The keys that may be below x, and x.
Span(lim, x) == { k \in Key : Inside(lim, x, k) }

LEMMA ChildSpan ==
  ASSUME NEW m, NEW N, NEW lim, Tree(m, N, lim), NEW e \in N, NEW s \in Sides, m[s][e] # NULL
  PROVE  Span(lim, m[s][e]) \subseteq Span(lim, e) /\ Span(lim, m[s][e]) # Span(lim, e)
<1>1. e \in Span(lim, e)
  BY DEF Tree, Span
<1>2. e \notin Span(lim, m[s][e])
  <2>1. ~ Off(s, e, e) /\ e \in Key
    BY OffOrders DEF Tree
  <2> QED
    BY <2>1, ChildInside DEF Span
<1>3. Span(lim, m[s][e]) \subseteq Span(lim, e)
  BY ChildInside DEF Span
<1> QED
  BY <1>1, <1>2, <1>3

\* Of finitely many sets there are those that none is within, and that are within none.
Within(a, b) == a \subseteq b /\ a # b

LEMMA Extremes ==
  ASSUME NEW T, T \subseteq SUBSET Key, T # {}
  PROVE  /\ \E a \in T : \A b \in T : ~ Within(b, a)
         /\ \E a \in T : \A b \in T : ~ Within(a, b)
<1> DEFINE R == StrictSubsetOrdering(Key)
<1>1. IsWellFoundedOn(R, SUBSET Key)
  <2>1. FiniteSubsetsOf(Key) = SUBSET Key
    BY KeysAssumption, FS_FiniteSubsetsOfFinite
  <2>2. IsWellFoundedOn(R, FiniteSubsetsOf(Key))
    BY FS_StrictSubsetOrderingWellFounded
  <2> QED
    BY <2>1, <2>2
<1>2. \A a, b \in SUBSET Key : <<a, b>> \in R <=> Within(a, b)
  BY DEF StrictSubsetOrdering, Within
<1> HIDE DEF R
<1>3. \E a \in T : \A b \in T : ~ Within(b, a)
  <2>1. PICK a \in T : \A b \in T : <<b, a>> \notin R
    BY <1>1, WFMin
  <2> QED
    BY <2>1, <1>2
<1>4. \E a \in T : \A b \in T : ~ Within(a, b)
  <2> DEFINE U == { Key \ a : a \in T }
  <2>1. U \subseteq SUBSET Key /\ U # {}
    <3>1. PICK z \in T : TRUE
      OBVIOUS
    <3>2. Key \ z \in U
      BY <3>1
    <3>3. \A u \in U : u \in SUBSET Key
      OBVIOUS
    <3> QED
      BY <3>2, <3>3
  <2> HIDE DEF U
  <2>2. PICK a \in U : \A b \in U : <<b, a>> \notin R
    BY <1>1, <2>1, WFMin
  <2>3. PICK x \in T : a = Key \ x
    BY DEF U
  <2>4. ASSUME NEW y \in T, Within(x, y) PROVE FALSE
    <3>1. Within(Key \ y, Key \ x)
      BY <2>4 DEF Within
    <3>2. Key \ y \in U
      BY DEF U
    <3> QED
      BY <3>1, <3>2, <2>1, <2>2, <2>3, <1>2
  <2> QED
    BY <2>4
<1> QED
  BY <1>3, <1>4

LEMMA SpanExtremes ==
  ASSUME NEW lim, NEW S, S # {}
  PROVE  /\ \E x \in S : \A y \in S : ~ Within(Span(lim, y), Span(lim, x))
         /\ \E x \in S : \A y \in S : ~ Within(Span(lim, x), Span(lim, y))
<1> DEFINE T == { Span(lim, x) : x \in S }
<1>1. T \subseteq SUBSET Key /\ T # {}
  BY DEF Span
<1>2. /\ \E a \in T : \A b \in T : ~ Within(b, a)
      /\ \E a \in T : \A b \in T : ~ Within(a, b)
  BY <1>1, Extremes
<1> QED
  BY <1>2

\* A walk from records to their children ends, and one from records to their parents.
LEMMA DownGrounded ==
  ASSUME NEW m, NEW N, NEW lim, Tree(m, N, lim), NEW next,
         \A x \in N : next[x] \in Key => \E s \in Sides : next[x] = m[s][x]
  PROVE  Grounded(next, N)
<1>1. ASSUME NEW x \in N, next[x] \in Key
      PROVE  next[x] \in N /\ Within(Span(lim, next[x]), Span(lim, x))
  <2>1. PICK s \in Sides : next[x] = m[s][x]
    BY <1>1
  <2>2. m[s][x] # NULL /\ m[s][x] \in N
    BY <1>1, <2>1, TreeFacts
  <2> QED
    BY <2>1, <2>2, ChildSpan DEF Within
<1>2. ASSUME NEW S \in SUBSET N, S # {} PROVE \E x \in S : next[x] \notin S
  <2>1. PICK x \in S : \A y \in S : ~ Within(Span(lim, y), Span(lim, x))
    BY <1>2, SpanExtremes
  <2>2. x \in N /\ S \subseteq Key
    BY DEF Tree
  <2> QED
    BY <1>1, <2>1, <2>2
<1> QED
  BY <1>1, <1>2 DEF Grounded, Closed, Tree

LEMMA UpGrounded ==
  ASSUME NEW m, NEW N, NEW lim, Tree(m, N, lim), NEW next,
         \A x \in N : next[x] \in Key => next[x] = m.parent[x]
  PROVE  Grounded(next, N)
<1>1. ASSUME NEW x \in N, next[x] \in Key
      PROVE  next[x] \in N /\ Within(Span(lim, x), Span(lim, next[x]))
  <2>1. x # m.root /\ next[x] = m.parent[x] /\ x # NULL
    BY <1>1, KeysAssumption DEF Tree
  <2>2. m.parent[x] \in N /\ \E s \in Sides : m[s][m.parent[x]] = x
    BY <2>1 DEF Tree
  <2> QED
    BY <2>1, <2>2, ChildSpan DEF Within
<1>2. ASSUME NEW S \in SUBSET N, S # {} PROVE \E x \in S : next[x] \notin S
  <2>1. PICK x \in S : \A y \in S : ~ Within(Span(lim, x), Span(lim, y))
    BY <1>2, SpanExtremes
  <2>2. x \in N /\ S \subseteq Key
    BY DEF Tree
  <2> QED
    BY <1>1, <2>1, <2>2
<1> QED
  BY <1>1, <1>2 DEF Grounded, Closed, Tree

\* The records above y: their limits are outside of its own, and the walk ends at the root.
LEMMA AboveFacts ==
  ASSUME NEW m, NEW N, NEW lim, Tree(m, N, lim), NEW y \in N
  PROVE  /\ Grounded(m.parent, N)
         /\ \A x \in Path(y, m.parent) :
              x \in N /\ Inside(lim, x, y) /\ Span(lim, y) \subseteq Span(lim, x)
         /\ m.root \in Path(y, m.parent)
<1>1. Grounded(m.parent, N)
  BY UpGrounded
<1>2. /\ Path(y, m.parent) \in SUBSET N
      /\ End(y, m.parent) \in Path(y, m.parent) /\ m.parent[End(y, m.parent)] \notin Key
  BY <1>1, PathEnds
<1>3. m.root \in Path(y, m.parent)
  BY <1>2, TreeFacts
<1> DEFINE S == { x \in N : Span(lim, y) \subseteq Span(lim, x) }
<1>4. ASSUME NEW x \in S, m.parent[x] \in Key PROVE m.parent[x] \in S
  <2>1. x # m.root /\ m.parent[x] \in N
    BY <1>4, TreeFacts
  <2>2. PICK s \in Sides : m[s][m.parent[x]] = x
    BY <2>1, TreeFacts
  <2>3. Span(lim, x) \subseteq Span(lim, m.parent[x])
    BY <2>1, <2>2, ChildSpan, TreeFacts
  <2> QED
    BY <2>1, <2>3
<1>5. Path(y, m.parent) \subseteq S
  <2>1. Closed(m.parent, S)
    BY <1>4 DEF Closed
  <2> QED
    BY <2>1, <1>1, PathLeast
<1>6. y \in Span(lim, y)
  BY TreeFacts DEF Span
<1> QED
  BY <1>1, <1>3, <1>5, <1>6 DEF Span

\* The record below y on the way to z, which is below y.
LEMMA Between ==
  ASSUME NEW m, NEW N, NEW lim, Tree(m, N, lim), NEW z \in N, NEW y \in Path(z, m.parent), y # z
  PROVE  \E s \in Sides : /\ m[s][y] # NULL /\ m[s][y] \in Path(z, m.parent)
                          /\ Off(s, z, y) /\ Inside(lim, m[s][y], z)
<1>1. PICK c \in Path(z, m.parent) : m.parent[c] = y
  BY AboveFacts, PathEnds
<1>2. c \in N /\ y \in N /\ Inside(lim, c, z) /\ c # NULL /\ y # NULL /\ z \in Key
  BY AboveFacts, TreeFacts
<1>3. c # m.root
  BY <1>1, <1>2, TreeFacts
<1>4. PICK s \in Sides : m[s][y] = c
  BY <1>1, <1>2, <1>3, TreeFacts
<1>5. Off(s, z, y)
  BY <1>2, <1>4, ChildInside
<1> QED
  BY <1>1, <1>2, <1>4, <1>5

\* A record whose key is between the limits of x is below x, or x.
LEMMA InsideIsBelow ==
  ASSUME NEW m, NEW N, NEW lim, Tree(m, N, lim), NEW x \in N, NEW y \in N, Inside(lim, x, y)
  PROVE  x \in Path(y, m.parent)
<1> DEFINE A == Path(y, m.parent)
           B == Path(x, m.parent)
<1>0. Grounded(m.parent, N) /\ m.root \in A
  BY AboveFacts
<1>1. SUFFICES ASSUME x \notin A PROVE FALSE
  OBVIOUS
<1>2. \E c \in B \ A : m.parent[c] \in A
  <2>1. SUFFICES ASSUME \A c \in B \ A : m.parent[c] \notin A PROVE FALSE
    OBVIOUS
  <2>2. x \in B /\ Closed(m.parent, B) /\ m.root \in B
    BY <1>0, PathEnds, AboveFacts
  <2>3. Closed(m.parent, B \ A)
    BY <2>1, <2>2 DEF Closed
  <2>4. B \subseteq B \ A
    BY <1>0, <1>1, <2>2, <2>3, PathLeast
  <2> QED
    BY <2>2, <2>4, <1>0
<1>3. PICK c \in B \ A : m.parent[c] \in A
  BY <1>2
<1>4. c \in N /\ c # NULL /\ c # m.root /\ Inside(lim, c, x)
  BY <1>0, <1>3, AboveFacts, TreeFacts
<1> DEFINE z == m.parent[c]
<1>5. PICK s \in Sides : m[s][z] = c
  BY <1>4, TreeFacts
<1>6. z \in N /\ z \in Key /\ x \in Key /\ y \in Key /\ z \in A
  BY <1>3, AboveFacts, TreeFacts
<1>7. Inside(lim, c, y)
  <2>1. Span(lim, x) \subseteq Span(lim, c)
    BY <1>3, AboveFacts
  <2> QED
    BY <2>1, TreeFacts DEF Span
<1>8. Off(s, y, z)
  BY <1>4, <1>5, <1>6, <1>7, ChildInside
<1>9. z # y
  BY <1>6, <1>8, OffOrders
<1>10. PICK r \in Sides : m[r][z] # NULL /\ m[r][z] \in A /\ Off(r, y, z)
  BY <1>6, <1>9, Between
<1>11. r = s
  BY <1>6, <1>8, <1>10, OffOrders, TwoSides
<1> QED
  BY <1>3, <1>5, <1>10, <1>11

\* Nothing is below a record on a side where it has no child.
LEMMA NoneThere ==
  ASSUME NEW m, NEW N, NEW lim, Tree(m, N, lim), NEW x \in N, NEW s \in Sides, m[s][x] = NULL,
         NEW y \in N, Inside(lim, x, y)
  PROVE  ~ Off(s, y, x)
<1>1. SUFFICES ASSUME Off(s, y, x) PROVE FALSE
  OBVIOUS
<1>2. x \in Path(y, m.parent)
  BY InsideIsBelow
<1>3. x \in Key /\ y \in Key
  BY TreeFacts
<1>4. x # y
  BY <1>1, <1>3, OffOrders
<1>5. PICK r \in Sides : m[r][x] # NULL /\ Off(r, y, x)
  BY <1>2, <1>4, Between
<1>6. r = s
  BY <1>1, <1>3, <1>5, OffOrders, TwoSides
<1> QED
  BY <1>5, <1>6

-----------------------------------------------------------------------------
(***************************************************************************)
(* Searches.                                                               *)
(***************************************************************************)

\* The children of a record are towards the limits on their sides.
LEMMA ChildLimits ==
  ASSUME NEW m, NEW N, NEW lim, Tree(m, N, lim), NEW e \in N, NEW s \in Sides, m[s][e] # NULL
  PROVE  lim[s][m[s][e]] = lim[s][e] /\ lim[Other(s)][m[s][e]] = e
BY DEF Tree, IsChild

\* Between a record without a child on a side and its limit on that side there is none.
LEMMA NoneBeyond ==
  ASSUME NEW m, NEW N, NEW lim, Tree(m, N, lim), NEW x \in N, NEW s \in Sides, m[s][x] = NULL,
         NEW y \in N, Off(s, y, x)
  PROVE  lim[s][x] # NULL /\ ~ Off(s, lim[s][x], y)
<1>1. SUFFICES ASSUME lim[s][x] # NULL => Off(s, lim[s][x], y) PROVE FALSE
  OBVIOUS
<1> DEFINE o == Other(s)
<1>2. x \in Key /\ y \in Key /\ o \in Sides /\ Inside(lim, x, x)
      /\ lim[s][x] \in Key \union {NULL} /\ lim[o][x] \in Key \union {NULL}
  BY TreeFacts, TwoSides DEF Tree, Limits
<1>3. lim[o][x] # NULL => Off(o, lim[o][x], y)
  <2> SUFFICES ASSUME lim[o][x] # NULL PROVE Off(o, lim[o][x], y)
    OBVIOUS
  <2>1. Off(o, lim[o][x], x)
    BY <1>2 DEF Inside
  <2>2. Off(o, x, y)
    BY <1>2, OffOrders
  <2> QED
    BY <1>2, <2>1, <2>2, OffOrders
<1>4. Inside(lim, x, y)
  BY <1>1, <1>3, TwoSides DEF Inside
<1> QED
  BY <1>4, NoneThere

LEMMA TowardIs ==
  ASSUME NEW m, NEW k \in Key, NEW x \in Key
  PROVE  /\ Toward(m, k)[k] = NULL
         /\ \A s \in Sides : Off(s, k, x) => Toward(m, k)[x] = m[s][x]
         /\ x # k => \E s \in Sides : Off(s, k, x)
<1>1. Toward(m, k)[k] = NULL
  BY DEF Toward
<1>2. ASSUME NEW s \in Sides, Off(s, k, x) PROVE Toward(m, k)[x] = m[s][x]
  <2>1. CASE s = "left"
    BY <1>2, <2>1, KeysAssumption DEF Toward, Off
  <2>2. CASE s = "right"
    BY <1>2, <2>2, KeysAssumption DEF Toward, Off
  <2> QED
    BY <2>1, <2>2 DEF Sides
<1>3. x # k => \E s \in Sides : Off(s, k, x)
  BY OffOrders, TwoSides DEF Sides
<1> QED
  BY <1>1, <1>2, <1>3

\* Where a search ends: at the key, or where it would be.
LEMMA SearchEnds ==
  ASSUME NEW m, NEW N, NEW lim, Tree(m, N, lim), m.root # NULL, NEW k \in Key
  PROVE  LET y == End(m.root, Toward(m, k))
         IN  /\ y \in N /\ Inside(lim, y, k)
             /\ y # k => \E s \in Sides : Off(s, k, y) /\ m[s][y] = NULL
             /\ y = k <=> k \in N
             /\ y = k <=> k \in Path(m.root, Toward(m, k))
<1> DEFINE next == Toward(m, k)
           P == Path(m.root, next)
           y == End(m.root, next)
<1>1. m.root \in N /\ \A x \in N : x \in Key
  BY TreeFacts
<1>2. next[k] = NULL
  BY TowardIs
<1>3. \A x \in N : x # k => \E s \in Sides : Off(s, k, x) /\ next[x] = m[s][x]
  BY <1>1, TowardIs
<1> HIDE DEF next
<1>4. Grounded(next, N)
  <2>1. \A x \in N : next[x] \in Key => \E s \in Sides : next[x] = m[s][x]
    BY <1>2, <1>3, KeysAssumption
  <2> QED
    BY <2>1, DownGrounded
<1>5. /\ P \in SUBSET N /\ y \in P /\ next[y] \notin Key
      /\ \A z \in P : next[z] \notin Key => z = y
  BY <1>1, <1>4, PathEnds
<1>6. P \subseteq { x \in N : Inside(lim, x, k) }
  <2> DEFINE S == { x \in N : Inside(lim, x, k) }
  <2>1. m.root \in S
    BY <1>1 DEF Tree, Inside
  <2>2. ASSUME NEW x \in S, next[x] \in Key PROVE next[x] \in S
    <3>1. x # k
      BY <1>2, <2>2, KeysAssumption
    <3>2. PICK s \in Sides : Off(s, k, x) /\ next[x] = m[s][x]
      BY <1>3, <3>1
    <3>3. m[s][x] # NULL /\ m[s][x] \in N
      BY <2>2, <3>2, TreeFacts
    <3> QED
      BY <3>2, <3>3, ChildInside
  <2>3. Closed(next, S)
    BY <2>2 DEF Closed
  <2> QED
    BY <1>1, <1>4, <2>1, <2>3, PathLeast
<1>7. y \in N /\ Inside(lim, y, k)
  BY <1>5, <1>6
<1>8. ASSUME y # k PROVE \E s \in Sides : Off(s, k, y) /\ m[s][y] = NULL
  <2>1. PICK s \in Sides : Off(s, k, y) /\ next[y] = m[s][y]
    BY <1>3, <1>7, <1>8
  <2> QED
    BY <1>5, <1>7, <2>1, TreeFacts
<1>9. y # k => k \notin N
  BY <1>7, <1>8, NoneThere
<1>10. k \in P => k = y
  BY <1>2, <1>5, KeysAssumption
<1> QED
  BY <1>5, <1>7, <1>8, <1>9, <1>10 DEF next

LEMMA FindIs ==
  ASSUME NEW m, NEW N, NEW lim, Tree(m, N, lim), NEW k \in Key
  PROVE  RB_FIND(m, k) = IF k \in N THEN k ELSE NULL
<1>1. CASE m.root = NULL
  BY <1>1, TreeFacts DEF RB_FIND, Path
<1>2. CASE m.root # NULL
  BY <1>2, SearchEnds DEF RB_FIND
<1> QED
  BY <1>1, <1>2

\* Nothing of S is beyond y, on side s.
Outmost(S, s, y) == y \in S /\ \A z \in S : z = y \/ Off(s, y, z)

LEMMA MinMaxIs ==
  ASSUME NEW m, NEW N, NEW lim, Tree(m, N, lim), NEW s \in Sides
  PROVE  IF N = {} THEN RB_MINMAX(m, s) = NULL ELSE Outmost(N, s, RB_MINMAX(m, s))
<1>1. m.root = NULL <=> N = {}
  BY TreeFacts
<1>2. SUFFICES ASSUME m.root # NULL PROVE Outmost(N, s, End(m.root, m[s]))
  BY <1>1 DEF RB_MINMAX
<1> DEFINE y == End(m.root, m[s])
           P == Path(m.root, m[s])
           S == { x \in N : lim[s][x] = NULL }
<1>3. m.root \in N
  BY <1>2, TreeFacts
<1>4. Grounded(m[s], N)
  BY DownGrounded
<1>5. P \in SUBSET N /\ y \in P /\ m[s][y] \notin Key
  BY <1>3, <1>4, PathEnds
<1>6. y \in S
  <2>1. m.root \in S
    BY <1>2, <1>3 DEF Tree
  <2>2. ASSUME NEW x \in S, m[s][x] \in Key PROVE m[s][x] \in S
    <3>1. m[s][x] # NULL /\ m[s][x] \in N
      BY <2>2, TreeFacts
    <3> QED
      BY <3>1, ChildLimits
  <2>3. Closed(m[s], S)
    BY <2>2 DEF Closed
  <2> QED
    BY <1>3, <1>4, <1>5, <2>1, <2>3, PathLeast
<1>7. m[s][y] = NULL
  BY <1>5, <1>6, TreeFacts
<1>8. ASSUME NEW z \in N, z # y PROVE Off(s, y, z)
  <2>1. ~ Off(s, z, y)
    BY <1>6, <1>7, NoneBeyond
  <2>2. z \in Key /\ y \in Key
    BY <1>6, TreeFacts
  <2> QED
    BY <1>8, <2>1, <2>2, OffOrders, TwoSides
<1> QED
  BY <1>6, <1>8 DEF Outmost

\* The record next to e on side s is the outmost, on the other side, of all beyond e.
Beyond(N, s, e) == { x \in N : Off(s, x, e) }

LEMMA NeighbourBelow ==
  ASSUME NEW m, NEW N, NEW lim, Tree(m, N, lim), NEW s \in Sides, NEW e \in N, m[s][e] # NULL
  PROVE  LET y == End(m[s][e], m[Other(s)])
         IN  Outmost(Beyond(N, s, e), Other(s), y) /\ m[Other(s)][y] = NULL
             /\ lim[Other(s)][y] = e
<1> DEFINE o == Other(s)
           c == m[s][e]
           y == End(c, m[o])
           S == { x \in N : lim[o][x] = e }
<1>1. o \in Sides /\ c \in N /\ \A x \in N : x \in Key
  BY TreeFacts, TwoSides
<1>2. Grounded(m[o], N)
  BY <1>1, DownGrounded
<1>3. Path(c, m[o]) \in SUBSET N /\ y \in Path(c, m[o]) /\ m[o][y] \notin Key
  BY <1>1, <1>2, PathEnds
<1>4. y \in S
  <2>1. c \in S
    BY <1>1, ChildLimits
  <2>2. ASSUME NEW x \in S, m[o][x] \in Key PROVE m[o][x] \in S
    <3>1. m[o][x] # NULL /\ m[o][x] \in N
      BY <1>1, <2>2, TreeFacts
    <3> QED
      BY <1>1, <3>1, ChildLimits
  <2>3. Closed(m[o], S)
    BY <2>2 DEF Closed
  <2> QED
    BY <1>1, <1>2, <1>3, <2>1, <2>3, PathLeast
<1>5. m[o][y] = NULL
  BY <1>1, <1>3, <1>4, TreeFacts
<1>6. Off(s, y, e)
  <2>1. Off(o, e, y)
    BY <1>1, <1>4, TreeFacts DEF Inside
  <2> QED
    BY <1>1, <1>4, <2>1, OffOrders
<1>7. ASSUME NEW z \in N, Off(s, z, e), z # y PROVE Off(o, y, z)
  <2>1. ~ Off(o, z, y)
    <3>1. Off(o, e, z)
      BY <1>1, <1>7, OffOrders
    <3> QED
      BY <1>1, <1>4, <1>5, <3>1, NoneBeyond
  <2> QED
    BY <1>1, <1>4, <1>7, <2>1, OffOrders, TwoSides
<1> QED
  BY <1>4, <1>5, <1>6, <1>7 DEF Outmost, Beyond

LEMMA NeighbourIs ==
  ASSUME NEW m, NEW N, NEW lim, Tree(m, N, lim), NEW s \in Sides, NEW e \in N
  PROVE  IF Beyond(N, s, e) = {} THEN Neighbour(m, e, s) = NULL
         ELSE Outmost(Beyond(N, s, e), Other(s), Neighbour(m, e, s))
<1> DEFINE o == Other(s)
<1>1. CASE m[s][e] # NULL
  <2>1. Outmost(Beyond(N, s, e), o, Neighbour(m, e, s))
    BY <1>1, NeighbourBelow DEF Neighbour
  <2> QED
    BY <2>1 DEF Outmost
<1>2. CASE m[s][e] = NULL
  <2> DEFINE next == Up(m, s)
             y == End(e, next)
             S == { x \in N : lim[s][x] = lim[s][e] }
  <2>1. o \in Sides /\ \A x \in N : x \in Key
    BY TreeFacts, TwoSides
  <2>2. \A x \in N : next[x] = IF m.parent[x] \in Key /\ m[s][m.parent[x]] = x THEN m.parent[x]
                               ELSE NULL
    BY <2>1 DEF Up
  <2> HIDE DEF next
  <2>3. Grounded(next, N)
    BY <2>2, UpGrounded, KeysAssumption
  <2>4. Path(e, next) \in SUBSET N /\ y \in Path(e, next) /\ next[y] \notin Key
    BY <2>3, PathEnds
  <2>5. y \in S
    <3>1. ASSUME NEW x \in S, next[x] \in Key PROVE next[x] \in S
      <4>1. m.parent[x] \in Key /\ m[s][m.parent[x]] = x /\ next[x] = m.parent[x]
        BY <2>2, <3>1, KeysAssumption
      <4>2. m.parent[x] \in N /\ x # NULL
        BY <4>1, TreeFacts
      <4> QED
        BY <4>1, <4>2, ChildLimits
    <3>2. Closed(next, S)
      BY <3>1 DEF Closed
    <3> QED
      BY <2>3, <2>4, <3>2, PathLeast
  <2>6. m.parent[y] = lim[s][e] /\ lim[s][e] \in N \union {NULL}
    <3>1. CASE y = m.root
      BY <2>5, <3>1, TreeFacts DEF Tree
    <3>2. CASE y # m.root
      <4>1. m.parent[y] \in N /\ m[s][m.parent[y]] # y
        BY <2>1, <2>2, <2>4, <2>5, <3>2, TreeFacts
      <4>2. m[o][m.parent[y]] = y /\ y # NULL
        BY <2>5, <3>2, <4>1, TreeFacts, TwoSides
      <4> QED
        BY <2>1, <2>5, <4>1, <4>2, ChildLimits, TwoSides
    <3> QED
      BY <3>1, <3>2
  <2>7. Neighbour(m, e, s) = lim[s][e]
    BY <1>2, <2>6 DEF Neighbour, next
  <2>8. lim[s][e] # NULL => Off(s, lim[s][e], e)
    BY TreeFacts DEF Inside
  <2>9. ASSUME NEW z \in N, Off(s, z, e)
        PROVE  lim[s][e] # NULL /\ (z = lim[s][e] \/ Off(o, lim[s][e], z))
    <3>1. lim[s][e] # NULL /\ ~ Off(s, lim[s][e], z)
      BY <1>2, <2>9, NoneBeyond
    <3> QED
      BY <2>1, <2>6, <3>1, OffOrders, TwoSides
  <2> QED
    BY <2>6, <2>7, <2>8, <2>9 DEF Outmost, Beyond
<1> QED
  BY <1>1, <1>2

-----------------------------------------------------------------------------
\* What the abstract specification calls the least and the greatest.
LEMMA LeastIs ==
  ASSUME NEW S \in SUBSET Key, NEW y, IF S = {} THEN y = NULL ELSE Outmost(S, "left", y)
  PROVE  y = Abs!Least(S)
<1>1. CASE S = {}
  BY <1>1 DEF Abs!Least
<1>2. CASE S # {}
  <2>0. Outmost(S, "left", y) /\ \A z \in S : z \in Int
    BY <1>2, KeysAssumption
  <2>1. y \in S /\ \A z \in S : y <= z
    BY <2>0 DEF Outmost, Off
  <2>2. \A x \in S : (\A z \in S : x <= z) => x = y
    <3> SUFFICES ASSUME NEW x \in S, \A z \in S : x <= z
                 PROVE  x = y
      OBVIOUS
    <3>1. x <= y /\ y <= x /\ x \in Int /\ y \in Int
      BY <2>0, <2>1
    <3> QED
      BY <3>1
  <2> QED
    BY <1>2, <2>1, <2>2 DEF Abs!Least
<1> QED
  BY <1>1, <1>2

LEMMA GreatestIs ==
  ASSUME NEW S \in SUBSET Key, NEW y, IF S = {} THEN y = NULL ELSE Outmost(S, "right", y)
  PROVE  y = Abs!Greatest(S)
<1>1. CASE S = {}
  BY <1>1 DEF Abs!Greatest
<1>2. CASE S # {}
  <2>0. Outmost(S, "right", y) /\ \A z \in S : z \in Int
    BY <1>2, KeysAssumption
  <2>1. y \in S /\ \A z \in S : z <= y
    BY <2>0 DEF Outmost, Off
  <2>2. \A x \in S : (\A z \in S : z <= x) => x = y
    <3> SUFFICES ASSUME NEW x \in S, \A z \in S : z <= x
                 PROVE  x = y
      OBVIOUS
    <3>1. x <= y /\ y <= x /\ x \in Int /\ y \in Int
      BY <2>0, <2>1
    <3> QED
      BY <3>1
  <2> QED
    BY <1>2, <2>1, <2>2 DEF Abs!Greatest
<1> QED
  BY <1>1, <1>2

\* What the program answers, of records N in memory m.
Found(m, N) ==
  [find  |-> [k \in Key |-> RB_FIND(m, k)],
   first |-> RB_MINMAX(m, "left"),
   last  |-> RB_MINMAX(m, "right"),
   next  |-> [k \in N |-> Neighbour(m, k, "right")],
   prev  |-> [k \in N |-> Neighbour(m, k, "left")]]

LEMMA FoundIs ==
  ASSUME NEW m, NEW N, NEW lim, Tree(m, N, lim)
  PROVE  Found(m, N) = Abs!Answers(N)
<1>0. N \in SUBSET Key /\ {"left", "right"} = Sides
      /\ Other("left") = "right" /\ Other("right") = "left"
  BY TreeFacts DEF Sides, Other
<1>1. \A k \in Key : RB_FIND(m, k) = IF k \in N THEN k ELSE NULL
  BY FindIs
<1>2. RB_MINMAX(m, "left") = Abs!Least(N)
  BY <1>0, MinMaxIs, LeastIs
<1>3. RB_MINMAX(m, "right") = Abs!Greatest(N)
  BY <1>0, MinMaxIs, GreatestIs
<1>4. ASSUME NEW e \in N PROVE Neighbour(m, e, "right") = Abs!Least({ x \in N : x > e })
  <2>1. Beyond(N, "right", e) = { x \in N : x > e }
    BY <1>0, KeysAssumption DEF Beyond, Off
  <2>2. Beyond(N, "right", e) \in SUBSET Key
    BY <1>0 DEF Beyond
  <2>3. IF Beyond(N, "right", e) = {} THEN Neighbour(m, e, "right") = NULL
        ELSE Outmost(Beyond(N, "right", e), "left", Neighbour(m, e, "right"))
    BY <1>0, NeighbourIs
  <2> QED
    BY <2>1, <2>2, <2>3, LeastIs
<1>5. ASSUME NEW e \in N PROVE Neighbour(m, e, "left") = Abs!Greatest({ x \in N : x < e })
  <2>1. Beyond(N, "left", e) = { x \in N : x < e }
    BY <1>0, KeysAssumption DEF Beyond, Off
  <2>2. Beyond(N, "left", e) \in SUBSET Key
    BY <1>0 DEF Beyond
  <2>3. IF Beyond(N, "left", e) = {} THEN Neighbour(m, e, "left") = NULL
        ELSE Outmost(Beyond(N, "left", e), "right", Neighbour(m, e, "left"))
    BY <1>0, NeighbourIs
  <2> QED
    BY <2>1, <2>2, <2>3, GreatestIs
<1> QED
  BY <1>1, <1>2, <1>3, <1>4, <1>5 DEF Found, Abs!Answers

-----------------------------------------------------------------------------
(***************************************************************************)
(* What the operations on pointers do, field by field.                     *)
(***************************************************************************)

\* n is a memory with the pointers of m.
SamePointers(m, n) ==
  n \in Trees /\ n.root = m.root /\ n.parent = m.parent /\ \A s \in Sides : n[s] = m[s]

LEMMA TreesAre ==
  ASSUME NEW m \in Trees
  PROVE  /\ m.root \in Key \union {NULL}
         /\ \A s \in Sides : m[s] \in [Key -> Pointer]
         /\ m.parent \in [Key -> Pointer] /\ m.color \in [Key -> {"red", "black", STALE}]
BY DEF Trees, Sides

\* n is m with another child of e on side s.
ChildSet(m, n, s, e, v) == n = [m EXCEPT ![s][e] = v]

LEMMA SetChild ==
  ASSUME NEW m \in Trees, NEW s \in Sides, NEW e \in Key, NEW v \in Pointer,
         NEW n, ChildSet(m, n, s, e, v)
  PROVE  /\ n \in Trees /\ n.root = m.root /\ n.parent = m.parent /\ n.color = m.color
         /\ \A r \in Sides, k \in Key : n[r][k] = IF r = s /\ k = e THEN v ELSE m[r][k]
<1>1. CASE s = "left"
  <2>1. n = [m EXCEPT !.left[e] = v]
    BY <1>1 DEF ChildSet
  <2> QED
    BY <1>1, <2>1 DEF Trees, Sides
<1>2. CASE s = "right"
  <2>1. n = [m EXCEPT !.right[e] = v]
    BY <1>2 DEF ChildSet
  <2> QED
    BY <1>2, <2>1 DEF Trees, Sides
<1> QED
  BY <1>1, <1>2 DEF Sides

LEMMA SetParent ==
  ASSUME NEW m \in Trees, NEW e \in Key, NEW v \in Pointer, NEW n, n = [m EXCEPT !.parent[e] = v]
  PROVE  /\ n \in Trees /\ n.root = m.root /\ n.color = m.color
         /\ \A s \in Sides : n[s] = m[s]
         /\ \A k \in Key : n.parent[k] = IF k = e THEN v ELSE m.parent[k]
BY DEF Trees, Sides

LEMMA SetRoot ==
  ASSUME NEW m \in Trees, NEW v \in Key \union {NULL}, NEW n, n = [m EXCEPT !.root = v]
  PROVE  /\ n \in Trees /\ n.root = v /\ n.color = m.color /\ n.parent = m.parent
         /\ \A s \in Sides : n[s] = m[s]
BY DEF Trees, Sides

LEMMA SetColor ==
  ASSUME NEW m \in Trees, NEW e \in Key, NEW v \in {"red", "black", STALE},
         NEW n, n = [m EXCEPT !.color[e] = v]
  PROVE  /\ SamePointers(m, n)
         /\ \A k \in Key : n.color[k] = IF k = e THEN v ELSE m.color[k]
BY DEF Trees, Sides, SamePointers

LEMMA SamePointersTwice ==
  ASSUME NEW l, NEW m, NEW n, SamePointers(l, m), SamePointers(m, n)
  PROVE  SamePointers(l, n)
BY DEF SamePointers

LEMMA PaintIs ==
  ASSUME NEW m \in Trees, NEW e \in Key \union {NULL}, NEW v \in {"red", "black"},
         NEW n, n = Paint(m, e, v)
  PROVE  /\ SamePointers(m, n)
         /\ \A k \in Key : n.color[k] = IF k = e THEN v ELSE m.color[k]
<1>1. CASE e = NULL
  BY <1>1, KeysAssumption DEF Paint, SamePointers
<1>2. CASE e # NULL
  BY <1>2, SetColor DEF Paint
<1> QED
  BY <1>1, <1>2

LEMMA BlackRedIs ==
  ASSUME NEW m \in Trees, NEW a \in Key, NEW b \in Key, NEW n, n = BlackRed(m, a, b)
  PROVE  /\ SamePointers(m, n)
         /\ \A k \in Key : n.color[k] = IF k = b THEN "red" ELSE IF k = a THEN "black"
                                        ELSE m.color[k]
<1> DEFINE l == [m EXCEPT !.color[a] = "black"]
<1>1. n = [l EXCEPT !.color[b] = "red"]
  BY DEF BlackRed
<1>2. SamePointers(m, l) /\ \A k \in Key : l.color[k] = IF k = a THEN "black" ELSE m.color[k]
  BY SetColor
<1> HIDE DEF l
<1>3. SamePointers(l, n) /\ \A k \in Key : n.color[k] = IF k = b THEN "red" ELSE l.color[k]
  <2>1. l \in Trees
    BY <1>2 DEF SamePointers
  <2> QED
    BY <1>1, <2>1, SetColor
<1> QED
  BY <1>2, <1>3, SamePointersTwice

LEMMA AdoptIs ==
  ASSUME NEW m \in Trees, NEW e \in Key \union {NULL}, NEW p \in Pointer, NEW n, n = Adopt(m, e, p)
  PROVE  /\ n \in Trees /\ n.root = m.root /\ n.color = m.color
         /\ \A s \in Sides : n[s] = m[s]
         /\ \A k \in Key : n.parent[k] = IF k = e THEN p ELSE m.parent[k]
<1>1. CASE e = NULL
  BY <1>1, KeysAssumption DEF Adopt
<1>2. CASE e # NULL
  <2>1. e \in Key /\ n = [m EXCEPT !.parent[e] = p]
    BY <1>2 DEF Adopt
  <2> QED
    BY <2>1 DEF Trees, Sides
<1> QED
  BY <1>1, <1>2

LEMMA ReplaceIs ==
  ASSUME NEW m \in Trees, NEW p \in Key \union {NULL}, NEW e, NEW x \in Key \union {NULL},
         NEW n, n = Replace(m, p, e, x)
  PROVE  /\ n \in Trees /\ n.color = m.color /\ n.parent = m.parent
         /\ n.root = IF p = NULL THEN x ELSE m.root
         /\ \A r \in Sides, k \in Key :
              n[r][k] = IF k = p /\ r = SideOf(m, p, e) THEN x ELSE m[r][k]
<1>1. CASE p = NULL
  BY <1>1, SetRoot, KeysAssumption DEF Replace
<1>2. CASE p # NULL
  <2> DEFINE q == SideOf(m, p, e)
  <2>1. p \in Key /\ q \in Sides /\ x \in Pointer
    BY <1>2 DEF SideOf, Sides, Pointer
  <2>2. ChildSet(m, n, q, p, x)
    BY <1>2 DEF Replace, ChildSet
  <2> HIDE DEF q
  <2>3. /\ n \in Trees /\ n.root = m.root /\ n.parent = m.parent /\ n.color = m.color
        /\ \A r \in Sides, k \in Key : n[r][k] = IF r = q /\ k = p THEN x ELSE m[r][k]
    BY <2>1, <2>2, SetChild
  <2> QED
    BY <1>2, <2>3, KeysAssumption DEF q
<1> QED
  BY <1>1, <1>2

\* What Adopt and Replace return.
AdoptedIn(m, n, e, p) ==
  /\ n \in Trees /\ n.root = m.root /\ n.color = m.color
  /\ \A s \in Sides : n[s] = m[s]
  /\ \A k \in Key : n.parent[k] = IF k = e THEN p ELSE m.parent[k]

ReplacedIn(m, n, p, e, x) ==
  /\ n \in Trees /\ n.color = m.color /\ n.parent = m.parent
  /\ n.root = IF p = NULL THEN x ELSE m.root
  /\ \A r \in Sides, k \in Key :
       n[r][k] = IF k = p /\ r = SideOf(m, p, e) THEN x ELSE m[r][k]

LEMMA Adopts ==
  \A m, e, p : m \in Trees /\ e \in Key \union {NULL} /\ p \in Pointer =>
                 AdoptedIn(m, Adopt(m, e, p), e, p)
<1> SUFFICES ASSUME NEW m \in Trees, NEW e \in Key \union {NULL}, NEW p \in Pointer,
                    NEW n, n = Adopt(m, e, p)
             PROVE  AdoptedIn(m, n, e, p)
  OBVIOUS
<1> QED
  BY AdoptIs DEF AdoptedIn

LEMMA Replaces ==
  \A m, p, e, x : m \in Trees /\ p \in Key \union {NULL} /\ x \in Key \union {NULL} =>
                    ReplacedIn(m, Replace(m, p, e, x), p, e, x)
<1> SUFFICES ASSUME NEW m \in Trees, NEW p \in Key \union {NULL}, NEW e,
                    NEW x \in Key \union {NULL}, NEW n, n = Replace(m, p, e, x)
             PROVE  ReplacedIn(m, n, p, e, x)
  OBVIOUS
<1> QED
  BY ReplaceIs DEF ReplacedIn

-----------------------------------------------------------------------------
(***************************************************************************)
(* Rotations.                                                              *)
(***************************************************************************)

\* n is m with e gone down on side s, below its child x.
Rotated(m, n, N, e, x, s) ==
  /\ n \in Trees
  /\ n.root = IF m.root = e THEN x ELSE m.root
  /\ \A k \in N, r \in Sides :
       n[r][k] = IF k = e THEN (IF r = s THEN m[s][e] ELSE m[s][x])
                 ELSE IF k = x THEN (IF r = s THEN e ELSE m[r][x])
                 ELSE IF m[r][k] = e THEN x ELSE m[r][k]
  /\ \A k \in N : n.parent[k] = IF k = e THEN x ELSE IF k = x THEN m.parent[e]
                                ELSE IF k = m[s][x] THEN e ELSE m.parent[k]

\* What is next to the records of a rotation, and that they are different.
LEMMA RotationRecords ==
  ASSUME NEW m \in Trees, NEW N, NEW lim, Tree(m, N, lim), NEW e \in N, NEW s \in Sides,
         NEW x, x = m[Other(s)][e], x # NULL
  PROVE  /\ x \in N /\ x # e /\ m.parent[x] = e /\ x # m.root
         /\ m[s][x] # NULL =>
              m[s][x] \in N /\ m[s][x] # x /\ m[s][x] # e /\ m.parent[m[s][x]] = x
         /\ m[s][e] # x /\ m.parent[e] # e /\ m.parent[e] # x
         /\ m.parent[e] = NULL <=> m.root = e
         /\ m.parent[e] # NULL => m.parent[e] \in N
         /\ \A k \in N, r \in Sides : m[r][k] = e <=> k = m.parent[e] /\ r = SideOf(m, m.parent[e], e)
<1> DEFINE o == Other(s)
<1>1. /\ o \in Sides /\ x \in N /\ m.parent[x] = e /\ Off(o, x, e) /\ x \in Key /\ e \in Key
      /\ NULL \notin N /\ x # m.root
  <2>1. o \in Sides /\ x \in N /\ m.parent[x] = e /\ x \in Key /\ e \in Key /\ NULL \notin N
    BY TreeFacts, TwoSides
  <2>2. Off(o, x, e)
    BY <2>1, ChildInside, TreeFacts
  <2>3. x # m.root
    BY <2>1, TreeFacts
  <2> QED
    BY <2>1, <2>2, <2>3
<1>2. \A a, b \in N : \A r \in Sides : m[r][a] = b => m.parent[b] = a /\ Off(r, b, a)
  <2>1. ASSUME NEW a \in N, NEW b \in N, NEW r \in Sides, m[r][a] = b
        PROVE  m.parent[b] = a /\ Off(r, b, a)
    <3>1. b # NULL /\ m.parent[b] = a /\ b \in Key /\ Inside(lim, b, b)
      BY <2>1, TreeFacts
    <3> QED
      BY <2>1, <3>1, ChildInside
  <2> QED
    BY <2>1
<1>3. \A a \in N : m.parent[a] # a
  <2>1. ASSUME NEW a \in N, m.parent[a] = a PROVE FALSE
    <3>1. a # m.root /\ a \in Key
      BY <2>1, TreeFacts
    <3>2. \E r \in Sides : m[r][a] = a
      BY <2>1, <3>1, TreeFacts
    <3> QED
      BY <1>2, <3>1, <3>2, OffOrders
  <2> QED
    BY <2>1
<1>4. x # e
  BY <1>1, <1>3
<1>5. m[s][x] # NULL => m[s][x] \in N /\ m[s][x] # x /\ m.parent[m[s][x]] = x
  BY <1>1, <1>3, TreeFacts
<1>6. m.parent[e] # x
  <2>1. ASSUME m.parent[e] = x PROVE FALSE
    <3>1. e # m.root
      BY <1>1, <2>1, TreeFacts
    <3>2. PICK r \in Sides : m[r][x] = e
      BY <2>1, <3>1, TreeFacts
    <3>3. Off(r, e, x)
      BY <1>1, <1>2, <3>2
    <3>4. r = s
      BY <1>1, <3>3, OffOrders, TwoSides
    <3>5. x \in Path(x, m.parent) /\ e \in Path(x, m.parent)
      BY <1>1, AboveFacts, PathEnds DEF Closed
    <3>6. Span(lim, x) \subseteq Span(lim, e) /\ Span(lim, x) # Span(lim, e)
      BY <1>1, ChildSpan
    <3>7. Span(lim, e) \subseteq Span(lim, x)
      BY <1>1, <3>2, ChildSpan, TreeFacts
    <3> QED
      BY <3>6, <3>7
  <2> QED
    BY <2>1
<1>7. m[s][x] # e
  BY <1>1, <1>2, <1>6
<1>8. m[s][e] # x
  <2>1. m[s][e] = x => Off(s, x, e)
    BY <1>1, <1>2
  <2> QED
    BY <1>1, <2>1, OffOrders
<1>9. /\ m.parent[e] = NULL <=> m.root = e
      /\ m.parent[e] # NULL => m.parent[e] \in N
  <2>1. m.root = e => m.parent[e] = NULL
    BY <1>1 DEF Tree
  <2>2. m.root # e => m.parent[e] \in N
    BY TreeFacts
  <2> QED
    BY <1>1, <2>1, <2>2
<1>10. ASSUME NEW k \in N, NEW r \in Sides
       PROVE  m[r][k] = e <=> k = m.parent[e] /\ r = SideOf(m, m.parent[e], e)
  <2>1. m[r][k] = e => k = m.parent[e]
    BY <1>2
  <2>2. ASSUME k = m.parent[e] PROVE m[r][k] = e <=> r = SideOf(m, k, e)
    <3>1. e # m.root /\ k \in Key
      BY <2>2, TreeFacts
    <3>2. PICK q \in Sides : m[q][k] = e
      BY <2>2, <3>1, TreeFacts
    <3>3. \A u \in Sides : m[u][k] = e => u = q
      <4>1. ASSUME NEW u \in Sides, m[u][k] = e, u # q PROVE FALSE
        <5>1. u = Other(q)
          BY <4>1, TwoSides
        <5> QED
          BY <1>1, <1>2, <3>1, <3>2, <4>1, <5>1, OffOrders
      <4> QED
        BY <4>1
    <3>4. SideOf(m, k, e) = q
      BY <3>2, <3>3 DEF SideOf, Sides
    <3> QED
      BY <3>2, <3>3, <3>4
  <2> QED
    BY <2>1, <2>2
<1> QED
  BY <1>1, <1>3, <1>4, <1>5, <1>6, <1>7, <1>8, <1>9, <1>10

LEMMA RotateIs ==
  ASSUME NEW m \in Trees, NEW N, NEW lim, Tree(m, N, lim), NEW e \in N, NEW s \in Sides,
         NEW x, x = m[Other(s)][e], x # NULL, NEW n, n = RB_ROTATE(m, e, s)
  PROVE  Rotated(m, n, N, e, x, s) /\ n.color = m.color
<1> DEFINE o  == Other(s)
           a  == m[s][x]
           p  == m.parent[e]
           m0 == [m EXCEPT ![o][e] = a]
           m1 == Adopt(m0, a, e)
           m2 == [m1 EXCEPT !.parent[x] = p]
           m3 == Replace(m2, p, e, x)
           m4 == [m3 EXCEPT ![s][x] = e]
<1>0. n = Rotate(m, e, x, s)
  BY DEF RB_ROTATE
<1>13. n = [m4 EXCEPT !.parent[e] = x]
  BY <1>0 DEF Rotate
<1>1. /\ o \in Sides /\ o # s /\ e \in Key /\ x \in Key /\ a \in Key \union {NULL}
      /\ p \in Key \union {NULL} /\ N \subseteq Key /\ Key \subseteq Pointer /\ NULL \in Pointer
      /\ \A r \in Sides : r = s \/ r = o
  <2>1. x \in N /\ a \in N \union {NULL} /\ p \in N \union {NULL}
    BY RotationRecords
  <2>2. o \in Sides /\ o # s /\ \A r \in Sides : r = s \/ r = o
    BY TwoSides
  <2>3. N \subseteq Key
    BY TreeFacts
  <2>4. Key \subseteq Pointer /\ NULL \in Pointer
    BY DEF Pointer
  <2> QED
    BY <2>1, <2>2, <2>3, <2>4
<1>2. /\ x # e /\ p # e /\ p # x /\ a # x /\ a # e /\ m[s][e] # x
      /\ p = NULL <=> m.root = e
      /\ \A k \in N, r \in Sides : m[r][k] = e <=> k = p /\ r = SideOf(m, p, e)
  BY RotationRecords, KeysAssumption, <1>1
<1>3. /\ m0 \in Trees /\ m0.root = m.root /\ m0.parent = m.parent /\ m0.color = m.color
      /\ \A r \in Sides, k \in Key : m0[r][k] = IF r = o /\ k = e THEN a ELSE m[r][k]
  <2>1. ChildSet(m, m0, o, e, a)
    BY DEF ChildSet
  <2> HIDE DEF m0
  <2> QED
    BY <1>1, <2>1, SetChild
<1> HIDE DEF m0
<1>4. /\ m1 \in Trees /\ m1.root = m.root /\ m1.color = m.color
      /\ \A r \in Sides : m1[r] = m0[r]
      /\ \A k \in Key : m1.parent[k] = IF k = a THEN e ELSE m.parent[k]
  <2>1. AdoptedIn(m0, m1, a, e)
    BY <1>1, <1>3, Adopts
  <2> QED
    BY <2>1, <1>3 DEF AdoptedIn
<1> HIDE DEF m1
<1>5. /\ m2 \in Trees /\ m2.root = m.root /\ m2.color = m.color
      /\ \A r \in Sides : m2[r] = m0[r]
      /\ \A k \in Key : m2.parent[k] = IF k = x THEN p ELSE IF k = a THEN e ELSE m.parent[k]
  <2>1. /\ m2 \in Trees /\ m2.root = m1.root /\ m2.color = m1.color
        /\ \A r \in Sides : m2[r] = m1[r]
        /\ \A k \in Key : m2.parent[k] = IF k = x THEN p ELSE m1.parent[k]
    BY <1>1, <1>4, SetParent
  <2> QED
    BY <2>1, <1>4
<1> HIDE DEF m2
<1>6. /\ m3 \in Trees /\ m3.color = m.color /\ m3.parent = m2.parent
      /\ m3.root = IF p = NULL THEN x ELSE m.root
      /\ \A r \in Sides, k \in Key :
           m3[r][k] = IF k = p /\ r = SideOf(m2, p, e) THEN x ELSE m0[r][k]
  <2>1. /\ m3 \in Trees /\ m3.color = m2.color /\ m3.parent = m2.parent
        /\ m3.root = IF p = NULL THEN x ELSE m2.root
        /\ \A r \in Sides, k \in Key :
             m3[r][k] = IF k = p /\ r = SideOf(m2, p, e) THEN x ELSE m2[r][k]
    <3>1. ReplacedIn(m2, m3, p, e, x)
      BY <1>1, <1>5, Replaces
    <3> QED
      BY <3>1 DEF ReplacedIn
  <2> QED
    BY <2>1, <1>5
<1> HIDE DEF m3
<1>7. /\ m4 \in Trees /\ m4.color = m.color /\ m4.parent = m3.parent /\ m4.root = m3.root
      /\ \A r \in Sides, k \in Key : m4[r][k] = IF r = s /\ k = x THEN e ELSE m3[r][k]
  <2>1. ChildSet(m3, m4, s, x, e)
    BY DEF ChildSet
  <2> HIDE DEF m4
  <2> QED
    BY <1>1, <1>6, <2>1, SetChild
<1> HIDE DEF m4
<1>8. /\ n \in Trees /\ n.color = m.color /\ n.root = m3.root
      /\ \A r \in Sides : n[r] = m4[r]
      /\ \A k \in Key : n.parent[k] = IF k = e THEN x ELSE m3.parent[k]
  BY <1>13, <1>1, <1>6, <1>7, SetParent
<1>9. p \in N => SideOf(m2, p, e) = SideOf(m, p, e)
  <2>1. p \in N => m2.left[p] = m.left[p]
    BY <1>1, <1>2, <1>3, <1>5 DEF Sides
  <2> QED
    BY <2>1 DEF SideOf
<1>10. \A k \in N : n.parent[k] = IF k = e THEN x ELSE IF k = x THEN p
                                  ELSE IF k = a THEN e ELSE m.parent[k]
  BY <1>1, <1>5, <1>6, <1>8
<1>11. n.root = IF m.root = e THEN x ELSE m.root
  BY <1>2, <1>6, <1>8
<1>12. ASSUME NEW k \in N, NEW r \in Sides
       PROVE  n[r][k] = IF k = e THEN (IF r = s THEN m[s][e] ELSE a)
                        ELSE IF k = x THEN (IF r = s THEN e ELSE m[r][x])
                        ELSE IF m[r][k] = e THEN x ELSE m[r][k]
  <2>1. n[r][k] = IF r = s /\ k = x THEN e
                  ELSE IF k = p /\ r = SideOf(m2, p, e) THEN x
                  ELSE IF r = o /\ k = e THEN a ELSE m[r][k]
    BY <1>1, <1>3, <1>6, <1>7, <1>8
  <2>2. (k = p /\ r = SideOf(m2, p, e)) <=> m[r][k] = e
    BY <1>2, <1>9
  <2> QED
    BY <1>1, <1>2, <2>1, <2>2
<1> QED
  BY <1>8, <1>10, <1>11, <1>12 DEF Rotated

-----------------------------------------------------------------------------
(***************************************************************************)
(* A tree stays one when pointers are the same, or rotated.                *)
(***************************************************************************)

LEMMA TreeLimits ==
  ASSUME NEW m, NEW N, NEW lim, Tree(m, N, lim)
  PROVE  /\ lim \in Limits
         /\ \A s \in Sides, k \in Key : lim[s][k] \in Key \union {NULL}
         /\ m.root # NULL => m.parent[m.root] = NULL /\ \A s \in Sides : lim[s][m.root] = NULL
         /\ \A e \in N, s \in Sides : m[s][e] # NULL =>
              m[s][e] \in N /\ m.parent[m[s][e]] = e
                /\ lim[s][m[s][e]] = lim[s][e] /\ lim[Other(s)][m[s][e]] = e
BY DEF Tree, Limits, IsChild

LEMMA SamePointersTree ==
  ASSUME NEW m, NEW N, NEW lim, Tree(m, N, lim), NEW n, SamePointers(m, n)
  PROVE  Tree(n, N, lim)
BY DEF Tree, IsChild, SamePointers

\* The limits after e has gone down on side s, below x.
Turned(lim, e, x, s) ==
  [r \in Sides |-> [k \in Key |-> IF r = s /\ k = x THEN lim[s][e]
                                  ELSE IF r # s /\ k = e THEN x ELSE lim[r][k]]]

LEMMA RotatedTree ==
  ASSUME NEW m \in Trees, NEW N, NEW lim, Tree(m, N, lim), NEW e \in N, NEW s \in Sides,
         NEW x, x = m[Other(s)][e], x # NULL, NEW n, Rotated(m, n, N, e, x, s)
  PROVE  Tree(n, N, Turned(lim, e, x, s))
<1> DEFINE o == Other(s)
           a == m[s][x]
           l == Turned(lim, e, x, s)
<1>1. /\ o \in Sides /\ o # s /\ Other(o) = s /\ \A r \in Sides : r = s \/ r = o
      /\ e \in Key /\ x \in Key /\ N \in SUBSET Key /\ NULL \notin N
  BY TreeFacts, TwoSides, RotationRecords
<1>2. /\ x \in N /\ x # e /\ m.parent[x] = e /\ x # m.root
      /\ a # NULL => a \in N /\ a # x /\ a # e /\ m.parent[a] = x
      /\ m[s][e] # x /\ m.parent[e] # e /\ m.parent[e] # x
      /\ m.parent[e] # NULL => m.parent[e] \in N
      /\ m.parent[e] = NULL <=> m.root = e
  BY RotationRecords
<1>3. \A r \in Sides, k \in Key : lim[r][k] \in Key \union {NULL}
  BY TreeLimits
<1>4. l \in Limits
  BY <1>1, <1>3 DEF Turned, Limits
<1>5. \A r \in Sides, k \in Key : l[r][k] = IF r = s /\ k = x THEN lim[s][e]
                                            ELSE IF r # s /\ k = e THEN x ELSE lim[r][k]
  BY DEF Turned
<1> HIDE DEF l
<1>6. /\ n.root = IF m.root = e THEN x ELSE m.root
      /\ \A k \in N, r \in Sides :
           n[r][k] = IF k = e THEN (IF r = s THEN m[s][e] ELSE a)
                     ELSE IF k = x THEN (IF r = s THEN e ELSE m[r][x])
                     ELSE IF m[r][k] = e THEN x ELSE m[r][k]
      /\ \A k \in N : n.parent[k] = IF k = e THEN x ELSE IF k = x THEN m.parent[e]
                                    ELSE IF k = a THEN e ELSE m.parent[k]
  BY DEF Rotated
<1>7. /\ m.root \in N \union {NULL} /\ (m.root = NULL => N = {})
      /\ m.root # NULL => m.parent[m.root] = NULL /\ \A r \in Sides : lim[r][m.root] = NULL
  BY TreeFacts, TreeLimits
<1>8. \A k \in N, r \in Sides : m[r][k] # NULL =>
        m[r][k] \in N /\ m.parent[m[r][k]] = k
          /\ lim[r][m[r][k]] = lim[r][k] /\ lim[Other(r)][m[r][k]] = k
  BY TreeLimits
<1>9. \A k \in N : k # m.root => m.parent[k] \in N /\ \E r \in Sides : m[r][m.parent[k]] = k
  BY TreeFacts
<1>10. lim[o][x] = lim[o][e] /\ lim[s][x] = e
  BY <1>1, <1>2, <1>8
<1>11. /\ n.root \in N \union {NULL} /\ (n.root = NULL => N = {})
       /\ n.root # NULL => n.parent[n.root] = NULL /\ \A r \in Sides : l[r][n.root] = NULL
  <2>1. CASE m.root = e
    BY <2>1, <1>1, <1>2, <1>5, <1>6, <1>7, <1>10
  <2>2. CASE m.root # e
    <3>1. m.root # a
      BY <1>1, <1>2, <1>7
    <3> QED
      BY <2>2, <3>1, <1>1, <1>2, <1>5, <1>6, <1>7
  <2> QED
    BY <2>1, <2>2
<1>12. ASSUME NEW k \in N, NEW r \in Sides, n[r][k] # NULL
       PROVE  n[r][k] \in N /\ IsChild(n, l, n[r][k], k, r)
  <2> DEFINE c == n[r][k]
  <2> SUFFICES c \in N /\ n.parent[c] = k /\ l[r][c] = l[r][k] /\ l[Other(r)][c] = k
    BY DEF IsChild
  <2>1. CASE k = e /\ r = s
    <3>1. c = m[s][e]
      BY <2>1, <1>6
    <3>2. c \in N /\ c # e /\ c # x /\ c # a
      BY <3>1, <1>1, <1>2, <1>8, <1>12
    <3> QED
      BY <2>1, <3>1, <3>2, <1>1, <1>2, <1>5, <1>6, <1>8, <1>12
  <2>2. CASE k = e /\ r # s
    <3>1. c = a /\ r = o
      BY <2>2, <1>1, <1>6
    <3>2. c \in N /\ c # e /\ c # x /\ lim[s][c] = e /\ lim[o][c] = x
      BY <3>1, <1>1, <1>2, <1>8, <1>10, <1>12
    <3> QED
      BY <2>2, <3>1, <3>2, <1>1, <1>2, <1>5, <1>6
  <2>3. CASE k = x /\ r = s
    <3>1. c = e
      BY <2>3, <1>2, <1>6
    <3> QED
      BY <2>3, <3>1, <1>1, <1>2, <1>5, <1>6
  <2>4. CASE k = x /\ r # s
    <3>1. c = m[o][x] /\ r = o
      BY <2>4, <1>1, <1>2, <1>6
    <3>2. c \in N /\ m.parent[c] = x /\ lim[o][c] = lim[o][x] /\ lim[s][c] = x
      BY <3>1, <1>1, <1>2, <1>8, <1>12
    <3>3. c # e /\ c # x
      BY <3>2, <1>2
    <3>4. c # a
      <4>1. c = a => lim[s][c] = lim[s][x]
        BY <3>1, <1>1, <1>2, <1>8, <1>12
      <4> QED
        BY <4>1, <3>2, <1>2, <1>10
    <3> QED
      BY <2>4, <3>1, <3>2, <3>3, <3>4, <1>1, <1>2, <1>5, <1>6
  <2>5. CASE k # e /\ k # x /\ m[r][k] = e
    <3>1. c = x /\ m.parent[e] = k /\ lim[r][e] = lim[r][k] /\ lim[Other(r)][e] = k
      BY <2>5, <1>1, <1>6, <1>8
    <3>2. l[r][x] = lim[r][e] /\ l[Other(r)][x] = lim[Other(r)][e]
      BY <1>1, <1>2, <1>5, <1>10, TwoSides
    <3>3. l[r][k] = lim[r][k]
      BY <2>5, <1>1, <1>5
    <3> QED
      BY <3>1, <3>2, <3>3, <1>2, <1>6
  <2>6. CASE k # e /\ k # x /\ m[r][k] # e
    <3>1. c = m[r][k] /\ c # e
      BY <2>6, <1>6
    <3>2. c \in N /\ m.parent[c] = k /\ lim[r][c] = lim[r][k] /\ lim[Other(r)][c] = k
      BY <3>1, <1>8, <1>12
    <3>3. c # x /\ c # a
      BY <2>6, <3>2, <1>2, <1>12
    <3> QED
      BY <2>6, <3>1, <3>2, <3>3, <1>1, <1>5, <1>6, TwoSides
  <2> QED
    BY <2>1, <2>2, <2>3, <2>4, <2>5, <2>6
<1>13. ASSUME NEW k \in N, k # n.root
       PROVE  n.parent[k] \in N /\ \E r \in Sides : n[r][n.parent[k]] = k
  <2>1. CASE k = e
    BY <2>1, <1>2, <1>6
  <2>2. CASE k = x
    <3>1. n.parent[k] = m.parent[e] /\ e # m.root
      BY <2>2, <1>2, <1>6, <1>13
    <3>2. m.parent[e] \in N
      BY <3>1, <1>9
    <3>3. PICK r \in Sides : m[r][m.parent[e]] = e
      BY <3>1, <1>9
    <3>4. n[r][m.parent[e]] = x
      BY <3>2, <3>3, <1>2, <1>6
    <3> QED
      BY <2>2, <3>1, <3>2, <3>4
  <2>3. CASE k = a
    <3>1. n.parent[k] = e /\ n[o][e] = a
      BY <2>3, <1>1, <1>2, <1>6
    <3> QED
      BY <2>3, <3>1, <1>1
  <2>4. CASE k # e /\ k # x /\ k # a
    <3> DEFINE q == m.parent[k]
    <3>1. k # m.root
      BY <2>4, <1>6, <1>13
    <3>2. n.parent[k] = q /\ q \in N
      BY <2>4, <3>1, <1>6, <1>9
    <3>3. PICK r \in Sides : m[r][q] = k
      BY <3>1, <1>9
    <3>4. n[r][q] = k
      BY <2>4, <3>2, <3>3, <1>1, <1>2, <1>6
    <3> QED
      BY <3>2, <3>4
  <2> QED
    BY <2>1, <2>2, <2>3, <2>4
<1>14. ASSUME NEW k \in N PROVE Inside(l, k, k)
  <2>1. \A y \in N, r \in Sides : lim[r][y] # NULL => Off(r, lim[r][y], y)
    BY TreeFacts DEF Inside
  <2>2. Off(o, x, e) /\ Off(s, e, x)
    <3>1. Off(s, e, x)
      BY <2>1, <1>1, <1>2, <1>10
    <3> QED
      BY <3>1, <1>1, OffOrders
  <2>3. ASSUME NEW r \in Sides, l[r][k] # NULL PROVE Off(r, l[r][k], k)
    <3>1. CASE r = s /\ k = x
      <4>1. Off(s, lim[s][e], e) /\ lim[s][e] \in Key
        BY <2>1, <2>3, <3>1, <1>1, <1>3, <1>5
      <4>2. Off(s, lim[s][e], x)
        BY <4>1, <2>2, <1>1, OffOrders
      <4> QED
        BY <3>1, <4>2, <1>1, <1>5
    <3>2. CASE r # s /\ k = e
      BY <2>2, <3>2, <1>1, <1>5
    <3>3. CASE ~ (r = s /\ k = x) /\ ~ (r # s /\ k = e)
      BY <2>1, <2>3, <3>3, <1>1, <1>5
    <3> QED
      BY <3>1, <3>2, <3>3
  <2> QED
    BY <2>3 DEF Inside
<1>15. /\ \A k \in N, r \in Sides : n[r][k] # NULL => n[r][k] \in N /\ IsChild(n, l, n[r][k], k, r)
       /\ \A k \in N : k # n.root => n.parent[k] \in N /\ \E r \in Sides : n[r][n.parent[k]] = k
       /\ \A k \in N : Inside(l, k, k)
  BY <1>12, <1>13, <1>14
<1>16. Tree(n, N, l)
  BY <1>1, <1>4, <1>11, <1>15 DEF Tree
<1> QED
  BY <1>16 DEF l

-----------------------------------------------------------------------------
(***************************************************************************)
(* Black heights.                                                          *)
(***************************************************************************)

Heights == [Key -> Nat]

LEMMA CountIs ==
  ASSUME NEW m, NEW x, NEW e
  PROVE  /\ Count(m, x, e) \in Nat
         /\ m.color[e] = "black" => Count(m, x, e) = IF e = x THEN 2 ELSE 1
         /\ m.color[e] # "black" => Count(m, x, e) = IF e = x THEN 1 ELSE 0
BY DEF Count

LEMMA EvenIs ==
  ASSUME NEW m, NEW N, NEW lim, Tree(m, N, lim), NEW h \in Heights, NEW x, NEW y,
         Even(m, N, h, x, y), NEW e \in N, NEW s \in Sides
  PROVE  /\ h[e] \in Nat
         /\ m[s][e] # NULL => h[m[s][e]] \in Nat /\ h[e] = h[m[s][e]] + Count(m, x, e)
         /\ m[s][e] = NULL => h[e] = (IF e = y THEN 1 ELSE 0) + Count(m, x, e)
<1>1. e \in Key /\ (m[s][e] # NULL => m[s][e] \in Key)
  BY TreeFacts
<1>2. Below(m, h, y, e, s) + Count(m, x, e) = h[e]
  BY DEF Even
<1>3. Count(m, x, e) \in Nat
  BY CountIs
<1> QED
  BY <1>1, <1>2, <1>3 DEF Below, Heights

\* A rotation, with new colors or without: heights g for the new memory n.  For the records
\* that do not take part, what they count for may have changed where they are below e or x.
LEMMA RotatedEven ==
  ASSUME NEW m \in Trees, NEW N, NEW lim, Tree(m, N, lim), NEW e \in N, NEW s \in Sides,
         NEW x, x = m[Other(s)][e], x # NULL, NEW n, Rotated(m, n, N, e, x, s),
         NEW h \in Heights, NEW u, NEW y, Even(m, N, h, u, y),
         NEW g \in Heights, NEW v, NEW z, g[x] = h[e],
         \A k \in N : k # e /\ k # x =>
           /\ m.parent[k] # e /\ m.parent[k] # x => g[k] = h[k]
           /\ k = y <=> k = z
           /\ g[k] + Count(m, u, k) = h[k] + Count(n, v, k),
         \A r \in Sides : /\ Below(n, g, z, e, r) + Count(n, v, e) = g[e]
                          /\ Below(n, g, z, x, r) + Count(n, v, x) = g[x]
  PROVE  Even(n, N, g, v, z)
<1>1. /\ x \in N /\ x # e /\ m.parent[x] = e /\ N \in SUBSET Key /\ e # NULL
  BY RotationRecords, TreeFacts
<1>2. ASSUME NEW k \in N, NEW r \in Sides, k # e, k # x
      PROVE  Below(n, g, z, k, r) + Count(n, v, k) = g[k]
  <2>1. n[r][k] = IF m[r][k] = e THEN x ELSE m[r][k]
    BY <1>2 DEF Rotated
  <2>2. g[k] + Count(m, u, k) = h[k] + Count(n, v, k) /\ (k = y <=> k = z)
    BY <1>2
  <2>3. Below(n, g, z, k, r) = Below(m, h, y, k, r)
    <3>1. CASE m[r][k] = e
      BY <2>1, <3>1, <1>1 DEF Below
    <3>2. CASE m[r][k] = NULL
      BY <2>1, <2>2, <3>2, <1>1 DEF Below
    <3>3. CASE m[r][k] # e /\ m[r][k] # NULL
      <4> DEFINE c == m[r][k]
      <4>1. c \in N /\ m.parent[c] = k
        BY <3>3, TreeFacts
      <4>2. c # e /\ c # x /\ m.parent[c] # e /\ m.parent[c] # x
        BY <3>3, <4>1, <1>1, <1>2
      <4>3. g[c] = h[c]
        BY <4>1, <4>2
      <4> QED
        BY <2>1, <3>3, <4>3 DEF Below
    <3> QED
      BY <3>1, <3>2, <3>3
  <2>4. Below(m, h, y, k, r) + Count(m, u, k) = h[k]
    BY DEF Even
  <2>5. /\ Count(m, u, k) \in Nat /\ Count(n, v, k) \in Nat /\ g[k] \in Nat /\ h[k] \in Nat
        /\ Below(m, h, y, k, r) \in Nat
    <3>1. Count(m, u, k) \in Nat /\ Count(n, v, k) \in Nat
      BY CountIs
    <3>2. g[k] \in Nat /\ h[k] \in Nat
      BY <1>1 DEF Heights
    <3>3. m[r][k] # NULL => m[r][k] \in Key
      BY TreeFacts
    <3> QED
      BY <3>1, <3>2, <3>3 DEF Below, Heights
  <2> QED
    BY <2>2, <2>3, <2>4, <2>5
<1> QED
  BY <1>2 DEF Even

\* The tree m with records N, where x counts for one more, or the missing child of y.
Sound(m, N, x, y) ==
  /\ m \in Trees /\ Colored(m, N)
  /\ \E lim : Tree(m, N, lim) /\ \E h \in Heights : Even(m, N, h, x, y)

LEMMA RotatedPointers ==
  ASSUME NEW m, NEW l, NEW n, NEW N, NEW e, NEW x, NEW s \in Sides,
         SamePointers(m, l), Rotated(l, n, N, e, x, s)
  PROVE  Rotated(m, n, N, e, x, s)
BY DEF SamePointers, Rotated

\* A rotation of a black record above its red child, which change colors: no path gets
\* another number of black records, and none gets two red ones in a row if those that come
\* to be below the red one are black.
LEMMA SwapRotated ==
  ASSUME NEW m, NEW N, NEW u, NEW y, Sound(m, N, u, y), NEW e \in N, NEW s \in Sides,
         NEW x, x = m[Other(s)][e], x # NULL, m.color[e] = "black", m.color[x] = "red",
         IsBlack(m, m[s][e]), IsBlack(m, m[s][x]),
         u # e, u # x, y # x, y = e => m[s][x] # NULL,
         NEW l, SamePointers(m, l),
         \A k \in Key : l.color[k] = IF k = e THEN "red" ELSE IF k = x THEN "black" ELSE m.color[k],
         NEW n, n = RB_ROTATE(l, e, s)
  PROVE  /\ Sound(n, N, u, y) /\ Rotated(m, n, N, e, x, s) /\ n.color = l.color
         /\ \A k \in N : RedRed(n, k) =>
              RedRed(m, k) /\ k # e /\ k # x /\ n.parent[k] = m.parent[k]
<1> DEFINE o == Other(s)
           a == m[s][x]
<1>0. m \in Trees /\ l \in Trees /\ Colored(m, N)
  BY DEF Sound, SamePointers
<1>1. PICK lim : Tree(m, N, lim) /\ \E h \in Heights : Even(m, N, h, u, y)
  BY DEF Sound
<1>2. PICK h \in Heights : Even(m, N, h, u, y)
  BY <1>1
<1>3. o \in Sides /\ o # s /\ N \in SUBSET Key /\ NULL \notin N /\ \A r \in Sides : r = s \/ r = o
  BY <1>1, TwoSides, TreeFacts
<1>4. /\ x \in N /\ x # e /\ m.parent[x] = e /\ x # m.root
      /\ a # NULL => a \in N /\ a # x /\ a # e /\ m.parent[a] = x
      /\ m[s][e] # x /\ m.parent[e] # e /\ m.parent[e] # x
  BY <1>0, <1>1, RotationRecords
<1>5. Rotated(m, n, N, e, x, s) /\ n.color = l.color
  <2>1. Tree(l, N, lim)
    BY <1>1, SamePointersTree
  <2>2. x = l[o][e]
    BY <1>3 DEF SamePointers
  <2>3. Rotated(l, n, N, e, x, s) /\ n.color = l.color
    BY <1>0, <2>1, <2>2, RotateIs
  <2> QED
    BY <2>3, RotatedPointers
<1>6. Tree(n, N, Turned(lim, e, x, s))
  BY <1>0, <1>1, <1>5, RotatedTree
<1>7. /\ n \in Trees /\ n.root = IF m.root = e THEN x ELSE m.root
      /\ \A k \in N, r \in Sides :
           n[r][k] = IF k = e THEN (IF r = s THEN m[s][e] ELSE a)
                     ELSE IF k = x THEN (IF r = s THEN e ELSE m[r][x])
                     ELSE IF m[r][k] = e THEN x ELSE m[r][k]
      /\ \A k \in N : n.parent[k] = IF k = e THEN x ELSE IF k = x THEN m.parent[e]
                                    ELSE IF k = a THEN e ELSE m.parent[k]
  BY <1>5 DEF Rotated
<1>8. \A k \in Key : n.color[k] = IF k = e THEN "red" ELSE IF k = x THEN "black" ELSE m.color[k]
  BY <1>5
<1>9. Colored(n, N)
  BY <1>0, <1>3, <1>4, <1>8, KeysAssumption DEF Colored
<1> DEFINE g == [h EXCEPT ![e] = h[x], ![x] = h[e]]
<1>10. /\ g \in Heights /\ g[e] = h[x] /\ g[x] = h[e]
       /\ \A k \in Key : k # e /\ k # x => g[k] = h[k]
  BY <1>3, <1>4 DEF Heights
<1> HIDE DEF g
<1>11. Even(n, N, g, u, y)
  <2>1. \A k \in N : k # e /\ k # x => Count(n, u, k) = Count(m, u, k) /\ Count(m, u, k) \in Nat
    BY <1>3, <1>8, CountIs DEF Count
  <2>2. /\ Count(n, u, e) = 0 /\ Count(n, u, x) = 1 /\ Count(m, u, e) = 1 /\ Count(m, u, x) = 0
    BY <1>3, <1>4, <1>8, CountIs
  <2>3. h[e] = h[x] + 1 /\ h[x] \in Nat
    BY <1>1, <1>2, <1>3, <2>2, EvenIs
  <2>4. ASSUME NEW r \in Sides PROVE Below(n, g, y, x, r) + Count(n, u, x) = g[x]
    <3>1. CASE r = s
      <4>1. n[r][x] = e /\ e # NULL
        BY <3>1, <1>3, <1>4, <1>7
      <4> QED
        BY <4>1, <1>10, <2>2, <2>3 DEF Below
    <3>2. CASE r = o
      <4>1. n[r][x] = m[r][x]
        BY <3>2, <1>3, <1>4, <1>7
      <4>2. m[r][x] = NULL => h[x] = 0
        BY <1>1, <1>2, <1>4, <2>2, EvenIs
      <4>3. m[r][x] # NULL => g[m[r][x]] = h[x]
        <5> SUFFICES ASSUME m[r][x] # NULL PROVE g[m[r][x]] = h[x]
          OBVIOUS
        <5>1. m[r][x] \in N /\ m.parent[m[r][x]] = x
          BY <1>1, <1>4, TreeFacts
        <5>2. m[r][x] # e /\ m[r][x] # x
          <6>1. m.parent[e] # x /\ m.parent[x] # x
            BY <1>4
          <6> QED
            BY <5>1, <6>1
        <5>3. h[x] = h[m[r][x]] + 0 /\ h[m[r][x]] \in Nat
          BY <1>1, <1>2, <1>4, <2>2, EvenIs
        <5> QED
          BY <5>1, <5>2, <5>3, <1>3, <1>10
      <4> QED
        BY <4>1, <4>2, <4>3, <1>10, <2>2, <2>3 DEF Below
    <3> QED
      BY <3>1, <3>2, <1>3
  <2>5. ASSUME NEW r \in Sides PROVE Below(n, g, y, e, r) + Count(n, u, e) = g[e]
    <3>1. CASE r = s
      <4> DEFINE b == m[s][e]
      <4>1. n[r][e] = b
        BY <3>1, <1>7
      <4>2. b = NULL => h[e] = (IF e = y THEN 1 ELSE 0) + 1
        BY <1>1, <1>2, <2>2, EvenIs
      <4>3. b # NULL => g[b] = h[x]
        <5> SUFFICES ASSUME b # NULL PROVE g[b] = h[x]
          OBVIOUS
        <5>1. b \in N /\ b # x /\ b # e
          BY <1>1, <1>4, TreeFacts
        <5>2. h[e] = h[b] + 1 /\ h[b] \in Nat
          BY <1>1, <1>2, <2>2, EvenIs
        <5> QED
          BY <5>1, <5>2, <2>3, <1>3, <1>10
      <4> QED
        BY <4>1, <4>2, <4>3, <1>10, <2>2, <2>3 DEF Below
    <3>2. CASE r = o
      <4>1. n[r][e] = a
        BY <3>2, <1>3, <1>7
      <4>2. a = NULL => h[x] = 0 /\ y # e
        BY <1>1, <1>2, <1>4, <2>2, EvenIs
      <4>3. a # NULL => g[a] = h[x]
        <5> SUFFICES ASSUME a # NULL PROVE g[a] = h[x]
          OBVIOUS
        <5>1. h[x] = h[a] + 0 /\ h[a] \in Nat
          BY <1>1, <1>2, <1>4, <2>2, EvenIs
        <5> QED
          BY <5>1, <1>3, <1>4, <1>10
      <4> QED
        BY <4>1, <4>2, <4>3, <1>10, <2>2, <2>3 DEF Below
    <3> QED
      BY <3>1, <3>2, <1>3
  <2>6. \A k \in N : k # e /\ k # x =>
          /\ m.parent[k] # e /\ m.parent[k] # x => g[k] = h[k]
          /\ k = y <=> k = y
          /\ g[k] + Count(m, u, k) = h[k] + Count(n, u, k)
    <3>1. \A k \in N : k # e /\ k # x => g[k] = h[k]
      BY <1>3, <1>10
    <3> QED
      BY <3>1, <2>1
  <2> QED
    BY <1>0, <1>1, <1>2, <1>5, <1>10, <2>4, <2>5, <2>6, RotatedEven
<1>12. Sound(n, N, u, y)
  BY <1>6, <1>7, <1>9, <1>10, <1>11 DEF Sound
<1>13. ASSUME NEW k \in N, RedRed(n, k)
       PROVE  RedRed(m, k) /\ k # e /\ k # x /\ n.parent[k] = m.parent[k]
  <2>1. n.color[k] = "red" /\ (k = n.root \/ ~ IsBlack(n, n.parent[k]))
    BY <1>13 DEF RedRed
  <2>2. k # x
    BY <2>1, <1>3, <1>4, <1>8
  <2>3. k # e
    <3>1. n.parent[e] = x /\ n.root # e /\ n.color[x] = "black"
      BY <1>3, <1>4, <1>7, <1>8
    <3> QED
      BY <2>1, <3>1 DEF IsBlack
  <2>4. m.color[k] = "red" /\ k # NULL
    BY <2>1, <2>2, <2>3, <1>3, <1>8
  <2>5. k # a /\ k # m[s][e]
    BY <2>4 DEF IsBlack
  <2>6. n.parent[k] = m.parent[k]
    BY <2>2, <2>3, <2>5, <1>7
  <2>7. k = n.root => k = m.root
    BY <2>2, <1>7
  <2>8. ASSUME k # m.root PROVE ~ IsBlack(m, m.parent[k])
    <3> DEFINE q == m.parent[k]
    <3>1. q \in N
      BY <1>1, <2>8, TreeFacts
    <3>2. ~ IsBlack(n, q)
      BY <2>1, <2>6, <2>7, <2>8
    <3>3. q # x
      BY <3>2, <1>3, <1>4, <1>8 DEF IsBlack
    <3>4. q # e
      <4>1. \E r \in Sides : m[r][q] = k
        BY <1>1, <2>8, TreeFacts
      <4> QED
        BY <4>1, <2>2, <2>5, <1>3
    <3> QED
      BY <3>1, <3>2, <3>3, <3>4, <1>3, <1>8 DEF IsBlack
  <2> QED
    BY <2>2, <2>3, <2>4, <2>6, <2>8 DEF RedRed
<1> QED
  BY <1>5, <1>12, <1>13

-----------------------------------------------------------------------------
(***************************************************************************)
(* RB_INSERT.                                                              *)
(***************************************************************************)

LEMMA ColorIs ==
  ASSUME NEW m \in Trees, NEW N, Colored(m, N), NEW k \in N
  PROVE  /\ k \in Key /\ k # NULL
         /\ m.color[k] \in {"red", "black"}
         /\ IsBlack(m, k) <=> m.color[k] = "black"
         /\ ~ IsBlack(m, k) <=> m.color[k] = "red"
BY TreesAre, KeysAssumption DEF Colored, IsBlack

\* A record and its parent.
LEMMA ParentIs ==
  ASSUME NEW m \in Trees, NEW N, NEW lim, Tree(m, N, lim), NEW e \in N, e # m.root,
         NEW p, p = m.parent[e], NEW s, s = SideOf(m, p, e)
  PROVE  /\ p \in N /\ p # e /\ m.parent[p] # e
         /\ s \in Sides /\ m[s][p] = e /\ m[Other(s)][p] # e
<1>1. p \in N /\ e # NULL /\ p \in Key /\ e \in Key
  BY TreeFacts
<1>2. PICK r \in Sides : m[r][p] = e
  BY TreeFacts
<1>3. m[Other(r)][p] # e
  <2>1. Off(r, e, p)
    BY <1>1, <1>2, TreeFacts, ChildInside
  <2>2. m[Other(r)][p] = e => Off(Other(r), e, p)
    BY <1>1, TreeFacts, ChildInside, TwoSides
  <2> QED
    BY <1>1, <2>1, <2>2, OffOrders
<1>4. r = s
  BY <1>2, <1>3 DEF SideOf, Sides, Other
<1>5. p # e /\ m.parent[p] # e
  <2>1. Other(r) \in Sides /\ e = m[Other(Other(r))][p]
    BY <1>2, TwoSides
  <2> QED
    BY <1>1, <2>1, RotationRecords
<1> QED
  BY <1>1, <1>2, <1>3, <1>4, <1>5

\* The new record k below p, on side s.
LEMMA LinkedIs ==
  ASSUME NEW m \in Trees, NEW k \in Key, NEW p \in Key, p # k, NEW s \in Sides, Off(s, k, p),
         m.root # NULL, p = End(m.root, Toward(m, k)), NEW n, n = Linked(m, k)
  PROVE  /\ n \in Trees /\ n.root = m.root
         /\ n.parent = [m.parent EXCEPT ![k] = p] /\ n.color = [m.color EXCEPT ![k] = "red"]
         /\ \A r \in Sides, z \in Key : n[r][z] = IF z = k THEN NULL
                                                  ELSE IF z = p /\ r = s THEN k ELSE m[r][z]
<1>1. p # NULL /\ s = IF k < p THEN "left" ELSE "right"
  BY KeysAssumption DEF Off, Sides
<1> DEFINE l == [m EXCEPT !.parent[k] = p, !.left[k] = NULL, !.right[k] = NULL, !.color[k] = "red"]
<1>2. ChildSet(l, n, s, p, k)
  BY <1>1 DEF Linked, ChildSet
<1>3. /\ l \in Trees /\ l.root = m.root
      /\ l.parent = [m.parent EXCEPT ![k] = p] /\ l.color = [m.color EXCEPT ![k] = "red"]
      /\ l.left = [m.left EXCEPT ![k] = NULL] /\ l.right = [m.right EXCEPT ![k] = NULL]
  BY DEF Trees, Pointer
<1> HIDE DEF l
<1>4. \A r \in Sides, z \in Key : l[r][z] = IF z = k THEN NULL ELSE m[r][z]
  BY <1>3 DEF Sides, Trees
<1>5. /\ n \in Trees /\ n.root = l.root /\ n.parent = l.parent /\ n.color = l.color
      /\ \A r \in Sides, z \in Key : n[r][z] = IF r = s /\ z = p THEN k ELSE l[r][z]
  <2>1. k \in Pointer
    BY DEF Pointer
  <2> QED
    BY <1>2, <1>3, <2>1, SetChild
<1> QED
  BY <1>3, <1>4, <1>5

\* What Linked returns, below a record p on its side s.
LinkedIn(m, n, k, p, s) ==
  /\ n \in Trees /\ n.root = m.root
  /\ n.parent = [m.parent EXCEPT ![k] = p] /\ n.color = [m.color EXCEPT ![k] = "red"]
  /\ \A r \in Sides, z \in Key : n[r][z] = IF z = k THEN NULL
                                           ELSE IF z = p /\ r = s THEN k ELSE m[r][z]

LEMMA Links ==
  \A m, k, p, s : m \in Trees /\ k \in Key /\ p \in Key /\ p # k /\ s \in Sides
                    /\ Off(s, k, p) /\ m.root # NULL /\ p = End(m.root, Toward(m, k)) =>
                    LinkedIn(m, Linked(m, k), k, p, s)
<1> SUFFICES ASSUME NEW m \in Trees, NEW k \in Key, NEW p \in Key, p # k, NEW s \in Sides,
                    Off(s, k, p), m.root # NULL, p = End(m.root, Toward(m, k)),
                    NEW n, n = Linked(m, k)
             PROVE  LinkedIn(m, n, k, p, s)
  OBVIOUS
<1> QED
  BY LinkedIs DEF LinkedIn

LEMMA LinkedFirst ==
  ASSUME NEW m \in Trees, NEW k \in Key, m.root = NULL, NEW n, n = Linked(m, k)
  PROVE  /\ n \in Trees /\ n.root = k
         /\ n.parent = [m.parent EXCEPT ![k] = NULL] /\ n.color = [m.color EXCEPT ![k] = "red"]
         /\ \A r \in Sides : n[r][k] = NULL
BY DEF Linked, Trees, Pointer, Sides

LEMMA LinkedSound ==
  ASSUME NEW m, NEW N, Sound(m, N, NULL, NULL), Reds(m, N, NULL, NULL), NEW k \in Key \ N,
         NEW n, n = Linked(m, k)
  PROVE  /\ Sound(n, N \union {k}, NULL, NULL)
         /\ n.color[k] = "red" /\ Reds(n, N \union {k}, k, NULL)
<1> DEFINE M == N \union {k}
<1>0. m \in Trees /\ Colored(m, N)
  BY DEF Sound
<1>1. PICK lim : Tree(m, N, lim) /\ \E h \in Heights : Even(m, N, h, NULL, NULL)
  BY DEF Sound
<1>2. PICK h \in Heights : Even(m, N, h, NULL, NULL)
  BY <1>1
<1>3. N \in SUBSET Key /\ NULL \notin N /\ k # NULL /\ k # STALE
  BY <1>1, TreeFacts, KeysAssumption
<1>4. CASE m.root = NULL
  <2>1. /\ n \in Trees /\ n.root = k /\ n.parent[k] = NULL
        /\ n.color = [m.color EXCEPT ![k] = "red"] /\ \A r \in Sides : n[r][k] = NULL
    <3>1. /\ n \in Trees /\ n.root = k
          /\ n.parent = [m.parent EXCEPT ![k] = NULL] /\ n.color = [m.color EXCEPT ![k] = "red"]
          /\ \A r \in Sides : n[r][k] = NULL
      BY <1>0, <1>4, LinkedFirst
    <3> QED
      BY <1>0, <3>1, TreesAre
  <2>2. M = {k} /\ N = {}
    BY <1>1, <1>4, TreeFacts
  <2> DEFINE l == [r \in Sides |-> [z \in Key |-> NULL]]
             g == [z \in Key |-> 0]
  <2>3. l \in Limits /\ g \in Heights /\ g[k] = 0 /\ \A r \in Sides : l[r][k] = NULL
    BY DEF Limits, Heights
  <2> HIDE DEF l, g
  <2>4. n.color[k] = "red" /\ Colored(n, M)
    BY <1>0, <2>1, <2>2, KeysAssumption DEF Colored, Trees
  <2>5. Tree(n, M, l)
    BY <2>1, <2>2, <2>3, <1>3 DEF Tree, Inside
  <2>6. Even(n, M, g, NULL, NULL)
    BY <2>1, <2>2, <2>3, <2>4, <1>3 DEF Even, Below, Count
  <2>7. Reds(n, M, k, NULL)
    BY <2>2 DEF Reds
  <2> QED
    BY <2>1, <2>3, <2>4, <2>5, <2>6, <2>7 DEF Sound
<1>5. CASE m.root # NULL
  <2> DEFINE p == End(m.root, Toward(m, k))
  <2>1. p \in N /\ Inside(lim, p, k) /\ p # k /\ p \in Key
    BY <1>1, <1>3, <1>5, SearchEnds
  <2>2. PICK s \in Sides : Off(s, k, p) /\ m[s][p] = NULL
    BY <1>1, <1>5, <2>1, SearchEnds
  <2>21. p = End(m.root, Toward(m, k))
    OBVIOUS
  <2> HIDE DEF p
  <2>3. /\ n \in Trees /\ n.root = m.root
        /\ n.parent = [m.parent EXCEPT ![k] = p] /\ n.color = [m.color EXCEPT ![k] = "red"]
        /\ \A r \in Sides, z \in Key : n[r][z] = IF z = k THEN NULL
                                                 ELSE IF z = p /\ r = s THEN k ELSE m[r][z]
    <3>1. LinkedIn(m, n, k, p, s)
      BY <1>0, <1>3, <1>5, <2>1, <2>2, <2>21, Links
    <3> QED
      BY <3>1 DEF LinkedIn
  <2>4. /\ \A z \in Key : n.parent[z] = IF z = k THEN p ELSE m.parent[z]
        /\ \A z \in Key : n.color[z] = IF z = k THEN "red" ELSE m.color[z]
    BY <1>0, <2>3, TreesAre
  <2>5. Colored(n, M)
    BY <1>0, <2>4, KeysAssumption DEF Colored
  <2> DEFINE o == Other(s)
             l == [r \in Sides |-> [z \in Key |-> IF z # k THEN lim[r][z]
                                                  ELSE IF r = s THEN lim[s][p] ELSE p]]
             g == [h EXCEPT ![k] = 0]
  <2>6. \A r \in Sides, z \in Key : lim[r][z] \in Key \union {NULL}
    BY <1>1, TreeLimits
  <2>7. l \in Limits /\ \A r \in Sides, z \in Key : l[r][z] = IF z # k THEN lim[r][z]
                                                    ELSE IF r = s THEN lim[s][p] ELSE p
    BY <2>1, <2>6 DEF Limits
  <2>8. g \in Heights /\ \A z \in Key : g[z] = IF z = k THEN 0 ELSE h[z]
    BY DEF Heights
  <2> HIDE DEF l, g
  <2>9. o \in Sides /\ o # s /\ \A r \in Sides : r = s \/ r = o
    BY TwoSides
  <2>10. Tree(n, M, l)
    <3>1. /\ M \in SUBSET Key /\ n.root \in M /\ n.root # NULL /\ n.parent[n.root] = NULL
          /\ \A r \in Sides : l[r][n.root] = NULL
      BY <1>1, <1>3, <1>5, <2>3, <2>4, <2>7, TreeFacts, TreeLimits
    <3>2. ASSUME NEW z \in M, NEW r \in Sides, n[r][z] # NULL
          PROVE  n[r][z] \in M /\ IsChild(n, l, n[r][z], z, r)
      <4>1. z # k /\ z \in N
        BY <3>2, <2>3
      <4>2. CASE z = p /\ r = s
        BY <4>1, <4>2, <2>1, <2>3, <2>4, <2>7, <2>9 DEF IsChild
      <4>3. CASE ~ (z = p /\ r = s)
        <5>1. n[r][z] = m[r][z]
          BY <4>1, <4>3, <1>3, <2>3
        <5>2. /\ m[r][z] \in N /\ m.parent[m[r][z]] = z
              /\ lim[r][m[r][z]] = lim[r][z] /\ lim[Other(r)][m[r][z]] = z
          BY <3>2, <4>1, <5>1, <1>1, TreeLimits
        <5>3. m[r][z] # k /\ m[r][z] \in Key
          BY <5>2, <1>3
        <5> QED
          BY <4>1, <5>1, <5>2, <5>3, <1>3, <2>4, <2>7, TwoSides DEF IsChild
      <4> QED
        BY <4>2, <4>3
    <3>3. ASSUME NEW z \in M, z # n.root
          PROVE  n.parent[z] \in M /\ \E r \in Sides : n[r][n.parent[z]] = z
      <4>1. CASE z = k
        BY <4>1, <2>1, <2>3, <2>4
      <4>2. CASE z # k
        <5>1. z \in N /\ z # m.root /\ n.parent[z] = m.parent[z] /\ z # NULL
          BY <3>3, <4>2, <1>3, <2>3, <2>4
        <5>2. PICK r \in Sides : m[r][m.parent[z]] = z
          BY <5>1, <1>1, TreeFacts
        <5>3. m.parent[z] \in N /\ m.parent[z] \in Key /\ m.parent[z] # k
          BY <5>1, <1>1, <1>3, TreeFacts
        <5>4. n[r][m.parent[z]] = z
          BY <5>1, <5>2, <5>3, <2>2, <2>3
        <5> QED
          BY <5>1, <5>3, <5>4
      <4> QED
        BY <4>1, <4>2
    <3>4. ASSUME NEW z \in M PROVE Inside(l, z, z)
      <4>1. CASE z = k
        <5>1. lim[s][p] # NULL => Off(s, lim[s][p], k)
          BY <2>1 DEF Inside
        <5>2. Off(o, p, k)
          BY <2>1, <2>2, OffOrders
        <5> QED
          BY <4>1, <5>1, <5>2, <2>7, <2>9 DEF Inside
      <4>2. CASE z # k
        <5>1. z \in N /\ z \in Key /\ Inside(lim, z, z)
          BY <4>2, <1>1, <1>3, TreeFacts
        <5> QED
          BY <4>2, <5>1, <2>7 DEF Inside
      <4> QED
        BY <4>1, <4>2
    <3>5. /\ \A z \in M, r \in Sides : n[r][z] # NULL => n[r][z] \in M /\ IsChild(n, l, n[r][z], z, r)
          /\ \A z \in M : z # n.root => n.parent[z] \in M /\ \E r \in Sides : n[r][n.parent[z]] = z
          /\ \A z \in M : Inside(l, z, z)
      BY <3>2, <3>3, <3>4
    <3> QED
      BY <3>1, <3>5, <2>7 DEF Tree
  <2>11. Even(n, M, g, NULL, NULL)
    <3>1. ASSUME NEW z \in M, NEW r \in Sides
          PROVE  Below(n, g, NULL, z, r) + Count(n, NULL, z) = g[z]
      <4>1. CASE z = k
        <5>1. n[r][z] = NULL /\ g[z] = 0 /\ z # NULL /\ n.color[z] = "red"
          BY <4>1, <1>3, <2>3, <2>4, <2>8
        <5>2. Count(n, NULL, z) = 0
          BY <5>1, CountIs
        <5> QED
          BY <5>1, <5>2 DEF Below
      <4>2. CASE z # k
        <5>1. z \in N /\ z \in Key /\ g[z] = h[z] /\ z # NULL
          BY <4>2, <1>3, <2>8
        <5>2. Count(n, NULL, z) = Count(m, NULL, z)
          BY <4>2, <5>1, <2>4 DEF Count
        <5>3. Below(m, h, NULL, z, r) + Count(m, NULL, z) = h[z]
          BY <5>1, <1>2 DEF Even
        <5>4. Below(n, g, NULL, z, r) = Below(m, h, NULL, z, r)
          <6>1. CASE z = p /\ r = s
            BY <4>2, <5>1, <6>1, <1>3, <2>2, <2>3, <2>8 DEF Below
          <6>2. CASE ~ (z = p /\ r = s)
            <7>1. n[r][z] = m[r][z]
              BY <4>2, <5>1, <6>2, <2>3
            <7>2. m[r][z] # NULL => m[r][z] \in Key /\ m[r][z] # k
              BY <5>1, <1>1, <1>3, TreeFacts
            <7> QED
              BY <7>1, <7>2, <2>8 DEF Below
          <6> QED
            BY <6>1, <6>2
        <5> QED
          BY <5>1, <5>2, <5>3, <5>4
      <4> QED
        BY <4>1, <4>2
    <3> QED
      BY <3>1 DEF Even
  <2>12. Reds(n, M, k, NULL)
    <3>1. ASSUME NEW z \in M, RedRed(n, z), z # k PROVE FALSE
      <4>1. z \in N /\ z \in Key /\ n.color[z] = m.color[z] /\ n.parent[z] = m.parent[z]
        BY <3>1, <1>3, <2>4
      <4>2. z # m.root => m.parent[z] \in Key /\ m.parent[z] # k
        BY <4>1, <1>1, <1>3, TreeFacts
      <4>3. RedRed(m, z)
        BY <3>1, <4>1, <4>2, <2>3, <2>4 DEF RedRed, IsBlack
      <4> QED
        BY <4>1, <4>3, <1>3 DEF Reds
    <3> QED
      BY <3>1 DEF Reds
  <2> QED
    BY <2>3, <2>4, <2>5, <2>8, <2>10, <2>11, <2>12 DEF Sound
<1> QED
  BY <1>4, <1>5

\* What there is around a red record e whose parent is red.
LEMMA GrandIs ==
  ASSUME NEW m, NEW N, Sound(m, N, NULL, NULL), NEW e \in N, m.color[e] = "red",
         Reds(m, N, e, NULL), ~ IsBlack(m, m.parent[e]),
         NEW p, p = m.parent[e], NEW g, g = m.parent[p], NEW s, s = SideOf(m, g, p)
  PROVE  /\ p \in N /\ g \in N /\ p # e /\ g # e /\ g # p /\ m.parent[g] # p /\ s \in Sides
         /\ e # m.root /\ p # m.root /\ m.color[p] = "red" /\ m.color[g] = "black"
         /\ m[s][g] = p /\ m[Other(s)][g] # p
         /\ m[s][p] = e \/ m[Other(s)][p] = e
         /\ \A k \in N : RedRed(m, k) => k = e
<1>0. m \in Trees /\ Colored(m, N)
  BY DEF Sound
<1>1. PICK lim : Tree(m, N, lim)
  BY DEF Sound
<1>2. \A k \in N : RedRed(m, k) => k = e
  BY DEF Reds
<1>3. e # m.root
  <2>1. e = m.root => m.parent[e] = NULL
    BY <1>0, <1>1, TreeLimits, ColorIs
  <2> QED
    BY <2>1 DEF IsBlack
<1>4. /\ p \in N /\ p # e /\ m.parent[p] # e
      /\ \E r \in Sides : m[r][p] = e
  BY <1>0, <1>1, <1>3, ParentIs
<1>5. m.color[p] = "red" /\ ~ RedRed(m, p)
  BY <1>0, <1>2, <1>4, ColorIs
<1>6. p # m.root /\ IsBlack(m, g)
  BY <1>5 DEF RedRed
<1>7. /\ g \in N /\ g # p /\ m.parent[g] # p
      /\ s \in Sides /\ m[s][g] = p /\ m[Other(s)][g] # p
  BY <1>0, <1>1, <1>4, <1>6, ParentIs
<1>8. m.color[g] = "black"
  BY <1>0, <1>6, <1>7, ColorIs
<1>9. m[s][p] = e \/ m[Other(s)][p] = e
  BY <1>4, <1>7, TwoSides
<1> QED
  BY <1>2, <1>3, <1>4, <1>5, <1>6, <1>7, <1>8, <1>9

\* The uncle is red: what is wrong is now at the grandparent.
LEMMA InsertUp ==
  ASSUME NEW m, NEW N, Sound(m, N, NULL, NULL), NEW e \in N, NEW p \in N, NEW g \in N,
         NEW c \in N, NEW s \in Sides, m[s][g] = p, m[Other(s)][g] = c, c # p, c # g, p # g,
         m.color[p] = "red", m.color[c] = "red", m.color[g] = "black", m.parent[e] = p, e # m.root,
         \A k \in N : RedRed(m, k) => k = e,
         NEW n, SamePointers(m, n),
         \A k \in Key : n.color[k] = IF k = g THEN "red" ELSE IF k \in {p, c} THEN "black"
                                     ELSE m.color[k]
  PROVE  Sound(n, N, NULL, NULL) /\ n.color[g] = "red" /\ Reds(n, N, g, NULL)
<1>0. m \in Trees /\ n \in Trees /\ Colored(m, N) /\ n.root = m.root /\ n.parent = m.parent
  BY DEF Sound, SamePointers
<1>1. PICK lim : Tree(m, N, lim) /\ \E h \in Heights : Even(m, N, h, NULL, NULL)
  BY DEF Sound
<1>2. PICK h \in Heights : Even(m, N, h, NULL, NULL)
  BY <1>1
<1>3. N \in SUBSET Key /\ NULL \notin N /\ \A r \in Sides : r = s \/ r = Other(s)
  BY <1>1, TreeFacts, TwoSides
<1>4. Tree(n, N, lim)
  BY <1>1, SamePointersTree
<1>5. Colored(n, N)
  BY <1>0, <1>3, KeysAssumption DEF Colored
<1>6. m.parent[p] = g /\ m.parent[c] = g
  BY <1>1, <1>3, TreeFacts, TwoSides
<1> DEFINE f == [h EXCEPT ![p] = h[p] + 1, ![c] = h[c] + 1]
<1>7. f \in Heights /\ \A k \in Key : f[k] = IF k \in {p, c} THEN h[k] + 1 ELSE h[k]
  BY <1>3 DEF Heights
<1> HIDE DEF f
<1>8. Even(n, N, f, NULL, NULL)
  <2>1. ASSUME NEW k \in N, NEW r \in Sides
        PROVE  Below(n, f, NULL, k, r) + Count(n, NULL, k) = f[k]
    <3>1. n[r][k] = m[r][k] /\ k # NULL
      BY <1>3 DEF SamePointers
    <3>2. /\ h[k] \in Nat
          /\ m[r][k] # NULL => /\ m[r][k] \in N /\ m.parent[m[r][k]] = k
                               /\ h[m[r][k]] \in Nat /\ h[k] = h[m[r][k]] + Count(m, NULL, k)
          /\ m[r][k] = NULL => h[k] = 0 + Count(m, NULL, k)
      BY <1>1, <1>2, <3>1, EvenIs, TreeFacts
    <3>3. CASE k = g
      <4>1. Count(m, NULL, k) = 1 /\ Count(n, NULL, k) = 0
        BY <3>1, <3>3, <1>3, CountIs
      <4>2. m[r][k] \in {p, c} /\ m[r][k] # NULL
        BY <3>3, <1>3
      <4>3. f[m[r][k]] = h[m[r][k]] + 1 /\ f[k] = h[k]
        BY <3>3, <4>2, <1>3, <1>7
      <4> QED
        BY <3>1, <3>2, <4>1, <4>2, <4>3 DEF Below
    <3>4. CASE k # g
      <4>1. m[r][k] # NULL => f[m[r][k]] = h[m[r][k]]
        BY <3>2, <3>4, <1>3, <1>6, <1>7
      <4>2. CASE k \in {p, c}
        <5>1. Count(m, NULL, k) = 0 /\ Count(n, NULL, k) = 1
          BY <3>1, <3>4, <4>2, <1>3, CountIs
        <5> QED
          BY <3>1, <3>2, <4>1, <4>2, <5>1, <1>3, <1>7 DEF Below
      <4>3. CASE k \notin {p, c}
        <5>1. Count(m, NULL, k) = Count(n, NULL, k) /\ Count(m, NULL, k) \in Nat
          BY <3>4, <4>3, <1>3, CountIs DEF Count
        <5> QED
          BY <3>1, <3>2, <4>1, <4>3, <5>1, <1>3, <1>7 DEF Below
      <4> QED
        BY <4>2, <4>3
    <3> QED
      BY <3>3, <3>4
  <2> QED
    BY <2>1 DEF Even
<1>9. ASSUME NEW k \in N, RedRed(n, k), k # g PROVE FALSE
  <2>1. /\ k \notin {p, c} /\ m.color[k] = "red" /\ k \in Key
        /\ k = m.root \/ ~ IsBlack(n, m.parent[k])
    BY <1>0, <1>3, <1>9 DEF RedRed
  <2>2. k # m.root
    <3>1. k = m.root => RedRed(m, k)
      BY <2>1 DEF RedRed
    <3> QED
      BY <3>1
  <2> DEFINE q == m.parent[k]
  <2>3. q \in N /\ ~ IsBlack(n, q) /\ \E r \in Sides : m[r][q] = k
    BY <2>1, <2>2, <1>1, TreeFacts
  <2>4. q # g
    BY <2>1, <2>3, <1>3
  <2>5. q \notin {p, c}
    BY <2>3, <2>4, <1>3 DEF IsBlack
  <2>6. ~ IsBlack(m, q)
    BY <2>3, <2>4, <2>5, <1>3 DEF IsBlack
  <2>7. k = e
    BY <2>1, <2>6 DEF RedRed
  <2> QED
    BY <2>5, <2>7
<1> QED
  BY <1>0, <1>3, <1>4, <1>5, <1>7, <1>8, <1>9 DEF Sound, Reds

\* The uncle is black, and e is on the same side as its parent.
LEMMA InsertOuter ==
  ASSUME NEW m, NEW N, Sound(m, N, NULL, NULL), NEW e \in N, NEW p \in N, NEW g \in N,
         NEW s \in Sides, m[s][g] = p, m[s][p] = e, m[Other(s)][p] # e, p # g, e # g, e # p,
         m.color[e] = "red", m.color[p] = "red", m.color[g] = "black",
         IsBlack(m, m[Other(s)][g]),
         \A k \in N : RedRed(m, k) => k = e,
         NEW n, n = RB_ROTATE(BlackRed(m, p, g), g, Other(s))
  PROVE  Sound(n, N, NULL, NULL) /\ n.color[e] = "red" /\ Reds(n, N, e, NULL)
<1> DEFINE o == Other(s)
           l == BlackRed(m, p, g)
           a == m[o][p]
<1>0. m \in Trees /\ Colored(m, N)
  BY DEF Sound
<1>1. PICK lim : Tree(m, N, lim)
  BY DEF Sound
<1>2. N \in SUBSET Key /\ NULL \notin N /\ o \in Sides /\ Other(o) = s
  BY <1>1, TreeFacts, TwoSides
<1>3. IsBlack(m, a)
  <2> SUFFICES ASSUME ~ IsBlack(m, a) PROVE FALSE
    OBVIOUS
  <2>1. a # NULL
    BY DEF IsBlack
  <2>2. a \in N /\ m.parent[a] = p
    BY <2>1, <1>1, <1>2, TreeFacts
  <2>3. m.color[a] = "red" /\ ~ IsBlack(m, p)
    BY <2>2, <1>0, <1>2, ColorIs
  <2>4. RedRed(m, a)
    BY <2>2, <2>3 DEF RedRed
  <2> QED
    BY <2>2, <2>4
<1>4. /\ SamePointers(m, l)
      /\ \A k \in Key : l.color[k] = IF k = g THEN "red" ELSE IF k = p THEN "black" ELSE m.color[k]
  <2>1. p \in Key /\ g \in Key
    BY <1>2
  <2> QED
    BY <2>1, <1>0, BlackRedIs
<1>5. p = m[Other(o)][g] /\ p # NULL /\ n = RB_ROTATE(l, g, o)
  BY <1>2
<1> HIDE DEF l
<1>6. /\ Sound(n, N, NULL, NULL) /\ n.color = l.color
      /\ \A k \in N : RedRed(n, k) => RedRed(m, k)
  BY <1>2, <1>3, <1>4, <1>5, SwapRotated
<1>7. n.color[e] = "red"
  BY <1>2, <1>4, <1>6
<1> QED
  BY <1>6, <1>7 DEF Reds

\* The uncle is black, and e is on the other side of its parent p than p of g: the two are
\* rotated.
LEMMA InsertInner ==
  ASSUME NEW m, NEW N, Sound(m, N, NULL, NULL), NEW e \in N, NEW p \in N, NEW g \in N,
         NEW s \in Sides, m[s][g] = p, m[Other(s)][g] # p, m[Other(s)][p] = e,
         m.parent[p] = g, m.parent[e] = p, p # g, e # g, e # p, p # m.root, e # m.root,
         m.color[e] = "red", m.color[p] = "red", m.color[g] = "black",
         \A k \in N : RedRed(m, k) => k = e,
         NEW n, n = RB_ROTATE(m, p, s)
  PROVE  /\ Sound(n, N, NULL, NULL) /\ n.color = m.color
         /\ n[s][g] = e /\ n[s][e] = p /\ n[Other(s)][e] # p
         /\ n[Other(s)][g] = m[Other(s)][g]
         /\ \A k \in N : RedRed(n, k) => k = p
<1> DEFINE o == Other(s)
           a == m[s][e]
<1>0. m \in Trees /\ Colored(m, N)
  BY DEF Sound
<1>1. PICK lim : Tree(m, N, lim) /\ \E h \in Heights : Even(m, N, h, NULL, NULL)
  BY DEF Sound
<1>2. PICK h \in Heights : Even(m, N, h, NULL, NULL)
  BY <1>1
<1>3. N \in SUBSET Key /\ NULL \notin N /\ o \in Sides /\ o # s /\ \A r \in Sides : r = s \/ r = o
  BY <1>1, TreeFacts, TwoSides
<1>4. /\ a # NULL => a \in N /\ a # e /\ a # p /\ m.parent[a] = e
      /\ m[s][p] # e
  <2>1. e = m[Other(s)][p] /\ e # NULL
    BY <1>3
  <2> QED
    BY <2>1, <1>0, <1>1, RotationRecords
<1>5. Rotated(m, n, N, p, e, s) /\ n.color = m.color
  <2>1. e = m[Other(s)][p] /\ e # NULL
    BY <1>3
  <2> QED
    BY <2>1, <1>0, <1>1, RotateIs
<1>6. Tree(n, N, Turned(lim, p, e, s))
  BY <1>0, <1>1, <1>3, <1>5, RotatedTree
<1>7. /\ n \in Trees /\ n.root = m.root
      /\ \A k \in N, r \in Sides :
           n[r][k] = IF k = p THEN (IF r = s THEN m[s][p] ELSE a)
                     ELSE IF k = e THEN (IF r = s THEN p ELSE m[r][e])
                     ELSE IF m[r][k] = p THEN e ELSE m[r][k]
      /\ \A k \in N : n.parent[k] = IF k = p THEN e ELSE IF k = e THEN g
                                    ELSE IF k = a THEN p ELSE m.parent[k]
  BY <1>5 DEF Rotated
<1>8. Colored(n, N)
  BY <1>0, <1>5 DEF Colored
<1>9. Even(n, N, h, NULL, NULL)
  <2>1. \A k \in N : Count(n, NULL, k) = Count(m, NULL, k)
    BY <1>5 DEF Count
  <2>2. Count(m, NULL, e) = 0 /\ Count(m, NULL, p) = 0
    BY <1>3, CountIs
  <2>3. /\ \A r \in Sides : m[r][p] # NULL => h[p] = h[m[r][p]] + 0 /\ h[m[r][p]] \in Nat
        /\ \A r \in Sides : m[r][p] = NULL => h[p] = 0 + 0
        /\ \A r \in Sides : m[r][e] # NULL => h[e] = h[m[r][e]] + 0 /\ h[m[r][e]] \in Nat
        /\ \A r \in Sides : m[r][e] = NULL => h[e] = 0 + 0
        /\ h[e] \in Nat /\ h[p] \in Nat
    BY <1>1, <1>2, <1>3, <2>2, EvenIs
  <2>4. h[e] = h[p]
    BY <2>3, <1>3
  <2>5. ASSUME NEW r \in Sides
        PROVE  /\ Below(n, h, NULL, p, r) + Count(n, NULL, p) = h[p]
               /\ Below(n, h, NULL, e, r) + Count(n, NULL, e) = h[e]
    <3>1. CASE r = s
      <4>1. n[r][p] = m[s][p] /\ n[r][e] = p
        BY <3>1, <1>7
      <4> QED
        BY <4>1, <2>1, <2>2, <2>3, <2>4, <1>3 DEF Below
    <3>2. CASE r = o
      <4>1. n[r][p] = a /\ n[r][e] = m[o][e]
        BY <3>2, <1>3, <1>7
      <4> QED
        BY <4>1, <2>1, <2>2, <2>3, <2>4, <1>3 DEF Below
    <3> QED
      BY <3>1, <3>2, <1>3
  <2>6. \A k \in N : k # p /\ k # e =>
          /\ m.parent[k] # p /\ m.parent[k] # e => h[k] = h[k]
          /\ k = NULL <=> k = NULL
          /\ h[k] + Count(m, NULL, k) = h[k] + Count(n, NULL, k)
    BY <2>1
  <2>7. e = m[Other(s)][p] /\ e # NULL
    BY <1>3
  <2> QED
    BY <2>4, <2>5, <2>6, <2>7, <1>0, <1>1, <1>2, <1>5, RotatedEven
<1>10. ASSUME NEW k \in N, RedRed(n, k), k # p PROVE FALSE
  <2>1. m.color[k] = "red" /\ (k = m.root \/ ~ IsBlack(n, n.parent[k]))
    BY <1>5, <1>7, <1>10 DEF RedRed
  <2>2. k # e
    <3>1. n.parent[e] = g /\ IsBlack(n, g)
      BY <1>5, <1>7 DEF IsBlack
    <3> QED
      BY <2>1, <3>1
  <2>3. k # a
    <3>1. ~ IsBlack(m, e)
      BY <1>3 DEF IsBlack
    <3>2. k = a => RedRed(m, k)
      BY <2>1, <3>1, <1>3, <1>4 DEF RedRed
    <3> QED
      BY <3>2, <2>2
  <2>4. n.parent[k] = m.parent[k]
    BY <2>2, <2>3, <1>7, <1>10
  <2>5. RedRed(m, k)
    BY <2>1, <2>4, <1>5 DEF RedRed, IsBlack
  <2> QED
    BY <2>2, <2>5
<1>11. n[s][g] = e /\ n[s][e] = p /\ n[o][g] = m[o][g]
  BY <1>3, <1>7
<1>12. n[o][e] # p
  <2>1. n[o][e] = m[o][e]
    BY <1>3, <1>7
  <2>2. m[o][e] = p => m.parent[p] = e
    BY <1>1, <1>3, TreeFacts
  <2> QED
    BY <2>1, <2>2
<1> QED
  BY <1>5, <1>6, <1>7, <1>8, <1>9, <1>10, <1>11, <1>12 DEF Sound

LEMMA InsertTurnSound ==
  ASSUME NEW m, NEW N, Sound(m, N, NULL, NULL), NEW e \in N, m.color[e] = "red",
         Reds(m, N, e, NULL), ~ IsBlack(m, m.parent[e]),
         NEW n, n = InsertTurn(m, e).t, NEW f, f = InsertTurn(m, e).elm
  PROVE  Sound(n, N, NULL, NULL) /\ f \in N /\ n.color[f] = "red" /\ Reds(n, N, f, NULL)
<1> DEFINE p == m.parent[e]
           g == m.parent[p]
           s == SideOf(m, g, p)
           c == m[Other(s)][g]
           inner == m[Other(s)][p] = e
           m1    == IF inner THEN RB_ROTATE(m, p, s) ELSE m
<1>0. m \in Trees /\ Colored(m, N)
  BY DEF Sound
<1>1. /\ p \in N /\ g \in N /\ p # e /\ g # e /\ g # p /\ m.parent[g] # p /\ s \in Sides
      /\ e # m.root /\ p # m.root /\ m.color[p] = "red" /\ m.color[g] = "black"
      /\ m[s][g] = p /\ m[Other(s)][g] # p
      /\ m[s][p] = e \/ m[Other(s)][p] = e
      /\ \A k \in N : RedRed(m, k) => k = e
  BY GrandIs
<1>2. /\ ~ IsBlack(m, c) => n = BlackRed(Paint(m, c, "black"), p, g) /\ f = g
      /\ IsBlack(m, c) /\ inner => /\ n = RB_ROTATE(BlackRed(RB_ROTATE(m, p, s), e, g), g, Other(s))
                                   /\ f = p
      /\ IsBlack(m, c) /\ ~ inner => n = RB_ROTATE(BlackRed(m, p, g), g, Other(s)) /\ f = e
  BY DEF InsertTurn
<1>3. p = m.parent[e] /\ g = m.parent[p] /\ c = m[Other(s)][g]
  OBVIOUS
<1> HIDE DEF p, g, s, c
<1>4. PICK lim : Tree(m, N, lim)
  BY DEF Sound
<1>5. N \in SUBSET Key /\ NULL \notin N /\ Other(s) \in Sides
  BY <1>1, <1>4, TreeFacts, TwoSides
<1>6. CASE ~ IsBlack(m, c)
  <2>1. c # NULL
    BY <1>6 DEF IsBlack
  <2>2. c \in N /\ c # p /\ m.parent[c] = g
    BY <2>1, <1>1, <1>3, <1>4, <1>5, TreeFacts
  <2>3. c # g
    <3>1. p = m[Other(Other(s))][g] /\ p # NULL
      BY <1>1, <1>5, TwoSides
    <3>2. m.parent[g] # g
      BY <2>2, <3>1, <1>0, <1>1, <1>4, <1>5, RotationRecords
    <3> QED
      BY <2>2, <3>2
  <2>4. m.color[c] = "red"
    BY <2>2, <1>0, <1>6, ColorIs
  <2> DEFINE l == Paint(m, c, "black")
  <2>5. SamePointers(m, l) /\ \A k \in Key : l.color[k] = IF k = c THEN "black" ELSE m.color[k]
    BY <2>2, <1>0, <1>5, PaintIs
  <2>6. n = BlackRed(l, p, g)
    BY <1>2, <1>6
  <2> HIDE DEF l
  <2>7. /\ SamePointers(l, n)
        /\ \A k \in Key : n.color[k] = IF k = g THEN "red" ELSE IF k = p THEN "black"
                                       ELSE l.color[k]
    <3>1. l \in Trees /\ p \in Key /\ g \in Key
      BY <2>5, <1>1, <1>5 DEF SamePointers
    <3> QED
      BY <3>1, <2>6, BlackRedIs
  <2>8. SamePointers(m, n)
    BY <2>5, <2>7, SamePointersTwice
  <2>9. \A k \in Key : n.color[k] = IF k = g THEN "red" ELSE IF k \in {p, c} THEN "black"
                                    ELSE m.color[k]
    BY <2>5, <2>7
  <2>10. Sound(n, N, NULL, NULL) /\ n.color[g] = "red" /\ Reds(n, N, g, NULL)
    <3>1. /\ m[s][g] = p /\ m[Other(s)][g] = c /\ c # p /\ c # g /\ p # g /\ c \in N
          /\ m.color[p] = "red" /\ m.color[c] = "red" /\ m.color[g] = "black"
          /\ m.parent[e] = p /\ e # m.root
      BY <2>2, <2>3, <2>4, <1>1, <1>3
    <3>2. p \in N /\ g \in N /\ s \in Sides /\ \A k \in N : RedRed(m, k) => k = e
      BY <1>1
    <3> QED
      BY <2>8, <2>9, <3>1, <3>2, InsertUp
  <2> QED
    BY <2>10, <1>1, <1>2, <1>6
<1>7. CASE IsBlack(m, c) /\ ~ inner
  <2>1. m[s][p] = e /\ m[Other(s)][p] # e
    BY <1>1, <1>7
  <2>2. Sound(n, N, NULL, NULL) /\ n.color[e] = "red" /\ Reds(n, N, e, NULL)
    BY <2>1, <1>1, <1>2, <1>3, <1>7, InsertOuter
  <2> QED
    BY <2>2, <1>2, <1>7
<1>8. CASE IsBlack(m, c) /\ inner
  <2> DEFINE l == RB_ROTATE(m, p, s)
  <2>1. /\ Sound(l, N, NULL, NULL) /\ l.color = m.color
        /\ l[s][g] = e /\ l[s][e] = p /\ l[Other(s)][e] # p
        /\ l[Other(s)][g] = m[Other(s)][g]
        /\ \A k \in N : RedRed(l, k) => k = p
    BY <1>1, <1>3, <1>8, InsertInner
  <2>2. n = RB_ROTATE(BlackRed(l, e, g), g, Other(s))
    BY <1>2, <1>8
  <2> HIDE DEF l
  <2>3. IsBlack(l, l[Other(s)][g])
    BY <2>1, <1>3, <1>8 DEF IsBlack
  <2>4. Sound(n, N, NULL, NULL) /\ n.color[p] = "red" /\ Reds(n, N, p, NULL)
    BY <2>1, <2>2, <2>3, <1>1, InsertOuter
  <2> QED
    BY <2>4, <1>1, <1>2, <1>8
<1> QED
  BY <1>6, <1>7, <1>8

\* The root counts for more, or less: it is on all paths.
LEMMA RootEven ==
  ASSUME NEW m, NEW N, NEW lim, Tree(m, N, lim), m.root # NULL,
         NEW h \in Heights, NEW u \in {NULL, m.root}, NEW y, Even(m, N, h, u, y),
         NEW n, SamePointers(m, n), NEW v \in {NULL, m.root},
         \A k \in N : k # m.root => n.color[k] = m.color[k]
  PROVE  \E g \in Heights : Even(n, N, g, v, y)
<1> DEFINE r == m.root
           d == h[r] - Count(m, u, r)
           g == [h EXCEPT ![r] = d + Count(n, v, r)]
<1>1. /\ r \in N /\ N \in SUBSET Key /\ NULL \notin N
      /\ \A e \in N, s \in Sides : m[s][e] # NULL => m[s][e] \in N /\ m.parent[m[s][e]] = e
      /\ m.parent[r] = NULL
  BY TreeFacts, TreeLimits
<1>2. d \in Nat /\ Count(m, u, r) \in Nat /\ Count(n, v, r) \in Nat
  <2>1. "left" \in Sides
    BY DEF Sides
  <2>2. h[r] \in Nat /\ \E b \in Nat : h[r] = b + Count(m, u, r)
    BY <2>1, <1>1, EvenIs
  <2> QED
    BY <2>2, CountIs
<1>3. g \in Heights /\ \A k \in Key : g[k] = IF k = r THEN d + Count(n, v, r) ELSE h[k]
  BY <1>1, <1>2 DEF Heights
<1> HIDE DEF g
<1>4. ASSUME NEW k \in N, NEW s \in Sides PROVE Below(n, g, y, k, s) + Count(n, v, k) = g[k]
  <2>1. n[s][k] = m[s][k]
    BY DEF SamePointers
  <2>2. m[s][k] # NULL => g[m[s][k]] = h[m[s][k]]
    BY <1>1, <1>3
  <2>3. Below(n, g, y, k, s) = Below(m, h, y, k, s)
    BY <2>1, <2>2 DEF Below
  <2>4. Below(m, h, y, k, s) + Count(m, u, k) = h[k] /\ Below(m, h, y, k, s) \in Nat
    BY <1>1 DEF Even, Below, Heights
  <2>5. CASE k = r
    BY <2>3, <2>4, <2>5, <1>1, <1>2, <1>3 DEF Heights
  <2>6. CASE k # r
    <3>1. Count(n, v, k) = Count(m, u, k)
      BY <2>6, <1>1 DEF Count
    <3> QED
      BY <2>3, <2>4, <2>6, <3>1, <1>1, <1>3
  <2> QED
    BY <2>5, <2>6
<1> QED
  BY <1>3, <1>4 DEF Even

LEMMA InsertEnds ==
  ASSUME NEW m, NEW N, Sound(m, N, NULL, NULL), NEW e \in N, Reds(m, N, e, NULL),
         IsBlack(m, m.parent[e]), NEW n, n = Paint(m, m.root, "black")
  PROVE  Sound(n, N, NULL, NULL) /\ Reds(n, N, NULL, NULL)
<1>0. m \in Trees /\ Colored(m, N)
  BY DEF Sound
<1>1. PICK lim : Tree(m, N, lim) /\ \E h \in Heights : Even(m, N, h, NULL, NULL)
  BY DEF Sound
<1>2. PICK h \in Heights : Even(m, N, h, NULL, NULL)
  BY <1>1
<1>3. m.root \in N /\ m.root # NULL /\ N \in SUBSET Key
  BY <1>1, TreeFacts
<1>4. /\ SamePointers(m, n)
      /\ \A k \in Key : n.color[k] = IF k = m.root THEN "black" ELSE m.color[k]
  <2>1. m.root \in Key \union {NULL}
    BY <1>3
  <2> QED
    BY <2>1, <1>0, PaintIs
<1>5. Tree(n, N, lim) /\ n \in Trees
  BY <1>1, <1>4, SamePointersTree DEF SamePointers
<1>6. Colored(n, N)
  BY <1>0, <1>3, <1>4, KeysAssumption DEF Colored
<1>7. \E g \in Heights : Even(n, N, g, NULL, NULL)
  BY <1>1, <1>2, <1>3, <1>4, RootEven
<1>8. ASSUME NEW k \in N, RedRed(n, k) PROVE FALSE
  <2>1. k # m.root /\ m.color[k] = "red" /\ ~ IsBlack(n, m.parent[k])
    BY <1>3, <1>4, <1>8 DEF RedRed, SamePointers
  <2>2. m.parent[k] \in Key /\ ~ IsBlack(m, m.parent[k])
    <3>1. m.parent[k] \in Key
      BY <2>1, <1>1, TreeFacts
    <3> QED
      BY <2>1, <3>1, <1>4 DEF IsBlack
  <2>3. RedRed(m, k)
    BY <2>1, <2>2 DEF RedRed
  <2>4. k = e
    BY <2>3 DEF Reds
  <2> QED
    BY <2>2, <2>4
<1> QED
  BY <1>5, <1>6, <1>7, <1>8 DEF Sound, Reds

-----------------------------------------------------------------------------
(***************************************************************************)
(* RB_REMOVE_COLOR.                                                        *)
(***************************************************************************)

\* The record that counts for one more without its child, if it is one.
Gap(e, p) == IF e = NULL THEN p ELSE NULL

\* The paths below p on side s, through e, are one black record short.
ShortAt(m, N, e, p, s) ==
  /\ Sound(m, N, e, Gap(e, p)) /\ \A k \in N : ~ RedRed(m, k)
  /\ p \in N /\ e \in N \union {NULL} /\ m[s][p] = e /\ IsBlack(m, e)
  /\ m[Other(s)][p] # NULL

\* The sibling w of e.
LEMMA ShortIs ==
  ASSUME NEW m, NEW N, NEW e, NEW p, NEW s \in Sides, ShortAt(m, N, e, p, s),
         NEW lim, Tree(m, N, lim), NEW w, w = m[Other(s)][p]
  PROVE  /\ w \in N /\ w # p /\ w # e /\ m.parent[w] = p /\ m.parent[p] # w /\ w # m.root
         /\ e # p /\ m.parent[p] # p
         /\ e # NULL => m.parent[e] = p /\ m.parent[p] # e /\ e # m.root
         /\ m.parent[p] = NULL <=> m.root = p
<1>1. m \in Trees /\ p \in N /\ m[s][p] = e /\ w # NULL
  BY DEF ShortAt, Sound
<1>2. N \in SUBSET Key /\ NULL \notin N /\ Other(s) \in Sides /\ Other(Other(s)) = s
  BY TreeFacts, TwoSides
<1>3. /\ w \in N /\ w # p /\ m.parent[w] = p /\ w # m.root
      /\ m[s][p] # w /\ m.parent[p] # p /\ m.parent[p] # w
      /\ m.parent[p] = NULL <=> m.root = p
  BY <1>1, RotationRecords
<1>4. ASSUME e # NULL PROVE e # p /\ m.parent[e] = p /\ m.parent[p] # e /\ e # m.root
  <2>1. e = m[Other(Other(s))][p]
    BY <1>1, <1>2
  <2> QED
    BY <2>1, <1>1, <1>2, <1>4, RotationRecords
<1> QED
  BY <1>1, <1>2, <1>3, <1>4

LEMMA ShortHeights ==
  ASSUME NEW m, NEW N, NEW e, NEW p, NEW s \in Sides, ShortAt(m, N, e, p, s),
         NEW lim, Tree(m, N, lim), NEW h \in Heights, Even(m, N, h, e, Gap(e, p)),
         NEW w, w = m[Other(s)][p]
  PROVE  /\ h[w] \in Nat /\ h[w] >= 1 /\ h[p] = h[w] + Count(m, e, p)
         /\ e # NULL => h[e] = h[w] /\ h[e] >= 2
         /\ e = NULL => h[w] = 1
<1>1. /\ m \in Trees /\ Colored(m, N) /\ p \in N /\ m[s][p] = e /\ w # NULL /\ IsBlack(m, e)
      /\ e \in N \union {NULL}
  BY DEF ShortAt, Sound
<1>2. N \in SUBSET Key /\ NULL \notin N /\ Other(s) \in Sides /\ w \in N /\ e # p
  BY <1>1, TreeFacts, TwoSides, ShortIs
<1>3. Count(m, e, p) \in Nat
  BY CountIs
<1>4. h[w] \in Nat /\ h[p] = h[w] + Count(m, e, p)
  BY <1>1, <1>2, EvenIs
<1>5. ASSUME e # NULL PROVE h[e] = h[w] /\ h[e] >= 2
  <2>1. h[e] \in Nat /\ h[p] = h[e] + Count(m, e, p)
    BY <1>1, <1>5, EvenIs
  <2>2. e \in N /\ Count(m, e, e) = 2
    BY <1>1, <1>5, CountIs DEF IsBlack
  <2>3. \E d \in Nat : h[e] = d + 2
    <3>1. /\ m[s][e] # NULL => h[m[s][e]] \in Nat /\ h[e] = h[m[s][e]] + Count(m, e, e)
          /\ m[s][e] = NULL => h[e] = (IF e = Gap(e, p) THEN 1 ELSE 0) + Count(m, e, e)
      BY <2>2, EvenIs
    <3>2. (IF e = Gap(e, p) THEN 1 ELSE 0) \in Nat
      OBVIOUS
    <3> QED
      BY <3>1, <3>2, <2>2
  <2> QED
    BY <2>1, <2>3, <1>3, <1>4
<1>6. ASSUME e = NULL PROVE h[w] = 1
  <2>1. h[p] = 1 + Count(m, e, p)
    <3>1. p = Gap(e, p) /\ m[s][p] = NULL
      BY <1>1, <1>6 DEF Gap
    <3> QED
      BY <3>1, <1>1, EvenIs
  <2> QED
    BY <2>1, <1>3, <1>4
<1> QED
  BY <1>1, <1>4, <1>5, <1>6

\* A red sibling goes above the parent; the next one is black.
LEMMA RedSibling ==
  ASSUME NEW m, NEW N, NEW e, NEW p, NEW s \in Sides, ShortAt(m, N, e, p, s),
         NEW w, w = m[Other(s)][p], ~ IsBlack(m, w),
         NEW n, n = RB_ROTATE(BlackRed(m, w, p), p, s)
  PROVE  ShortAt(n, N, e, p, s) /\ IsBlack(n, n[Other(s)][p])
<1> DEFINE a == m[s][w]
           o == Other(s)
<1>1. /\ m \in Trees /\ Colored(m, N) /\ p \in N /\ m[s][p] = e /\ w # NULL /\ IsBlack(m, e)
      /\ e \in N \union {NULL} /\ Sound(m, N, e, Gap(e, p)) /\ \A k \in N : ~ RedRed(m, k)
  BY DEF ShortAt, Sound
<1>2. PICK lim : Tree(m, N, lim) /\ \E h \in Heights : Even(m, N, h, e, Gap(e, p))
  BY <1>1 DEF Sound
<1>3. PICK h \in Heights : Even(m, N, h, e, Gap(e, p))
  BY <1>2
<1>4. N \in SUBSET Key /\ NULL \notin N /\ o \in Sides /\ o # s
  BY <1>2, TreeFacts, TwoSides
<1>5. w \in N /\ w # p /\ w # e /\ m.parent[w] = p /\ e # p /\ w # m.root
  BY <1>2, ShortIs
<1>6. m.color[w] = "red" /\ m.color[p] = "black"
  <2>1. m.color[w] = "red"
    BY <1>1, <1>5, ColorIs
  <2>2. IsBlack(m, p)
    BY <2>1, <1>1, <1>5 DEF RedRed
  <2> QED
    BY <2>1, <2>2, <1>1, ColorIs
<1>7. a # NULL
  <2> SUFFICES ASSUME a = NULL PROVE FALSE
    OBVIOUS
  <2>1. h[w] >= 1
    BY <1>2, <1>3, ShortHeights
  <2>2. Count(m, e, w) = 0 /\ w # Gap(e, p)
    BY <1>4, <1>5, <1>6, CountIs DEF Gap
  <2>3. h[w] = 0 + 0
    BY <2>2, <1>2, <1>3, <1>5, EvenIs
  <2> QED
    BY <2>1, <2>3
<1>8. a \in N /\ m.parent[a] = w
  BY <1>2, <1>5, <1>7, TreeFacts
<1>9. IsBlack(m, a)
  <2>1. ~ IsBlack(m, m.parent[a])
    BY <1>8
  <2>2. ~ IsBlack(m, a) => RedRed(m, a)
    BY <2>1, <1>1, <1>8, ColorIs DEF RedRed
  <2> QED
    BY <2>2, <1>1, <1>8
<1> DEFINE l == BlackRed(m, w, p)
<1>10. /\ SamePointers(m, l)
       /\ \A k \in Key : l.color[k] = IF k = p THEN "red" ELSE IF k = w THEN "black" ELSE m.color[k]
  <2>1. p \in Key /\ w \in Key
    BY <1>1, <1>4, <1>5
  <2> QED
    BY <2>1, <1>1, BlackRedIs
<1>11. n = RB_ROTATE(l, p, s)
  OBVIOUS
<1> HIDE DEF l
<1>12. Gap(e, p) # w /\ (Gap(e, p) = p => a # NULL) /\ IsBlack(m, m[s][p])
  BY <1>1, <1>4, <1>5, <1>7 DEF Gap
<1>13. /\ Sound(n, N, e, Gap(e, p)) /\ Rotated(m, n, N, p, w, s) /\ n.color = l.color
       /\ \A k \in N : RedRed(n, k) => RedRed(m, k)
  BY <1>1, <1>5, <1>6, <1>9, <1>10, <1>11, <1>12, SwapRotated
<1>14. n[s][p] = e /\ n[o][p] = a
  BY <1>1, <1>4, <1>13 DEF Rotated
<1>15. IsBlack(n, e) /\ IsBlack(n, a)
  <2>1. a # p /\ a # w
    BY <1>2, <1>6, <1>7, <1>9 , <1>8, <1>1, RotationRecords
  <2> QED
    BY <2>1, <1>1, <1>4, <1>5, <1>8, <1>9, <1>10, <1>13 DEF IsBlack
<1> QED
  BY <1>1, <1>7, <1>13, <1>14, <1>15 DEF ShortAt

\* The sibling w is black, and so are its children: it becomes red, and the parent is short.
LEMMA BlackNephews ==
  ASSUME NEW m, NEW N, NEW e, NEW p, NEW s \in Sides, ShortAt(m, N, e, p, s),
         NEW w, w = m[Other(s)][p], IsBlack(m, w), \A r \in Sides : IsBlack(m, m[r][w]),
         NEW n, n = Paint(m, w, "red")
  PROVE  Sound(n, N, p, NULL) /\ Reds(n, N, p, p) /\ n.parent = m.parent /\ n.root = m.root
<1>1. /\ m \in Trees /\ Colored(m, N) /\ p \in N /\ m[s][p] = e /\ w # NULL /\ IsBlack(m, e)
      /\ e \in N \union {NULL} /\ Sound(m, N, e, Gap(e, p)) /\ \A k \in N : ~ RedRed(m, k)
  BY DEF ShortAt, Sound
<1>2. PICK lim : Tree(m, N, lim) /\ \E h \in Heights : Even(m, N, h, e, Gap(e, p))
  BY <1>1 DEF Sound
<1>3. PICK h \in Heights : Even(m, N, h, e, Gap(e, p))
  BY <1>2
<1>4. /\ N \in SUBSET Key /\ NULL \notin N /\ Other(s) \in Sides
      /\ \A r \in Sides : r = s \/ r = Other(s)
  BY <1>2, TreeFacts, TwoSides
<1>5. /\ w \in N /\ w # p /\ w # e /\ m.parent[w] = p /\ e # p /\ w # m.root
      /\ e # NULL => m.parent[e] = p
  BY <1>2, ShortIs
<1>6. /\ h[w] \in Nat /\ h[w] >= 1 /\ h[p] = h[w] + Count(m, e, p)
      /\ e # NULL => h[e] = h[w] /\ h[e] >= 2
      /\ e = NULL => h[w] = 1
  BY <1>2, <1>3, ShortHeights
<1>7. /\ SamePointers(m, n) /\ \A k \in Key : n.color[k] = IF k = w THEN "red" ELSE m.color[k]
  <2>1. w \in Key \union {NULL}
    BY <1>4, <1>5
  <2> QED
    BY <2>1, <1>1, PaintIs
<1>8. Tree(n, N, lim) /\ n \in Trees /\ n.parent = m.parent /\ n.root = m.root
  BY <1>2, <1>7, SamePointersTree DEF SamePointers
<1>9. Colored(n, N)
  BY <1>1, <1>4, <1>5, <1>7, KeysAssumption DEF Colored
<1>10. m.color[w] = "black" /\ (e # NULL => m.color[e] = "black")
  BY <1>1, <1>5, ColorIs DEF IsBlack
<1> DEFINE g == [k \in Key |-> IF k \in {w, e} THEN h[k] - 1 ELSE h[k]]
<1>11. g \in Heights /\ \A k \in Key : g[k] = IF k \in {w, e} THEN h[k] - 1 ELSE h[k]
  <2>1. ASSUME NEW k \in Key PROVE (IF k \in {w, e} THEN h[k] - 1 ELSE h[k]) \in Nat
    <3>1. h[k] \in Nat
      BY DEF Heights
    <3>2. k = e => e # NULL
      BY KeysAssumption
    <3>3. k \in {w, e} => h[k] >= 1
      BY <3>1, <3>2, <1>6
    <3> QED
      BY <3>1, <3>3
  <2> QED
    BY <2>1 DEF Heights
<1> HIDE DEF g
<1>12. ASSUME NEW k \in N, NEW r \in Sides PROVE Below(n, g, NULL, k, r) + Count(n, p, k) = g[k]
  <2>0. n[r][k] = m[r][k] /\ k # NULL /\ k \in Key
    BY <1>4, <1>7 DEF SamePointers
  <2>1. /\ h[k] \in Nat
        /\ m[r][k] # NULL => /\ m[r][k] \in N /\ m.parent[m[r][k]] = k
                             /\ h[m[r][k]] \in Nat /\ h[k] = h[m[r][k]] + Count(m, e, k)
        /\ m[r][k] = NULL => h[k] = (IF k = Gap(e, p) THEN 1 ELSE 0) + Count(m, e, k)
    BY <1>2, <1>3, EvenIs, TreeFacts
  <2>2. CASE k = p
    <3>1. Count(n, p, k) = Count(m, e, k) + 1 /\ Count(m, e, k) \in Nat
      BY <2>0, <2>2, <1>5, <1>7, CountIs DEF Count
    <3>2. g[k] = h[k]
      BY <2>0, <2>2, <1>5, <1>11
    <3>3. CASE r = s
      <4>1. CASE e = NULL
        BY <2>0, <2>2, <3>1, <3>2, <3>3, <4>1, <1>1, <1>6 DEF Below
      <4>2. CASE e # NULL
        <5>1. g[e] = h[e] - 1 /\ e \in Key
          BY <4>2, <1>1, <1>4, <1>11
        <5> QED
          BY <2>0, <2>1, <2>2, <3>1, <3>2, <3>3, <4>2, <5>1, <1>1, <1>6 DEF Below
      <4> QED
        BY <4>1, <4>2
    <3>4. CASE r = Other(s)
      <4>1. g[w] = h[w] - 1
        BY <1>4, <1>5, <1>11
      <4> QED
        BY <2>0, <2>1, <2>2, <3>1, <3>2, <3>4, <4>1, <1>1, <1>6 DEF Below
    <3> QED
      BY <3>3, <3>4, <1>4
  <2>3. CASE k # p
    <3>1. m[r][k] # NULL => g[m[r][k]] = h[m[r][k]]
      <4>1. m[r][k] # NULL => m[r][k] \notin {w, e}
        BY <2>1, <2>3, <1>5
      <4> QED
        BY <2>1, <4>1, <1>4, <1>11
    <3>2. Below(n, g, NULL, k, r) + Count(m, e, k) = h[k]
      BY <2>0, <2>1, <2>3, <3>1 DEF Below, Gap
    <3>3. Below(n, g, NULL, k, r) \in Nat
      BY <2>0, <2>1, <3>1 DEF Below
    <3>4. CASE k \in {w, e}
      <4>1. Count(m, e, k) = Count(n, p, k) + 1 /\ Count(n, p, k) \in Nat
        BY <2>0, <2>3, <3>4, <1>5, <1>7, <1>10, CountIs DEF Count
      <4> QED
        BY <2>0, <2>1, <3>2, <3>3, <3>4, <4>1, <1>11
    <3>5. CASE k \notin {w, e}
      <4>1. Count(m, e, k) = Count(n, p, k)
        BY <2>0, <2>3, <3>5, <1>7 DEF Count
      <4> QED
        BY <2>0, <3>2, <3>5, <4>1, <1>11
    <3> QED
      BY <3>4, <3>5
  <2> QED
    BY <2>2, <2>3
<1>13. ASSUME NEW k \in N, RedRed(n, k), k # w PROVE FALSE
  <2>1. m.color[k] = "red" /\ (k = m.root \/ ~ IsBlack(n, m.parent[k])) /\ k # NULL
    BY <1>4, <1>7, <1>8, <1>13 DEF RedRed
  <2>2. k # m.root
    BY <2>1, <1>1 DEF RedRed
  <2> DEFINE q == m.parent[k]
  <2>3. q \in N /\ ~ IsBlack(n, q) /\ \E r \in Sides : m[r][q] = k
    BY <2>1, <2>2, <1>2, TreeFacts
  <2>4. q # w
    <3>1. ~ IsBlack(m, k)
      BY <2>1 DEF IsBlack
    <3> QED
      BY <2>3, <3>1
  <2>5. ~ IsBlack(m, q)
    BY <2>3, <2>4, <1>4, <1>7 DEF IsBlack
  <2> QED
    BY <2>1, <2>5, <1>1 DEF RedRed
<1>14. Reds(n, N, p, p)
  BY <1>1, <1>4, <1>5, <1>8, <1>13 DEF Reds
<1> QED
  BY <1>8, <1>9, <1>11, <1>12, <1>14 DEF Sound, Even

\* The sibling w is black, and so is its child on the far side: the other one takes its place.
LEMMA NearNephew ==
  ASSUME NEW m, NEW N, NEW e, NEW p, NEW s \in Sides, ShortAt(m, N, e, p, s),
         NEW w, w = m[Other(s)][p], IsBlack(m, w),
         IsBlack(m, m[Other(s)][w]), ~ IsBlack(m, m[s][w]),
         NEW n, n = RB_ROTATE(Paint(Paint(m, m[s][w], "black"), w, "red"), w, Other(s))
  PROVE  /\ ShortAt(n, N, e, p, s) /\ IsBlack(n, n[Other(s)][p])
         /\ ~ IsBlack(n, n[Other(s)][n[Other(s)][p]])
<1> DEFINE o == Other(s)
           z == m[s][w]
           a == m[o][z]
<1>1. /\ m \in Trees /\ Colored(m, N) /\ p \in N /\ m[s][p] = e /\ w # NULL /\ IsBlack(m, e)
      /\ e \in N \union {NULL} /\ Sound(m, N, e, Gap(e, p)) /\ \A k \in N : ~ RedRed(m, k)
  BY DEF ShortAt, Sound
<1>2. PICK lim : Tree(m, N, lim)
  BY <1>1 DEF Sound
<1>4. /\ N \in SUBSET Key /\ NULL \notin N /\ o \in Sides /\ o # s /\ Other(o) = s
  BY <1>2, TreeFacts, TwoSides
<1>5. w \in N /\ w # p /\ w # e /\ m.parent[w] = p /\ e # p /\ (e # NULL => m.parent[e] = p)
  BY <1>2, ShortIs
<1>6. z # NULL /\ z = m[Other(o)][w]
  BY <1>4 DEF IsBlack
<1>7. z \in N /\ z # w /\ m.parent[z] = w /\ p # z
      /\ (a # NULL => a \in N /\ m.parent[a] = z)
  <2>1. z \in N /\ z # w /\ m.parent[z] = w /\ m.parent[w] # z
    BY <1>1, <1>2, <1>4, <1>5, <1>6, RotationRecords
  <2>2. a # NULL => a \in N /\ m.parent[a] = z
    BY <2>1, <1>2, <1>4, TreeFacts
  <2> QED
    BY <2>1, <2>2, <1>5
<1>8. m.color[w] = "black" /\ m.color[z] = "red"
  BY <1>1, <1>5, <1>7, ColorIs
<1>9. IsBlack(m, a)
  <2> SUFFICES ASSUME ~ IsBlack(m, a) PROVE FALSE
    OBVIOUS
  <2>1. a # NULL
    BY DEF IsBlack
  <2>2. m.color[a] = "red" /\ ~ IsBlack(m, m.parent[a])
    BY <2>1, <1>1, <1>7, ColorIs
  <2> QED
    BY <2>1, <2>2, <1>1, <1>7 DEF RedRed
<1> DEFINE l1 == Paint(m, z, "black")
           l  == Paint(l1, w, "red")
<1>10. SamePointers(m, l1) /\ \A k \in Key : l1.color[k] = IF k = z THEN "black" ELSE m.color[k]
  <2>1. z \in Key \union {NULL}
    BY <1>4, <1>7
  <2> QED
    BY <2>1, <1>1, PaintIs
<1> HIDE DEF l1
<1>11. SamePointers(l1, l) /\ \A k \in Key : l.color[k] = IF k = w THEN "red" ELSE l1.color[k]
  <2>1. w \in Key \union {NULL} /\ l1 \in Trees
    BY <1>4, <1>5, <1>10 DEF SamePointers
  <2> QED
    BY <2>1, PaintIs
<1>12. n = RB_ROTATE(l, w, o)
  BY DEF l1
<1> HIDE DEF l
<1>13. /\ SamePointers(m, l)
       /\ \A k \in Key : l.color[k] = IF k = w THEN "red" ELSE IF k = z THEN "black" ELSE m.color[k]
  BY <1>10, <1>11, SamePointersTwice
<1>14. Gap(e, p) # z /\ Gap(e, p) # w /\ e # z /\ e # w
  BY <1>4, <1>5, <1>7 DEF Gap
<1>15. /\ Sound(n, N, e, Gap(e, p)) /\ Rotated(m, n, N, w, z, o) /\ n.color = l.color
       /\ \A k \in N : RedRed(n, k) => RedRed(m, k)
  BY <1>1, <1>4, <1>5, <1>6, <1>8, <1>9, <1>12, <1>13, <1>14, SwapRotated
<1>16. n[s][p] = e /\ n[o][p] = z /\ n[o][z] = w
  BY <1>1, <1>4, <1>5, <1>7, <1>15 DEF Rotated
<1>17. IsBlack(n, e) /\ IsBlack(n, z) /\ ~ IsBlack(n, w)
  BY <1>1, <1>4, <1>5, <1>7, <1>13, <1>14, <1>15 DEF IsBlack
<1> QED
  BY <1>1, <1>4, <1>7, <1>15, <1>16, <1>17 DEF ShortAt

\* The sibling w is black and its child z on the far side is red: nothing is short then.
LEMMA FarNephew ==
  ASSUME NEW m, NEW N, NEW e, NEW p, NEW s \in Sides, ShortAt(m, N, e, p, s),
         NEW w, w = m[Other(s)][p], IsBlack(m, w), NEW z, z = m[Other(s)][w], ~ IsBlack(m, z),
         NEW n, n = RB_ROTATE(Paint(Paint(Paint(m, w, m.color[p]), p, "black"), z, "black"), p, s)
  PROVE  Sound(n, N, NULL, NULL) /\ \A k \in N : ~ RedRed(n, k)
<1> DEFINE o == Other(s)
           a == m[s][w]
<1>1. /\ m \in Trees /\ Colored(m, N) /\ p \in N /\ m[s][p] = e /\ w # NULL /\ IsBlack(m, e)
      /\ e \in N \union {NULL} /\ Sound(m, N, e, Gap(e, p)) /\ \A k \in N : ~ RedRed(m, k)
  BY DEF ShortAt, Sound
<1>2. PICK lim : Tree(m, N, lim) /\ \E h \in Heights : Even(m, N, h, e, Gap(e, p))
  BY <1>1 DEF Sound
<1>3. PICK h \in Heights : Even(m, N, h, e, Gap(e, p))
  BY <1>2
<1>4. /\ N \in SUBSET Key /\ NULL \notin N /\ o \in Sides /\ o # s /\ \A r \in Sides : r = s \/ r = o
  BY <1>2, TreeFacts, TwoSides
<1>5. /\ w \in N /\ w # p /\ w # e /\ m.parent[w] = p /\ e # p /\ (e # NULL => m.parent[e] = p)
      /\ m.parent[p] # p /\ m.parent[p] # w /\ (e # NULL => m.parent[p] # e)
  BY <1>2, ShortIs
<1>6. /\ h[w] \in Nat /\ h[w] >= 1 /\ h[p] = h[w] + Count(m, e, p)
      /\ e # NULL => h[e] = h[w] /\ h[e] >= 2
      /\ e = NULL => h[w] = 1
  BY <1>2, <1>3, ShortHeights
<1>7. z \in N /\ m.parent[z] = w /\ z # w /\ z # p /\ z # e /\ z # NULL
  <2>1. z # NULL
    BY DEF IsBlack
  <2>2. z \in N /\ m.parent[z] = w
    BY <2>1, <1>2, <1>4, <1>5, TreeFacts
  <2> QED
    BY <2>1, <2>2, <1>4, <1>5
<1>8. a # NULL => a \in N /\ m.parent[a] = w /\ a # w /\ a # p /\ a # e /\ a # z
  <2>1. a # NULL => a \in N /\ a # w /\ a # p /\ m.parent[a] = w
    BY <1>1, <1>2, RotationRecords
  <2>2. a # NULL => a # e
    BY <2>1, <1>5
  <2>3. a # z
    <3>1. Other(s) \in Sides /\ z = m[Other(s)][w]
      BY <1>4
    <3>2. m[s][w] # z
      BY <3>1, <1>1, <1>2, <1>5, <1>7, RotationRecords
    <3> QED
      BY <3>2
  <2> QED
    BY <2>1, <2>2, <2>3
<1>9. /\ m.color[w] = "black" /\ m.color[z] = "red" /\ m.color[p] \in {"red", "black"}
      /\ (e # NULL => m.color[e] = "black")
  BY <1>1, <1>5, <1>7, ColorIs DEF IsBlack
<1> DEFINE l1 == Paint(m, w, m.color[p])
           l2 == Paint(l1, p, "black")
           l  == Paint(l2, z, "black")
<1>10. SamePointers(m, l1) /\ \A k \in Key : l1.color[k] = IF k = w THEN m.color[p] ELSE m.color[k]
  <2>1. w \in Key \union {NULL}
    BY <1>4, <1>5
  <2> QED
    BY <2>1, <1>1, <1>9, PaintIs
<1> HIDE DEF l1
<1>11. SamePointers(l1, l2) /\ \A k \in Key : l2.color[k] = IF k = p THEN "black" ELSE l1.color[k]
  <2>1. p \in Key \union {NULL} /\ l1 \in Trees
    BY <1>1, <1>4, <1>10 DEF SamePointers
  <2> QED
    BY <2>1, PaintIs
<1> HIDE DEF l2
<1>12. SamePointers(l2, l) /\ \A k \in Key : l.color[k] = IF k = z THEN "black" ELSE l2.color[k]
  <2>1. z \in Key \union {NULL} /\ l2 \in Trees
    BY <1>4, <1>7, <1>11 DEF SamePointers
  <2> QED
    BY <2>1, PaintIs
<1>13. n = RB_ROTATE(l, p, s)
  BY DEF l1, l2
<1> HIDE DEF l
<1>14. SamePointers(m, l) /\ l \in Trees
  BY <1>10, <1>11, <1>12, SamePointersTwice DEF SamePointers
<1>15. Rotated(m, n, N, p, w, s) /\ n.color = l.color
  <2>1. Tree(l, N, lim)
    BY <1>2, <1>14, SamePointersTree
  <2>2. w = l[o][p]
    BY <1>4, <1>14 DEF SamePointers
  <2>3. Rotated(l, n, N, p, w, s) /\ n.color = l.color
    BY <1>1, <1>13, <1>14, <2>1, <2>2, RotateIs
  <2> QED
    BY <2>3, <1>14, RotatedPointers
<1>16. \A k \in Key : n.color[k] = IF k \in {z, p} THEN "black" ELSE IF k = w THEN m.color[p]
                                   ELSE m.color[k]
  BY <1>5, <1>7, <1>10, <1>11, <1>12, <1>15
<1>17. /\ n \in Trees /\ n.root = IF m.root = p THEN w ELSE m.root
       /\ \A k \in N, r \in Sides :
            n[r][k] = IF k = p THEN (IF r = s THEN e ELSE a)
                      ELSE IF k = w THEN (IF r = s THEN p ELSE m[r][w])
                      ELSE IF m[r][k] = p THEN w ELSE m[r][k]
       /\ \A k \in N : n.parent[k] = IF k = p THEN w ELSE IF k = w THEN m.parent[p]
                                     ELSE IF k = a THEN p ELSE m.parent[k]
  BY <1>1, <1>15 DEF Rotated
<1>18. Tree(n, N, Turned(lim, p, w, s))
  BY <1>1, <1>2, <1>15, RotatedTree
<1>19. Colored(n, N)
  BY <1>1, <1>4, <1>5, <1>7, <1>9, <1>16, KeysAssumption DEF Colored
<1> DEFINE g == [k \in Key |-> IF k = w THEN h[p] ELSE IF k = p THEN h[w]
                               ELSE IF k = z THEN h[z] + 1 ELSE IF k = e THEN h[e] - 1 ELSE h[k]]
<1>20. /\ g \in Heights
       /\ \A k \in Key : g[k] = IF k = w THEN h[p] ELSE IF k = p THEN h[w]
                                ELSE IF k = z THEN h[z] + 1 ELSE IF k = e THEN h[e] - 1 ELSE h[k]
  <2>1. h[p] \in Nat /\ h[w] \in Nat /\ h[z] + 1 \in Nat /\ \A k \in Key : h[k] \in Nat
    BY <1>1, <1>4, <1>5, <1>7 DEF Heights
  <2>2. e \in Key => h[e] - 1 \in Nat
    BY <2>1, <1>6, KeysAssumption
  <2> QED
    BY <2>1, <2>2 DEF Heights
<1> HIDE DEF g
<1>21. /\ h[w] = h[z] + 1 /\ h[z] \in Nat
       /\ a # NULL => h[w] = h[a] + 1 /\ h[a] \in Nat
       /\ a = NULL => h[w] = 1
       /\ Count(n, NULL, w) = Count(m, e, p) /\ Count(m, e, p) \in Nat
       /\ Count(n, NULL, p) = 1
  <2>1. Count(m, e, w) = 1 /\ w # Gap(e, p)
    BY <1>4, <1>5, <1>9, CountIs DEF Gap
  <2>2. h[w] = h[z] + 1 /\ h[z] \in Nat
    BY <2>1, <1>2, <1>3, <1>4, <1>5, <1>7, EvenIs
  <2>3. a # NULL => h[w] = h[a] + 1 /\ h[a] \in Nat
    BY <2>1, <1>2, <1>3, <1>5, EvenIs
  <2>4. a = NULL => h[w] = 0 + 1
    BY <2>1, <1>2, <1>3, <1>5, EvenIs
  <2>5. Count(n, NULL, w) = Count(m, e, p)
    <3>1. n.color[w] = m.color[p] /\ w # NULL
      BY <1>4, <1>5, <1>7, <1>16
    <3> QED
      BY <3>1, <1>5 DEF Count
  <2>6. Count(n, NULL, p) = 1
    <3>1. n.color[p] = "black" /\ p # NULL
      BY <1>1, <1>4, <1>16
    <3> QED
      BY <3>1, CountIs
  <2> QED
    BY <2>2, <2>3, <2>4, <2>5, <2>6, CountIs
<1>22. ASSUME NEW r \in Sides
       PROVE  /\ Below(n, g, NULL, p, r) + Count(n, NULL, p) = g[p]
              /\ Below(n, g, NULL, w, r) + Count(n, NULL, w) = g[w]
  <2>0. /\ p # NULL /\ g[p] = h[w] /\ g[w] = h[p] /\ g[z] = h[z] + 1
        /\ (a # NULL => g[a] = h[a]) /\ (e # NULL => g[e] = h[e] - 1)
    BY <1>1, <1>4, <1>5, <1>7, <1>8, <1>20
  <2>1. CASE r = s
    <3>1. n[r][p] = e /\ n[r][w] = p
      BY <2>1, <1>1, <1>5, <1>17
    <3>2. e # NULL => Below(n, g, NULL, p, r) = h[w] - 1
      BY <2>0, <3>1, <1>6 DEF Below
    <3>3. e = NULL => Below(n, g, NULL, p, r) = 0
      BY <2>0, <3>1 DEF Below
    <3>4. Below(n, g, NULL, w, r) = h[w]
      BY <2>0, <3>1 DEF Below
    <3> QED
      BY <2>0, <3>2, <3>3, <3>4, <1>6, <1>21
  <2>2. CASE r = o
    <3>1. n[r][p] = a /\ n[r][w] = z
      BY <2>2, <1>1, <1>4, <1>5, <1>17
    <3>2. Below(n, g, NULL, p, r) = h[w] - 1
      <4>1. CASE a = NULL
        BY <2>0, <3>1, <4>1, <1>21 DEF Below
      <4>2. CASE a # NULL
        <5>1. Below(n, g, NULL, p, r) = h[a]
          BY <2>0, <3>1, <4>2 DEF Below
        <5> QED
          BY <4>2, <5>1, <1>21
      <4> QED
        BY <4>1, <4>2
    <3>3. Below(n, g, NULL, w, r) = h[w]
      BY <2>0, <3>1, <1>7, <1>21 DEF Below
    <3> QED
      BY <2>0, <3>2, <3>3, <1>6, <1>21
  <2> QED
    BY <2>1, <2>2, <1>4
<1>23. ASSUME NEW k \in N, k # p, k # w
       PROVE  /\ m.parent[k] # p /\ m.parent[k] # w => g[k] = h[k]
              /\ k = Gap(e, p) <=> k = NULL
              /\ g[k] + Count(m, e, k) = h[k] + Count(n, NULL, k)
  <2>0. k \in Key /\ k # NULL /\ h[k] \in Nat
    BY <1>4 DEF Heights
  <2>1. m.parent[k] # p /\ m.parent[k] # w => g[k] = h[k]
    BY <2>0, <1>5, <1>7, <1>20, <1>23
  <2>2. k = Gap(e, p) <=> k = NULL
    BY <2>0, <1>23 DEF Gap
  <2>3. CASE k = z
    <3>1. Count(m, e, k) = 0 /\ Count(n, NULL, k) = 1
      BY <2>0, <2>3, <1>7, <1>9, <1>16, CountIs
    <3>2. g[k] = h[k] + 1
      BY <2>0, <2>3, <1>20, <1>23
    <3> QED
      BY <2>0, <2>1, <2>2, <3>1, <3>2
  <2>4. CASE k = e
    <3>1. Count(m, e, k) = 2 /\ Count(n, NULL, k) = 1
      BY <2>0, <2>4, <1>7, <1>9, <1>16, <1>23, CountIs
    <3>2. g[k] = h[k] - 1
      BY <2>0, <2>4, <1>7, <1>20, <1>23
    <3> QED
      BY <2>0, <2>1, <2>2, <3>1, <3>2
  <2>5. CASE k # z /\ k # e
    <3>1. Count(m, e, k) = Count(n, NULL, k) /\ Count(m, e, k) \in Nat
      BY <2>0, <2>5, <1>16, <1>23, CountIs DEF Count
    <3>2. g[k] = h[k]
      BY <2>0, <2>5, <1>20, <1>23
    <3> QED
      BY <2>0, <2>1, <2>2, <3>1, <3>2
  <2> QED
    BY <2>3, <2>4, <2>5
<1>24. Even(n, N, g, NULL, NULL)
  <2>1. g[w] = h[p]
    BY <1>4, <1>5, <1>20
  <2> QED
    BY <2>1, <1>1, <1>2, <1>3, <1>15, <1>20, <1>22, <1>23, RotatedEven
<1>25. ASSUME NEW k \in N, RedRed(n, k) PROVE FALSE
  <2>1. n.color[k] = "red" /\ (k = n.root \/ ~ IsBlack(n, n.parent[k])) /\ k \in Key /\ k # NULL
    BY <1>4, <1>25 DEF RedRed
  <2>2. k # p /\ k # z
    BY <2>1, <1>16
  <2>3. CASE k = w
    <3>1. m.color[p] = "red" /\ p # m.root /\ IsBlack(m, m.parent[p])
      <4>1. m.color[p] = "red"
        BY <2>1, <2>2, <2>3, <1>16
      <4> QED
        BY <4>1, <1>1 DEF RedRed
    <3>2. n.root # w /\ n.parent[w] = m.parent[p]
      <4>1. w # m.root
        BY <1>2, ShortIs
      <4> QED
        BY <3>1, <4>1, <1>5, <1>17
    <3>3. m.parent[p] \in N
      BY <3>1, <1>1, <1>2, TreeFacts
    <3>4. IsBlack(n, m.parent[p])
      BY <3>1, <3>3, <1>4, <1>5, <1>16 DEF IsBlack
    <3> QED
      BY <2>1, <2>3, <3>2, <3>4
  <2>4. CASE k # w
    <3>1. m.color[k] = "red"
      BY <2>1, <2>2, <2>4, <1>16
    <3>2. k # m.root /\ IsBlack(m, m.parent[k])
      BY <3>1, <1>1 DEF RedRed
    <3>3. k # a
      <4>1. k = a => n.parent[k] = p
        BY <2>2, <2>4, <1>17
      <4>2. IsBlack(n, p)
        BY <1>1, <1>4, <1>16 DEF IsBlack
      <4>3. n.root # k
        BY <2>4, <3>2, <1>17
      <4> QED
        BY <2>1, <4>1, <4>2, <4>3
    <3>4. n.parent[k] = m.parent[k] /\ n.root # k
      BY <2>2, <2>4, <3>2, <3>3, <1>17
    <3>5. m.parent[k] # w
      <4>1. m.parent[k] = w => \E r \in Sides : m[r][w] = k
        BY <3>2, <1>2, TreeFacts
      <4>2. m[s][w] = a /\ m[o][w] = z
        OBVIOUS
      <4> QED
        BY <4>1, <4>2, <2>2, <3>3, <1>4
    <3>6. m.parent[k] \in N
      BY <3>2, <1>2, TreeFacts
    <3>7. IsBlack(n, m.parent[k])
      BY <3>2, <3>5, <3>6, <1>4, <1>16 DEF IsBlack
    <3> QED
      BY <2>1, <3>4, <3>7
  <2> QED
    BY <2>3, <2>4
<1> QED
  BY <1>17, <1>18, <1>19, <1>20, <1>24, <1>25 DEF Sound

LEMMA RemoveTurnSound ==
  ASSUME NEW m, NEW N, NEW e, NEW p, ShortAt(m, N, e, p, SideOf(m, p, e)),
         NEW x, x = RemoveTurn(m, e, p)
  PROVE  /\ Sound(x.t, N, x.elm, NULL) /\ Reds(x.t, N, x.elm, x.elm)
         /\ x.elm \in N /\ (x.elm # x.t.root => x.parent = x.t.parent[x.elm])
<1> DEFINE s  == SideOf(m, p, e)
           o  == Other(s)
           w  == m[o][p]
           m1 == IF IsBlack(m, w) THEN m ELSE RB_ROTATE(BlackRed(m, w, p), p, s)
           w1 == m1[o][p]
           m2 == IF IsBlack(m1, m1[o][w1])
                 THEN RB_ROTATE(Paint(Paint(m1, m1[s][w1], "black"), w1, "red"), w1, o)
                 ELSE m1
           w2 == m2[o][p]
           m3 == Paint(Paint(Paint(m2, w2, m2.color[p]), p, "black"), m2[o][w2], "black")
           m4 == RB_ROTATE(m3, p, s)
           both == IsBlack(m1, m1.left[w1]) /\ IsBlack(m1, m1.right[w1])
<1>0. x = IF both THEN [t |-> Paint(m1, w1, "red"), elm |-> p, parent |-> m1.parent[p]]
          ELSE [t |-> m4, elm |-> m4.root, parent |-> p]
  BY DEF RemoveTurn
<1>10. s \in Sides /\ ShortAt(m, N, e, p, s)
  BY DEF SideOf, Sides
<1> HIDE DEF s, m4, m3
<1>1. ShortAt(m1, N, e, p, s) /\ IsBlack(m1, w1)
  BY <1>10, RedSibling
<1>2. w1 = m1[o][p] /\ o = Other(s) /\ p \in N /\ o \in Sides
  BY <1>10, TwoSides DEF ShortAt
<1>3. both <=> \A r \in Sides : IsBlack(m1, m1[r][w1])
  BY DEF Sides
<1>4. both <=> IsBlack(m1, m1[s][w1]) /\ IsBlack(m1, m1[o][w1])
  BY <1>2, <1>3, <1>10, TwoSides
<1> HIDE DEF both
<1>5. CASE both
  <2> DEFINE n == Paint(m1, w1, "red")
  <2>1. Sound(n, N, p, NULL) /\ Reds(n, N, p, p) /\ n.parent = m1.parent
    <3> HIDE DEF m1
    <3> QED
      BY <1>1, <1>3, <1>5, <1>10, BlackNephews
  <2>2. x.t = n /\ x.elm = p /\ x.parent = m1.parent[p]
    BY <1>0, <1>5
  <2> QED
    BY <2>1, <2>2, <1>2
<1>6. CASE ~ both
  <2>1. m2 = IF IsBlack(m1, m1[o][w1])
             THEN RB_ROTATE(Paint(Paint(m1, m1[s][w1], "black"), w1, "red"), w1, o)
             ELSE m1
    OBVIOUS
  <2> HIDE DEF m1, m2
  <2>2. ShortAt(m2, N, e, p, s) /\ IsBlack(m2, m2[o][p]) /\ ~ IsBlack(m2, m2[o][m2[o][p]])
    <3>1. CASE IsBlack(m1, m1[o][w1])
      BY <2>1, <3>1, <1>1, <1>4, <1>6, <1>10, NearNephew
    <3>2. CASE ~ IsBlack(m1, m1[o][w1])
      BY <2>1, <3>2, <1>1
    <3> QED
      BY <3>1, <3>2
  <2>3. m4 = RB_ROTATE(Paint(Paint(Paint(m2, w2, m2.color[p]), p, "black"), m2[o][w2], "black"), p, s)
    BY DEF m4, m3
  <2>4. Sound(m4, N, NULL, NULL) /\ \A k \in N : ~ RedRed(m4, k)
    BY <2>2, <2>3, <1>10, FarNephew
  <2>5. x.t = m4 /\ x.elm = m4.root
    BY <1>0, <1>6
  <2>6. Sound(m4, N, m4.root, NULL) /\ m4.root \in N
    <3>1. PICK lim : Tree(m4, N, lim) /\ \E h \in Heights : Even(m4, N, h, NULL, NULL)
      BY <2>4 DEF Sound
    <3>2. PICK h \in Heights : Even(m4, N, h, NULL, NULL)
      BY <3>1
    <3>3. m4.root # NULL /\ m4.root \in N
      BY <3>1, <1>2, TreeFacts
    <3>4. SamePointers(m4, m4)
      BY <2>4 DEF Sound, SamePointers
    <3>5. \E g \in Heights : Even(m4, N, g, m4.root, NULL)
      BY <3>1, <3>2, <3>3, <3>4, RootEven
    <3> QED
      BY <3>1, <3>3, <3>5, <2>4 DEF Sound
  <2> QED
    BY <2>4, <2>5, <2>6 DEF Reds
<1> QED
  BY <1>5, <1>6

-----------------------------------------------------------------------------
\* The record, if it is one, that the loop of RB_REMOVE_COLOR is at, and its parent.
LoopAt(m, N, e, p) ==
  /\ Sound(m, N, e, Gap(e, p)) /\ Reds(m, N, e, e)
  /\ e # NULL => e \in N /\ (e # m.root => p = m.parent[e])
  /\ e = NULL => IF p = NULL THEN N = {}
                 ELSE p \in N /\ \E s \in Sides : m[s][p] = NULL /\ m[Other(s)][p] # NULL

LEMMA LoopTurns ==
  ASSUME NEW m, NEW N, NEW e, NEW p, LoopAt(m, N, e, p), Short(m, e)
  PROVE  ShortAt(m, N, e, p, SideOf(m, p, e))
<1> DEFINE s == SideOf(m, p, e)
<1>1. /\ m \in Trees /\ Colored(m, N) /\ IsBlack(m, e) /\ e # m.root
      /\ Sound(m, N, e, Gap(e, p)) /\ Reds(m, N, e, e)
  BY DEF LoopAt, Sound, Short
<1>2. PICK lim : Tree(m, N, lim) /\ \E h \in Heights : Even(m, N, h, e, Gap(e, p))
  BY <1>1 DEF Sound
<1>3. PICK h \in Heights : Even(m, N, h, e, Gap(e, p))
  BY <1>2
<1>4. N \in SUBSET Key /\ NULL \notin N /\ (m.root = NULL => N = {})
  BY <1>2, TreeFacts
<1>5. ASSUME NEW k \in N PROVE ~ RedRed(m, k)
  <2> SUFFICES ASSUME RedRed(m, k) PROVE FALSE
    OBVIOUS
  <2>1. m.color[k] = "red" /\ (k = m.root \/ ~ IsBlack(m, m.parent[k])) /\ k # NULL
    BY <1>4 DEF RedRed
  <2>2. k # e
    BY <2>1, <1>1 DEF IsBlack
  <2>3. e # NULL /\ m.parent[k] = e
    BY <2>2, <1>1 DEF Reds
  <2>4. k = m.root
    BY <2>1, <2>3, <1>1
  <2> QED
    BY <2>1, <2>3, <2>4, <1>2, TreeLimits
<1>6. CASE e # NULL
  <2>1. e \in N /\ p = m.parent[e]
    BY <1>1, <1>6 DEF LoopAt
  <2>2. p \in N /\ p # e /\ s \in Sides /\ m[s][p] = e
    BY <2>1, <1>1, <1>2, ParentIs
  <2> HIDE DEF s
  <2>3. m[Other(s)][p] # NULL
    <3> SUFFICES ASSUME m[Other(s)][p] = NULL PROVE FALSE
      OBVIOUS
    <3>1. Other(s) \in Sides /\ p # Gap(e, p)
      BY <2>2, <1>4, <1>6, TwoSides DEF Gap
    <3>2. h[p] = 0 + Count(m, e, p)
      BY <3>1, <2>2, <1>2, <1>3, EvenIs
    <3>3. h[p] = h[e] + Count(m, e, p) /\ h[e] \in Nat
      BY <2>2, <1>2, <1>3, <1>6, EvenIs
    <3>4. Count(m, e, p) \in Nat /\ Count(m, e, e) = 2
      BY <1>1, <1>6, CountIs DEF IsBlack
    <3>5. h[e] # 0
      <4>1. /\ m[s][e] # NULL => h[m[s][e]] \in Nat /\ h[e] = h[m[s][e]] + Count(m, e, e)
            /\ m[s][e] = NULL => h[e] = (IF e = Gap(e, p) THEN 1 ELSE 0) + Count(m, e, e)
        BY <2>1, <2>2, <1>2, <1>3, EvenIs
      <4>2. e # Gap(e, p)
        BY <1>6 DEF Gap
      <4> QED
        BY <4>1, <4>2, <3>4
    <3> QED
      BY <3>2, <3>3, <3>4, <3>5
  <2>4. ShortAt(m, N, e, p, s)
    BY <2>1, <2>2, <2>3, <1>1, <1>5 DEF ShortAt
  <2> QED
    BY <2>4 DEF s
<1>7. CASE e = NULL
  <2>1. N # {}
    BY <1>1, <1>2, <1>7 DEF Tree
  <2>2. p \in N /\ \E r \in Sides : m[r][p] = NULL /\ m[Other(r)][p] # NULL
    BY <2>1, <1>7 DEF LoopAt
  <2>3. s \in Sides /\ m[s][p] = NULL /\ m[Other(s)][p] # NULL
    BY <2>2, <1>7 DEF SideOf, Sides, Other
  <2> QED
    BY <2>2, <2>3, <1>1, <1>5, <1>7 DEF ShortAt
<1> QED
  BY <1>6, <1>7

LEMMA LoopEnds ==
  ASSUME NEW m, NEW N, NEW e, NEW p, LoopAt(m, N, e, p), ~ Short(m, e),
         NEW n, n = Paint(m, e, "black")
  PROVE  Sound(n, N, NULL, NULL) /\ Reds(n, N, NULL, NULL)
<1>1. /\ m \in Trees /\ Colored(m, N) /\ (e # NULL => e \in N)
      /\ Sound(m, N, e, Gap(e, p)) /\ Reds(m, N, e, e)
  BY DEF LoopAt, Sound
<1>2. PICK lim : Tree(m, N, lim) /\ \E h \in Heights : Even(m, N, h, e, Gap(e, p))
  BY <1>1 DEF Sound
<1>3. PICK h \in Heights : Even(m, N, h, e, Gap(e, p))
  BY <1>2
<1>4. N \in SUBSET Key /\ NULL \notin N /\ (m.root = NULL => N = {})
  BY <1>2, TreeFacts
<1>5. CASE e = NULL
  <2>1. N = {} /\ n = m
    BY <1>2, <1>5 DEF Short, IsBlack, Paint, Tree
  <2> QED
    BY <2>1, <1>1, <1>2, <1>3 DEF Sound, Reds, Even
<1>6. CASE e # NULL
  <2>1. e \in N /\ (m.color[e] = "red" \/ e = m.root) /\ Gap(e, p) = NULL
    BY <1>1, <1>6, ColorIs DEF Short, Gap
  <2>2. SamePointers(m, n) /\ \A k \in Key : n.color[k] = IF k = e THEN "black" ELSE m.color[k]
    <3>1. e \in Key \union {NULL}
      BY <2>1, <1>4
    <3> QED
      BY <3>1, <1>1, PaintIs
  <2>3. Tree(n, N, lim) /\ n \in Trees /\ n.root = m.root /\ n.parent = m.parent
    BY <2>2, <1>2, SamePointersTree DEF SamePointers
  <2>4. Colored(n, N)
    BY <2>1, <2>2, <1>1, <1>4, KeysAssumption DEF Colored
  <2>5. \E g \in Heights : Even(n, N, g, NULL, NULL)
    <3>1. CASE e = m.root
      BY <2>1, <2>2, <3>1, <1>2, <1>3, <1>4, <1>6, RootEven
    <3>2. CASE e # m.root
      <4>1. m.color[e] = "red" /\ n.color[e] = "black"
        BY <2>1, <2>2, <3>2, <1>4
      <4>2. \A k \in N : Count(n, NULL, k) = Count(m, e, k)
        <5>1. ASSUME NEW k \in N PROVE Count(n, NULL, k) = Count(m, e, k)
          <6>1. k # NULL /\ (k # e => n.color[k] = m.color[k])
            BY <2>2, <1>4
          <6>2. CASE k = e
            BY <4>1, <6>1, <6>2, CountIs
          <6>3. CASE k # e
            BY <6>1, <6>3 DEF Count
          <6> QED
            BY <6>2, <6>3
        <5> QED
          BY <5>1
      <4>3. \A k \in N, r \in Sides : Below(n, h, NULL, k, r) = Below(m, h, Gap(e, p), k, r)
        BY <2>1, <2>2 DEF Below, SamePointers
      <4>4. Even(n, N, h, NULL, NULL)
        BY <4>2, <4>3, <1>3 DEF Even
      <4> QED
        BY <4>4
    <3> QED
      BY <3>1, <3>2
  <2>6. ASSUME NEW k \in N, RedRed(n, k) PROVE FALSE
    <3>1. k # e /\ m.color[k] = "red" /\ (k = m.root \/ ~ IsBlack(n, m.parent[k]))
      BY <2>2, <2>3, <2>6, <1>4 DEF RedRed
    <3>2. k = m.root => m.parent[k] # e
      BY <3>1, <1>2, <1>4, <1>6, TreeLimits
    <3>3. k # m.root => m.parent[k] # e /\ ~ IsBlack(m, m.parent[k])
      <4> SUFFICES ASSUME k # m.root PROVE m.parent[k] # e /\ ~ IsBlack(m, m.parent[k])
        OBVIOUS
      <4>1. m.parent[k] \in Key /\ ~ IsBlack(n, m.parent[k])
        BY <3>1, <1>2, TreeFacts
      <4> QED
        BY <4>1, <2>2 DEF IsBlack
    <3>4. RedRed(m, k)
      BY <3>1, <3>3 DEF RedRed
    <3> QED
      BY <3>1, <3>2, <3>3, <3>4, <1>1 DEF Reds
  <2> QED
    BY <2>3, <2>4, <2>5, <2>6 DEF Sound, Reds
<1> QED
  BY <1>5, <1>6

-----------------------------------------------------------------------------
(***************************************************************************)
(* RB_REMOVE.                                                              *)
(***************************************************************************)

\* Which pointer names e.
LEMMA NamesIs ==
  ASSUME NEW m \in Trees, NEW N, NEW lim, Tree(m, N, lim), NEW e \in N, NEW p, p = m.parent[e]
  PROVE  /\ p # e /\ (p = NULL <=> e = m.root) /\ (p # NULL => p \in N)
         /\ \A k \in N, r \in Sides : m[r][k] = e <=> k = p /\ r = SideOf(m, p, e)
<1>1. /\ e # NULL /\ NULL \notin N
      /\ \A k \in N, r \in Sides : m[r][k] # NULL => m[r][k] \in N /\ m.parent[m[r][k]] = k
  BY TreeFacts
<1>2. CASE e = m.root
  <2>1. p = NULL
    BY <1>1, <1>2, TreeLimits
  <2>2. ASSUME NEW k \in N, NEW r \in Sides, m[r][k] = e PROVE FALSE
    <3>1. m.parent[m[r][k]] = k
      BY <2>2, <1>1
    <3> QED
      BY <2>1, <2>2, <3>1, <1>1
  <2>3. \A k \in N : k # p
    BY <2>1, <1>1
  <2> QED
    BY <2>1, <2>2, <2>3, <1>1, <1>2
<1>3. CASE e # m.root
  <2> DEFINE s == SideOf(m, p, e)
  <2>1. p \in N /\ p # e /\ s \in Sides /\ m[s][p] = e /\ m[Other(s)][p] # e
    BY <1>3, ParentIs
  <2> HIDE DEF s
  <2>2. \A k \in N, r \in Sides : m[r][k] = e <=> k = p /\ r = s
    BY <2>1, <1>1, TwoSides
  <2> QED
    BY <2>1, <2>2, <1>1, <1>3 DEF s
<1> QED
  BY <1>2, <1>3

\* n is m without the record e, whose place its only child c, or nothing, has taken.
Unlinked(m, n, N, e, c) ==
  /\ n \in Trees /\ n.color = m.color
  /\ n.root = IF m.root = e THEN c ELSE m.root
  /\ \A k \in N \ {e}, r \in Sides : n[r][k] = IF m[r][k] = e THEN c ELSE m[r][k]
  /\ \A k \in N \ {e} : n.parent[k] = IF k = c THEN m.parent[e] ELSE m.parent[k]

LEMMA UnlinkIs ==
  ASSUME NEW m \in Trees, NEW N, NEW lim, Tree(m, N, lim), NEW e \in N,
         NEW c \in N \union {NULL}, NEW p, p = m.parent[e],
         NEW n, n = Replace(Adopt(m, c, p), p, e, c)
  PROVE  Unlinked(m, n, N, e, c)
<1> DEFINE l == Adopt(m, c, p)
<1>1. N \in SUBSET Key /\ NULL \notin N
  BY TreeFacts
<1>2. /\ p # e /\ (p = NULL <=> e = m.root) /\ p \in Key \union {NULL}
      /\ \A k \in N, r \in Sides : m[r][k] = e <=> k = p /\ r = SideOf(m, p, e)
  BY <1>1, NamesIs
<1>3. /\ l \in Trees /\ l.root = m.root /\ l.color = m.color
      /\ \A r \in Sides : l[r] = m[r]
      /\ \A k \in Key : l.parent[k] = IF k = c THEN p ELSE m.parent[k]
  <2>1. c \in Key \union {NULL} /\ p \in Pointer
    BY <1>1, <1>2 DEF Pointer
  <2> QED
    BY <2>1, AdoptIs
<1>4. n = Replace(l, p, e, c)
  OBVIOUS
<1> HIDE DEF l
<1>5. /\ n \in Trees /\ n.color = l.color /\ n.parent = l.parent
      /\ n.root = IF p = NULL THEN c ELSE l.root
      /\ \A r \in Sides, k \in Key :
           n[r][k] = IF k = p /\ r = SideOf(l, p, e) THEN c ELSE l[r][k]
  <2>1. c \in Key \union {NULL}
    BY <1>1
  <2> QED
    BY <2>1, <1>2, <1>3, <1>4, ReplaceIs
<1>6. SideOf(l, p, e) = SideOf(m, p, e)
  <2>1. l.left = m.left
    BY <1>3 DEF Sides
  <2> QED
    BY <2>1 DEF SideOf
<1>7. ASSUME NEW k \in N \ {e}, NEW r \in Sides
      PROVE  n[r][k] = IF m[r][k] = e THEN c ELSE m[r][k]
  BY <1>1, <1>2, <1>3, <1>5, <1>6
<1>8. \A k \in N \ {e} : n.parent[k] = IF k = c THEN p ELSE m.parent[k]
  BY <1>1, <1>3, <1>5
<1> QED
  BY <1>2, <1>3, <1>5, <1>7, <1>8 DEF Unlinked

\* The limits without e: what it limited is limited by its own limit.
Passed(lim, e) == [r \in Sides |-> [k \in Key |-> IF lim[r][k] = e THEN lim[r][e] ELSE lim[r][k]]]

LEMMA UnlinkedTree ==
  ASSUME NEW m \in Trees, NEW N, NEW lim, Tree(m, N, lim), NEW e \in N, NEW d \in Sides,
         m[d][e] = NULL, NEW c, c = m[Other(d)][e], NEW n, Unlinked(m, n, N, e, c)
  PROVE  Tree(n, N \ {e}, Passed(lim, e))
<1> DEFINE l == Passed(lim, e)
           M == N \ {e}
           p == m.parent[e]
<1>1. /\ N \in SUBSET Key /\ NULL \notin N /\ e \in Key /\ e # NULL
      /\ m.root \in N \union {NULL} /\ (m.root = NULL => N = {})
      /\ Other(d) \in Sides /\ \A r \in Sides : r = d \/ r = Other(d)
  BY TreeFacts, TwoSides
<1>2. /\ \A r \in Sides, k \in Key : lim[r][k] \in Key \union {NULL}
      /\ m.root # NULL => m.parent[m.root] = NULL /\ \A r \in Sides : lim[r][m.root] = NULL
      /\ \A k \in N, r \in Sides : m[r][k] # NULL =>
           m[r][k] \in N /\ m.parent[m[r][k]] = k
             /\ lim[r][m[r][k]] = lim[r][k] /\ lim[Other(r)][m[r][k]] = k
  BY TreeLimits
<1>3. /\ p # e /\ (p = NULL <=> e = m.root) /\ (p # NULL => p \in N)
      /\ \A k \in N, r \in Sides : m[r][k] = e <=> k = p /\ r = SideOf(m, p, e)
  BY NamesIs
<1>4. /\ n.root = IF m.root = e THEN c ELSE m.root
      /\ \A k \in M, r \in Sides : n[r][k] = IF m[r][k] = e THEN c ELSE m[r][k]
      /\ \A k \in M : n.parent[k] = IF k = c THEN p ELSE m.parent[k]
  BY DEF Unlinked
<1>5. \A k \in N : k # m.root => m.parent[k] \in N /\ \E r \in Sides : m[r][m.parent[k]] = k
  BY TreeFacts
<1>6. l \in Limits
  BY <1>1, <1>2 DEF Passed, Limits
<1>7. \A r \in Sides, k \in Key : l[r][k] = IF lim[r][k] = e THEN lim[r][e] ELSE lim[r][k]
  BY DEF Passed
<1> HIDE DEF l
<1>8. \A k \in N, r \in Sides : lim[r][k] # NULL => Off(r, lim[r][k], k)
  BY TreeFacts DEF Inside
<1>9. \A r \in Sides : lim[r][e] # e
  BY <1>1, <1>8, OffOrders
<1>10. c # NULL => /\ c \in M /\ m.parent[c] = e /\ c # p
                   /\ \A r \in Sides : l[r][c] = lim[r][e]
  <2> SUFFICES ASSUME c # NULL PROVE c \in M /\ m.parent[c] = e /\ c # p
                                      /\ \A r \in Sides : l[r][c] = lim[r][e]
    OBVIOUS
  <2>1. /\ c \in N /\ m.parent[c] = e
        /\ lim[Other(d)][c] = lim[Other(d)][e] /\ lim[d][c] = e
    BY <1>1, <1>2, TwoSides
  <2>2. c # e /\ c # p
    BY <2>1, <1>1, <1>3, RotationRecords
  <2> QED
    BY <2>1, <2>2, <1>1, <1>7, <1>9
<1>11. \A k \in N : m.parent[k] = e => k = c
  <2>1. ASSUME NEW k \in N, m.parent[k] = e PROVE k = c
    <3>1. k # m.root
      BY <2>1, <1>1, <1>2
    <3>2. \E r \in Sides : m[r][e] = k
      BY <2>1, <3>1, <1>5
    <3> QED
      BY <3>2, <1>1
  <2> QED
    BY <2>1
<1>12. M \in SUBSET Key /\ n.root \in M \union {NULL} /\ (n.root = NULL => M = {})
  <2>1. CASE m.root # e
    BY <2>1, <1>1, <1>4
  <2>2. CASE m.root = e
    <3>1. n.root = c
      BY <2>2, <1>4
    <3>2. c = NULL => M = {}
      <4>1. ASSUME c = NULL, NEW k \in M PROVE FALSE
        <5>1. e \in Path(k, m.parent) /\ k \in N /\ e # k
          BY <2>2, <4>1, AboveFacts
        <5>2. PICK r \in Sides : m[r][e] # NULL
          BY <5>1, Between
        <5> QED
          BY <5>2, <4>1, <1>1
      <4> QED
        BY <4>1
    <3> QED
      BY <3>1, <3>2, <1>1, <1>10
  <2> QED
    BY <2>1, <2>2
<1>13. n.root # NULL => n.parent[n.root] = NULL /\ \A r \in Sides : l[r][n.root] = NULL
  <2> SUFFICES ASSUME n.root # NULL
               PROVE  n.parent[n.root] = NULL /\ \A r \in Sides : l[r][n.root] = NULL
    OBVIOUS
  <2>1. CASE m.root # e
    <3>1. n.root = m.root /\ m.root \in M
      BY <2>1, <1>1, <1>4, <1>12
    <3>2. m.root # c
      BY <1>1, <1>2, <1>10, <3>1
    <3> QED
      BY <3>1, <3>2, <1>1, <1>2, <1>4, <1>7
  <2>2. CASE m.root = e
    BY <2>2, <1>1, <1>2, <1>4, <1>10
  <2> QED
    BY <2>1, <2>2
<1>14. ASSUME NEW k \in M, NEW r \in Sides, n[r][k] # NULL
       PROVE  n[r][k] \in M /\ IsChild(n, l, n[r][k], k, r)
  <2>0. k \in N /\ k # e /\ k \in Key
    BY <1>1
  <2>1. CASE m[r][k] = e
    <3>1. n[r][k] = c /\ k = p
      BY <2>0, <2>1, <1>3, <1>4
    <3>2. /\ c \in M /\ n.parent[c] = k /\ l[r][c] = lim[r][e] /\ l[Other(r)][c] = lim[Other(r)][e]
      BY <3>1, <1>4, <1>10, <1>14, TwoSides
    <3>3. lim[r][e] = lim[r][k] /\ lim[Other(r)][e] = k
      BY <2>0, <2>1, <1>1, <1>2
    <3>4. l[r][k] = lim[r][k]
      BY <2>0, <3>3, <1>7, <1>9
    <3> QED
      BY <3>1, <3>2, <3>3, <3>4 DEF IsChild
  <2>2. CASE m[r][k] # e
    <3> DEFINE y == m[r][k]
    <3>1. n[r][k] = y /\ y # NULL
      BY <2>2, <1>4, <1>14
    <3>2. y \in N /\ m.parent[y] = k /\ lim[r][y] = lim[r][k] /\ lim[Other(r)][y] = k
      BY <2>0, <3>1, <1>2
    <3>3. y # c /\ y \in M
      BY <2>0, <2>2, <3>1, <3>2, <1>10
    <3>4. n.parent[y] = k /\ l[r][y] = l[r][k] /\ l[Other(r)][y] = k
      BY <2>0, <3>2, <3>3, <1>1, <1>4, <1>7, TwoSides
    <3> QED
      BY <3>1, <3>3, <3>4 DEF IsChild
  <2> QED
    BY <2>1, <2>2
<1>15. ASSUME NEW k \in M, k # n.root
       PROVE  n.parent[k] \in M /\ \E r \in Sides : n[r][n.parent[k]] = k
  <2>1. CASE k = c
    <3>1. n.parent[k] = p /\ e # m.root
      BY <2>1, <1>4, <1>15
    <3>2. p \in M
      BY <3>1, <1>3
    <3>3. PICK r \in Sides : m[r][p] = e
      BY <3>1, <1>5
    <3>4. n[r][p] = c
      BY <3>2, <3>3, <1>4
    <3> QED
      BY <2>1, <3>1, <3>2, <3>4
  <2>2. CASE k # c
    <3> DEFINE q == m.parent[k]
    <3>1. n.parent[k] = q /\ k \in N /\ q # e
      BY <2>2, <1>4, <1>11
    <3>2. k # m.root
      BY <1>4, <1>15
    <3>3. q \in M /\ \E r \in Sides : m[r][q] = k
      BY <3>1, <3>2, <1>5
    <3>4. PICK r \in Sides : m[r][q] = k
      BY <3>3
    <3>5. n[r][q] = k
      BY <3>3, <3>4, <1>4
    <3> QED
      BY <3>1, <3>3, <3>5
  <2> QED
    BY <2>1, <2>2
<1>16. ASSUME NEW k \in M PROVE Inside(l, k, k)
  <2>1. ASSUME NEW r \in Sides, l[r][k] # NULL PROVE Off(r, l[r][k], k)
    <3>1. k \in N /\ k \in Key
      BY <1>1
    <3>2. CASE lim[r][k] = e
      <4>1. l[r][k] = lim[r][e] /\ Off(r, lim[r][e], e) /\ Off(r, e, k) /\ lim[r][e] \in Key
        BY <2>1, <3>1, <3>2, <1>1, <1>2, <1>7, <1>8
      <4> QED
        BY <3>1, <4>1, <1>1, OffOrders
    <3>3. CASE lim[r][k] # e
      BY <2>1, <3>1, <3>3, <1>7, <1>8
    <3> QED
      BY <3>2, <3>3
  <2> QED
    BY <2>1 DEF Inside
<1>17. /\ \A k \in M, r \in Sides : n[r][k] # NULL => n[r][k] \in M /\ IsChild(n, l, n[r][k], k, r)
       /\ \A k \in M : k # n.root => n.parent[k] \in M /\ \E r \in Sides : n[r][n.parent[k]] = k
       /\ \A k \in M : Inside(l, k, k)
  BY <1>14, <1>15, <1>16
<1>18. Tree(n, M, l)
  BY <1>6, <1>12, <1>13, <1>17 DEF Tree
<1> QED
  BY <1>18 DEF l

\* Where a black record e was, its child c, or else its parent, counts for one more.
LeftOne(m, e, c) == IF m.color[e] = "black" THEN c ELSE NULL
LeftGap(m, e, c) == IF m.color[e] = "black" THEN Gap(c, m.parent[e]) ELSE NULL

LeftEven(m, n, N, e, c) ==
  /\ \E g \in Heights : Even(n, N \ {e}, g, LeftOne(m, e, c), LeftGap(m, e, c))
  /\ c = NULL /\ m.parent[e] # NULL /\ m.color[e] = "black" =>
       \E s \in Sides : n[s][m.parent[e]] = NULL /\ n[Other(s)][m.parent[e]] # NULL

LEMMA UnlinkedEven ==
  ASSUME NEW m \in Trees, NEW N, NEW lim, Tree(m, N, lim), Colored(m, N), NEW e \in N,
         NEW d \in Sides, m[d][e] = NULL, NEW c, c = m[Other(d)][e], NEW n, Unlinked(m, n, N, e, c),
         NEW h \in Heights, Even(m, N, h, NULL, NULL)
  PROVE  LeftEven(m, n, N, e, c)
<1> SUFFICES ASSUME NEW p, p = m.parent[e],
                    NEW u, u = IF m.color[e] = "black" THEN c ELSE NULL,
                    NEW y, y = IF m.color[e] = "black" THEN Gap(c, p) ELSE NULL
             PROVE  /\ \E g \in Heights : Even(n, N \ {e}, g, u, y)
                    /\ c = NULL /\ p # NULL /\ m.color[e] = "black" =>
                         \E s \in Sides : n[s][p] = NULL /\ n[Other(s)][p] # NULL
  BY DEF LeftOne, LeftGap, LeftEven
<1> DEFINE M == N \ {e}
           b == IF m.color[e] = "black" THEN 1 ELSE 0
<1>1. /\ N \in SUBSET Key /\ NULL \notin N /\ e \in Key /\ e # NULL
      /\ Other(d) \in Sides /\ \A r \in Sides : r = d \/ r = Other(d)
  BY TreeFacts, TwoSides
<1>2. \A k \in N, r \in Sides : m[r][k] # NULL => m[r][k] \in N /\ m.parent[m[r][k]] = k
  BY TreeFacts
<1>3. /\ p # e /\ (p = NULL <=> e = m.root) /\ (p # NULL => p \in N)
      /\ \A k \in N, r \in Sides : m[r][k] = e <=> k = p /\ r = SideOf(m, p, e)
  BY NamesIs
<1>4. /\ \A k \in M, r \in Sides : n[r][k] = IF m[r][k] = e THEN c ELSE m[r][k]
      /\ n.color = m.color
  BY DEF Unlinked
<1>5. c # NULL => c \in M /\ m.parent[c] = e /\ c # p
  BY <1>1, <1>2, <1>3, RotationRecords
<1>6. b \in Nat /\ Count(m, NULL, e) = b
  BY <1>1 DEF Count
<1>7. /\ h[e] \in Nat
      /\ c # NULL => h[e] = h[c] + b /\ h[c] \in Nat
      /\ c = NULL => h[e] = b
  <2>1. e # NULL /\ c = m[Other(d)][e]
    BY <1>1
  <2>2. /\ h[e] \in Nat
        /\ c # NULL => h[c] \in Nat /\ h[e] = h[c] + Count(m, NULL, e)
        /\ c = NULL => h[e] = 0 + Count(m, NULL, e)
    BY <2>1, <1>1, EvenIs
  <2> QED
    BY <2>2, <1>6
<1> DEFINE g == [k \in Key |-> IF k = c THEN h[e] ELSE h[k]]
<1>8. g \in Heights /\ \A k \in Key : g[k] = IF k = c THEN h[e] ELSE h[k]
  BY <1>7 DEF Heights
<1> HIDE DEF g
<1>9. ASSUME NEW k \in M, NEW r \in Sides PROVE Below(n, g, y, k, r) + Count(n, u, k) = g[k]
  <2>0. k \in N /\ k # e /\ k \in Key /\ k # NULL
    BY <1>1
  <2>1. /\ h[k] \in Nat
        /\ m[r][k] # NULL => h[m[r][k]] \in Nat /\ h[k] = h[m[r][k]] + Count(m, NULL, k)
        /\ m[r][k] = NULL => h[k] = 0 + Count(m, NULL, k)
    BY <2>0, EvenIs
  <2>2. k # c => Count(n, u, k) = Count(m, NULL, k) /\ Count(m, NULL, k) \in Nat
    BY <2>0, <1>4, CountIs DEF Count
  <2>3. k = c => Count(n, u, k) = Count(m, NULL, k) + b /\ Count(m, NULL, k) \in Nat
    BY <2>0, <1>4, CountIs DEF Count
  <2>4. CASE m[r][k] = e
    <3>1. k = p /\ n[r][k] = c /\ k # c
      BY <2>0, <2>4, <1>1, <1>3, <1>4, <1>5
    <3>2. Below(n, g, y, k, r) = h[e]
      <4>1. CASE c = NULL
        <5>1. k = y <=> b = 1
          BY <2>0, <3>1, <4>1 DEF Gap
        <5> QED
          BY <3>1, <4>1, <5>1, <1>7 DEF Below
      <4>2. CASE c # NULL
        BY <3>1, <4>2, <1>1, <1>5, <1>8 DEF Below
      <4> QED
        BY <4>1, <4>2
    <3>3. h[k] = h[e] + Count(m, NULL, k)
      BY <2>1, <2>4, <1>1
    <3> QED
      BY <2>0, <2>2, <3>1, <3>2, <3>3, <1>8
  <2>5. CASE m[r][k] # e
    <3>1. n[r][k] = m[r][k]
      BY <2>5, <1>4
    <3>2. m[r][k] # NULL => m[r][k] # c /\ m[r][k] \in Key
      BY <2>0, <1>1, <1>2, <1>5
    <3>3. Below(n, g, y, k, r) + Count(m, NULL, k) = h[k]
      <4>1. CASE m[r][k] # NULL
        BY <2>1, <3>1, <3>2, <4>1, <1>8 DEF Below
      <4>2. CASE m[r][k] = NULL
        <5>1. k # y
          <6> SUFFICES ASSUME k = y PROVE FALSE
            OBVIOUS
          <6>1. m.color[e] = "black" /\ c = NULL /\ k = p
            BY <2>0 DEF Gap
          <6>2. h[p] = h[e] + Count(m, NULL, p)
            <7>1. SideOf(m, p, e) \in Sides
              BY DEF SideOf, Sides
            <7>2. m[SideOf(m, p, e)][p] = e
              BY <6>1, <7>1, <2>0, <1>3
            <7> QED
              BY <6>1, <7>1, <7>2, <2>0, <1>1, EvenIs
          <6>3. h[e] = 1
            BY <6>1, <1>7
          <6>4. Count(m, NULL, k) \in Nat
            BY CountIs
          <6> QED
            BY <2>1, <4>2, <6>1, <6>2, <6>3, <6>4
        <5> QED
          BY <2>1, <3>1, <4>2, <5>1 DEF Below
      <4> QED
        BY <4>1, <4>2
    <3>4. Below(n, g, y, k, r) \in Nat
      BY <2>1, <3>1, <3>2, <1>8 DEF Below
    <3>5. CASE k = c
      BY <2>0, <2>1, <2>3, <3>3, <3>4, <3>5, <1>6, <1>7, <1>8
    <3>6. CASE k # c
      BY <2>0, <2>2, <3>3, <3>6, <1>8
    <3> QED
      BY <3>5, <3>6
  <2> QED
    BY <2>4, <2>5
<1>10. ASSUME c = NULL, p # NULL, m.color[e] = "black"
       PROVE  \E s \in Sides : n[s][p] = NULL /\ n[Other(s)][p] # NULL
  <2> DEFINE s == SideOf(m, p, e)
  <2>1. s \in Sides /\ Other(s) \in Sides /\ Other(s) # s
    <3>1. s \in Sides
      BY DEF SideOf, Sides
    <3> QED
      BY <3>1, TwoSides
  <2>2. p \in M /\ m[s][p] = e /\ m[Other(s)][p] # e
    BY <2>1, <1>3, <1>10
  <2> HIDE DEF s
  <2>3. h[e] = 1 /\ h[p] = h[e] + Count(m, NULL, p) /\ Count(m, NULL, p) \in Nat
    BY <2>1, <2>2, <1>1, <1>7, <1>10, EvenIs, CountIs
  <2>4. m[Other(s)][p] # NULL
    <3>1. m[Other(s)][p] = NULL => h[p] = 0 + Count(m, NULL, p)
      BY <2>1, <2>2, <1>1, EvenIs
    <3> QED
      BY <3>1, <2>3
  <2> QED
    BY <2>1, <2>2, <2>4, <1>4, <1>10
<1> QED
  BY <1>8, <1>9, <1>10 DEF Even

LEMMA UnlinkedReds ==
  ASSUME NEW m \in Trees, NEW N, NEW lim, Tree(m, N, lim), Colored(m, N), NEW e \in N,
         NEW d \in Sides, m[d][e] = NULL, NEW c, c = m[Other(d)][e], NEW n, Unlinked(m, n, N, e, c),
         \A k \in N : ~ RedRed(m, k), NEW k \in N \ {e}, RedRed(n, k)
  PROVE  k = c /\ m.color[e] = "black"
<1>1. /\ NULL \notin N /\ Other(d) \in Sides
      /\ \A r \in Sides, z \in N : m[r][z] # NULL => m[r][z] \in N /\ m.parent[m[r][z]] = z
  BY TreeFacts, TwoSides
<1>2. /\ n.root = IF m.root = e THEN c ELSE m.root
      /\ n.parent[k] = IF k = c THEN m.parent[e] ELSE m.parent[k]
      /\ n.color = m.color
  BY DEF Unlinked
<1>3. m.color[k] = "red" /\ (k = n.root \/ ~ IsBlack(m, n.parent[k]))
  BY <1>2 DEF RedRed, IsBlack
<1>4. k = c
  <2> SUFFICES ASSUME k # c PROVE FALSE
    OBVIOUS
  <2>1. RedRed(m, k)
    BY <1>2, <1>3 DEF RedRed
  <2> QED
    BY <2>1
<1>5. m.parent[k] = e
  BY <1>1, <1>4
<1>6. IsBlack(m, e)
  <2>1. k # m.root
    BY <1>1, <1>5, TreeLimits
  <2> QED
    BY <1>3, <1>5 DEF RedRed
<1> QED
  BY <1>4, <1>6, ColorIs

-----------------------------------------------------------------------------
\* The limits of records are records.
LEMMA LimitsThere ==
  ASSUME NEW m, NEW N, NEW lim, Tree(m, N, lim), NEW k \in N, NEW s \in Sides
  PROVE  lim[s][k] \in N \union {NULL}
<1> DEFINE S == { z \in N : lim[s][z] \notin N \union {NULL} }
<1>1. NULL \notin N /\ \A r \in Sides : r = s \/ r = Other(s)
  BY TreeFacts, TwoSides
<1>2. ASSUME NEW z \in S PROVE m.parent[z] \in S
  <2>1. z \in N /\ z # NULL /\ z # m.root
    BY <1>1, TreeLimits
  <2>2. m.parent[z] \in N /\ \E r \in Sides : m[r][m.parent[z]] = z
    BY <2>1, TreeFacts
  <2>3. PICK r \in Sides : m[r][m.parent[z]] = z
    BY <2>2
  <2>4. lim[r][z] = lim[r][m.parent[z]] /\ lim[Other(r)][z] = m.parent[z]
    BY <2>1, <2>2, <2>3, TreeLimits
  <2>5. r = s
    <3>1. r # s => Other(r) = s
      BY TwoSides
    <3> QED
      BY <2>2, <2>4, <3>1
  <2> QED
    BY <2>2, <2>4, <2>5
<1>3. S = {}
  <2>1. Grounded(m.parent, N) /\ S \in SUBSET N
    BY UpGrounded
  <2> QED
    BY <2>1, <1>2 DEF Grounded
<1> QED
  BY <1>3

-----------------------------------------------------------------------------
\* A record takes the place of another, whose neighbours in the order of keys it has.
Ren(a, e, k) == IF k = a THEN e ELSE k

Renamed(m, n, N, a, e) ==
  /\ n \in Trees /\ n.root = Ren(a, e, m.root)
  /\ \A k \in N, r \in Sides : n[r][Ren(a, e, k)] = Ren(a, e, m[r][k])
  /\ \A k \in N : n.parent[Ren(a, e, k)] = Ren(a, e, m.parent[k])
  /\ \A k \in N : n.color[Ren(a, e, k)] = m.color[k]

LEMMA RenIs ==
  ASSUME NEW N \in SUBSET Key, NEW a \in N, NEW e \in Key \ N
  PROVE  /\ Ren(a, e, NULL) = NULL /\ Ren(a, e, a) = e
         /\ \A k \in N : Ren(a, e, k) \in (N \ {a}) \union {e} /\ Ren(a, e, k) # NULL
         /\ \A j, k \in N \union {NULL} : Ren(a, e, j) = Ren(a, e, k) => j = k
         /\ \A z \in (N \ {a}) \union {e} : \E k \in N : z = Ren(a, e, k)
<1>1. a # NULL /\ e # NULL
  BY KeysAssumption
<1>2. ASSUME NEW z \in (N \ {a}) \union {e} PROVE \E k \in N : z = Ren(a, e, k)
  <2>1. z = Ren(a, e, IF z = e THEN a ELSE z) /\ (IF z = e THEN a ELSE z) \in N
    BY DEF Ren
  <2> QED
    BY <2>1
<1> QED
  BY <1>1, <1>2, KeysAssumption DEF Ren

LEMMA RenOff ==
  ASSUME NEW N \in SUBSET Key, NEW a \in N, NEW e \in Key \ N,
         \A k \in N \ {a}, s \in Sides : Off(s, k, a) <=> Off(s, k, e),
         NEW r \in Sides, NEW j \in N, NEW k \in N, Off(r, j, k)
  PROVE  Off(r, Ren(a, e, j), Ren(a, e, k))
<1>1. a \in Key /\ j \in Key /\ k \in Key /\ j # k /\ Other(r) \in Sides
  BY OffOrders, TwoSides
<1>2. CASE j = a
  <2>1. Off(Other(r), k, a)
    BY <1>1, <1>2, OffOrders, TwoSides
  <2>2. Off(Other(r), k, e)
    BY <1>1, <1>2, <2>1
  <2>3. Off(r, e, k)
    BY <1>1, <2>2, OffOrders, TwoSides
  <2> QED
    BY <1>1, <1>2, <2>3 DEF Ren
<1>3. CASE k = a
  BY <1>1, <1>3 DEF Ren
<1>4. CASE j # a /\ k # a
  BY <1>4 DEF Ren
<1> QED
  BY <1>2, <1>3, <1>4

\* The limits after it.
RenLimits(lim, a, e) ==
  [r \in Sides |-> [k \in Key |-> Ren(a, e, IF k = e THEN lim[r][a] ELSE lim[r][k])]]

LEMMA RenamedTree ==
  ASSUME NEW m, NEW N, NEW lim, Tree(m, N, lim), NEW a \in N, NEW e \in Key \ N,
         \A k \in N \ {a}, s \in Sides : Off(s, k, a) <=> Off(s, k, e),
         NEW n, Renamed(m, n, N, a, e)
  PROVE  Tree(n, (N \ {a}) \union {e}, RenLimits(lim, a, e))
<1> DEFINE M == (N \ {a}) \union {e}
           l == RenLimits(lim, a, e)
           f(k) == Ren(a, e, k)
<1>1. /\ N \in SUBSET Key /\ NULL \notin N /\ m.root \in N \union {NULL} /\ (m.root = NULL => N = {})
      /\ \A r \in Sides : Other(r) \in Sides
  BY TreeFacts, TwoSides
<1>2. /\ f(NULL) = NULL /\ f(a) = e
      /\ \A k \in N : f(k) \in M /\ f(k) # NULL
      /\ \A j, k \in N \union {NULL} : f(j) = f(k) => j = k
      /\ \A z \in M : \E k \in N : z = f(k)
  BY <1>1, RenIs
<1>3. \A r \in Sides, k \in Key : lim[r][k] \in Key \union {NULL}
  BY TreeLimits
<1>4. l \in Limits
  BY <1>1, <1>3 DEF RenLimits, Limits, Ren
<1>5. \A r \in Sides, k \in N : l[r][f(k)] = f(lim[r][k])
  BY <1>1 DEF RenLimits, Ren
<1>6. /\ n.root = f(m.root)
      /\ \A k \in N, r \in Sides : n[r][f(k)] = f(m[r][k])
      /\ \A k \in N : n.parent[f(k)] = f(m.parent[k])
  BY DEF Renamed
<1>7. \A r \in Sides, j, k \in N : Off(r, j, k) => Off(r, f(j), f(k))
  BY <1>1, RenOff
<1> HIDE DEF l, f
<1>8. M \in SUBSET Key /\ n.root \in M \union {NULL} /\ (n.root = NULL => M = {})
  BY <1>1, <1>2, <1>6
<1>9. n.root # NULL => n.parent[n.root] = NULL /\ \A r \in Sides : l[r][n.root] = NULL
  <2> SUFFICES ASSUME n.root # NULL
               PROVE  n.parent[n.root] = NULL /\ \A r \in Sides : l[r][n.root] = NULL
    OBVIOUS
  <2>1. m.root # NULL /\ m.root \in N
    BY <1>1, <1>2, <1>6
  <2>2. m.parent[m.root] = NULL /\ \A r \in Sides : lim[r][m.root] = NULL
    BY <2>1, TreeLimits
  <2> QED
    BY <2>1, <2>2, <1>2, <1>5, <1>6
<1>10. ASSUME NEW z \in M, NEW r \in Sides, n[r][z] # NULL
       PROVE  n[r][z] \in M /\ IsChild(n, l, n[r][z], z, r)
  <2>1. PICK k \in N : z = f(k)
    BY <1>2
  <2>2. n[r][z] = f(m[r][k]) /\ m[r][k] # NULL
    BY <2>1, <1>2, <1>6, <1>10
  <2>3. m[r][k] \in N /\ m.parent[m[r][k]] = k
        /\ lim[r][m[r][k]] = lim[r][k] /\ lim[Other(r)][m[r][k]] = k
    BY <2>2, TreeLimits
  <2> QED
    BY <2>1, <2>2, <2>3, <1>1, <1>2, <1>5, <1>6 DEF IsChild
<1>11. ASSUME NEW z \in M, z # n.root
       PROVE  n.parent[z] \in M /\ \E r \in Sides : n[r][n.parent[z]] = z
  <2>1. PICK k \in N : z = f(k)
    BY <1>2
  <2>2. k # m.root
    BY <2>1, <1>6, <1>11
  <2>3. m.parent[k] \in N /\ \E r \in Sides : m[r][m.parent[k]] = k
    BY <2>2, TreeFacts
  <2> QED
    BY <2>1, <2>3, <1>2, <1>6
<1>12. ASSUME NEW z \in M PROVE Inside(l, z, z)
  <2>1. PICK k \in N : z = f(k)
    BY <1>2
  <2>2. ASSUME NEW r \in Sides, l[r][z] # NULL PROVE Off(r, l[r][z], z)
    <3>1. l[r][z] = f(lim[r][k]) /\ lim[r][k] # NULL
      BY <2>1, <2>2, <1>2, <1>5
    <3>2. lim[r][k] \in N
      BY <3>1, LimitsThere
    <3>3. Off(r, lim[r][k], k)
      BY <3>1, TreeFacts DEF Inside
    <3> QED
      BY <2>1, <3>1, <3>2, <3>3, <1>7
  <2> QED
    BY <2>2 DEF Inside
<1>13. /\ \A k \in M, r \in Sides : n[r][k] # NULL => n[r][k] \in M /\ IsChild(n, l, n[r][k], k, r)
       /\ \A k \in M : k # n.root => n.parent[k] \in M /\ \E r \in Sides : n[r][n.parent[k]] = k
       /\ \A k \in M : Inside(l, k, k)
  BY <1>10, <1>11, <1>12
<1>14. Tree(n, M, l)
  BY <1>4, <1>8, <1>9, <1>13 DEF Tree
<1> QED
  BY <1>14 DEF l

LEMMA RenamedEven ==
  ASSUME NEW m, NEW N, NEW lim, Tree(m, N, lim), NEW a \in N, NEW e \in Key \ N,
         NEW n, Renamed(m, n, N, a, e), NEW h \in Heights,
         NEW u \in N \union {NULL}, NEW y \in N \union {NULL}, Even(m, N, h, u, y)
  PROVE  \E g \in Heights : Even(n, (N \ {a}) \union {e}, g, Ren(a, e, u), Ren(a, e, y))
<1> DEFINE M == (N \ {a}) \union {e}
           f(k) == Ren(a, e, k)
           g == [k \in Key |-> IF k = e THEN h[a] ELSE h[k]]
<1>1. N \in SUBSET Key /\ NULL \notin N
  BY TreeFacts
<1>2. /\ f(NULL) = NULL /\ f(a) = e
      /\ \A k \in N : f(k) \in M /\ f(k) # NULL
      /\ \A j, k \in N \union {NULL} : f(j) = f(k) => j = k
      /\ \A z \in M : \E k \in N : z = f(k)
  BY <1>1, RenIs
<1>3. g \in Heights
  BY <1>1 DEF Heights
<1>4. \A k \in N : g[f(k)] = h[k]
  BY <1>1 DEF Ren
<1>5. /\ \A k \in N, r \in Sides : n[r][f(k)] = f(m[r][k])
      /\ \A k \in N : n.color[f(k)] = m.color[k]
  BY DEF Renamed
<1> HIDE DEF f, g
<1>6. ASSUME NEW z \in M, NEW r \in Sides
      PROVE  Below(n, g, f(y), z, r) + Count(n, f(u), z) = g[z]
  <2>1. PICK k \in N : z = f(k)
    BY <1>2
  <2>2. Count(n, f(u), z) = Count(m, u, k)
    BY <2>1, <1>2, <1>5 DEF Count
  <2>3. Below(n, g, f(y), z, r) = Below(m, h, y, k, r)
    <3>1. CASE m[r][k] = NULL
      <4>1. z = f(y) <=> k = y
        BY <2>1, <1>2
      <4> QED
        BY <2>1, <3>1, <4>1, <1>2, <1>5 DEF Below
    <3>2. CASE m[r][k] # NULL
      <4>1. m[r][k] \in N
        BY <3>2, TreeFacts
      <4> QED
        BY <2>1, <3>2, <4>1, <1>2, <1>4, <1>5 DEF Below
    <3> QED
      BY <3>1, <3>2
  <2>4. Below(m, h, y, k, r) + Count(m, u, k) = h[k]
    BY DEF Even
  <2> QED
    BY <2>1, <2>2, <2>3, <2>4, <1>4
<1>7. Even(n, M, g, f(u), f(y))
  BY <1>6 DEF Even
<1> QED
  BY <1>3, <1>7 DEF f

LEMMA RenamedReds ==
  ASSUME NEW m, NEW N, NEW lim, Tree(m, N, lim), NEW a \in N, NEW e \in Key \ N,
         NEW n, Renamed(m, n, N, a, e), NEW k \in N, RedRed(n, Ren(a, e, k))
  PROVE  RedRed(m, k)
<1> DEFINE f(z) == Ren(a, e, z)
<1>1. N \in SUBSET Key /\ NULL \notin N /\ m.root \in N \union {NULL}
  BY TreeFacts
<1>2. /\ \A z \in N : f(z) # NULL
      /\ \A j, z \in N \union {NULL} : f(j) = f(z) => j = z
  <2>1. /\ \A z \in N : Ren(a, e, z) # NULL
        /\ \A j, z \in N \union {NULL} : Ren(a, e, j) = Ren(a, e, z) => j = z
    BY <1>1, RenIs
  <2> QED
    BY <2>1
<1>3. /\ n.root = f(m.root) /\ n.parent[f(k)] = f(m.parent[k])
      /\ \A z \in N : n.color[f(z)] = m.color[z]
  BY DEF Renamed
<1> HIDE DEF f
<1>4. m.color[k] = "red" /\ (f(k) = n.root \/ ~ IsBlack(n, f(m.parent[k])))
  BY <1>3 DEF RedRed, f
<1>5. CASE k = m.root
  BY <1>4, <1>5 DEF RedRed
<1>6. CASE k # m.root
  <2>1. m.parent[k] \in N
    BY <1>6, TreeFacts
  <2>2. f(k) # n.root
    BY <1>1, <1>2, <1>3, <1>6
  <2>3. ~ IsBlack(m, m.parent[k])
    BY <2>1, <2>2, <1>1, <1>2, <1>3, <1>4 DEF IsBlack
  <2> QED
    BY <2>3, <1>4 DEF RedRed
<1> QED
  BY <1>5, <1>6

\* l is m with the fields of a in e too.
PutAt(m, l, a, e) ==
  /\ l \in Trees /\ l.root = m.root
  /\ \A r \in Sides, k \in Key : l[r][k] = IF k = e THEN m[r][a] ELSE m[r][k]
  /\ \A k \in Key : l.parent[k] = IF k = e THEN m.parent[a] ELSE m.parent[k]
  /\ \A k \in Key : l.color[k] = IF k = e THEN m.color[a] ELSE m.color[k]

LEMMA PutIs ==
  ASSUME NEW m \in Trees, NEW N, NEW lim, Tree(m, N, lim), NEW a \in N, NEW e \in Key \ N,
         NEW p, p = m.parent[a],
         NEW l, PutAt(m, l, a, e),
         NEW i, i = Replace(l, p, a, e), NEW b, b = m.left[a], NEW c, c = m.right[a],
         NEW j, j = Adopt(i, b, e), NEW n, n = Adopt(j, c, e)
  PROVE  /\ Renamed(m, n, N, a, e)
         /\ \A k \in Key : n.color[k] = IF k = e THEN m.color[a] ELSE m.color[k]
<1> DEFINE f(k) == Ren(a, e, k)
<1>1. /\ N \in SUBSET Key /\ NULL \notin N /\ e # NULL /\ "left" \in Sides /\ "right" \in Sides
      /\ m.left = m["left"] /\ m.right = m["right"]
      /\ \A r \in Sides, k \in N : m[r][k] \in N \union {NULL}
      /\ \A r \in Sides, k \in N : m[r][k] # NULL => m.parent[m[r][k]] = k
      /\ \A k \in N : k # m.root => \E r \in Sides : m[r][m.parent[k]] = k
      /\ m.root # NULL => m.parent[m.root] = NULL
      /\ m.root = NULL => N = {}
  BY TreeFacts, TreeLimits, KeysAssumption DEF Sides
<1>2. /\ p # a /\ (p = NULL <=> a = m.root) /\ (p # NULL => p \in N) /\ p # e
      /\ \A k \in N, r \in Sides : m[r][k] = a <=> k = p /\ r = SideOf(m, p, a)
  BY <1>1, NamesIs
<1>3. /\ l \in Trees /\ l.root = m.root
      /\ \A r \in Sides, k \in Key : l[r][k] = IF k = e THEN m[r][a] ELSE m[r][k]
      /\ \A k \in Key : l.parent[k] = IF k = e THEN p ELSE m.parent[k]
      /\ \A k \in Key : l.color[k] = IF k = e THEN m.color[a] ELSE m.color[k]
  BY DEF PutAt
<1>4. ReplacedIn(l, i, p, a, e)
  <2>1. p \in Key \union {NULL} /\ e \in Key \union {NULL} /\ l \in Trees
    BY <1>1, <1>2, <1>3
  <2> QED
    BY <2>1, Replaces
<1>5. AdoptedIn(i, j, b, e) /\ AdoptedIn(j, n, c, e)
  <2>1. b \in Key \union {NULL} /\ c \in Key \union {NULL} /\ e \in Pointer
    BY <1>1 DEF Pointer
  <2>2. i \in Trees
    BY <1>4 DEF ReplacedIn
  <2>3. AdoptedIn(i, j, b, e)
    BY <2>1, <2>2, Adopts
  <2>4. j \in Trees
    BY <2>3 DEF AdoptedIn
  <2>5. AdoptedIn(j, n, c, e)
    BY <2>1, <2>4, Adopts
  <2> QED
    BY <2>3, <2>5
<1>7. /\ n \in Trees /\ n.color = l.color
      /\ n.root = IF p = NULL THEN e ELSE l.root
      /\ \A r \in Sides, k \in Key :
           n[r][k] = IF k = p /\ r = SideOf(l, p, a) THEN e ELSE l[r][k]
      /\ \A k \in Key : n.parent[k] = IF k = b \/ k = c THEN e ELSE l.parent[k]
  BY <1>4, <1>5 DEF ReplacedIn, AdoptedIn
<1>8. p \in N => SideOf(l, p, a) = SideOf(m, p, a)
  <2>1. p \in N => l.left[p] = m.left[p]
    BY <1>1, <1>2, <1>3
  <2> QED
    BY <2>1 DEF SideOf
<1>9. ASSUME NEW k \in N, NEW r \in Sides PROVE n[r][f(k)] = f(m[r][k])
  <2>1. \A z \in Key : n[r][z] = IF z = p /\ r = SideOf(l, p, a) THEN e ELSE l[r][z]
    BY <1>7
  <2>2. CASE k = a
    <3>1. f(k) = e /\ n[r][e] = m[r][a]
      BY <2>1, <2>2, <1>2, <1>3 DEF Ren
    <3>2. m[r][a] # a
      BY <1>2
    <3> QED
      BY <2>2, <3>1, <3>2 DEF Ren
  <2>3. CASE k # a
    <3>1. f(k) = k /\ k \in Key /\ k # e
      BY <2>3, <1>1 DEF Ren
    <3>2. l[r][k] = m[r][k]
      BY <3>1, <1>3
    <3>3. (k = p /\ r = SideOf(l, p, a)) <=> m[r][k] = a
      BY <1>2, <1>8
    <3> QED
      BY <2>1, <3>1, <3>2, <3>3 DEF Ren
  <2> QED
    BY <2>2, <2>3
<1>10. ASSUME NEW k \in N PROVE n.parent[f(k)] = f(m.parent[k]) /\ n.color[f(k)] = m.color[k]
  <2>1. \A z \in Key : n.parent[z] = IF z = b \/ z = c THEN e ELSE l.parent[z]
    BY <1>7
  <2>2. \A z \in Key : n.color[z] = IF z = e THEN m.color[a] ELSE m.color[z]
    BY <1>3, <1>7
  <2>3. b \in N \union {NULL} /\ c \in N \union {NULL} /\ m.left[a] = b /\ m.right[a] = c
    BY <1>1
  <2>4. CASE k = a
    <3>1. f(k) = e /\ e # b /\ e # c /\ e \in Key
      BY <2>3, <2>4, <1>1 DEF Ren
    <3>2. n.parent[e] = p
      BY <2>1, <3>1, <1>3
    <3>3. f(m.parent[k]) = p
      BY <2>4, <1>2 DEF Ren
    <3>4. n.color[e] = m.color[k]
      BY <2>2, <2>4, <3>1
    <3> QED
      BY <3>1, <3>2, <3>3, <3>4
  <2>5. CASE k # a
    <3>1. f(k) = k /\ k \in Key /\ k # e
      BY <2>5, <1>1 DEF Ren
    <3>2. (k = b \/ k = c) <=> m.parent[k] = a
      <4>1. (k = b \/ k = c) => m.parent[k] = a
        BY <2>3, <1>1
      <4>2. m.parent[k] = a => k # m.root
        BY <1>1
      <4>3. m.parent[k] = a => (k = b \/ k = c)
        BY <4>2, <2>3, <1>1 DEF Sides
      <4> QED
        BY <4>1, <4>3
    <3>3. n.parent[k] = IF m.parent[k] = a THEN e ELSE m.parent[k]
      BY <2>1, <3>1, <3>2, <1>3
    <3>4. n.color[k] = m.color[k]
      BY <2>2, <3>1
    <3> QED
      BY <3>1, <3>3, <3>4 DEF Ren
  <2> QED
    BY <2>4, <2>5
<1>11. n.root = f(m.root)
  BY <1>2, <1>3, <1>7 DEF Ren
<1> QED
  BY <1>3, <1>7, <1>9, <1>10, <1>11 DEF Renamed

\* e in the place of a.
Moved(m, a, e) ==
  LET l == [m EXCEPT !.left[e] = m.left[a], !.right[e] = m.right[a],
                     !.parent[e] = m.parent[a], !.color[e] = m.color[a]]
  IN  Adopt(Adopt(Replace(l, m.parent[a], a, e), m.left[a], e), m.right[a], e)

LEMMA RenameIs ==
  ASSUME NEW m \in Trees, NEW N, NEW lim, Tree(m, N, lim), NEW a \in N, NEW e \in Key \ N
  PROVE  /\ Renamed(m, Moved(m, a, e), N, a, e)
         /\ \A k \in Key : Moved(m, a, e).color[k] = IF k = e THEN m.color[a] ELSE m.color[k]
<1> DEFINE l == [m EXCEPT !.left[e] = m.left[a], !.right[e] = m.right[a],
                          !.parent[e] = m.parent[a], !.color[e] = m.color[a]]
<1>1. PutAt(m, l, a, e)
  <2>1. N \in SUBSET Key
    BY TreeFacts
  <2>2. a \in Key /\ e \in Key /\ m.left[a] \in Pointer /\ m.right[a] \in Pointer
        /\ m.parent[a] \in Pointer /\ m.color[a] \in {"red", "black", STALE}
    BY <2>1 DEF Trees
  <2> QED
    BY <2>2 DEF Trees, Sides, PutAt
<1>2. Moved(m, a, e) = Adopt(Adopt(Replace(l, m.parent[a], a, e), m.left[a], e), m.right[a], e)
  BY DEF Moved
<1> HIDE DEF l
<1> QED
  BY <1>1, <1>2, PutIs

-----------------------------------------------------------------------------
\* What is left when a record, black or not, was taken out below p, where now c is.
Removed(n, M, c, p, black) ==
  /\ n \in Trees /\ \E lim : Tree(n, M, lim)
  /\ \E g \in Heights : Even(n, M, g, IF black THEN c ELSE NULL, IF black THEN Gap(c, p) ELSE NULL)
  /\ \A k \in M : RedRed(n, k) => k = c /\ black
  /\ p \in M \union {NULL} /\ c \in M \union {NULL} /\ (c # NULL => n.parent[c] = p)
  /\ black /\ c = NULL => IF p = NULL THEN M = {}
                          ELSE \E s \in Sides : n[s][p] = NULL /\ n[Other(s)][p] # NULL

LEMMA UnlinkedRemoved ==
  ASSUME NEW m, NEW N, Sound(m, N, NULL, NULL), Reds(m, N, NULL, NULL), NEW e \in N,
         NEW d \in Sides, m[d][e] = NULL, NEW c, c = m[Other(d)][e], NEW n, Unlinked(m, n, N, e, c),
         NEW black, black = (m.color[e] = "black")
  PROVE  Removed(n, N \ {e}, c, m.parent[e], black)
<1> DEFINE M == N \ {e}
           p == m.parent[e]
<1>1. PICK lim : Tree(m, N, lim)
  BY DEF Sound
<1>2. PICK h \in Heights : Even(m, N, h, NULL, NULL)
  BY DEF Sound
<1>3. m \in Trees /\ Colored(m, N) /\ \A k \in N : ~ RedRed(m, k)
  BY <1>1, TreeFacts DEF Sound, Reds
<1>4. NULL \notin N /\ Other(d) \in Sides
  BY <1>1, TreeFacts, TwoSides
<1>5. p # e /\ (p = NULL <=> e = m.root) /\ (p # NULL => p \in N)
  BY <1>1, <1>3, NamesIs
<1>6. Tree(n, M, Passed(lim, e))
  BY <1>1, <1>3, UnlinkedTree
<1>7. /\ \E g \in Heights : Even(n, M, g, IF black THEN c ELSE NULL,
                                 IF black THEN Gap(c, p) ELSE NULL)
      /\ c = NULL /\ p # NULL /\ black => \E s \in Sides : n[s][p] = NULL /\ n[Other(s)][p] # NULL
  <2>1. LeftEven(m, n, N, e, c)
    BY <1>1, <1>2, <1>3, UnlinkedEven
  <2>2. /\ LeftOne(m, e, c) = IF black THEN c ELSE NULL
        /\ LeftGap(m, e, c) = IF black THEN Gap(c, p) ELSE NULL
    BY DEF LeftOne, LeftGap
  <2> QED
    BY <2>1, <2>2 DEF LeftEven
<1>8. \A k \in M : RedRed(n, k) => k = c /\ black
  <2> SUFFICES ASSUME NEW k \in M, RedRed(n, k) PROVE k = c /\ m.color[e] = "black"
    OBVIOUS
  <2> QED
    BY <1>1, <1>3, UnlinkedReds
<1>9. c # NULL => c \in M /\ n.parent[c] = p
  <2> SUFFICES ASSUME c # NULL PROVE c \in M /\ n.parent[c] = p
    OBVIOUS
  <2>1. c \in N /\ m.parent[c] = e
    BY <1>1, <1>4, TreeFacts
  <2>2. c # e
    BY <2>1, <1>5
  <2> QED
    BY <2>1, <2>2 DEF Unlinked
<1>10. c = NULL /\ p = NULL => M = {}
  <2>1. c = NULL /\ p = NULL => n.root = NULL
    BY <1>5 DEF Unlinked
  <2> QED
    BY <2>1, <1>6, TreeFacts
<1>11. n \in Trees /\ p \in M \union {NULL} /\ c \in M \union {NULL}
  BY <1>5, <1>9 DEF Unlinked
<1> QED
  BY <1>6, <1>7, <1>8, <1>9, <1>10, <1>11 DEF Removed

LEMMA RenamedRemoved ==
  ASSUME NEW m, NEW N, NEW c, NEW p, NEW black, Removed(m, N, c, p, black),
         NEW a \in N, NEW e \in Key \ N, c # a,
         \A k \in N \ {a}, s \in Sides : Off(s, k, a) <=> Off(s, k, e),
         NEW n, Renamed(m, n, N, a, e)
  PROVE  Removed(n, (N \ {a}) \union {e}, c, Ren(a, e, p), black)
<1> DEFINE M == (N \ {a}) \union {e}
           q == Ren(a, e, p)
<1>1. PICK lim : Tree(m, N, lim)
  BY DEF Removed
<1>2. N \in SUBSET Key /\ NULL \notin N
  BY <1>1, TreeFacts
<1>3. /\ Ren(a, e, NULL) = NULL /\ Ren(a, e, a) = e
      /\ \A k \in N : Ren(a, e, k) \in M /\ Ren(a, e, k) # NULL
      /\ \A j, k \in N \union {NULL} : Ren(a, e, j) = Ren(a, e, k) => j = k
      /\ \A z \in M : \E k \in N : z = Ren(a, e, k)
  BY <1>2, RenIs
<1>4. Ren(a, e, c) = c /\ c \in N \union {NULL} /\ p \in N \union {NULL}
  BY DEF Ren, Removed
<1>5. Tree(n, M, RenLimits(lim, a, e))
  BY <1>1, RenamedTree
<1>6. q \in M \union {NULL} /\ c \in M \union {NULL} /\ (q = NULL <=> p = NULL)
  BY <1>3, <1>4
<1>7. \E g \in Heights : Even(n, M, g, IF black THEN c ELSE NULL, IF black THEN Gap(c, q) ELSE NULL)
  <2> DEFINE u == IF black THEN c ELSE NULL
             y == IF black THEN Gap(c, p) ELSE NULL
  <2>1. PICK h \in Heights : Even(m, N, h, u, y)
    BY DEF Removed
  <2>2. u \in N \union {NULL} /\ y \in N \union {NULL}
    BY <1>4 DEF Gap
  <2>3. Ren(a, e, u) = u /\ Ren(a, e, y) = IF black THEN Gap(c, q) ELSE NULL
    BY <1>3, <1>4 DEF Gap
  <2> HIDE DEF u, y
  <2>4. \E g \in Heights : Even(n, M, g, Ren(a, e, u), Ren(a, e, y))
    BY <1>1, <2>1, <2>2, RenamedEven
  <2> QED
    BY <2>3, <2>4 DEF u
<1>8. \A k \in M : RedRed(n, k) => k = c /\ black
  <2> SUFFICES ASSUME NEW k \in M, RedRed(n, k) PROVE k = c /\ black
    OBVIOUS
  <2>1. PICK z \in N : k = Ren(a, e, z)
    BY <1>3
  <2>2. RedRed(m, z)
    BY <2>1, <1>1, RenamedReds
  <2>3. z = c /\ black
    BY <2>2 DEF Removed
  <2> QED
    BY <2>1, <2>3, <1>4
<1>9. c # NULL => n.parent[c] = q
  BY <1>4 DEF Renamed, Removed
<1>10. black /\ c = NULL => IF q = NULL THEN M = {}
                            ELSE \E s \in Sides : n[s][q] = NULL /\ n[Other(s)][q] # NULL
  <2> SUFFICES ASSUME black, c = NULL
               PROVE  q # NULL /\ \E s \in Sides : n[s][q] = NULL /\ n[Other(s)][q] # NULL
    OBVIOUS
  <2>1. p # NULL /\ p \in N
    BY <1>4 DEF Removed
  <2>2. PICK s \in Sides : m[s][p] = NULL /\ m[Other(s)][p] # NULL
    BY <2>1 DEF Removed
  <2>3. Other(s) \in Sides
    BY TwoSides
  <2>4. m[Other(s)][p] \in N
    BY <1>1, <2>1, <2>2, <2>3, TreeFacts
  <2>5. n[s][q] = Ren(a, e, m[s][p]) /\ n[Other(s)][q] = Ren(a, e, m[Other(s)][p])
    BY <2>1, <2>3 DEF Renamed
  <2>6. n[s][q] = NULL /\ n[Other(s)][q] # NULL
    BY <2>2, <2>4, <2>5, <1>3
  <2> QED
    BY <2>1, <2>6, <1>6
<1>11. n \in Trees
  BY DEF Renamed
<1> QED
  BY <1>5, <1>6, <1>7, <1>8, <1>9, <1>10, <1>11 DEF Removed

\* The fields of a record that is not in the tree do not matter.
LEMMA ForgottenRemoved ==
  ASSUME NEW m, NEW M, NEW c, NEW p, NEW black, Removed(m, M, c, p, black),
         NEW a \in Key \ M, NEW n, n = Forgotten(m, a)
  PROVE  /\ Removed(n, M, c, p, black)
         /\ \A k \in Key : n.color[k] = IF k = a THEN STALE ELSE m.color[k]
<1>1. PICK lim : Tree(m, M, lim)
  BY DEF Removed
<1>2. m \in Trees
  BY DEF Removed
<1>3. M \in SUBSET Key /\ NULL \notin M
  BY <1>1, TreeFacts
<1>4. /\ n \in Trees /\ n.root = m.root
      /\ \A k \in M, s \in Sides : n[s][k] = m[s][k]
      /\ \A k \in M : n.parent[k] = m.parent[k] /\ n.color[k] = m.color[k]
      /\ \A k \in Key : n.color[k] = IF k = a THEN STALE ELSE m.color[k]
  BY <1>2, <1>3 DEF Forgotten, Trees, Sides, Pointer
<1>5. Tree(n, M, lim)
  <2>1. /\ \A k \in M, s \in Sides : n[s][k] # NULL => n[s][k] \in M /\ IsChild(n, lim, n[s][k], k, s)
    BY <1>1, <1>4 DEF Tree, IsChild
  <2>2. \A k \in M : k # n.root => n.parent[k] \in M /\ \E s \in Sides : n[s][n.parent[k]] = k
    BY <1>1, <1>4 DEF Tree
  <2>3. n.root # NULL => n.parent[n.root] = NULL /\ \A s \in Sides : lim[s][n.root] = NULL
    BY <1>1, <1>4 DEF Tree
  <2> QED
    BY <1>1, <1>4, <2>1, <2>2, <2>3 DEF Tree
<1>6. ASSUME NEW h \in Heights, NEW u, NEW y, Even(m, M, h, u, y) PROVE Even(n, M, h, u, y)
  BY <1>4, <1>6 DEF Even, Below, Count
<1>7. \A k \in M : RedRed(n, k) => RedRed(m, k)
  <2> SUFFICES ASSUME NEW k \in M, RedRed(n, k) PROVE RedRed(m, k)
    OBVIOUS
  <2>1. k # n.root => n.parent[k] \in M
    BY <1>5, TreeFacts
  <2> QED
    BY <2>1, <1>4 DEF RedRed, IsBlack
<1>8. \E h \in Heights : Even(n, M, h, IF black THEN c ELSE NULL, IF black THEN Gap(c, p) ELSE NULL)
  BY <1>6 DEF Removed
<1>9. black /\ c = NULL => IF p = NULL THEN M = {}
                           ELSE \E s \in Sides : n[s][p] = NULL /\ n[Other(s)][p] # NULL
  <2> SUFFICES ASSUME black, c = NULL, p # NULL
               PROVE  \E s \in Sides : n[s][p] = NULL /\ n[Other(s)][p] # NULL
    BY DEF Removed
  <2>1. p \in M /\ \E s \in Sides : m[s][p] = NULL /\ m[Other(s)][p] # NULL
    BY DEF Removed
  <2> QED
    BY <2>1, <1>4, TwoSides
<1>10. /\ p \in M \union {NULL} /\ c \in M \union {NULL} /\ (c # NULL => n.parent[c] = p)
       /\ \A k \in M : RedRed(n, k) => k = c /\ black
  BY <1>4, <1>7 DEF Removed
<1> QED
  BY <1>4, <1>5, <1>8, <1>9, <1>10 DEF Removed

\* What follows for the loop that comes next.
LEMMA RemovedLoop ==
  ASSUME NEW n, NEW M, NEW c, NEW p, NEW black, Removed(n, M, c, p, black), Colored(n, M)
  PROVE  /\ black => LoopAt(n, M, c, p)
         /\ ~ black => Sound(n, M, NULL, NULL) /\ Reds(n, M, NULL, NULL)
<1>1. black => LoopAt(n, M, c, p)
  <2> SUFFICES ASSUME black PROVE LoopAt(n, M, c, p)
    OBVIOUS
  <2>1. Sound(n, M, c, Gap(c, p))
    BY DEF Removed, Sound
  <2>2. Reds(n, M, c, c)
    BY DEF Removed, Reds
  <2> QED
    BY <2>1, <2>2 DEF Removed, LoopAt
<1>2. ~ black => Sound(n, M, NULL, NULL) /\ Reds(n, M, NULL, NULL)
  <2> SUFFICES ASSUME ~ black PROVE Sound(n, M, NULL, NULL) /\ Reds(n, M, NULL, NULL)
    OBVIOUS
  <2>1. Sound(n, M, NULL, NULL)
    BY DEF Removed, Sound
  <2>2. Reds(n, M, NULL, NULL)
    BY DEF Removed, Reds
  <2> QED
    BY <2>1, <2>2
<1> QED
  BY <1>1, <1>2

\* The successor of a record that has two children.
LEMMA SuccessorIs ==
  ASSUME NEW m, NEW N, NEW lim, Tree(m, N, lim), NEW old \in N, m.right[old] # NULL,
         NEW e, e = End(m.right[old], m.left)
  PROVE  /\ e \in N /\ e # old /\ m["left"][e] = NULL /\ m["right"][e] # old
         /\ \A k \in (N \ {e}) \ {old}, s \in Sides : Off(s, k, old) <=> Off(s, k, e)
<1>1. /\ "left" \in Sides /\ "right" \in Sides /\ Other("right") = "left" /\ Other("left") = "right"
      /\ m.left = m["left"] /\ m.right = m["right"] /\ N \in SUBSET Key
  BY TreeFacts DEF Sides, Other
<1>2. /\ Outmost(Beyond(N, "right", old), "left", e) /\ m["left"][e] = NULL /\ lim["left"][e] = old
  BY <1>1, NeighbourBelow
<1>3. e \in N /\ Off("right", e, old) /\ \A z \in N : Off("right", z, old) => z = e \/ Off("left", e, z)
  BY <1>2 DEF Outmost, Beyond
<1>4. e \in Key /\ old \in Key /\ e # old
  BY <1>1, <1>3, OffOrders
<1>5. m["right"][e] # old
  <2> SUFFICES ASSUME m["right"][e] = old PROVE FALSE
    OBVIOUS
  <2>1. old # NULL
    BY TreeFacts
  <2>2. lim["left"][old] = e
    BY <2>1, <1>1, <1>3, TreeLimits
  <2>3. Off("left", e, old)
    BY <2>2, <1>1, <1>3, TreeFacts DEF Inside
  <2> QED
    BY <2>3, <1>3, <1>4, KeysAssumption DEF Off
<1>6. ASSUME NEW k \in (N \ {e}) \ {old}, NEW s \in Sides PROVE Off(s, k, old) <=> Off(s, k, e)
  <2>1. k \in Int /\ e \in Int /\ old \in Int /\ k # e /\ k # old
    BY <1>1, <1>4, KeysAssumption
  <2>2. old < e /\ (old < k => e < k)
    BY <1>3, <2>1 DEF Off
  <2> QED
    BY <2>1, <2>2 DEF Off
<1> QED
  BY <1>2, <1>3, <1>4, <1>5, <1>6


\* RB_REMOVE of a record with one child, or none.
LEMMA RemoveOne ==
  ASSUME NEW m, NEW N, Sound(m, N, NULL, NULL), Reds(m, N, NULL, NULL), NEW old \in N,
         m.left[old] = NULL \/ m.right[old] = NULL, NEW x, x = RB_REMOVE(m, old)
  PROVE  /\ Removed(x.t, N \ {old}, x.elm, x.parent, x.color = "black")
         /\ Colored(x.t, N \ {old})
<1> DEFINE p == m.parent[old]
           d == IF m.left[old] = NULL THEN "left" ELSE "right"
           c == IF m.left[old] = NULL THEN m.right[old] ELSE m.left[old]
           n == Replace(Adopt(m, c, p), p, old, c)
           M == N \ {old}
<1>1. PICK lim : Tree(m, N, lim)
  BY DEF Sound
<1>2. /\ x.t = Forgotten(n, old) /\ x.elm = c /\ x.parent = p /\ x.color = m.color[old]
  BY DEF RB_REMOVE, GapColor
<1>3. m \in Trees /\ Colored(m, N) /\ N \in SUBSET Key
  BY <1>1, TreeFacts DEF Sound
<1>4. d \in Sides /\ m[d][old] = NULL /\ c = m[Other(d)][old] /\ Other(d) \in Sides
  BY DEF Sides, Other
<1>5. c \in N \union {NULL}
  BY <1>1, <1>4, TreeFacts
<1>6. p = m.parent[old] /\ n = Replace(Adopt(m, c, p), p, old, c)
  OBVIOUS
<1> HIDE DEF c, d, n, p
<1>7. Unlinked(m, n, N, old, c)
  BY <1>1, <1>3, <1>5, <1>6, UnlinkIs
<1> DEFINE black == m.color[old] = "black"
<1>8. black = (m.color[old] = "black")
  OBVIOUS
<1> HIDE DEF black
<1>9. Removed(n, M, c, p, black)
  BY <1>4, <1>6, <1>7, <1>8, UnlinkedRemoved
<1>10. /\ Removed(x.t, M, c, p, black)
       /\ \A k \in Key : x.t.color[k] = IF k = old THEN STALE ELSE n.color[k]
  <2>1. old \in Key \ M
    BY <1>3
  <2> QED
    BY <2>1, <1>2, <1>9, ForgottenRemoved
<1>11. Colored(x.t, M)
  BY <1>3, <1>7, <1>10 DEF Colored, Unlinked
<1> QED
  BY <1>2, <1>8, <1>10, <1>11

\* RB_REMOVE of a record with two children.
LEMMA RemoveTwo ==
  ASSUME NEW m, NEW N, Sound(m, N, NULL, NULL), Reds(m, N, NULL, NULL), NEW old \in N,
         m.left[old] # NULL, m.right[old] # NULL, NEW x, x = RB_REMOVE(m, old)
  PROVE  /\ Removed(x.t, N \ {old}, x.elm, x.parent, x.color = "black")
         /\ Colored(x.t, N \ {old})
<1> DEFINE e == End(m.right[old], m.left)
           p == m.parent[e]
           c == IF m.left[e] = NULL THEN m.right[e] ELSE m.left[e]
           n == Replace(Adopt(m, c, p), p, e, c)
           i == Moved(n, old, e)
           M == N \ {e}
           K == N \ {old}
<1>1. PICK lim : Tree(m, N, lim)
  BY DEF Sound
<1>2. /\ x.t = Forgotten(i, old) /\ x.elm = c /\ x.color = m.color[e]
      /\ x.parent = IF p = old THEN e ELSE p
  BY DEF RB_REMOVE, GapColor, Moved
<1>3. m \in Trees /\ Colored(m, N) /\ N \in SUBSET Key
  BY <1>1, TreeFacts DEF Sound
<1>4. e = End(m.right[old], m.left)
  OBVIOUS
<1>5. /\ p = m.parent[e] /\ n = Replace(Adopt(m, c, p), p, e, c)
      /\ c = IF m.left[e] = NULL THEN m.right[e] ELSE m.left[e]
  OBVIOUS
<1>6. i = Moved(n, old, e)
  OBVIOUS
<1> HIDE DEF e, p, c, n, i
<1>7. /\ e \in N /\ e # old /\ m["left"][e] = NULL /\ m["right"][e] # old
      /\ \A k \in (N \ {e}) \ {old}, s \in Sides : Off(s, k, old) <=> Off(s, k, e)
  BY <1>1, <1>4, SuccessorIs
<1>8. /\ "left" \in Sides /\ "right" \in Sides /\ Other("left") = "right"
      /\ m.left = m["left"] /\ m.right = m["right"] /\ c = m[Other("left")][e] /\ c # old
  BY <1>5, <1>7 DEF Sides, Other
<1>9. c \in N \union {NULL}
  BY <1>1, <1>7, <1>8, TreeFacts
<1>10. Unlinked(m, n, N, e, c)
  BY <1>1, <1>3, <1>5, <1>7, <1>9, UnlinkIs
<1> DEFINE black == m.color[e] = "black"
<1>11. black = (m.color[e] = "black")
  OBVIOUS
<1> HIDE DEF black
<1>12. Removed(n, M, c, p, black)
  BY <1>5, <1>7, <1>8, <1>10, <1>11, UnlinkedRemoved
<1>13. old \in M /\ e \in Key \ M /\ (M \ {old}) \union {e} = K /\ old \in Key \ K
  BY <1>3, <1>7
<1>14. /\ Renamed(n, i, M, old, e)
       /\ \A k \in Key : i.color[k] = IF k = e THEN n.color[old] ELSE n.color[k]
  <2>1. n \in Trees
    BY <1>10 DEF Unlinked
  <2>2. PICK lim1 : Tree(n, M, lim1)
    BY <1>12 DEF Removed
  <2> QED
    BY <2>1, <2>2, <1>6, <1>13, RenameIs
<1>15. Removed(i, K, c, Ren(old, e, p), black)
  <2> DEFINE G == (M \ {old}) \union {e}
  <2>1. \A k \in M \ {old}, s \in Sides : Off(s, k, old) <=> Off(s, k, e)
    BY <1>7
  <2>2. Removed(i, (M \ {old}) \union {e}, c, Ren(old, e, p), black)
    BY <2>1, <1>8, <1>12, <1>13, <1>14, RenamedRemoved
  <2> QED
    BY <2>2, <1>13
<1>16. x.parent = Ren(old, e, p)
  BY <1>2 DEF Ren
<1>17. /\ Removed(x.t, K, c, x.parent, black)
       /\ \A k \in Key : x.t.color[k] = IF k = old THEN STALE ELSE i.color[k]
  BY <1>2, <1>13, <1>15, <1>16, ForgottenRemoved
<1>18. Colored(x.t, K)
  <2>1. n.color = m.color
    BY <1>10 DEF Unlinked
  <2>2. \A k \in Key : x.t.color[k] = IF k = old THEN STALE ELSE IF k = e THEN m.color[old]
                                      ELSE m.color[k]
    BY <2>1, <1>14, <1>17
  <2> QED
    BY <2>2, <1>3, <1>7 DEF Colored
<1> QED
  BY <1>2, <1>11, <1>17, <1>18

LEMMA RemoveSound ==
  ASSUME NEW m, NEW N, Sound(m, N, NULL, NULL), Reds(m, N, NULL, NULL), NEW old \in N,
         NEW x, x = RB_REMOVE(m, old)
  PROVE  /\ x.color = "black" => LoopAt(x.t, N \ {old}, x.elm, x.parent)
         /\ x.color # "black" => Sound(x.t, N \ {old}, NULL, NULL) /\ Reds(x.t, N \ {old}, NULL, NULL)
         /\ Colored(x.t, N \ {old})
<1>1. /\ Removed(x.t, N \ {old}, x.elm, x.parent, x.color = "black")
      /\ Colored(x.t, N \ {old})
  BY RemoveOne, RemoveTwo
<1> DEFINE black == x.color = "black"
           n == x.t
           c == x.elm
           p == x.parent
           M == N \ {old}
<1>2. Removed(n, M, c, p, black) /\ Colored(n, M)
  BY <1>1
<1> HIDE DEF black, n, c, p, M
<1>3. /\ black => LoopAt(n, M, c, p)
      /\ ~ black => Sound(n, M, NULL, NULL) /\ Reds(n, M, NULL, NULL)
  BY <1>2, RemovedLoop
<1> QED
  BY <1>1, <1>3 DEF black, n, c, p, M

-----------------------------------------------------------------------------
(***************************************************************************)
(* The inductive invariant.                                                *)
(***************************************************************************)

\* Between two calls, or two turns of a reset, the tree is a red-black tree.  In the loop of
\* an insertion elm is red, and may be so where it must not be; in that of a removal elm, or
\* the place below parent, counts for one more black record.
RbInv ==
  /\ pc \in {"idle", "insert_color", "remove_color", "reset"}
  /\ key \in Key \union {NULL} /\ (pc \in {"idle", "insert_color"} => key = NULL)
  /\ pc \in {"idle", "reset"} =>
       elm = NULL /\ parent = NULL /\ Sound(t, Nodes, NULL, NULL) /\ Reds(t, Nodes, NULL, NULL)
  /\ pc = "insert_color" =>
       /\ elm \in Nodes /\ parent = NULL /\ t.color[elm] = "red"
       /\ Sound(t, Nodes, NULL, NULL) /\ Reds(t, Nodes, elm, NULL)
  /\ pc = "remove_color" => LoopAt(t, Nodes, elm, parent)

LEMMA NodesAre ==
  ASSUME NEW m, NEW N, Colored(m, N)
  PROVE  { e \in Key : m.color[e] # STALE } = N
BY DEF Colored

LEMMA SoundColored ==
  ASSUME NEW m, NEW N, NEW u, NEW y, Sound(m, N, u, y)
  PROVE  Colored(m, N) /\ { e \in Key : m.color[e] # STALE } = N /\ \E lim : Tree(m, N, lim)
BY NodesAre DEF Sound

\* What cfg_rb_find finds.
FindOf(m, k) == IF k = NULL THEN RB_MINMAX(m, "left") ELSE RB_FIND(m, k)

LEMMA FindOfIs ==
  ASSUME NEW m, NEW N, NEW lim, Tree(m, N, lim), NEW k \in Key \union {NULL},
         NEW r, r = FindOf(m, k)
  PROVE  /\ r # NULL => r \in N /\ IF k = NULL THEN r = Abs!Least(N) ELSE r = k
         /\ r = NULL => k \notin N /\ (k = NULL => N = {})
<1>1. N \in SUBSET Key /\ NULL \notin N
  BY TreeFacts
<1>2. CASE k = NULL
  <2>1. r = RB_MINMAX(m, "left") /\ "left" \in Sides
    BY <1>2 DEF FindOf, Sides
  <2>2. IF N = {} THEN r = NULL ELSE Outmost(N, "left", r)
    BY <2>1, MinMaxIs
  <2>3. r = Abs!Least(N)
    BY <2>2, <1>1, LeastIs
  <2> QED
    BY <2>2, <2>3, <1>1, <1>2 DEF Outmost
<1>3. CASE k # NULL
  <2>1. k \in Key /\ r = RB_FIND(m, k)
    BY <1>3 DEF FindOf
  <2>2. r = IF k \in N THEN k ELSE NULL
    BY <2>1, FindIs
  <2> QED
    BY <2>2, <1>3
<1> QED
  BY <1>2, <1>3

LEMMA RbInit ==
  Init => RbInv
<1> SUFFICES ASSUME Init PROVE RbInv
  OBVIOUS
<1>1. Nodes = {} /\ t.root = NULL
  BY DEF Init, Nodes
<1>2. t \in Trees /\ Colored(t, Nodes)
  <2>1. NULL \in Key \union {NULL} /\ STALE \in Pointer
    BY DEF Pointer
  <2>2. t \in Trees
    BY <2>1 DEF Init, Trees
  <2> QED
    BY <2>2, <1>1 DEF Init, Colored
<1>3. \E lim : Tree(t, Nodes, lim)
  <2> DEFINE lim == [s \in Sides |-> [k \in Key |-> NULL]]
  <2>1. lim \in Limits
    BY DEF Limits
  <2> HIDE DEF lim
  <2>2. Tree(t, Nodes, lim)
    BY <2>1, <1>1 DEF Tree
  <2> QED
    BY <2>2
<1>4. \E h \in Heights : Even(t, Nodes, h, NULL, NULL)
  <2>1. [k \in Key |-> 0] \in Heights
    BY DEF Heights
  <2> QED
    BY <2>1, <1>1 DEF Even
<1>5. Sound(t, Nodes, NULL, NULL) /\ Reds(t, Nodes, NULL, NULL)
  BY <1>1, <1>2, <1>3, <1>4 DEF Sound, Reds
<1> QED
  BY <1>5 DEF Init, RbInv

LEMMA SetKeeps ==
  ASSUME RbInv, NEW k \in Key, aloe_cfg_set(k)
  PROVE  RbInv' /\ k \notin Nodes /\ Nodes' = Nodes \union {k}
<1>1. /\ pc = "idle" /\ Sound(t, Nodes, NULL, NULL) /\ Reds(t, Nodes, NULL, NULL)
      /\ parent = NULL /\ key = NULL
  BY DEF RbInv, aloe_cfg_set
<1>2. /\ FindOf(t, k) = NULL /\ t' = Linked(t, k) /\ elm' = k /\ pc' = "insert_color"
      /\ parent' = parent /\ key' = key
  BY DEF aloe_cfg_set, cfg_rb_find, FindOf
<1>3. k \notin Nodes
  BY <1>1, <1>2, SoundColored, FindOfIs
<1> DEFINE M == Nodes \union {k}
<1>4. Sound(t', M, NULL, NULL) /\ t'.color[k] = "red" /\ Reds(t', M, k, NULL)
  BY <1>1, <1>2, <1>3, LinkedSound
<1>5. Nodes' = M
  BY <1>4, SoundColored DEF Nodes
<1> QED
  BY <1>1, <1>2, <1>3, <1>4, <1>5 DEF RbInv

LEMMA InsertColorKeeps ==
  ASSUME RbInv, InsertColor
  PROVE  RbInv' /\ Nodes' = Nodes /\ pc = "insert_color" /\ pc' \in {"insert_color", "idle"}
<1>1. /\ pc = "insert_color" /\ elm \in Nodes /\ parent = NULL /\ key = NULL
      /\ t.color[elm] = "red" /\ Sound(t, Nodes, NULL, NULL) /\ Reds(t, Nodes, elm, NULL)
      /\ parent' = parent /\ key' = key
  BY DEF RbInv, InsertColor
<1>2. CASE ~ IsBlack(t, t.parent[elm])
  <2>1. t' = InsertTurn(t, elm).t /\ elm' = InsertTurn(t, elm).elm /\ pc' = pc
    BY <1>2 DEF InsertColor
  <2>2. Sound(t', Nodes, NULL, NULL) /\ elm' \in Nodes /\ t'.color[elm'] = "red"
        /\ Reds(t', Nodes, elm', NULL)
    BY <2>1, <1>1, <1>2, InsertTurnSound
  <2>3. Nodes' = Nodes
    BY <2>2, SoundColored DEF Nodes
  <2> QED
    BY <2>1, <2>2, <2>3, <1>1 DEF RbInv
<1>3. CASE IsBlack(t, t.parent[elm])
  <2>1. t' = Paint(t, t.root, "black") /\ pc' = "idle" /\ elm' = NULL
    BY <1>3 DEF InsertColor
  <2>2. Sound(t', Nodes, NULL, NULL) /\ Reds(t', Nodes, NULL, NULL)
    BY <2>1, <1>1, <1>3, InsertEnds
  <2>3. Nodes' = Nodes
    BY <2>2, SoundColored DEF Nodes
  <2> QED
    BY <2>1, <2>2, <2>3, <1>1 DEF RbInv
<1> QED
  BY <1>2, <1>3

\* What a turn of a reset takes away.
LEMMA ResetTurnKeeps ==
  ASSUME RbInv, NEW k \in Key \union {NULL}, ResetTurn(k)
  PROVE  /\ RbInv' /\ pc \in {"idle", "reset"} /\ (pc = "reset" => key = k)
         /\ pc' \in {"remove_color", "reset"} /\ key' = k
         /\ \E r \in Nodes : /\ Nodes' = Nodes \ {r}
                             /\ IF k = NULL THEN r = Abs!Least(Nodes) ELSE r = k
<1> DEFINE r == FindOf(t, k)
           x == RB_REMOVE(t, r)
           M == Nodes \ {r}
<1>1. pc \in {"idle", "reset"} /\ (pc = "reset" => key = k) /\ key' = k
  BY DEF ResetTurn
<1>2. Sound(t, Nodes, NULL, NULL) /\ Reds(t, Nodes, NULL, NULL)
  BY <1>1 DEF RbInv
<1>3. /\ r # NULL /\ t' = x.t
      /\ pc' = IF x.color = "black" THEN "remove_color" ELSE "reset"
      /\ elm' = IF x.color = "black" THEN x.elm ELSE NULL
      /\ parent' = IF x.color = "black" THEN x.parent ELSE NULL
  BY DEF ResetTurn, cfg_rb_find, FindOf
<1>4. r \in Nodes /\ IF k = NULL THEN r = Abs!Least(Nodes) ELSE r = k
  <2> HIDE DEF x
  <2>1. r = FindOf(t, k)
    OBVIOUS
  <2> HIDE DEF r
  <2> QED
    BY <2>1, <1>2, <1>3, SoundColored, FindOfIs
<1>5. x = RB_REMOVE(t, r)
  OBVIOUS
<1> HIDE DEF r, x
<1>6. /\ x.color = "black" => LoopAt(x.t, M, x.elm, x.parent)
      /\ x.color # "black" => Sound(x.t, M, NULL, NULL) /\ Reds(x.t, M, NULL, NULL)
      /\ Colored(x.t, M)
  BY <1>2, <1>4, <1>5, RemoveSound
<1>7. Nodes' = M
  BY <1>3, <1>6, NodesAre DEF Nodes
<1>8. RbInv'
  BY <1>1, <1>3, <1>6, <1>7 DEF RbInv
<1>9. pc' \in {"remove_color", "reset"}
  BY <1>3
<1> QED
  BY <1>1, <1>4, <1>7, <1>8, <1>9

LEMMA RemoveColorKeeps ==
  ASSUME RbInv, RemoveColor
  PROVE  /\ RbInv' /\ Nodes' = Nodes /\ key' = key
         /\ pc = "remove_color" /\ pc' \in {"remove_color", "reset"}
<1>1. pc = "remove_color" /\ LoopAt(t, Nodes, elm, parent) /\ key \in Key \union {NULL} /\ key' = key
  BY DEF RbInv, RemoveColor
<1>2. CASE Short(t, elm)
  <2> DEFINE x == RemoveTurn(t, elm, parent)
             s == SideOf(t, parent, elm)
  <2>1. t' = x.t /\ elm' = x.elm /\ parent' = x.parent /\ pc' = pc
    BY <1>2 DEF RemoveColor
  <2>2. ShortAt(t, Nodes, elm, parent, s)
    BY <1>1, <1>2, LoopTurns
  <2>3. /\ Sound(x.t, Nodes, x.elm, NULL) /\ Reds(x.t, Nodes, x.elm, x.elm)
        /\ x.elm \in Nodes /\ (x.elm # x.t.root => x.parent = x.t.parent[x.elm])
    BY <2>2, RemoveTurnSound
  <2> HIDE DEF x, s
  <2>4. elm' # NULL
    <3>1. NULL \notin Nodes
      BY KeysAssumption DEF Nodes
    <3> QED
      BY <2>1, <2>3, <3>1
  <2>5. LoopAt(t', Nodes, elm', parent')
    BY <2>1, <2>3, <2>4 DEF LoopAt, Gap
  <2>6. Nodes' = Nodes
    BY <2>1, <2>3, SoundColored DEF Nodes
  <2> QED
    BY <2>1, <2>5, <2>6, <1>1 DEF RbInv
<1>3. CASE ~ Short(t, elm)
  <2>1. t' = Paint(t, elm, "black") /\ pc' = "reset" /\ elm' = NULL /\ parent' = NULL
    BY <1>3 DEF RemoveColor
  <2>2. Sound(t', Nodes, NULL, NULL) /\ Reds(t', Nodes, NULL, NULL)
    BY <2>1, <1>1, <1>3, LoopEnds
  <2>3. Nodes' = Nodes
    BY <2>2, SoundColored DEF Nodes
  <2> QED
    BY <2>1, <2>2, <2>3, <1>1 DEF RbInv
<1> QED
  BY <1>2, <1>3

LEMMA ResetEndsKeeps ==
  ASSUME RbInv, ResetEnds
  PROVE  /\ RbInv' /\ Nodes' = Nodes /\ pc = "reset" /\ pc' = "idle"
         /\ key \notin Nodes /\ (key = NULL => Nodes = {})
<1>1. /\ pc = "reset" /\ Sound(t, Nodes, NULL, NULL) /\ Reds(t, Nodes, NULL, NULL)
      /\ elm = NULL /\ parent = NULL /\ key \in Key \union {NULL}
  BY DEF RbInv, ResetEnds
<1>2. /\ FindOf(t, key) = NULL /\ pc' = "idle" /\ key' = NULL
      /\ t' = t /\ elm' = elm /\ parent' = parent
  BY DEF ResetEnds, cfg_rb_find, FindOf
<1>3. key \notin Nodes /\ (key = NULL => Nodes = {})
  BY <1>1, <1>2, SoundColored, FindOfIs
<1>4. Nodes' = Nodes
  BY <1>2 DEF Nodes
<1> QED
  BY <1>1, <1>2, <1>3, <1>4 DEF RbInv

LEMMA RbNext ==
  RbInv /\ [Next]_vars => RbInv'
<1> SUFFICES ASSUME RbInv, [Next]_vars PROVE RbInv'
  OBVIOUS
<1>1. CASE \E k \in Key : aloe_cfg_set(k)
  BY <1>1, SetKeeps
<1>2. CASE \E k \in Key \union {NULL} : ResetTurn(k)
  BY <1>2, ResetTurnKeeps
<1>3. CASE InsertColor
  BY <1>3, InsertColorKeeps
<1>4. CASE RemoveColor
  BY <1>4, RemoveColorKeeps
<1>5. CASE ResetEnds
  BY <1>5, ResetEndsKeeps
<1>6. CASE UNCHANGED vars
  BY <1>6 DEF vars, RbInv, Nodes
<1> QED
  BY <1>1, <1>2, <1>3, <1>4, <1>5, <1>6 DEF Next

LEMMA RbInvariant ==
  Spec => []RbInv
BY RbInit, RbNext, PTL DEF Spec

-----------------------------------------------------------------------------
(***************************************************************************)
(* The sorted set.                                                         *)
(***************************************************************************)

\* What the abstract specification calls scope and answers.
RbScope == IF pc \in {"idle", "insert_color"} THEN {} ELSE IF key = NULL THEN Key ELSE {key}
RbAnswers ==
  [find  |-> [k \in Key |-> cfg_rb_find(k)],
   first |-> aloe_cfg_next(NULL),
   last  |-> RB_MINMAX(t, "right"),
   next  |-> [k \in Nodes |-> aloe_cfg_next(k)],
   prev  |-> [k \in Nodes |-> Neighbour(t, k, "left")]]

LEMMA AnswersFound ==
  RbAnswers = Found(t, Nodes) /\ RbAnswers' = Found(t', Nodes')
<1>1. NULL \notin Key /\ Nodes \in SUBSET Key /\ Nodes' \in SUBSET Key
  BY KeysAssumption DEF Nodes
<1>2. RbAnswers = Found(t, Nodes)
  BY <1>1 DEF RbAnswers, Found, cfg_rb_find, aloe_cfg_next
<1>3. RbAnswers' = Found(t', Nodes')
  BY <1>1 DEF RbAnswers, Found, cfg_rb_find, aloe_cfg_next
<1> QED
  BY <1>2, <1>3

LEMMA InvTree ==
  (RbInv => \E lim : Tree(t, Nodes, lim)) /\ (RbInv' => \E lim : Tree(t', Nodes', lim))
<1>1. RbInv => \E lim : Tree(t, Nodes, lim)
  BY SoundColored DEF RbInv, LoopAt
<1>2. RbInv' => \E lim : Tree(t', Nodes', lim)
  BY SoundColored DEF RbInv, LoopAt
<1> QED
  BY <1>1, <1>2

LEMMA AnswersAre ==
  /\ RbInv => RbAnswers = Abs!Answers(Nodes)
  /\ RbInv' => RbAnswers' = Abs!Answers(Nodes')
BY AnswersFound, InvTree, FoundIs

LEMMA AbstractInit ==
  Init => Abs!Init
<1> SUFFICES ASSUME Init PROVE Abs!Init
  OBVIOUS
<1>1. Nodes = {} /\ RbScope = {}
  BY DEF Init, Nodes, RbScope
<1>2. RbAnswers = Abs!Answers({})
  BY <1>1, RbInit, AnswersAre
<1> QED
  BY <1>1, <1>2 DEF Abs!Init, RbScope, RbAnswers

\* Every step is one of the abstract specification, or leaves what it speaks of alone.
LEMMA AbstractNext ==
  RbInv /\ RbInv' /\ [Next]_vars => [Abs!Next]_(Abs!vars)
<1> SUFFICES ASSUME RbInv, RbInv', [Next]_vars PROVE [Abs!Next]_(Abs!vars)
  OBVIOUS
<1>1. /\ RbAnswers = Abs!Answers(Nodes) /\ RbAnswers' = Abs!Answers(Nodes')
      /\ NULL \notin Key /\ Nodes \in SUBSET Key
  BY AnswersAre, KeysAssumption DEF Nodes
<1>2. ASSUME Nodes' = Nodes, RbScope' = RbScope PROVE UNCHANGED Abs!vars
  <2>1. RbAnswers' = RbAnswers
    BY <1>1, <1>2
  <2> QED
    BY <2>1, <1>2 DEF Abs!vars, RbScope, RbAnswers
<1>3. ASSUME NEW k \in Key, aloe_cfg_set(k) PROVE Abs!Next
  <2>1. Nodes' = Nodes \union {k}
    BY <1>3, SetKeeps
  <2>2. RbScope = {} /\ RbScope' = {}
    BY <1>3 DEF aloe_cfg_set, RbScope
  <2>3. Abs!Insert(k)
    BY <2>1, <2>2, <1>1 DEF Abs!Insert, RbScope, RbAnswers
  <2> QED
    BY <2>3 DEF Abs!Next
<1>4. ASSUME NEW k \in Key \union {NULL}, ResetTurn(k) PROVE Abs!Next
  <2> DEFINE S == IF k = NULL THEN Key ELSE {k}
  <2>1. /\ pc \in {"idle", "reset"} /\ (pc = "reset" => key = k)
        /\ pc' \in {"remove_color", "reset"} /\ key' = k
    BY <1>4, ResetTurnKeeps
  <2>2. PICK r \in Nodes : /\ Nodes' = Nodes \ {r}
                           /\ IF k = NULL THEN r = Abs!Least(Nodes) ELSE r = k
    BY <1>4, ResetTurnKeeps
  <2>3. RbScope \in {{}, S} /\ RbScope' = S
    BY <2>1 DEF RbScope
  <2> HIDE DEF S
  <2>4. Abs!Remove(S, r)
    BY <2>2, <2>3, <1>1 DEF Abs!Remove, RbScope, RbAnswers
  <2>5. S = {r} \/ (r = Abs!Least(Nodes) /\ S = Key)
    BY <2>2 DEF S
  <2> QED
    BY <2>4, <2>5 DEF Abs!Next
<1>5. ASSUME InsertColor PROVE UNCHANGED Abs!vars
  <2>1. Nodes' = Nodes /\ pc = "insert_color" /\ pc' \in {"insert_color", "idle"}
    BY <1>5, InsertColorKeeps
  <2>2. RbScope' = RbScope
    BY <2>1 DEF RbScope
  <2> QED
    BY <2>1, <2>2, <1>2
<1>6. ASSUME RemoveColor PROVE UNCHANGED Abs!vars
  <2>1. /\ Nodes' = Nodes /\ key' = key
        /\ pc = "remove_color" /\ pc' \in {"remove_color", "reset"}
    BY <1>6, RemoveColorKeeps
  <2>2. RbScope' = RbScope
    BY <2>1 DEF RbScope
  <2> QED
    BY <2>1, <2>2, <1>2
<1>7. ASSUME ResetEnds PROVE Abs!Next
  <2>1. /\ Nodes' = Nodes /\ pc = "reset" /\ pc' = "idle"
        /\ key \notin Nodes /\ (key = NULL => Nodes = {})
    BY <1>7, ResetEndsKeeps
  <2>2. RbScope \intersect Nodes = {} /\ RbScope' = {}
    BY <2>1 DEF RbScope
  <2>3. RbAnswers' = RbAnswers
    BY <2>1, <1>1
  <2>4. Abs!ResetEnds
    BY <2>1, <2>2, <2>3 DEF Abs!ResetEnds, RbScope, RbAnswers
  <2> QED
    BY <2>4 DEF Abs!Next
<1>8. ASSUME UNCHANGED vars PROVE UNCHANGED Abs!vars
  <2>1. Nodes' = Nodes /\ RbScope' = RbScope
    BY <1>8 DEF vars, Nodes, RbScope
  <2> QED
    BY <2>1, <1>2
<1>9. CASE Next
  BY <1>9, <1>3, <1>4, <1>5, <1>6, <1>7 DEF Next
<1> QED
  BY <1>8, <1>9

\* Through every rotation the keys that were set and not reset, and no others, are found, and
\* the tree is gone through in their order, both ways; a reset takes them away one by one.
THEOREM SortedSetAlways ==
  Spec => ImplementsSortedSet
BY RbInvariant, AbstractInit, AbstractNext, PTL DEF Spec, ImplementsSortedSet, Abs!Spec

-----------------------------------------------------------------------------
(***************************************************************************)
(* Black heights, seen from the leaves.                                    *)
(***************************************************************************)

Blacks(m, z) == { x \in Path(z, m.parent) : IsBlack(m, x) }

\* What the records from z up count for; u counts for one more.
Deep(m, u, z) == Cardinality(Blacks(m, z)) + (IF u \in Path(z, m.parent) THEN 1 ELSE 0)

LEMMA PathUp ==
  ASSUME NEW m, NEW N, NEW lim, Tree(m, N, lim), NEW x \in N
  PROVE  /\ x = m.root => Path(x, m.parent) = {x}
         /\ x # m.root => /\ m.parent[x] \in N
                          /\ Path(x, m.parent) = {x} \union Path(m.parent[x], m.parent)
                          /\ x \notin Path(m.parent[x], m.parent)
<1>1. x \in Key /\ (m.parent[x] \in Key <=> x # m.root)
  BY TreeFacts
<1>2. Path(x, m.parent)
        = {x} \union (IF m.parent[x] \in Key THEN Path(m.parent[x], m.parent) ELSE {})
  BY <1>1, PathIs
<1>3. CASE x = m.root
  BY <1>1, <1>2, <1>3
<1>4. CASE x # m.root
  <2> DEFINE q == m.parent[x]
  <2>1. q \in N /\ \E s \in Sides : m[s][q] = x
    BY <1>4, TreeFacts
  <2>2. PICK s \in Sides : m[s][q] = x
    BY <2>1
  <2>3. x # NULL
    BY TreeFacts
  <2> HIDE DEF q
  <2>4. Span(lim, x) \subseteq Span(lim, q) /\ Span(lim, x) # Span(lim, q)
    <3>1. m[s][q] # NULL
      BY <2>2, <2>3
    <3>2. Span(lim, m[s][q]) \subseteq Span(lim, q) /\ Span(lim, m[s][q]) # Span(lim, q)
      BY <2>1, <3>1, ChildSpan
    <3> QED
      BY <3>2, <2>2
  <2>5. x \in Path(q, m.parent) => Span(lim, q) \subseteq Span(lim, x)
    BY <2>1, AboveFacts
  <2>6. x \notin Path(q, m.parent)
    BY <2>4, <2>5
  <2> QED
    BY <2>1, <2>6, <1>1, <1>2, <1>4 DEF q
<1> QED
  BY <1>3, <1>4

LEMMA BlacksFinite ==
  ASSUME NEW m, NEW N, NEW lim, Tree(m, N, lim), NEW x \in N
  PROVE  /\ Path(x, m.parent) \in SUBSET N
         /\ IsFiniteSet(Blacks(m, x)) /\ Cardinality(Blacks(m, x)) \in Nat
<1>1. Path(x, m.parent) \in SUBSET N
  BY AboveFacts
<1>2. N \in SUBSET Key
  BY TreeFacts
<1>3. Blacks(m, x) \subseteq Key
  BY <1>1, <1>2 DEF Blacks
<1>4. IsFiniteSet(Blacks(m, x))
  BY <1>3, KeysAssumption, FS_Subset
<1> QED
  BY <1>1, <1>4, FS_CardinalityType

LEMMA DeepIs ==
  ASSUME NEW m, NEW N, NEW lim, Tree(m, N, lim), NEW u, NEW x \in N
  PROVE  /\ Deep(m, u, x) \in Nat
         /\ x = m.root => Deep(m, u, x) = Count(m, u, x)
         /\ x # m.root => Deep(m, u, x) = Deep(m, u, m.parent[x]) + Count(m, u, x)
<1>1. Deep(m, u, x) \in Nat
  BY BlacksFinite DEF Deep
<1>2. x # NULL
  BY TreeFacts
<1>3. ASSUME x = m.root PROVE Deep(m, u, x) = Count(m, u, x)
  <2>1. Path(x, m.parent) = {x}
    BY <1>3, PathUp
  <2>2. Blacks(m, x) = IF m.color[x] = "black" THEN {x} ELSE {}
    BY <2>1, <1>2 DEF Blacks, IsBlack
  <2>3. Cardinality(Blacks(m, x)) = IF m.color[x] = "black" THEN 1 ELSE 0
    BY <2>2, FS_EmptySet, FS_Singleton
  <2>4. u \in Path(x, m.parent) <=> x = u
    BY <2>1
  <2> QED
    BY <2>3, <2>4 DEF Deep, Count
<1>4. ASSUME x # m.root PROVE Deep(m, u, x) = Deep(m, u, m.parent[x]) + Count(m, u, x)
  <2> DEFINE q == m.parent[x]
  <2>1. /\ q \in N /\ Path(x, m.parent) = {x} \union Path(q, m.parent)
        /\ x \notin Path(q, m.parent)
    BY <1>4, PathUp
  <2> HIDE DEF q
  <2>2. /\ IsFiniteSet(Blacks(m, q)) /\ Cardinality(Blacks(m, q)) \in Nat
        /\ x \notin Blacks(m, q)
    BY <2>1, BlacksFinite DEF Blacks
  <2>3. Blacks(m, x) = IF m.color[x] = "black" THEN Blacks(m, q) \union {x} ELSE Blacks(m, q)
    BY <2>1, <1>2 DEF Blacks, IsBlack
  <2>4. Cardinality(Blacks(m, x))
          = Cardinality(Blacks(m, q)) + (IF m.color[x] = "black" THEN 1 ELSE 0)
    <3>1. CASE m.color[x] = "black"
      <4>1. Blacks(m, x) = Blacks(m, q) \union {x}
        BY <2>3, <3>1
      <4>2. Cardinality(Blacks(m, q) \union {x}) = Cardinality(Blacks(m, q)) + 1
        BY <2>2, FS_AddElement
      <4> QED
        BY <3>1, <4>1, <4>2
    <3>2. CASE m.color[x] # "black"
      BY <2>2, <2>3, <3>2
    <3> QED
      BY <3>1, <3>2
  <2>5. (IF u \in Path(x, m.parent) THEN 1 ELSE 0)
          = (IF u \in Path(q, m.parent) THEN 1 ELSE 0) + (IF x = u THEN 1 ELSE 0)
    BY <2>1
  <2>6. Deep(m, u, x) = Deep(m, u, q) + Count(m, u, x)
    BY <2>2, <2>4, <2>5 DEF Deep, Count
  <2> QED
    BY <2>6 DEF q
<1> QED
  BY <1>1, <1>3, <1>4

\* From the root down to x and on there are as many black records as from the root on.
LEMMA DeepEven ==
  ASSUME NEW m, NEW N, NEW lim, Tree(m, N, lim), NEW h \in Heights, NEW u, NEW y,
         Even(m, N, h, u, y), NEW x \in N
  PROVE  Deep(m, u, x) + h[x] = h[m.root] + Count(m, u, x)
<1> DEFINE S == { z \in N : Deep(m, u, z) + h[z] # h[m.root] + Count(m, u, z) }
<1>1. Grounded(m.parent, N)
  BY AboveFacts
<1>2. ASSUME NEW z \in N, z = m.root \/ m.parent[z] \notin S PROVE z \notin S
  <2>1. CASE z = m.root
    <3>1. Deep(m, u, z) = Count(m, u, z) /\ Count(m, u, z) \in Nat /\ h[z] \in Nat
      <4>1. z \in Key
        BY TreeFacts
      <4> QED
        BY <2>1, <4>1, DeepIs, CountIs DEF Heights
    <3> QED
      BY <2>1, <3>1
  <2>2. CASE z # m.root
    <3> DEFINE q == m.parent[z]
    <3>1. q \in N /\ \E s \in Sides : m[s][q] = z
      BY <2>2, TreeFacts
    <3>2. PICK s \in Sides : m[s][q] = z
      BY <3>1
    <3>3. z # NULL /\ z \in Key /\ q \in Key /\ m.root \in Key
      BY <2>2, <3>1, TreeFacts
    <3>4. Deep(m, u, q) + h[q] = h[m.root] + Count(m, u, q)
      BY <2>2, <3>1, <1>2
    <3>5. Deep(m, u, z) = Deep(m, u, q) + Count(m, u, z)
      BY <2>2, DeepIs
    <3> HIDE DEF q
    <3>6. Below(m, h, y, q, s) + Count(m, u, q) = h[q]
      BY <3>1 DEF Even
    <3>7. h[z] + Count(m, u, q) = h[q]
      BY <3>2, <3>3, <3>6 DEF Below
    <3>8. /\ Count(m, u, q) \in Nat /\ Count(m, u, z) \in Nat /\ Deep(m, u, q) \in Nat
          /\ h[z] \in Nat /\ h[q] \in Nat /\ h[m.root] \in Nat
      BY <3>1, <3>3, DeepIs, CountIs DEF Heights
    <3>9. Deep(m, u, z) + h[z] = h[m.root] + Count(m, u, z)
      <4>1. \A dq, hq, hr, cq, dz, hz, cz \in Nat :
              dq + hq = hr + cq /\ dz = dq + cz /\ hz + cq = hq => dz + hz = hr + cz
        OBVIOUS
      <4>2. Deep(m, u, z) \in Nat
        BY <3>5, <3>8
      <4> QED
        BY <4>1, <4>2, <3>4, <3>5, <3>7, <3>8
    <3> QED
      BY <3>9
  <2> QED
    BY <2>1, <2>2
<1>3. S = {}
  <2> SUFFICES ASSUME S # {} PROVE FALSE
    OBVIOUS
  <2>1. S \in SUBSET N
    OBVIOUS
  <2>2. PICK z \in S : m.parent[z] \notin S
    BY <2>1, <1>1 DEF Grounded
  <2> QED
    BY <2>1, <2>2, <1>2
<1> QED
  BY <1>3

LEMMA LeafEven ==
  ASSUME NEW m, NEW N, NEW lim, Tree(m, N, lim), NEW h \in Heights, NEW u, NEW y,
         Even(m, N, h, u, y), NEW x \in N, NEW s \in Sides, m[s][x] = NULL
  PROVE  Deep(m, u, x) + (IF x = y THEN 1 ELSE 0) = h[m.root]
<1>1. Deep(m, u, x) + h[x] = h[m.root] + Count(m, u, x)
  BY DeepEven
<1>2. Below(m, h, y, x, s) + Count(m, u, x) = h[x]
  BY DEF Even
<1>3. (IF x = y THEN 1 ELSE 0) + Count(m, u, x) = h[x]
  BY <1>2 DEF Below
<1>4. /\ Deep(m, u, x) \in Nat /\ Count(m, u, x) \in Nat
      /\ x \in Key /\ m.root \in Key
  BY DeepIs, CountIs, TreeFacts
<1>5. h[x] \in Nat /\ h[m.root] \in Nat
  BY <1>4 DEF Heights
<1> QED
  BY <1>1, <1>3, <1>4, <1>5

\* The invariant in the form the property has.
LEMMA InvHeights ==
  RbInv => \E c : \A l \in Leaves : BlackHeight(l) = c
<1> SUFFICES ASSUME RbInv PROVE \E c : \A l \in Leaves : BlackHeight(l) = c
  OBVIOUS
<1> DEFINE u == IF pc = "remove_color" THEN elm ELSE NULL
           y == IF pc = "remove_color" THEN Gap(elm, parent) ELSE NULL
<1>1. Sound(t, Nodes, u, y)
  BY DEF RbInv, LoopAt
<1>2. PICK lim : Tree(t, Nodes, lim)
  BY <1>1, SoundColored
<1>3. PICK h \in Heights : Even(t, Nodes, h, u, y)
  BY <1>1 DEF Sound
<1>4. ASSUME NEW l \in Leaves PROVE BlackHeight(l) = h[t.root]
  <2>1. l[1] \in Nodes /\ l[2] \in Sides /\ t[l[2]][l[1]] = NULL
    BY DEF Leaves
  <2> DEFINE x == l[1]
             s == l[2]
  <2> HIDE DEF u, y
  <2>2. Deep(t, u, x) + (IF x = y THEN 1 ELSE 0) = h[t.root]
    BY <2>1, <1>2, <1>3, LeafEven
  <2>3. NULL \notin Nodes /\ Path(x, t.parent) \in SUBSET Nodes
    BY <2>1, <1>2, BlacksFinite, TreeFacts
  <2>4. Cardinality(Blacks(t, x)) \in Nat
    BY <2>1, <1>2, BlacksFinite
  <2>5. (IF u \in Path(x, t.parent) THEN 1 ELSE 0) + (IF x = y THEN 1 ELSE 0)
          = (IF BelowShort(l) THEN 1 ELSE 0)
    <3>1. CASE pc # "remove_color"
      BY <2>1, <2>3, <3>1 DEF BelowShort, u, y
    <3>2. CASE pc = "remove_color" /\ elm = NULL
      BY <2>1, <2>3, <3>2 DEF BelowShort, u, y, Gap
    <3>3. CASE pc = "remove_color" /\ elm # NULL
      BY <2>1, <2>3, <3>3 DEF BelowShort, u, y, Gap, Above
    <3> QED
      BY <3>1, <3>2, <3>3
  <2>6. BlackHeight(l) = Cardinality(Blacks(t, x)) + (IF BelowShort(l) THEN 1 ELSE 0)
    BY DEF BlackHeight, Blacks, Above
  <2> QED
    BY <2>2, <2>4, <2>5, <2>6 DEF Deep
<1> QED
  BY <1>4

LEMMA InvRedBlack ==
  RbInv => RedBlack
<1> SUFFICES ASSUME RbInv PROVE RedBlack
  OBVIOUS
<1>1. PICK lim : Tree(t, Nodes, lim)
  BY InvTree
<1>2. t.root # NULL => t.parent[t.root] = NULL
  BY <1>1, TreeLimits
<1>3. \A e \in Nodes, s \in Sides : t[s][e] # NULL => t.parent[t[s][e]] = e
  BY <1>1, TreeFacts
<1>4. ASSUME NEW e \in Nodes, RedRed(t, e)
      PROVE  e = elm \/ (pc = "remove_color" /\ t.parent[e] = elm)
  <2>1. e # NULL
    BY <1>1, TreeFacts
  <2> QED
    BY <2>1, <1>4 DEF RbInv, LoopAt, Reds
<1>5. Cardinality({ BlackHeight(l) : l \in Leaves }) <= 1
  <2>1. PICK c : \A l \in Leaves : BlackHeight(l) = c
    BY InvHeights
  <2>2. { BlackHeight(l) : l \in Leaves } = {} \/ { BlackHeight(l) : l \in Leaves } = {c}
    BY <2>1
  <2>3. Cardinality({}) = 0 /\ Cardinality({c}) = 1
    BY FS_EmptySet, FS_Singleton
  <2> QED
    BY <2>2, <2>3
<1> QED
  BY <1>2, <1>3, <1>4, <1>5 DEF RedBlack, RedRed

\* In every turn of the loops children and parents agree, no red record is where it must not
\* be but the one the loop is at, and every path down has the same number of black records.
THEOREM RedBlackAlways ==
  Spec => []RedBlack
BY RbInvariant, InvRedBlack, PTL

=============================================================================
