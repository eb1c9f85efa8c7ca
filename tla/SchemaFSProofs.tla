--------------------------- MODULE SchemaFSProofs ---------------------------
(***************************************************************************)
(* For every schema, heap, set of names, paths and handles: the type       *)
(* invariant, the shape of the tree (lists match parents, files are        *)
(* leaves, no cycle) and that the two assertions of schemafs.c hold.  Then *)
(* what holds when its clients behave: a name shows one entry, a link is   *)
(* visible exactly while it has a target, nothing fails, and the handlers  *)
(* implement the directory tree of DirTree.  Each of these theorems says   *)
(* what its clients do not do.                                             *)
(***************************************************************************)
EXTENDS SchemaFS, WellFoundedInduction, TLAPS

-----------------------------------------------------------------------------
(* Schema trees.                                                           *)

\* A schema node has one parent.
LEMMA SParentUnique ==
    ASSUME NEW s \in Schemas, NEW x \in SKidSet(s)
    PROVE  SParent(x) = s
<1>1. \A t \in Schemas : x \in SKidSet(t) => t = s
  BY SchemaAssumption DEF SKidSet
<1> QED BY <1>1 DEF SParent

\* Every node _fill() creates below the topmost is the child of a node that
\* is filled with its children; the topmost is not created again below.
LEMMA FillNodesTree ==
    ASSUME NEW s \in Schemas, NEW t \in Types
    PROVE  /\ s \in FillNodes(s, t)
           /\ FillNodes(s, t) \subseteq Schemas
           /\ \A y \in FillNodes(s, t) :
                 (IF y = s THEN t ELSE SType[y]) = "subdir" =>
                    SKidSet(y) \subseteq FillNodes(s, t)
           /\ \A y \in FillNodes(s, t) \ {s} :
                 /\ SParent(y) \in FillNodes(s, t)
                 /\ y \in SKidSet(SParent(y))
                 /\ (IF SParent(y) = s THEN t ELSE SType[SParent(y)]) = "subdir"
           /\ \A y \in FillNodes(s, t) : s \notin SKidSet(y)
<1> DEFINE E == Expansion[s]
           Opened == {z \in E : SType[z] = "subdir"}
<1>1. E \subseteq Schemas
  BY DEF Expansion
<1>2. \A y \in Schemas : SKidSet(y) \subseteq Schemas
  BY SchemaAssumption DEF SKidSet
<1>3. SKidSet(s) \subseteq E
  BY <1>2 DEF Expansion
<1>4. \A y \in Opened : SKidSet(y) \subseteq E
  BY <1>2 DEF Expansion
<1>5. \A x \in E : \E z \in {s} \cup Opened : x \in SKidSet(z)
  <2> DEFINE T == {x \in E : \E z \in {s} \cup Opened : x \in SKidSet(z)}
  <2>1. SKidSet(s) \subseteq T
    BY <1>3
  <2>2. \A y \in T : SType[y] = "subdir" => SKidSet(y) \subseteq T
    BY <1>4
  <2>3. T \in SUBSET Schemas
    BY <1>1
  <2>4. E \subseteq T
    <3> HIDE DEF T
    <3> QED BY <2>1, <2>2, <2>3 DEF Expansion
  <2> QED BY <2>4
<1>6. s \notin E
  <2> SUFFICES ASSUME s \in E PROVE FALSE
    OBVIOUS
  <2>1. PICK x \in E : \A y \in E : x \notin SKidSet(y)
    BY <1>1, SchemaAssumption
  <2> QED BY <1>5, <2>1
<1>7. \A y \in {s} \cup E : s \notin SKidSet(y)
  <2> SUFFICES ASSUME NEW y \in {s} \cup E, s \in SKidSet(y) PROVE FALSE
    OBVIOUS
  <2> DEFINE S == {s} \cup E
  <2>0. S \in SUBSET Schemas /\ S # {}
    BY <1>1
  <2>1. PICK x \in S : \A z \in S : x \notin SKidSet(z)
    <3> HIDE DEF S
    <3> QED BY <2>0, SchemaAssumption
  <2>2. x # s
    BY <2>1
  <2> QED BY <1>5, <2>1, <2>2
<1>8. CASE t = "subdir"
  <2>1. FillNodes(s, t) = {s} \cup E
    BY <1>8 DEF FillNodes
  <2>2. \A y \in E : SParent(y) \in {s} \cup Opened /\ y \in SKidSet(SParent(y))
    BY <1>1, <1>5, SParentUnique
  <2> QED BY <1>1, <1>3, <1>4, <1>6, <1>7, <1>8, <2>1, <2>2
<1>9. CASE t # "subdir"
  <2>1. FillNodes(s, t) = {s}
    BY <1>9 DEF FillNodes
  <2> QED BY <1>7, <1>9, <2>1
<1> QED BY <1>8, <1>9

-----------------------------------------------------------------------------
(* Sequences.                                                              *)

\* A function on 1 .. n is a sequence: the shape of a sibling list that lost
\* an element.
LEMMA FunctionIsSeq ==
    ASSUME NEW S, NEW n \in Nat, NEW f \in [1 .. n -> S]
    PROVE  f \in Seq(S) /\ Len(f) = n
OBVIOUS

\* Removing the one place of e leaves every other element, once.
LEMMA WithoutElement ==
    ASSUME NEW S, NEW q \in Seq(S), NEW k \in DOMAIN q,
           \A i, j \in DOMAIN q : q[i] = q[j] => i = j
    PROVE  LET w == Without(q, q[k])
           IN  /\ w \in Seq(S)
               /\ \A i, j \in DOMAIN w : w[i] = w[j] => i = j
               /\ \A i \in DOMAIN w : w[i] # q[k] /\ \E j \in DOMAIN q : w[i] = q[j]
               /\ \A j \in DOMAIN q : q[j] # q[k] => \E i \in DOMAIN w : w[i] = q[j]
<1> DEFINE w == Without(q, q[k])
<1>1. DOMAIN q = 1 .. Len(q) /\ Len(q) \in Nat /\ \A i \in DOMAIN q : q[i] \in S
  OBVIOUS
<1>2. (CHOOSE i \in DOMAIN q : q[i] = q[k]) = k
  OBVIOUS
<1>3. w = [j \in 1 .. Len(q) - 1 |-> IF j < k THEN q[j] ELSE q[j + 1]]
  BY <1>2 DEF Without
<1>4. Len(q) - 1 \in Nat /\ \A j \in 1 .. Len(q) - 1 : j \in DOMAIN q /\ j + 1 \in DOMAIN q
  BY <1>1
<1>5. w \in [1 .. Len(q) - 1 -> S]
  BY <1>1, <1>3, <1>4
<1>6. w \in Seq(S) /\ DOMAIN w = 1 .. Len(q) - 1
  BY <1>4, <1>5, FunctionIsSeq
<1>7. \A i \in DOMAIN w : w[i] = q[IF i < k THEN i ELSE i + 1]
  BY <1>3, <1>6
<1>8. \A i, j \in DOMAIN w : w[i] = w[j] => i = j
  <2> SUFFICES ASSUME NEW i \in DOMAIN w, NEW j \in DOMAIN w, w[i] = w[j]
               PROVE  i = j
    OBVIOUS
  <2> DEFINE up(x) == IF x < k THEN x ELSE x + 1
  <2>1. up(i) \in DOMAIN q /\ up(j) \in DOMAIN q /\ q[up(i)] = q[up(j)]
    BY <1>1, <1>6, <1>7
  <2>2. up(i) = up(j)
    BY <2>1
  <2> QED BY <1>1, <1>6, <2>2
<1>9. \A i \in DOMAIN w : w[i] # q[k] /\ \E j \in DOMAIN q : w[i] = q[j]
  <2> SUFFICES ASSUME NEW i \in DOMAIN w
               PROVE  w[i] # q[k] /\ \E j \in DOMAIN q : w[i] = q[j]
    OBVIOUS
  <2> DEFINE u == IF i < k THEN i ELSE i + 1
  <2>1. i \in DOMAIN q /\ i + 1 \in DOMAIN q /\ w[i] = q[u]
    BY <1>4, <1>6, <1>7
  <2>2. u \in DOMAIN q /\ u # k
    BY <1>1, <2>1
  <2> HIDE DEF u, w
  <2>3. q[u] # q[k]
    BY <2>2
  <2> QED BY <2>1, <2>2, <2>3
<1>10. ASSUME NEW j \in DOMAIN q, q[j] # q[k]
       PROVE  \E i \in DOMAIN w : w[i] = q[j]
  <2>1. CASE j < k
    BY <1>1, <1>6, <1>7, <2>1
  <2>2. CASE j > k
    <3>1. j - 1 \in DOMAIN w /\ ~(j - 1 < k) /\ (j - 1) + 1 = j
      BY <1>1, <1>6, <2>2
    <3> QED BY <1>7, <3>1
  <2> QED BY <1>1, <1>10, <2>1, <2>2
<1> QED BY <1>6, <1>8, <1>9, <1>10

-----------------------------------------------------------------------------
(* Filling.                                                                *)

\* Where malloc puts the cells of a filled subtree: one distinct free cell
\* for each schema node.
LEMMA Placement ==
    ASSUME NEW s \in Schemas, NEW t \in Types, NEW F \in SUBSET Ents,
           NEW m \in malloc(FillNodes(s, t), F)
    PROVE  /\ DOMAIN m = FillNodes(s, t)
           /\ \A y \in FillNodes(s, t) : m[y] \in F /\ NodeAt(m, m[y]) = y
           /\ \A y, z \in FillNodes(s, t) : m[y] = m[z] => y = z
           /\ Range(m) = {m[y] : y \in FillNodes(s, t)}
           /\ Range(m) \subseteq F
<1>1. m \in Injection(FillNodes(s, t), F)
  BY MallocAssumption
<1>2. m \in [FillNodes(s, t) -> F] /\ IsInjective(m)
  BY <1>1 DEF Injection
<1>3. \A y, z \in FillNodes(s, t) : m[y] = m[z] => y = z
  BY <1>2 DEF IsInjective
<1>4. \A y \in FillNodes(s, t) : NodeAt(m, m[y]) = y
  BY <1>2, <1>3 DEF NodeAt
<1> QED BY <1>2, <1>3, <1>4 DEF Range

\* What Fill does, cell by cell.
FillResult(m, s, t, n, d) ==
    /\ live' = live \cup Range(m)
    /\ \A y \in FillNodes(s, t) :
          /\ m[y] \in Ents
          /\ type'[m[y]] = IF y = s THEN t ELSE SType[y]
          /\ schema'[m[y]] = y
          /\ name'[m[y]] = IF y = s THEN n ELSE SName[y]
          /\ parent'[m[y]] = IF y = s THEN d ELSE m[SParent(y)]
          /\ kids'[m[y]] = IF (IF y = s THEN t ELSE SType[y]) = "subdir"
                           THEN [i \in DOMAIN SKids[y] |-> m[SKids[y][i]]]
                           ELSE << >>
          /\ data'[m[y]] = << >>
    /\ \A x \in Ents \ Range(m) :
          /\ type'[x] = type[x]
          /\ schema'[x] = schema[x]
          /\ name'[x] = name[x]
          /\ parent'[x] = parent[x]
          /\ kids'[x] = IF x = d THEN <<m[s]>> \o kids[x] ELSE kids[x]
          /\ data'[x] = data[x]
    /\ \A f \in {type', schema', name', parent', kids', data'} :
          f = [x \in Ents |-> f[x]]

\* What _fill() leaves in the new cells and in the directory they are pushed
\* onto, cell by cell.
LEMMA FillEffect ==
    ASSUME NEW s \in Schemas, NEW t \in Types, NEW n, NEW d,
           NEW m \in malloc(FillNodes(s, t), Ents \ live),
           Fill(m, s, t, n, d)
    PROVE  FillResult(m, s, t, n, d)
<1>1. /\ \A y \in FillNodes(s, t) : m[y] \in Ents \ live /\ NodeAt(m, m[y]) = y
      /\ \A y, z \in FillNodes(s, t) : m[y] = m[z] => y = z
      /\ Range(m) = {m[y] : y \in FillNodes(s, t)}
      /\ s \in FillNodes(s, t)
  BY Placement, FillNodesTree
<1>2. \A y \in FillNodes(s, t) : m[y] \in Range(m) /\ (m[y] = m[s] <=> y = s)
  BY <1>1
<1> DEFINE New(f, g) == [x \in Ents |-> IF x \in Range(m) THEN g[x] ELSE f[x]]
<1>3. /\ live' = live \cup Range(m)
      /\ type' = [x \in Ents |-> IF x \in Range(m)
                    THEN IF x = m[s] THEN t ELSE SType[NodeAt(m, x)]
                    ELSE type[x]]
      /\ schema' = [x \in Ents |-> IF x \in Range(m) THEN NodeAt(m, x) ELSE schema[x]]
      /\ name' = [x \in Ents |-> IF x \in Range(m)
                    THEN IF x = m[s] THEN n ELSE SName[NodeAt(m, x)]
                    ELSE name[x]]
      /\ parent' = [x \in Ents |-> IF x \in Range(m)
                    THEN IF x = m[s] THEN d ELSE m[SParent(NodeAt(m, x))]
                    ELSE parent[x]]
      /\ data' = [x \in Ents |-> IF x \in Range(m) THEN << >> ELSE data[x]]
  BY DEF Fill
<1>4. kids' = [x \in Ents |-> IF x \in Range(m)
                    THEN IF (IF x = m[s] THEN t ELSE SType[NodeAt(m, x)]) = "subdir"
                         THEN [i \in DOMAIN SKids[NodeAt(m, x)] |->
                                  m[SKids[NodeAt(m, x)][i]]]
                         ELSE << >>
                    ELSE [z \in Ents |-> IF z = d THEN <<m[s]>> \o kids[z]
                                         ELSE kids[z]][x]]
  BY DEF Fill
<1>5. ASSUME NEW y \in FillNodes(s, t)
      PROVE  /\ m[y] \in Ents
             /\ type'[m[y]] = IF y = s THEN t ELSE SType[y]
             /\ schema'[m[y]] = y
             /\ name'[m[y]] = IF y = s THEN n ELSE SName[y]
             /\ parent'[m[y]] = IF y = s THEN d ELSE m[SParent(y)]
             /\ data'[m[y]] = << >>
  BY <1>1, <1>2, <1>3
<1>6. ASSUME NEW y \in FillNodes(s, t)
      PROVE  kids'[m[y]] = IF (IF y = s THEN t ELSE SType[y]) = "subdir"
                           THEN [i \in DOMAIN SKids[y] |-> m[SKids[y][i]]]
                           ELSE << >>
  BY <1>1, <1>2, <1>4
<1>7. ASSUME NEW x \in Ents \ Range(m)
      PROVE  /\ type'[x] = type[x] /\ schema'[x] = schema[x]
             /\ name'[x] = name[x] /\ parent'[x] = parent[x]
             /\ data'[x] = data[x]
             /\ kids'[x] = IF x = d THEN <<m[s]>> \o kids[x] ELSE kids[x]
  BY <1>3, <1>4
<1>8. \A f \in {type', schema', name', parent', kids', data'} :
         f = [x \in Ents |-> f[x]]
  BY <1>3, <1>4
<1>9. live' = live \cup Range(m)
  BY <1>3
<1> QED BY <1>5, <1>6, <1>7, <1>8, <1>9 DEF FillResult

\* _fill() gives every field of every cell a value of its type.
LEMMA FillTypes ==
    ASSUME TypeOK, NEW s \in Schemas, NEW t \in Types, NEW n \in Names,
           NEW d \in Ents \cup {NULL},
           NEW m \in malloc(FillNodes(s, t), Ents \ live),
           Fill(m, s, t, n, d)
    PROVE  /\ live \subseteq live' /\ live' \subseteq Ents
           /\ name' \in [Ents -> Names]
           /\ type' \in [Ents -> Types]
           /\ schema' \in [Ents -> Schemas]
           /\ parent' \in [Ents -> Ents \cup {NULL}]
           /\ kids' \in [Ents -> Seq(Ents)]
           /\ data' \in [Ents -> Seq(Lines)]
<1>0. FillResult(m, s, t, n, d)
  BY FillEffect
<1>1. /\ Range(m) = {m[y] : y \in FillNodes(s, t)}
      /\ Range(m) \subseteq Ents \ live
      /\ \A y \in FillNodes(s, t) : m[y] \in Ents
  BY Placement
<1>2. /\ FillNodes(s, t) \subseteq Schemas
      /\ s \in FillNodes(s, t)
      /\ \A y \in FillNodes(s, t) \ {s} : SParent(y) \in FillNodes(s, t)
      /\ \A y \in FillNodes(s, t) :
            (IF y = s THEN t ELSE SType[y]) = "subdir" =>
                SKidSet(y) \subseteq FillNodes(s, t)
  BY FillNodesTree
<1>3. live' = live \cup Range(m)
  BY <1>0 DEF FillResult
<1>4. \A x \in Ents : x \in Range(m) => \E y \in FillNodes(s, t) : x = m[y]
  BY <1>1
<1>5. \A x \in Ents : name'[x] \in Names /\ type'[x] \in Types
                      /\ schema'[x] \in Schemas /\ data'[x] \in Seq(Lines)
  <2> TAKE x \in Ents
  <2>1. CASE x \in Range(m)
    <3>1. PICK y \in FillNodes(s, t) : x = m[y]
      BY <1>4, <2>1
    <3>2. /\ name'[x] = IF y = s THEN n ELSE SName[y]
          /\ type'[x] = IF y = s THEN t ELSE SType[y]
          /\ schema'[x] = y /\ data'[x] = << >>
      BY <3>1, <1>0 DEF FillResult
    <3> QED BY <1>2, <3>2, SchemaAssumption
  <2>2. CASE x \notin Range(m)
    <3>1. /\ name'[x] = name[x] /\ type'[x] = type[x]
          /\ schema'[x] = schema[x] /\ data'[x] = data[x]
      BY <2>2, <1>0 DEF FillResult
    <3> QED BY <3>1 DEF TypeOK
  <2> QED BY <2>1, <2>2
<1>6. \A x \in Ents : parent'[x] \in Ents \cup {NULL}
  <2> TAKE x \in Ents
  <2>1. CASE x \in Range(m)
    <3>1. PICK y \in FillNodes(s, t) : x = m[y]
      BY <1>4, <2>1
    <3>2. parent'[x] = IF y = s THEN d ELSE m[SParent(y)]
      BY <3>1, <1>0 DEF FillResult
    <3> QED BY <1>1, <1>2, <3>2
  <2>2. CASE x \notin Range(m)
    <3>1. parent'[x] = parent[x]
      BY <2>2, <1>0 DEF FillResult
    <3> QED BY <3>1 DEF TypeOK
  <2> QED BY <2>1, <2>2
<1>7. \A x \in Ents : kids'[x] \in Seq(Ents)
  <2> TAKE x \in Ents
  <2>1. CASE x \in Range(m)
    <3>1. PICK y \in FillNodes(s, t) : x = m[y]
      BY <1>4, <2>1
    <3>2. kids'[x] = IF (IF y = s THEN t ELSE SType[y]) = "subdir"
                     THEN [i \in DOMAIN SKids[y] |-> m[SKids[y][i]]]
                     ELSE << >>
      BY <3>1, <1>0 DEF FillResult
    <3>3. CASE (IF y = s THEN t ELSE SType[y]) = "subdir"
      <4>1. SKids[y] \in Seq(Schemas)
        BY <1>2, SchemaAssumption
      <4>2. \A i \in DOMAIN SKids[y] : m[SKids[y][i]] \in Ents
        BY <1>1, <1>2, <3>3 DEF SKidSet
      <4>3. DOMAIN SKids[y] = 1 .. Len(SKids[y]) /\ Len(SKids[y]) \in Nat
        BY <4>1
      <4>4. [i \in DOMAIN SKids[y] |-> m[SKids[y][i]]]
               \in [1 .. Len(SKids[y]) -> Ents]
        BY <4>2, <4>3
      <4>5. [i \in DOMAIN SKids[y] |-> m[SKids[y][i]]] \in Seq(Ents)
        BY <4>3, <4>4, FunctionIsSeq
      <4> QED BY <3>2, <3>3, <4>5
    <3> QED BY <3>2, <3>3
  <2>2. CASE x \notin Range(m)
    <3>1. kids'[x] = IF x = d THEN <<m[s]>> \o kids[x] ELSE kids[x]
      BY <2>2, <1>0 DEF FillResult
    <3>2. kids[x] \in Seq(Ents) /\ m[s] \in Ents
      BY <1>1, <1>2 DEF TypeOK
    <3> QED BY <3>1, <3>2
  <2> QED BY <2>1, <2>2
<1>8. /\ name' = [x \in Ents |-> name'[x]] /\ type' = [x \in Ents |-> type'[x]]
      /\ schema' = [x \in Ents |-> schema'[x]]
      /\ parent' = [x \in Ents |-> parent'[x]]
      /\ kids' = [x \in Ents |-> kids'[x]] /\ data' = [x \in Ents |-> data'[x]]
  BY <1>0 DEF FillResult
<1> QED BY <1>1, <1>3, <1>5, <1>6, <1>7, <1>8 DEF TypeOK

\* Hanging a filled subtree at the head of a directory's list, or filling the
\* root of an empty heap, keeps the tree a tree.
LEMMA FillTree ==
    ASSUME TypeOK, TreeInv, NEW s \in Schemas, NEW t \in Types, NEW n \in Names,
           NEW d \in Ents \cup {NULL},
           NEW m \in malloc(FillNodes(s, t), Ents \ live),
           Fill(m, s, t, n, d),
           \/ root # NULL /\ d \in live /\ IsDir(d) /\ root' = root
           \/ root = NULL /\ d = NULL /\ root' = m[s]
    PROVE  TreeInv'
<1> DEFINE P == FillNodes(s, t)
           T(y) == IF y = s THEN t ELSE SType[y]
<1>0. FillResult(m, s, t, n, d)
  BY FillEffect
<1>1. /\ live \subseteq Ents /\ live' \subseteq Ents
      /\ NULL \notin Ents
      /\ kids \in [Ents -> Seq(Ents)] /\ kids' \in [Ents -> Seq(Ents)]
      /\ parent \in [Ents -> Ents \cup {NULL}]
  BY FillTypes, ValueAssumption DEF TypeOK
<1>2. /\ P \subseteq Schemas /\ s \in P
      /\ \A y \in P : T(y) = "subdir" => SKidSet(y) \subseteq P
      /\ \A y \in P \ {s} : /\ SParent(y) \in P
                            /\ y \in SKidSet(SParent(y))
                            /\ T(SParent(y)) = "subdir"
      /\ \A y \in P : s \notin SKidSet(y)
  BY FillNodesTree
<1>3. /\ \A y \in P : m[y] \in Ents \ live
      /\ \A y, z \in P : m[y] = m[z] => y = z
      /\ Range(m) = {m[y] : y \in P}
  BY Placement
<1>4. /\ live' = live \cup {m[y] : y \in P}
      /\ \A y \in P :
            /\ type'[m[y]] = T(y)
            /\ parent'[m[y]] = IF y = s THEN d ELSE m[SParent(y)]
            /\ kids'[m[y]] = IF T(y) = "subdir"
                             THEN [i \in DOMAIN SKids[y] |-> m[SKids[y][i]]]
                             ELSE << >>
      /\ \A x \in live :
            /\ type'[x] = type[x] /\ parent'[x] = parent[x]
            /\ kids'[x] = IF x = d THEN <<m[s]>> \o kids[x] ELSE kids[x]
  <2>1. live' = live \cup {m[y] : y \in P}
    BY <1>0, <1>3 DEF FillResult
  <2>2. \A y \in P :
            /\ type'[m[y]] = T(y)
            /\ parent'[m[y]] = IF y = s THEN d ELSE m[SParent(y)]
            /\ kids'[m[y]] = IF T(y) = "subdir"
                             THEN [i \in DOMAIN SKids[y] |-> m[SKids[y][i]]]
                             ELSE << >>
    BY <1>0 DEF FillResult
  <2>3. \A x \in live : x \in Ents \ Range(m)
    BY <1>1, <1>3
  <2>4. \A x \in live :
            /\ type'[x] = type[x] /\ parent'[x] = parent[x]
            /\ kids'[x] = IF x = d THEN <<m[s]>> \o kids[x] ELSE kids[x]
    BY <1>0, <2>3 DEF FillResult
  <2> QED BY <2>1, <2>2, <2>4
<1> HIDE DEF P, T
<1>5. \A x \in live' : x \in live \/ \E y \in P : x = m[y]
  BY <1>4
<1>6. /\ \A e \in live : parent[e] # NULL => parent[e] \in live
      /\ d # NULL => root # NULL /\ d \in live
      /\ d = NULL => live = {}
  BY <1>1 DEF TreeInv, ListsMatchParents
\* Lists.
<1>7. ASSUME NEW x \in live
      PROVE  /\ \A i \in DOMAIN kids'[x] :
                   kids'[x][i] \in live' /\ parent'[kids'[x][i]] = x
             /\ \A i, j \in DOMAIN kids'[x] : kids'[x][i] = kids'[x][j] => i = j
             /\ \A i \in DOMAIN kids[x] : \E j \in DOMAIN kids'[x] :
                   kids'[x][j] = kids[x][i]
  <2>1. /\ \A i \in DOMAIN kids[x] : kids[x][i] \in live /\ parent[kids[x][i]] = x
        /\ \A i, j \in DOMAIN kids[x] : kids[x][i] = kids[x][j] => i = j
        /\ kids[x] \in Seq(Ents)
    BY <1>1 DEF TreeInv, ListsMatchParents
  <2>2. \A i \in DOMAIN kids[x] :
           kids[x][i] \in live' /\ parent'[kids[x][i]] = x /\ kids[x][i] # m[s]
    BY <1>2, <1>3, <1>4, <2>1
  <2>3. CASE x # d
    <3>1. kids'[x] = kids[x]
      BY <1>4, <2>3
    <3> QED BY <2>1, <2>2, <3>1
  <2>4. CASE x = d
    <3>1. kids'[x] = <<m[s]>> \o kids[x]
      BY <1>4, <2>4
    <3>2. m[s] \in Ents /\ m[s] \in live' /\ parent'[m[s]] = x
      BY <1>2, <1>3, <1>4, <2>4
    <3>3. /\ DOMAIN kids'[x] = 1 .. Len(kids[x]) + 1 /\ Len(kids[x]) \in Nat
          /\ DOMAIN kids[x] = 1 .. Len(kids[x])
          /\ kids'[x][1] = m[s]
          /\ \A i \in 2 .. Len(kids[x]) + 1 : kids'[x][i] = kids[x][i - 1]
      BY <2>1, <3>1, <3>2
    <3>4. \A i \in DOMAIN kids'[x] : i # 1 =>
              i - 1 \in DOMAIN kids[x] /\ kids'[x][i] = kids[x][i - 1]
      BY <3>3
    <3>5. \A i \in DOMAIN kids[x] : i + 1 \in DOMAIN kids'[x] /\ (i + 1) - 1 = i
                                    /\ i + 1 # 1
      BY <3>3
    <3>6. \A i \in DOMAIN kids'[x] :
             kids'[x][i] \in live' /\ parent'[kids'[x][i]] = x
      BY <2>2, <3>2, <3>3, <3>4
    <3>7. ASSUME NEW i \in DOMAIN kids'[x], NEW j \in DOMAIN kids'[x],
                 kids'[x][i] = kids'[x][j]
          PROVE  i = j
      <4>1. i = 1 <=> j = 1
        BY <2>2, <3>3, <3>4, <3>7
      <4>2. CASE i # 1
        <5>1. i - 1 = j - 1
          BY <2>1, <3>4, <3>7, <4>1, <4>2
        <5> QED BY <3>3, <5>1
      <4> QED BY <4>1, <4>2
    <3>8. \A i \in DOMAIN kids[x] : kids'[x][i + 1] = kids[x][i]
      BY <3>4, <3>5
    <3> QED BY <3>5, <3>6, <3>7, <3>8
  <2> QED BY <2>3, <2>4
<1>8. ASSUME NEW y \in P
      PROVE  /\ \A i \in DOMAIN kids'[m[y]] :
                   /\ kids'[m[y]][i] \in live'
                   /\ parent'[kids'[m[y]][i]] = m[y]
             /\ \A i, j \in DOMAIN kids'[m[y]] :
                   kids'[m[y]][i] = kids'[m[y]][j] => i = j
  <2>1. CASE T(y) = "subdir"
    <3>1. kids'[m[y]] = [i \in DOMAIN SKids[y] |-> m[SKids[y][i]]]
      BY <1>4, <2>1
    <3>2. \A i \in DOMAIN SKids[y] :
             /\ SKids[y][i] \in SKidSet(y) /\ SKids[y][i] \in P
             /\ SKids[y][i] # s
      BY <1>2, <2>1 DEF SKidSet
    <3>3. \A i \in DOMAIN SKids[y] : SParent(SKids[y][i]) = y
      BY <1>2, <3>2, SParentUnique
    <3>4. \A i, j \in DOMAIN SKids[y] : SKids[y][i] = SKids[y][j] => i = j
      BY <1>2, SchemaAssumption
    <3>5. ASSUME NEW i \in DOMAIN SKids[y]
          PROVE  m[SKids[y][i]] \in live' /\ parent'[m[SKids[y][i]]] = m[y]
      <4>1. SKids[y][i] \in P /\ SKids[y][i] # s
        BY <3>2
      <4>2. parent'[m[SKids[y][i]]] = m[SParent(SKids[y][i])]
        BY <1>4, <4>1
      <4> QED BY <1>4, <3>3, <4>1, <4>2
    <3>6. \A i, j \in DOMAIN SKids[y] : m[SKids[y][i]] = m[SKids[y][j]] => i = j
      BY <1>3, <3>2, <3>4
    <3> QED BY <3>1, <3>5, <3>6
  <2>2. CASE T(y) # "subdir"
    <3>1. kids'[m[y]] = << >>
      BY <1>4, <2>2
    <3> QED BY <3>1
  <2> QED BY <2>1, <2>2
<1>9. \A e \in live' \ {root'} : parent'[e] \in live' /\ Listed(e)'
  <2> TAKE e \in live' \ {root'}
  <2>1. CASE e \in live
    <3>1. root # NULL /\ root' = root /\ parent'[e] = parent[e]
      BY <1>4, <1>6, <2>1
    <3>2. parent[e] \in live /\ \E i \in DOMAIN kids[parent[e]] : kids[parent[e]][i] = e
      BY <2>1, <3>1 DEF TreeInv, ListsMatchParents, Listed, Kids
    <3>3. \E j \in DOMAIN kids'[parent[e]] : kids'[parent[e]][j] = e
      BY <1>7, <3>2
    <3> QED BY <1>4, <3>1, <3>2, <3>3 DEF Listed, Kids
  <2>2. CASE e = m[s] /\ e \notin live
    <3>1. d # NULL /\ d \in live /\ parent'[e] = d
      BY <1>2, <1>4, <1>6, <2>2
    <3>2. kids'[d] = <<m[s]>> \o kids[d] /\ kids[d] \in Seq(Ents) /\ m[s] \in Ents
      BY <1>1, <1>2, <1>3, <1>4, <3>1
    <3>3. 1 \in DOMAIN kids'[d] /\ kids'[d][1] = e
      BY <2>2, <3>2
    <3> QED BY <1>4, <3>1, <3>3 DEF Listed, Kids
  <2>3. CASE e \notin live /\ e # m[s]
    <3>1. PICK y \in P \ {s} : e = m[y]
      BY <1>5, <2>3
    <3>2. PICK i \in DOMAIN SKids[SParent(y)] : y = SKids[SParent(y)][i]
      BY <1>2 DEF SKidSet
    <3>3. /\ parent'[e] = m[SParent(y)] /\ SParent(y) \in P
          /\ kids'[m[SParent(y)]] =
                [k \in DOMAIN SKids[SParent(y)] |-> m[SKids[SParent(y)][k]]]
      BY <1>2, <1>4, <3>1
    <3>4. i \in DOMAIN kids'[parent'[e]] /\ kids'[parent'[e]][i] = e
      BY <3>1, <3>2, <3>3
    <3> QED BY <1>4, <3>3, <3>4 DEF Listed, Kids
  <2> QED BY <2>1, <2>2, <2>3
<1>10. root' # NULL /\ root' \in live' /\ parent'[root'] = NULL
  <2>1. CASE root # NULL
    <3>1. root' = root /\ root \in live /\ parent[root] = NULL
      BY <1>1, <1>6, <2>1 DEF TreeInv, ListsMatchParents
    <3> QED BY <1>4, <2>1, <3>1
  <2>2. CASE root = NULL
    <3>1. root' = m[s] /\ d = NULL
      BY <2>2
    <3>2. m[s] \in live' /\ parent'[m[s]] = d
      BY <1>2, <1>4
    <3>3. m[s] # NULL
      BY <1>2, <1>3, ValueAssumption
    <3> QED BY <3>1, <3>2, <3>3
  <2> QED BY <2>1, <2>2
<1>11. ListsMatchParents'
  <2>1. \A x \in live' : \A i \in DOMAIN kids'[x] :
            kids'[x][i] \in live' /\ parent'[kids'[x][i]] = x
    BY <1>5, <1>7, <1>8
  <2>2. \A x \in live' : \A i, j \in DOMAIN kids'[x] :
            kids'[x][i] = kids'[x][j] => i = j
    BY <1>5, <1>7, <1>8
  <2> QED BY <1>9, <1>10, <2>1, <2>2 DEF ListsMatchParents
<1>12. FilesAreLeaves'
  <2> SUFFICES ASSUME NEW e \in live', type'[e] \notin DirTypes
               PROVE  kids'[e] = << >>
    BY DEF FilesAreLeaves, IsDir
  <2>1. CASE e \in live
    <3>1. e # d /\ kids[e] = << >>
      BY <1>1, <1>4, <2>1 DEF TreeInv, FilesAreLeaves, IsDir
    <3> QED BY <1>4, <2>1, <3>1
  <2>2. CASE e \notin live
    <3>1. PICK y \in P : e = m[y]
      BY <1>5, <2>2
    <3>2. T(y) # "subdir"
      BY <1>4, <3>1 DEF DirTypes
    <3> QED BY <1>4, <3>1, <3>2
  <2> QED BY <2>1, <2>2
<1>13. NoCycle'
  <2> SUFFICES ASSUME NEW S \in SUBSET (Dirs' \ {root'}), S # {},
                      \A e \in S : parent'[e] \in S
               PROVE  FALSE
    BY DEF NoCycle
  <2>0. S \subseteq live' \ {root'} /\ \A e \in S : type'[e] \in DirTypes
    BY DEF Dirs, IsDir
  <2>1. CASE S \cap live # {}
    <3>0. root # NULL /\ root' = root
      BY <1>6, <2>1
    <3>1. S \cap live \in SUBSET (Dirs \ {root})
      BY <1>4, <2>0, <3>0 DEF Dirs, IsDir
    <3>2. PICK e \in S \cap live : parent[e] \notin S \cap live
      <4> DEFINE S1 == S \cap live
      <4>1. S1 \in SUBSET (Dirs \ {root}) /\ S1 # {}
        BY <2>1, <3>1
      <4> HIDE DEF S1
      <4>2. \E e \in S1 : parent[e] \notin S1
        BY <4>1 DEF TreeInv, NoCycle
      <4> QED BY <4>2 DEF S1
    <3>3. parent[e] \in live /\ parent'[e] = parent[e]
      BY <1>4, <2>0, <3>0, <3>2 DEF TreeInv, ListsMatchParents
    <3> QED BY <3>2, <3>3
  <2>2. CASE S \cap live = {}
    <3> DEFINE Y == {y \in P : m[y] \in S}
    <3>1. \A e \in S : \E y \in Y : e = m[y]
      BY <1>5, <2>0, <2>2
    <3>2. Y # {}
      BY <3>1
    <3>3. s \notin Y
      <4> SUFFICES ASSUME m[s] \in S PROVE FALSE
        OBVIOUS
      <4>1. parent'[m[s]] = d
        BY <1>2, <1>4
      <4> QED BY <1>1, <1>6, <2>0, <2>2, <4>1
    <3>4. \A y \in Y : SParent(y) \in Y /\ y \in SKidSet(SParent(y))
      <4> TAKE y \in Y
      <4>1. parent'[m[y]] = m[SParent(y)] /\ SParent(y) \in P
            /\ y \in SKidSet(SParent(y))
        BY <1>2, <1>4, <3>3
      <4> QED BY <4>1
    <3>5. Y \in SUBSET Schemas
      BY <1>2
    <3> HIDE DEF Y
    <3>6. PICK x \in Y : \A y \in Y : x \notin SKidSet(y)
      BY <3>2, <3>5, SchemaAssumption
    <3> QED BY <3>4, <3>6
  <2> QED BY <2>1, <2>2
<1> QED BY <1>11, <1>12, <1>13 DEF TreeInv

-----------------------------------------------------------------------------
(* Subtrees.                                                               *)

\* schemafs_free() descends to e and to every directory in a directory it
\* has descended to, and to no other.
LEMMA DirsBelowLeast ==
    ASSUME TreeInv, NEW e \in live, IsDir(e)
    PROVE  /\ DirsBelow(e) \subseteq Dirs
           /\ e \in DirsBelow(e)
           /\ \A d \in DirsBelow(e) : \A k \in Kids(d) \cap Dirs :
                 k \in DirsBelow(e)
           /\ \A T \in SUBSET Dirs :
                 /\ e \in T
                 /\ \A c \in T : Kids(c) \cap Dirs \subseteq T
                 => DirsBelow(e) \subseteq T
<1> DEFINE sub == [d \in Dirs |-> {k \in Kids(d) : IsDir(k)}]
           closed == {S \in SUBSET DOMAIN sub :
                         e \in S /\ \A c \in S : sub[c] \subseteq S}
<1>1. DirsBelow(e) = {d \in Dirs : \A S \in closed : d \in S}
  BY DEF DirsBelow
<1>2. e \in Dirs
  BY DEF Dirs
<1>3. \A S \in closed : S \subseteq Dirs /\ e \in S
                        /\ \A c \in S : {k \in Kids(c) : IsDir(k)} \subseteq S
  OBVIOUS
<1>4. \A d \in Dirs : \A k \in Kids(d) : IsDir(k) => k \in Dirs
  BY DEF TreeInv, ListsMatchParents, Kids, Dirs
<1>5. \A d \in DirsBelow(e) : \A k \in Kids(d) \cap Dirs : k \in DirsBelow(e)
  <2> SUFFICES ASSUME NEW d \in DirsBelow(e), NEW k \in Kids(d) \cap Dirs,
                      NEW S \in closed
               PROVE  k \in S
    BY <1>1
  <2>1. d \in S /\ IsDir(k)
    BY <1>1 DEF Dirs
  <2> QED BY <1>3, <2>1
<1>6. ASSUME NEW T \in SUBSET Dirs, e \in T,
             \A c \in T : Kids(c) \cap Dirs \subseteq T
      PROVE  DirsBelow(e) \subseteq T
  <2>1. \A c \in T : {k \in Kids(c) : IsDir(k)} \subseteq T
    BY <1>4, <1>6
  <2>2. T \in closed
    BY <1>6, <2>1
  <2> QED BY <1>1, <2>2
<1>7. DirsBelow(e) \subseteq Dirs /\ e \in DirsBelow(e)
  BY <1>1, <1>2, <1>3
<1> QED BY <1>5, <1>6, <1>7

\* The subtree of e: closed under children, every member but e has its parent
\* in it, and neither the root nor the parent of e is in it.
LEMMA SubtreeFacts ==
    ASSUME TypeOK, TreeInv, NEW e \in live, e # root
    PROVE  /\ e \in Subtree(e)
           /\ Subtree(e) \subseteq live
           /\ root \notin Subtree(e)
           /\ parent[e] \in live \ Subtree(e)
           /\ \A x \in live : parent[x] \in Subtree(e) => x \in Subtree(e)
           /\ \A x \in Subtree(e) \ {e} : parent[x] \in Subtree(e)
<1> DEFINE D == DirsBelow(e)
<1>1. /\ \A d \in live : \A k \in Kids(d) : k \in live /\ parent[k] = d
      /\ \A x \in live \ {root} : parent[x] \in live /\ x \in Kids(parent[x])
      /\ root \in live /\ parent[root] = NULL
      /\ \A x \in live : ~IsDir(x) => Kids(x) = {}
      /\ NULL \notin live
  <2>1. NULL \notin live /\ live \subseteq Ents
    BY ValueAssumption DEF TypeOK
  <2>2. \A x \in live : ~IsDir(x) => Kids(x) = {}
    BY DEF TreeInv, FilesAreLeaves, Kids
  <2>3. \A d \in live : \A k \in Kids(d) : k \in live /\ parent[k] = d
    BY DEF TreeInv, ListsMatchParents, Kids
  <2> QED BY <2>1, <2>2, <2>3 DEF TreeInv, ListsMatchParents, Listed
<1>2. \A x \in live : x # root => parent[x] \in Dirs
  BY <1>1 DEF Dirs
<1>3. Subtree(e) = {e} \cup UNION {Kids(d) : d \in D}
  BY DEF Subtree
<1>4. CASE ~IsDir(e)
  <2>1. D = {}
    BY <1>4 DEF DirsBelow
  <2>2. Subtree(e) = {e}
    BY <1>3, <2>1
  <2>3. \A x \in live : parent[x] # e
    BY <1>1, <1>4
  <2>4. parent[e] \in live /\ parent[e] # e
    BY <1>1, <2>3
  <2> QED BY <2>2, <2>3, <2>4
<1>5. CASE IsDir(e)
  <2>1. /\ D \subseteq Dirs /\ e \in D
        /\ \A d \in D : \A k \in Kids(d) \cap Dirs : k \in D
        /\ \A T \in SUBSET Dirs :
                 /\ e \in T
                 /\ \A c \in T : Kids(c) \cap Dirs \subseteq T
                 => D \subseteq T
    BY <1>5, DirsBelowLeast
  <2> HIDE DEF D
  <2>2. D \subseteq live
    BY <2>1 DEF Dirs
  <2>3. \A d \in D : d = e \/ parent[d] \in D
    <3> DEFINE T == {d \in D : d = e \/ parent[d] \in D}
    <3>1. T \in SUBSET Dirs /\ e \in T
      BY <2>1
    <3>2. \A c \in T : Kids(c) \cap Dirs \subseteq T
      BY <1>1, <2>1, <2>2
    <3>3. D \subseteq T
      <4> HIDE DEF T
      <4> QED BY <2>1, <3>1, <3>2
    <3> QED BY <3>3
  <2>4. root \notin D
    BY <1>1, <2>2, <2>3
  <2>5. parent[e] \notin D
    <3> SUFFICES ASSUME parent[e] \in D PROVE FALSE
      OBVIOUS
    <3>1. D \in SUBSET (Dirs \ {root}) /\ D # {}
      BY <2>1, <2>4
    <3>2. PICK x \in D : parent[x] \notin D
      BY <3>1 DEF TreeInv, NoCycle
    <3> QED BY <2>3, <3>2
  <2>6. \A x \in Subtree(e) : x = e \/ (x \in live /\ parent[x] \in D)
    BY <1>1, <1>3, <2>2
  <2>7. \A x \in live : parent[x] \in D => x \in Subtree(e)
    <3> TAKE x \in live
    <3>1. parent[x] \in D => x # root
      BY <1>1, <2>2
    <3> QED BY <1>1, <1>3, <3>1
  <2>8. \A x \in Subtree(e) : IsDir(x) => x \in D
    BY <1>1, <1>3, <2>1, <2>2 DEF Dirs
  <2>9. \A x \in D : x \in Subtree(e)
    BY <1>3, <2>2, <2>3, <2>7
  <2>10. \A x \in live : parent[x] \in Subtree(e) => x \in Subtree(e)
    <3> SUFFICES ASSUME NEW x \in live, parent[x] \in Subtree(e)
                 PROVE  x \in Subtree(e)
      OBVIOUS
    <3>1. parent[x] \in live
      BY <2>6
    <3>2. x # root
      BY <1>1, <3>1
    <3>3. parent[x] \in D
      BY <1>2, <2>8, <3>2 DEF Dirs
    <3> QED BY <2>7, <3>3
  <2>11. Subtree(e) \subseteq live /\ e \in Subtree(e)
    BY <1>3, <2>6
  <2>12. root \notin Subtree(e)
    BY <1>1, <2>2, <2>6
  <2>13. parent[e] \in live \ Subtree(e)
    BY <1>1, <1>2, <2>5, <2>8 DEF Dirs
  <2>14. \A x \in Subtree(e) \ {e} : parent[x] \in Subtree(e)
    BY <2>6, <2>9
  <2> QED BY <2>10, <2>11, <2>12, <2>13, <2>14
<1> QED BY <1>4, <1>5

-----------------------------------------------------------------------------
(* Steps that leave the tree alone, remove a subtree, or move an entry.    *)

\* A handler that leaves parent, children and the types alone (open, write,
\* unlink, ...) leaves the tree a tree.
LEMMA TreeUnchanged ==
    ASSUME TreeInv, UNCHANGED <<root, tree>>
    PROVE  TreeInv'
BY DEF tree, TreeInv, ListsMatchParents, FilesAreLeaves, NoCycle, Dirs, IsDir,
       Listed, Kids

\* The list that loses e, in the terms of the invariant.
LEMMA UnlistEntry ==
    ASSUME TypeOK, TreeInv, NEW e \in live, e # root
    PROVE  LET w == Without(kids[parent[e]], e)
           IN  /\ w \in Seq(Ents)
               /\ \A i, j \in DOMAIN w : w[i] = w[j] => i = j
               /\ \A i \in DOMAIN w : w[i] # e /\ w[i] \in Kids(parent[e])
               /\ \A k \in Kids(parent[e]) : k # e => \E i \in DOMAIN w : w[i] = k
<1> DEFINE q == kids[parent[e]]
<1>1. parent[e] \in live /\ e \in Kids(parent[e]) /\ parent[e] \in Ents
  BY DEF TreeInv, ListsMatchParents, Listed, TypeOK
<1>2. q \in Seq(Ents) /\ \A i, j \in DOMAIN q : q[i] = q[j] => i = j
  BY <1>1 DEF TypeOK, TreeInv, ListsMatchParents
<1>3. PICK n \in DOMAIN q : q[n] = e
  BY <1>1 DEF Kids
<1>4. Kids(parent[e]) = {q[i] : i \in DOMAIN q}
  BY DEF Kids
<1> HIDE DEF q
<1>5. LET w == Without(q, e)
      IN  /\ w \in Seq(Ents)
          /\ \A i, j \in DOMAIN w : w[i] = w[j] => i = j
          /\ \A i \in DOMAIN w : w[i] # e /\ \E j \in DOMAIN q : w[i] = q[j]
          /\ \A j \in DOMAIN q : q[j] # e => \E i \in DOMAIN w : w[i] = q[j]
  BY <1>2, <1>3, WithoutElement
<1> DEFINE w == Without(q, e)
<1> HIDE DEF w
<1>6. /\ w \in Seq(Ents)
      /\ \A i, j \in DOMAIN w : w[i] = w[j] => i = j
      /\ \A i \in DOMAIN w : w[i] # e /\ \E j \in DOMAIN q : w[i] = q[j]
      /\ \A j \in DOMAIN q : q[j] # e => \E i \in DOMAIN w : w[i] = q[j]
  BY <1>5 DEF w
<1> QED BY <1>4, <1>6 DEF w, q

\* _rmdir: without the subtree of e, and with e out of its parent's list,
\* what is left is a tree.
LEMMA RmdirTree ==
    ASSUME TypeOK, TreeInv, NEW e \in live, DoRmdir(e)
    PROVE  TreeInv'
<1>1. CASE parent[e] = NULL \/ ~Listed(e)
  BY <1>1, TreeUnchanged DEF DoRmdir, Crash
<1>2. CASE parent[e] # NULL /\ Listed(e)
  <2> DEFINE gone == Subtree(e)
             par == parent[e]
             w == Without(kids[par], e)
  <2>0. e # root
    BY <1>2 DEF TreeInv, ListsMatchParents
  <2>1. /\ e \in gone /\ gone \subseteq live /\ root \notin gone
        /\ par \in live \ gone
        /\ \A x \in live : parent[x] \in gone => x \in gone
    BY <2>0, SubtreeFacts
  <2>2. /\ \A i, j \in DOMAIN w : w[i] = w[j] => i = j
        /\ \A i \in DOMAIN w : w[i] # e /\ w[i] \in Kids(par)
        /\ \A k \in Kids(par) : k # e => \E i \in DOMAIN w : w[i] = k
    BY <2>0, UnlistEntry
  <2>3. /\ live \subseteq Ents /\ root' = root
        /\ live' = live \ gone
        /\ \A x \in live' : /\ type'[x] = type[x] /\ parent'[x] = parent[x]
                            /\ kids'[x] = IF x = par THEN w ELSE kids[x]
    BY <1>2 DEF DoRmdir, Free, TypeOK
  <2> HIDE DEF gone, w, par
  <2>4. /\ root \in live /\ parent[root] = NULL
        /\ \A d \in live : \A i \in DOMAIN kids[d] :
              kids[d][i] \in live /\ parent[kids[d][i]] = d
        /\ \A d \in live : \A i, j \in DOMAIN kids[d] :
              kids[d][i] = kids[d][j] => i = j
        /\ \A x \in live \ {root} : parent[x] \in live /\ x \in Kids(parent[x])
        /\ par = parent[e]
    BY <2>1 DEF TreeInv, ListsMatchParents, Listed, par
  <2>4a. root # NULL
    BY <2>1, <2>4 DEF TreeInv, ListsMatchParents
  <2>5. ASSUME NEW d \in live', NEW i \in DOMAIN kids'[d]
        PROVE  kids'[d][i] \in live' /\ parent'[kids'[d][i]] = d
    <3>1. kids'[d][i] \in Kids(d) /\ kids'[d][i] # e
      <4>1. CASE d = par
        BY <2>2, <2>3, <2>5, <4>1
      <4>2. CASE d # par
        BY <2>3, <2>4, <2>5, <4>2 DEF Kids
      <4> QED BY <4>1, <4>2
    <3>2. kids'[d][i] \in live /\ parent[kids'[d][i]] = d /\ d \notin gone
      BY <2>3, <2>4, <3>1 DEF Kids
    <3>3. kids'[d][i] \notin gone
      <4>1. \A x \in gone : x = e \/ parent[x] \in gone
        BY <2>0, SubtreeFacts DEF gone
      <4> QED BY <3>1, <3>2, <4>1
    <3> QED BY <2>3, <3>2, <3>3
  <2>6. \A d \in live' : \A i, j \in DOMAIN kids'[d] :
              kids'[d][i] = kids'[d][j] => i = j
    BY <2>2, <2>3, <2>4
  <2>7. ASSUME NEW x \in live' \ {root'}
        PROVE  parent'[x] \in live' /\ Listed(x)'
    <3>1. x \in live /\ x # root /\ parent'[x] = parent[x] /\ x # e
      BY <2>1, <2>3
    <3>2. parent[x] \in live /\ parent[x] \notin gone /\ x \in Kids(parent[x])
      BY <2>1, <2>3, <2>4, <3>1
    <3>3. \E i \in DOMAIN kids'[parent[x]] : kids'[parent[x]][i] = x
      <4>1. CASE parent[x] = par
        BY <2>2, <2>3, <3>1, <3>2, <4>1
      <4>2. CASE parent[x] # par
        BY <2>3, <3>2, <4>2 DEF Kids
      <4> QED BY <4>1, <4>2
    <3> QED BY <2>3, <3>1, <3>2, <3>3 DEF Listed, Kids
  <2>8. ListsMatchParents'
    <3>1. root' # NULL /\ root' \in live' /\ parent'[root'] = NULL
      BY <2>1, <2>3, <2>4, <2>4a
    <3> QED BY <2>5, <2>6, <2>7, <3>1 DEF ListsMatchParents
  <2>9. FilesAreLeaves'
    <3> SUFFICES ASSUME NEW x \in live', type'[x] \notin DirTypes
                 PROVE  kids'[x] = << >>
      BY DEF FilesAreLeaves, IsDir
    <3>1. kids[x] = << >>
      BY <2>3 DEF TreeInv, FilesAreLeaves, IsDir
    <3>2. x # par
      <4>1. e \in Kids(par)
        BY <1>2 DEF Listed, par
      <4> QED BY <3>1, <4>1 DEF Kids
    <3> QED BY <2>3, <3>1, <3>2
  <2>10. NoCycle'
    <3> SUFFICES ASSUME NEW S \in SUBSET (Dirs' \ {root'}), S # {},
                        \A x \in S : parent'[x] \in S
                 PROVE  FALSE
      BY DEF NoCycle
    <3>1. S \in SUBSET (Dirs \ {root}) /\ \A x \in S : parent'[x] = parent[x]
      BY <2>3 DEF Dirs, IsDir
    <3> QED BY <3>1 DEF TreeInv, NoCycle
  <2> QED BY <2>8, <2>9, <2>10 DEF TreeInv
<1> QED BY <1>1, <1>2

\* Moving e under a directory that is not below e.
LEMMA RenameTree ==
    ASSUME TypeOK, TreeInv, NEW e \in live, NEW par \in live, NEW n,
           e # root, IsDir(par), par \notin Subtree(e),
           DoRename(e, par, n)
    PROVE  TreeInv'
<1> DEFINE w == Without(kids[parent[e]], e)
           left(x) == IF x = parent[e] THEN w ELSE kids[x]
<1>0. Listed(e) /\ parent[e] \in live
  BY DEF TreeInv, ListsMatchParents
<1>1. /\ w \in Seq(Ents)
      /\ \A i, j \in DOMAIN w : w[i] = w[j] => i = j
      /\ \A i \in DOMAIN w : w[i] # e /\ w[i] \in Kids(parent[e])
      /\ \A k \in Kids(parent[e]) : k # e => \E i \in DOMAIN w : w[i] = k
  BY UnlistEntry
<1>2. /\ live' = live /\ root' = root /\ type' = type
      /\ live \subseteq Ents
      /\ \A x \in live : kids'[x] = IF x = par THEN <<e>> \o left(x) ELSE left(x)
      /\ \A x \in live : parent'[x] = IF x = e THEN par ELSE parent[x]
      /\ kids \in [Ents -> Seq(Ents)]
  <2>1. /\ live' = live /\ root' = root /\ type' = type
        /\ parent' = [parent EXCEPT ![e] = par]
        /\ kids' = [x \in Ents |-> IF x = par THEN <<e>> \o left(x) ELSE left(x)]
    BY <1>0 DEF DoRename
  <2>2. live \subseteq Ents /\ kids \in [Ents -> Seq(Ents)]
        /\ parent \in [Ents -> Ents \cup {NULL}]
    BY DEF TypeOK
  <2> HIDE DEF left
  <2> QED BY <2>1, <2>2
<1> HIDE DEF w
<1>3. /\ root \in live /\ root # NULL /\ parent[root] = NULL
      /\ \A d \in live : \A k \in Kids(d) : k \in live /\ parent[k] = d
      /\ \A d \in live : \A i, j \in DOMAIN kids[d] :
            kids[d][i] = kids[d][j] => i = j
      /\ \A x \in live \ {root} : parent[x] \in live /\ x \in Kids(parent[x])
  BY DEF TreeInv, ListsMatchParents, Listed, Kids
\* The lists once e is out, before it is pushed.
<1>4. ASSUME NEW x \in live
      PROVE  /\ left(x) \in Seq(Ents)
             /\ \A i, j \in DOMAIN left(x) : left(x)[i] = left(x)[j] => i = j
             /\ \A i \in DOMAIN left(x) : left(x)[i] # e /\ left(x)[i] \in Kids(x)
             /\ \A k \in Kids(x) : k # e => \E i \in DOMAIN left(x) : left(x)[i] = k
  <2>1. CASE x = parent[e]
    BY <1>1, <2>1
  <2>2. CASE x # parent[e]
    <3>1. e \notin Kids(x)
      BY <1>3, <2>2
    <3> QED BY <1>2, <1>3, <2>2, <3>1 DEF Kids
  <2> QED BY <2>1, <2>2
<1> HIDE DEF left
<1>5. ASSUME NEW x \in live
      PROVE  /\ \A i, j \in DOMAIN kids'[x] : kids'[x][i] = kids'[x][j] => i = j
             /\ \A i \in DOMAIN kids'[x] :
                   IF kids'[x][i] = e THEN x = par ELSE kids'[x][i] \in Kids(x)
             /\ \A k \in Kids(x) : k # e => \E i \in DOMAIN kids'[x] : kids'[x][i] = k
             /\ x = par => \E i \in DOMAIN kids'[x] : kids'[x][i] = e
  <2>1. CASE x # par
    BY <1>2, <1>4, <2>1
  <2>2. CASE x = par
    <3> DEFINE q == left(x)
    <3>1. kids'[x] = <<e>> \o q /\ q \in Seq(Ents) /\ e \in Ents
      BY <1>2, <1>4, <2>2
    <3> HIDE DEF q
    <3>2. /\ DOMAIN kids'[x] = 1 .. Len(q) + 1 /\ Len(q) \in Nat
          /\ DOMAIN q = 1 .. Len(q)
          /\ kids'[x][1] = e
          /\ \A i \in 2 .. Len(q) + 1 : kids'[x][i] = q[i - 1]
      BY <3>1
    <3>3. /\ \A i, j \in DOMAIN q : q[i] = q[j] => i = j
          /\ \A i \in DOMAIN q : q[i] # e /\ q[i] \in Kids(x)
          /\ \A k \in Kids(x) : k # e => \E i \in DOMAIN q : q[i] = k
      BY <1>4 DEF q
    <3>4. \A i \in DOMAIN kids'[x] : i # 1 =>
              i - 1 \in DOMAIN q /\ kids'[x][i] = q[i - 1]
      BY <3>2
    <3>5. \A i \in DOMAIN q : i + 1 \in DOMAIN kids'[x] /\ kids'[x][i + 1] = q[i]
      BY <3>2
    <3>6. ASSUME NEW i \in DOMAIN kids'[x], NEW j \in DOMAIN kids'[x],
                 kids'[x][i] = kids'[x][j]
          PROVE  i = j
      <4>1. i = 1 <=> j = 1
        BY <3>2, <3>3, <3>4, <3>6
      <4>2. CASE i # 1
        <5>1. i - 1 = j - 1
          BY <3>3, <3>4, <3>6, <4>1, <4>2
        <5> QED BY <3>2, <5>1
      <4> QED BY <4>1, <4>2
    <3>7. \A i \in DOMAIN kids'[x] :
             IF kids'[x][i] = e THEN x = par ELSE kids'[x][i] \in Kids(x)
      BY <2>2, <3>2, <3>3, <3>4
    <3>8. \A k \in Kids(x) : k # e => \E i \in DOMAIN kids'[x] : kids'[x][i] = k
      BY <3>3, <3>5
    <3>9. 1 \in DOMAIN kids'[x] /\ kids'[x][1] = e
      BY <3>2
    <3> QED BY <3>6, <3>7, <3>8, <3>9
  <2> QED BY <2>1, <2>2
<1>6. ListsMatchParents'
  <2>1. \A d \in live' : \A i \in DOMAIN kids'[d] :
            kids'[d][i] \in live' /\ parent'[kids'[d][i]] = d
    <3> SUFFICES ASSUME NEW d \in live, NEW i \in DOMAIN kids'[d]
                 PROVE  kids'[d][i] \in live /\ parent'[kids'[d][i]] = d
      BY <1>2
    <3> DEFINE k == kids'[d][i]
    <3>1. IF k = e THEN d = par ELSE k \in Kids(d)
      BY <1>5
    <3> HIDE DEF k
    <3>2. k \in live /\ parent'[k] = d
      BY <1>2, <1>3, <3>1
    <3> QED BY <3>2 DEF k
  <2>2. \A x \in live' \ {root'} : parent'[x] \in live' /\ Listed(x)'
    <3> SUFFICES ASSUME NEW x \in live' \ {root'}
                 PROVE  parent'[x] \in live' /\
                        \E i \in DOMAIN kids'[parent'[x]] : kids'[parent'[x]][i] = x
      BY DEF Listed, Kids
    <3>1. CASE x = e
      <4>1. parent'[x] = par
        BY <1>2, <3>1
      <4>2. \E i \in DOMAIN kids'[par] : kids'[par][i] = x
        BY <1>5, <3>1
      <4>3. par \in live'
        BY <1>2
      <4> QED BY <4>1, <4>2, <4>3, Zenon
    <3>2. CASE x # e
      <4>1. parent'[x] = parent[x] /\ parent[x] \in live /\ x \in Kids(parent[x])
        BY <1>2, <1>3, <3>2
      <4>2. \E i \in DOMAIN kids'[parent[x]] : kids'[parent[x]][i] = x
        BY <1>5, <3>2, <4>1
      <4>3. parent[x] \in live'
        BY <1>2, <4>1
      <4> QED BY <4>1, <4>2, <4>3, Zenon
    <3> QED BY <3>1, <3>2
  <2>3. root' # NULL /\ root' \in live' /\ parent'[root'] = NULL
    BY <1>2, <1>3
  <2>4. \A d \in live' : \A i, j \in DOMAIN kids'[d] :
            kids'[d][i] = kids'[d][j] => i = j
    BY <1>2, <1>5
  <2> QED BY <2>1, <2>2, <2>3, <2>4 DEF ListsMatchParents
<1>7. FilesAreLeaves'
  <2> SUFFICES ASSUME NEW x \in live, type[x] \notin DirTypes
               PROVE  kids'[x] = << >>
    BY <1>2 DEF FilesAreLeaves, IsDir
  <2>1. x # par /\ kids[x] = << >>
    BY DEF TreeInv, FilesAreLeaves, IsDir
  <2>2. x # parent[e]
    BY <1>0, <2>1 DEF Listed, Kids
  <2> QED BY <1>2, <2>1, <2>2 DEF left
<1>8. NoCycle'
  <2> SUFFICES ASSUME NEW S \in SUBSET (Dirs' \ {root'}), S # {},
                      \A x \in S : parent'[x] \in S
               PROVE  FALSE
    BY DEF NoCycle
  <2> DEFINE S1 == S \ Subtree(e)
  <2>1. S \in SUBSET (Dirs \ {root}) /\ S \subseteq live
    BY <1>2 DEF Dirs, IsDir
  <2>2. \A x \in live : parent[x] \in Subtree(e) => x \in Subtree(e)
    BY SubtreeFacts
  <2>2a. e \in Subtree(e)
    BY SubtreeFacts
  <2>3. \A x \in S1 : parent[x] \in S1
    BY <1>2, <2>1, <2>2, <2>2a
  <2>4. S1 # {} \/ S1 = {}
    OBVIOUS
  <2>5. CASE S1 # {}
    <3>1. S1 \in SUBSET (Dirs \ {root})
      BY <2>1
    <3> HIDE DEF S1
    <3> QED BY <2>3, <2>5, <3>1 DEF TreeInv, NoCycle
  <2>6. CASE S1 = {}
    <3>1. e \notin S
      BY <1>2, <2>6
    <3>2. \A x \in S : parent[x] \in S
      BY <1>2, <2>1, <3>1
    <3> QED BY <2>1, <3>2 DEF TreeInv, NoCycle
  <2> QED BY <2>5, <2>6
<1> QED BY <1>6, <1>7, <1>8 DEF TreeInv

-----------------------------------------------------------------------------
(* The handlers.                                                           *)

\* What holds before and after every step.
IInv == TypeOK /\ TreeInv /\ AssertionsHold

\* The last component of a path a client uses is a name.
LEMMA PathName ==
    ASSUME NEW p \in Seq(Names), p # << >>
    PROVE  Last(p) \in Names
BY DEF Last

\* The hidden flags and link targets _fill() sets are of their types.
LEMMA FillFlags ==
    ASSUME TypeOK, NEW m,
           name' \in [Ents -> Names], type' \in [Ents -> Types]
    PROVE  /\ HiddenAfterFill(m) \in [Ents -> BOOLEAN]
           /\ LinkAfterFill(m) \in [Ents -> Targets \cup {NULL}]
BY DEF TypeOK, HiddenAfterFill, LinkAfterFill

\* An entry is never its own way out of the tree: every live entry but the
\* root is in its parent's list.
LEMMA ListedEntry ==
    ASSUME TypeOK, TreeInv, NEW e \in live
    PROVE  /\ root # NULL /\ root \in live
           /\ e # root => Listed(e)
           /\ e = root <=> parent[e] = NULL
BY ValueAssumption DEF TypeOK, TreeInv, ListsMatchParents

\* _mkdir keeps types and tree, whoever calls it: the kernel or a batch.
LEMMA MkdirStep ==
    ASSUME TypeOK, TreeInv, NEW d \in live, NEW n \in Names,
           MkdirRet(d, n) = "ok", DoMkdir(d, n),
           exec' \in Seq(Lines), walk' = walk, stale' \in BOOLEAN
    PROVE  TypeOK' /\ TreeInv' /\ fault' = fault
<1>1. PICK m \in malloc(FillNodes(schema[d], "subdir"), Ents \ live) :
          /\ Fill(m, schema[d], "subdir", n, d)
          /\ hidden' = HiddenAfterFill(m)
          /\ link' = LinkAfterFill(m)
  BY DEF DoMkdir, MkdirPlaces
<1>2. /\ d \in Ents \cup {NULL} /\ d \in Ents
      /\ schema[d] \in Schemas /\ "subdir" \in Types
      /\ IsDir(d) /\ root # NULL
      /\ UNCHANGED <<root, fh, fault>>
  BY ListedEntry DEF DoMkdir, MkdirRet, IsDir, DirTypes, Types, TypeOK
<1>3. /\ live \subseteq live' /\ live' \subseteq Ents
      /\ name' \in [Ents -> Names] /\ type' \in [Ents -> Types]
      /\ schema' \in [Ents -> Schemas]
      /\ parent' \in [Ents -> Ents \cup {NULL}]
      /\ kids' \in [Ents -> Seq(Ents)] /\ data' \in [Ents -> Seq(Lines)]
  BY <1>1, <1>2, FillTypes
<1>4. hidden' \in [Ents -> BOOLEAN] /\ link' \in [Ents -> Targets \cup {NULL}]
  BY <1>1, <1>3, FillFlags
<1>5. TreeInv'
  BY <1>1, <1>2, FillTree
<1>6. TypeOK'
  BY <1>2, <1>3, <1>4 DEF TypeOK
<1> QED BY <1>2, <1>5, <1>6

\* _rmdir keeps types and tree and its assertion holds, whoever calls it.
LEMMA RmdirStep ==
    ASSUME TypeOK, TreeInv, NEW e \in live, DoRmdir(e),
           exec' \in Seq(Lines), walk' = walk, stale' \in BOOLEAN
    PROVE  TypeOK' /\ TreeInv' /\ fault' \in {fault, "null"}
<1>1. TreeInv'
  BY RmdirTree
<1>2. CASE parent[e] = NULL
  BY <1>1, <1>2 DEF DoRmdir, Crash, TypeOK, tree, Faults
<1>3. CASE parent[e] # NULL
  <2> DEFINE gone == Subtree(e)
  <2>1. Listed(e) /\ e # root
    BY <1>3, ListedEntry
  <2>2. Free(gone) /\ UNCHANGED <<root, fault>>
        /\ kids' = [x \in Ents |->
                      IF x \in gone THEN << >>
                      ELSE IF x = parent[e] THEN Without(kids[x], e)
                      ELSE kids[x]]
    BY <1>3, <2>1 DEF DoRmdir
  <2> HIDE DEF gone
  <2>3. Without(kids[parent[e]], e) \in Seq(Ents)
    BY <2>1, UnlistEntry
  <2>4. kids' \in [Ents -> Seq(Ents)]
    BY <2>2, <2>3 DEF TypeOK
  <2>5. /\ SName[RootSchema] \in Names /\ RootSchema \in Schemas
        /\ "value" \in Types
    BY SchemaAssumption DEF Types
  <2>6. /\ live' \subseteq Ents
        /\ name' \in [Ents -> Names] /\ type' \in [Ents -> Types]
        /\ schema' \in [Ents -> Schemas]
        /\ parent' \in [Ents -> Ents \cup {NULL}]
        /\ hidden' \in [Ents -> BOOLEAN]
        /\ link' \in [Ents -> Targets \cup {NULL}]
        /\ data' \in [Ents -> Seq(Lines)]
    <3>1. live' \subseteq Ents
      BY <2>2 DEF Free, TypeOK
    <3>2. name' \in [Ents -> Names]
      BY <2>2, <2>5 DEF Free, TypeOK
    <3>3. type' \in [Ents -> Types] /\ schema' \in [Ents -> Schemas]
      BY <2>2, <2>5 DEF Free, TypeOK
    <3>4. parent' \in [Ents -> Ents \cup {NULL}]
      BY <2>2 DEF Free, TypeOK
    <3>5. hidden' \in [Ents -> BOOLEAN]
      BY <2>2 DEF Free, TypeOK
    <3>6. link' \in [Ents -> Targets \cup {NULL}]
      BY <2>2 DEF Free, TypeOK
    <3>7. data' \in [Ents -> Seq(Lines)]
      BY <2>2 DEF Free, TypeOK
    <3> QED BY <3>1, <3>2, <3>3, <3>4, <3>5, <3>6, <3>7
  <2>7. fh' \in [Handles -> live' \cup {NULL, Freed, FreedDir}]
    BY <2>2 DEF Free, TypeOK
  <2> QED BY <1>1, <2>2, <2>4, <2>6, <2>7 DEF TypeOK
<1> QED BY <1>2, <1>3

\* The parts of creating an entry from a pattern that do not depend on who
\* asks.
LEMMA PatternStep ==
    ASSUME TypeOK, TreeInv, NEW d \in live, NEW e \in live, NEW n \in Names,
           e = FnMatch(d, n), NEW m \in PatternPlaces(e),
           NewFromPattern(m, d, e, n), UNCHANGED root
    PROVE  /\ TreeInv'
           /\ live \subseteq live' /\ live' \subseteq Ents
           /\ name' \in [Ents -> Names] /\ type' \in [Ents -> Types]
           /\ schema' \in [Ents -> Schemas]
           /\ parent' \in [Ents -> Ents \cup {NULL}]
           /\ kids' \in [Ents -> Seq(Ents)] /\ data' \in [Ents -> Seq(Lines)]
           /\ hidden' \in [Ents -> BOOLEAN]
           /\ LinkAfterFill(m) \in [Ents -> Targets \cup {NULL}]
           /\ m[schema[e]] \in live'
<1>1. /\ schema[e] \in Schemas /\ type[e] \in Types
      /\ d \in Ents \cup {NULL} /\ root # NULL /\ e # NULL
  BY ListedEntry, ValueAssumption DEF TypeOK
<1>2. IsDir(d)
  <2>1. DOMAIN kids[d] # {}
    BY <1>1 DEF FnMatch, FirstKid
  <2> QED BY <2>1 DEF TreeInv, FilesAreLeaves
<1>3. /\ m \in malloc(FillNodes(schema[e], type[e]), Ents \ live)
      /\ Fill(m, schema[e], type[e], n, d)
      /\ hidden' = [HiddenAfterFill(m) EXCEPT ![m[schema[e]]] = FALSE]
  BY DEF PatternPlaces, NewFromPattern
<1>4. /\ live \subseteq live' /\ live' \subseteq Ents
      /\ name' \in [Ents -> Names] /\ type' \in [Ents -> Types]
      /\ schema' \in [Ents -> Schemas]
      /\ parent' \in [Ents -> Ents \cup {NULL}]
      /\ kids' \in [Ents -> Seq(Ents)] /\ data' \in [Ents -> Seq(Lines)]
  BY <1>1, <1>3, FillTypes
<1>5. TreeInv'
  BY <1>1, <1>2, <1>3, FillTree
<1>6. /\ HiddenAfterFill(m) \in [Ents -> BOOLEAN]
      /\ LinkAfterFill(m) \in [Ents -> Targets \cup {NULL}]
  BY <1>4, FillFlags
<1>7. m[schema[e]] \in live'
  <2>1. FillResult(m, schema[e], type[e], n, d)
    BY <1>1, <1>3, FillEffect
  <2>2. schema[e] \in FillNodes(schema[e], type[e])
    BY DEF FillNodes
  <2>3. m[schema[e]] \in Range(m)
    BY <1>1, <1>3, <2>2, Placement
  <2> QED BY <2>1, <2>3 DEF FillResult
<1> QED BY <1>3, <1>4, <1>5, <1>6, <1>7

\* raw->set leaves lines in the file, whatever was laid over what.
LEMMA OverlayType ==
    ASSUME NEW old \in Seq(Lines), NEW new \in Seq(Lines), NEW o \in 0 .. Len(old)
    PROVE  Overlay(old, new, o) \in Seq(Lines)
<1> DEFINE n == IF o + Len(new) > Len(old) THEN o + Len(new) ELSE Len(old)
<1>1. n \in Nat /\ Len(old) \in Nat /\ Len(new) \in Nat /\ o \in Nat
  OBVIOUS
<1>2. \A i \in 1 .. n : (IF i > o /\ i <= o + Len(new) THEN new[i - o] ELSE old[i])
                          \in Lines
  <2> TAKE i \in 1 .. n
  <2>1. CASE i > o /\ i <= o + Len(new)
    <3>1. i - o \in 1 .. Len(new)
      BY <1>1, <2>1
    <3> QED BY <2>1, <3>1
  <2>2. CASE ~(i > o /\ i <= o + Len(new))
    <3>1. i \in 1 .. Len(old)
      BY <1>1, <2>2
    <3> QED BY <2>2, <3>1
  <2> QED BY <2>1, <2>2
<1>3. Overlay(old, new, o) \in [1 .. n -> Lines]
  BY <1>2 DEF Overlay
<1> HIDE DEF n
<1> QED BY <1>1, <1>3, FunctionIsSeq

-----------------------------------------------------------------------------
(* The invariant is inductive.                                             *)

\* A walk that is at an entry has a request and a path to go.
LEMMA WalkAtEntry ==
    ASSUME TypeOK, walk.at \in live
    PROVE  walk \in [at : Ents, rest : Seq(Names), ask : Asks]
BY ValueAssumption DEF TypeOK, Walks, NoWalk

\* Before the mount there is nothing to get wrong.
LEMMA InitInv == Init => IInv
<1> SUFFICES ASSUME Init PROVE IInv
  OBVIOUS
<1>1. /\ SName[RootSchema] \in Names /\ RootSchema \in Schemas
      /\ "value" \in Types
  BY SchemaAssumption DEF Types
<1>2. TypeOK
  <2>1. << >> \in Seq(Ents) /\ << >> \in Seq(Lines)
    OBVIOUS
  <2>2. kids \in [Ents -> Seq(Ents)] /\ data \in [Ents -> Seq(Lines)]
        /\ exec \in Seq(Lines)
    BY <2>1 DEF Init, Blank
  <2>4. walk \in Walks
    BY DEF Init, Walks
  <2>3. /\ name \in [Ents -> Names] /\ type \in [Ents -> Types]
        /\ schema \in [Ents -> Schemas]
        /\ parent \in [Ents -> Ents \cup {NULL}]
        /\ hidden \in [Ents -> BOOLEAN] /\ link \in [Ents -> Targets \cup {NULL}]
    BY <1>1 DEF Init, Blank
  <2> QED BY <2>2, <2>3, <2>4 DEF Init, TypeOK, Faults
<1>3. TreeInv
  BY DEF Init, TreeInv, ListsMatchParents, FilesAreLeaves, NoCycle, Dirs
<1>4. AssertionsHold
  BY DEF Init, AssertionsHold
<1> QED BY <1>2, <1>3, <1>4 DEF IInv

\* _init() builds the first tree from the schema.
LEMMA MountInv == IInv /\ Mount => IInv'
<1> SUFFICES ASSUME IInv, Mount PROVE IInv'
  OBVIOUS
<1>1. live = {} /\ Ents \ live = Ents
  BY DEF Mount, IInv, TreeInv, ListsMatchParents
<1>2. /\ RootSchema \in Schemas /\ "subdir" \in Types
      /\ SName[RootSchema] \in Names /\ NULL \in Ents \cup {NULL}
  BY SchemaAssumption DEF Types
<1>3. PICK m \in malloc(FillNodes(RootSchema, "subdir"), Ents \ live) :
          /\ root' = m[RootSchema]
          /\ Fill(m, RootSchema, "subdir", SName[RootSchema], NULL)
          /\ hidden' = HiddenAfterFill(m)
          /\ link' = LinkAfterFill(m)
  BY <1>1 DEF Mount
<1>4. TypeOK /\ TreeInv /\ root = NULL /\ UNCHANGED <<fh, exec, walk, fault, stale>>
  BY DEF IInv, Mount
<1>5. /\ live \subseteq live' /\ live' \subseteq Ents
      /\ name' \in [Ents -> Names] /\ type' \in [Ents -> Types]
      /\ schema' \in [Ents -> Schemas]
      /\ parent' \in [Ents -> Ents \cup {NULL}]
      /\ kids' \in [Ents -> Seq(Ents)] /\ data' \in [Ents -> Seq(Lines)]
  BY <1>2, <1>3, <1>4, FillTypes
<1>6. hidden' \in [Ents -> BOOLEAN] /\ link' \in [Ents -> Targets \cup {NULL}]
  BY <1>3, <1>4, <1>5, FillFlags
<1>7. TreeInv'
  BY <1>2, <1>3, <1>4, FillTree
<1>8. root' \in Ents
  <2>1. RootSchema \in FillNodes(RootSchema, "subdir")
    BY DEF FillNodes
  <2> QED BY <1>2, <1>3, <2>1, Placement
<1>9. TypeOK'
  BY <1>4, <1>5, <1>6, <1>8 DEF TypeOK
<1> QED BY <1>4, <1>7, <1>9 DEF IInv, AssertionsHold

\* A dead process leaves no tree.
LEMMA DieInv == IInv /\ Die => IInv'
<1> SUFFICES ASSUME Die PROVE IInv'
  OBVIOUS
<1>1. /\ SName[RootSchema] \in Names /\ RootSchema \in Schemas
      /\ "value" \in Types
  BY SchemaAssumption DEF Types
<1>2. TypeOK'
  <2>1. << >> \in Seq(Ents) /\ << >> \in Seq(Lines)
    OBVIOUS
  <2>2. kids' \in [Ents -> Seq(Ents)] /\ data' \in [Ents -> Seq(Lines)]
        /\ exec' \in Seq(Lines)
    BY <2>1 DEF Die, Blank
  <2>4. walk' \in Walks
    BY DEF Die, Walks
  <2>3. /\ name' \in [Ents -> Names] /\ type' \in [Ents -> Types]
        /\ schema' \in [Ents -> Schemas]
        /\ parent' \in [Ents -> Ents \cup {NULL}]
        /\ hidden' \in [Ents -> BOOLEAN] /\ link' \in [Ents -> Targets \cup {NULL}]
    BY <1>1 DEF Die, Blank
  <2> QED BY <2>2, <2>3, <2>4 DEF Die, TypeOK, Faults
<1>3. TreeInv'
  BY DEF Die, TreeInv, ListsMatchParents, FilesAreLeaves, NoCycle, Dirs
<1>4. AssertionsHold'
  BY DEF Die, AssertionsHold
<1> QED BY <1>2, <1>3, <1>4 DEF IInv

\* A client's mkdir keeps the invariant.
LEMMA MkdirInv ==
    ASSUME IInv, NEW p \in Paths, Mkdir(p) PROVE IInv'
<1>1. p \in Seq(Names) /\ p # << >>
  BY ValueAssumption DEF Mkdir, Absent
<1>2. PICK d \in live : MkdirRet(d, Last(p)) = "ok" /\ DoMkdir(d, Last(p))
  BY DEF Mkdir
<1>3. TypeOK /\ TreeInv /\ exec' \in Seq(Lines) /\ walk' = walk /\ stale' \in BOOLEAN
  BY DEF IInv, TypeOK, Mkdir
<1>4. Last(p) \in Names
  BY <1>1, PathName
<1>5. TypeOK' /\ TreeInv' /\ fault' = fault
  BY <1>2, <1>3, <1>4, MkdirStep
<1> QED BY <1>5 DEF IInv, AssertionsHold

\* A client's rmdir keeps the invariant.
LEMMA RmdirInv ==
    ASSUME IInv, NEW p \in Paths, Rmdir(p) PROVE IInv'
<1>1. PICK e \in live : DoRmdir(e)
  BY DEF Rmdir
<1>2. TypeOK /\ TreeInv /\ exec' \in Seq(Lines) /\ walk' = walk /\ stale' \in BOOLEAN
  BY DEF IInv, TypeOK, Rmdir
<1>3. TypeOK' /\ TreeInv' /\ fault' \in {fault, "null"}
  BY <1>1, <1>2, RmdirStep
<1> QED BY <1>3 DEF IInv, AssertionsHold

\* create keeps the invariant: from a pattern, and of a hidden file.
LEMMA CreateInv ==
    ASSUME IInv, NEW h \in Handles, NEW p \in Paths,
           CreateNew(h, p) \/ CreateHidden(h, p)
    PROVE  IInv'
<1>0. TypeOK /\ TreeInv /\ AssertionsHold
  BY DEF IInv
<1>1. CASE CreateNew(h, p)
  <2>1. Last(p) \in Names
    BY <1>1, ValueAssumption, PathName DEF CreateNew, Absent
  <2>2. PICK d \in live, e \in live : \E m \in PatternPlaces(e) :
            /\ e = FnMatch(d, Last(p))
            /\ NewFromPattern(m, d, e, Last(p))
            /\ link' = LinkAfterFill(m)
            /\ fh' = [fh EXCEPT ![h] =
                          IF type[e] \in {"link", "subdir", "object"}
                          THEN NULL ELSE m[schema[e]]]
    BY <1>1 DEF CreateNew
  <2>3. PICK m \in PatternPlaces(e) :
            /\ e = FnMatch(d, Last(p))
            /\ NewFromPattern(m, d, e, Last(p))
            /\ link' = LinkAfterFill(m)
            /\ fh' = [fh EXCEPT ![h] =
                          IF type[e] \in {"link", "subdir", "object"}
                          THEN NULL ELSE m[schema[e]]]
    BY <2>2
  <2>4. UNCHANGED <<root, exec, walk, fault, stale>>
    BY <1>1 DEF CreateNew
  <2>5. /\ TreeInv'
        /\ live \subseteq live' /\ live' \subseteq Ents
        /\ name' \in [Ents -> Names] /\ type' \in [Ents -> Types]
        /\ schema' \in [Ents -> Schemas]
        /\ parent' \in [Ents -> Ents \cup {NULL}]
        /\ kids' \in [Ents -> Seq(Ents)] /\ data' \in [Ents -> Seq(Lines)]
        /\ hidden' \in [Ents -> BOOLEAN]
        /\ LinkAfterFill(m) \in [Ents -> Targets \cup {NULL}]
        /\ m[schema[e]] \in live'
    BY <1>0, <2>1, <2>3, <2>4, PatternStep
  <2>6. fh' \in [Handles -> live' \cup {NULL, Freed, FreedDir}]
    BY <1>0, <2>3, <2>5 DEF TypeOK
  <2>7. TypeOK'
    BY <1>0, <2>3, <2>4, <2>5, <2>6 DEF TypeOK
  <2> QED BY <1>0, <2>4, <2>5, <2>7 DEF IInv, AssertionsHold
<1>2. CASE CreateHidden(h, p)
  <2>1. TreeInv'
    BY <1>0, <1>2, TreeUnchanged DEF CreateHidden
  <2>2. TypeOK'
    BY <1>0, <1>2 DEF CreateHidden, TypeOK, tree
  <2> QED BY <1>0, <1>2, <2>1, <2>2 DEF IInv, AssertionsHold, CreateHidden
<1> QED BY <1>1, <1>2

\* symlink keeps the invariant: from a pattern, and of a hidden link.
LEMMA SymlinkInv ==
    ASSUME IInv, NEW p \in Paths, NEW t \in Targets,
           SymlinkNew(p, t) \/ SymlinkHidden(p, t)
    PROVE  IInv'
<1>0. TypeOK /\ TreeInv /\ AssertionsHold
  BY DEF IInv
<1>1. CASE SymlinkNew(p, t)
  <2>1. Last(p) \in Names
    BY <1>1, ValueAssumption, PathName DEF SymlinkNew, Absent
  <2>2. PICK d \in live, e \in live : \E m \in PatternPlaces(e) :
            /\ e = FnMatch(d, Last(p))
            /\ NewFromPattern(m, d, e, Last(p))
            /\ link' = IF type[e] = "link"
                       THEN [LinkAfterFill(m) EXCEPT ![m[schema[e]]] = t]
                       ELSE LinkAfterFill(m)
    BY <1>1 DEF SymlinkNew
  <2>3. PICK m \in PatternPlaces(e) :
            /\ e = FnMatch(d, Last(p))
            /\ NewFromPattern(m, d, e, Last(p))
            /\ link' = IF type[e] = "link"
                       THEN [LinkAfterFill(m) EXCEPT ![m[schema[e]]] = t]
                       ELSE LinkAfterFill(m)
    BY <2>2
  <2>4. UNCHANGED <<root, fh, exec, walk, fault, stale>>
    BY <1>1 DEF SymlinkNew
  <2>5. /\ TreeInv'
        /\ live \subseteq live' /\ live' \subseteq Ents
        /\ name' \in [Ents -> Names] /\ type' \in [Ents -> Types]
        /\ schema' \in [Ents -> Schemas]
        /\ parent' \in [Ents -> Ents \cup {NULL}]
        /\ kids' \in [Ents -> Seq(Ents)] /\ data' \in [Ents -> Seq(Lines)]
        /\ hidden' \in [Ents -> BOOLEAN]
        /\ LinkAfterFill(m) \in [Ents -> Targets \cup {NULL}]
        /\ m[schema[e]] \in live'
    BY <1>0, <2>1, <2>3, <2>4, PatternStep
  <2>6. link' \in [Ents -> Targets \cup {NULL}]
    BY <2>3, <2>5
  <2>7. TypeOK'
    BY <1>0, <2>4, <2>5, <2>6 DEF TypeOK
  <2> QED BY <1>0, <2>4, <2>5, <2>7 DEF IInv, AssertionsHold
<1>2. CASE SymlinkHidden(p, t)
  <2>1. TreeInv'
    BY <1>0, <1>2, TreeUnchanged DEF SymlinkHidden
  <2>2. TypeOK'
    BY <1>0, <1>2 DEF SymlinkHidden, TypeOK, tree
  <2> QED BY <1>0, <1>2, <2>1, <2>2 DEF IInv, AssertionsHold, SymlinkHidden
<1> QED BY <1>1, <1>2

\* So does a walk that a pattern leads off its path.
LEMMA DetourInv ==
    ASSUME IInv, WalkDetour \/ \E p \in Paths, ask \in Asks : PatternOnWay(p, ask)
    PROVE  IInv'
<1>0. TypeOK /\ TreeInv /\ AssertionsHold
  BY DEF IInv
<1>1. PICK d \in live, e \in live, n \in Names, rest \in Seq(Names),
           ask \in Asks :
          e = FnMatch(d, n) /\ Detour(d, e, n, rest, ask)
  <2>1. CASE WalkDetour
    <3>1. walk.rest \in Seq(Names) /\ walk.rest # << >> /\ walk.at \in live
          /\ walk.ask \in Asks
      BY <1>0, <2>1, WalkAtEntry DEF WalkDetour, Walking
    <3>2. Head(walk.rest) \in Names /\ Tail(walk.rest) \in Seq(Names)
      BY <3>1
    <3> QED BY <2>1, <3>1, <3>2 DEF WalkDetour
  <2>2. CASE \E p \in Paths, ask \in Asks : PatternOnWay(p, ask)
    <3>1. PICK p \in Paths, ask \in Asks : PatternOnWay(p, ask)
      BY <2>2
    <3>2. PICK i \in 1 .. Len(p) - 1, d \in live, e \in live :
              /\ e = FnMatch(d, p[i])
              /\ Detour(d, e, p[i], SubSeq(p, i + 1, Len(p)), ask)
      BY <3>1 DEF PatternOnWay
    <3>3. p \in Seq(Names)
      BY ValueAssumption
    <3>4. p[i] \in Names /\ SubSeq(p, i + 1, Len(p)) \in Seq(Names)
      BY <3>3
    <3> QED BY <3>2, <3>4
  <2> QED BY <2>1, <2>2
<1>2. PICK m \in PatternPlaces(e) :
          /\ NewFromPattern(m, d, e, n)
          /\ link' = LinkAfterFill(m)
          /\ walk' = [at |-> m[schema[e]], rest |-> rest, ask |-> ask]
  BY <1>1 DEF Detour
<1>3. UNCHANGED <<root, fh, exec, fault, stale>>
  BY <1>1 DEF Detour
<1>4. /\ TreeInv'
      /\ live \subseteq live' /\ live' \subseteq Ents
      /\ name' \in [Ents -> Names] /\ type' \in [Ents -> Types]
      /\ schema' \in [Ents -> Schemas]
      /\ parent' \in [Ents -> Ents \cup {NULL}]
      /\ kids' \in [Ents -> Seq(Ents)] /\ data' \in [Ents -> Seq(Lines)]
      /\ hidden' \in [Ents -> BOOLEAN]
      /\ LinkAfterFill(m) \in [Ents -> Targets \cup {NULL}]
      /\ m[schema[e]] \in live'
  BY <1>0, <1>1, <1>2, <1>3, PatternStep
<1>5. walk' \in Walks
  BY <1>1, <1>2, <1>4 DEF Walks
<1>6. TypeOK'
  BY <1>0, <1>2, <1>3, <1>4, <1>5 DEF TypeOK
<1> QED BY <1>0, <1>3, <1>4, <1>6 DEF IInv, AssertionsHold

\* rename keeps the invariant, and its assertion holds.
LEMMA RenameInv ==
    ASSUME IInv, NEW p \in Paths, NEW q \in Paths, Rename(p, q) PROVE IInv'
<1>0. TypeOK /\ TreeInv /\ AssertionsHold
  BY DEF IInv
<1>1. Last(q) \in Names
  BY ValueAssumption, PathName DEF Rename
<1>2. PICK e \in live, par \in live :
          /\ e # root /\ IsDir(par) /\ par \notin Subtree(e)
          /\ DoRename(e, par, Last(q))
  BY DEF Rename, KernelMayRename
<1>3. TreeInv'
  BY <1>0, <1>2, RenameTree
<1>4. Listed(e)
  BY <1>0, <1>2, ListedEntry
<1> DEFINE w == Without(kids[parent[e]], e)
<1>5. /\ name' = [name EXCEPT ![e] = Last(q)]
      /\ parent' = [parent EXCEPT ![e] = par]
      /\ kids' = [x \in Ents |->
                    IF x = par
                    THEN <<e>> \o (IF x = parent[e] THEN w ELSE kids[x])
                    ELSE IF x = parent[e] THEN w ELSE kids[x]]
      /\ UNCHANGED <<root, live, type, schema, hidden, link, data, fh, fault>>
  BY <1>2, <1>4 DEF DoRename
<1>6. w \in Seq(Ents)
  BY <1>0, <1>2, UnlistEntry
<1> HIDE DEF w
<1>7. kids' \in [Ents -> Seq(Ents)]
  <2>1. \A x \in Ents : (IF x = parent[e] THEN w ELSE kids[x]) \in Seq(Ents)
    BY <1>0, <1>6 DEF TypeOK
  <2>2. e \in Ents
    BY <1>0, <1>2 DEF TypeOK
  <2>3. \A r \in Seq(Ents) : <<e>> \o r \in Seq(Ents)
    BY <2>2
  <2> QED BY <1>5, <2>1, <2>3
<1>8. name' \in [Ents -> Names] /\ parent' \in [Ents -> Ents \cup {NULL}]
  BY <1>0, <1>1, <1>2, <1>5 DEF TypeOK
<1>9. UNCHANGED <<exec, walk, stale>>
  BY DEF Rename
<1>10. TypeOK'
  BY <1>0, <1>5, <1>7, <1>8, <1>9 DEF TypeOK
<1> QED BY <1>0, <1>3, <1>5, <1>10 DEF IInv, AssertionsHold

\* Steps that leave the tree alone.
LEMMA QuietInv ==
    ASSUME IInv,
           \/ \E p \in Paths : Unlink(p)
           \/ \E p, q \in Paths : RenameStale(p, q)
           \/ StaleExpires
           \/ \E h \in Handles : \/ \E p \in Paths : Open(h, p)
                                 \/ Release(h) \/ CloseDir(h) \/ UseFreed(h)
           \/ CompoundOther
           \/ CompoundBad \/ CompoundAstray
           \/ WalkInto \/ WalkLost \/ WalkAstray
           \/ WalkCreates \/ WalkLinks \/ WalkRefused
           \/ UNCHANGED vars
    PROVE  IInv'
<1>0. TypeOK /\ TreeInv /\ AssertionsHold
  BY DEF IInv
<1>1. UNCHANGED <<root, tree>>
  BY DEF Unlink, RenameStale, StaleExpires, Open, Release, CloseDir, UseFreed,
         CompoundOther, CompoundBad, CompoundAstray, WalkInto, WalkLost, WalkAstray,
         WalkCreates, WalkLinks, WalkRefused, Crash, vars
<1>2. TreeInv'
  BY <1>0, <1>1, TreeUnchanged
<1>3. AssertionsHold'
  BY <1>0 DEF Unlink, RenameStale, StaleExpires, Open, Release, CloseDir,
              UseFreed, CompoundOther, CompoundBad, CompoundAstray, WalkInto,
              WalkLost, WalkAstray, WalkCreates, WalkLinks, WalkRefused, Crash, vars,
              AssertionsHold
<1>4. TypeOK'
  <2>1. ASSUME NEW p \in Paths, Unlink(p) PROVE TypeOK'
    BY <1>0, <2>1 DEF Unlink, TypeOK, tree
  <2>2. ASSUME NEW p \in Paths, NEW q \in Paths, RenameStale(p, q) PROVE TypeOK'
    BY <1>0, <2>2 DEF RenameStale, Crash, TypeOK, tree, Faults
  <2>3. ASSUME StaleExpires PROVE TypeOK'
    BY <1>0, <2>3 DEF StaleExpires, TypeOK, tree
  <2>4. ASSUME NEW h \in Handles, NEW p \in Paths, Open(h, p) PROVE TypeOK'
    BY <1>0, <2>4 DEF Open, TypeOK, tree
  <2>5. ASSUME NEW h \in Handles, Release(h) PROVE TypeOK'
    <3>1. exec' \in Seq(Lines)
      BY <1>0, <2>5 DEF Release, TypeOK
    <3> QED BY <1>0, <2>5, <3>1 DEF Release, TypeOK, tree
  <2>6. ASSUME NEW h \in Handles, CloseDir(h) PROVE TypeOK'
    BY <1>0, <2>6 DEF CloseDir, TypeOK, tree
  <2>7. ASSUME NEW h \in Handles, UseFreed(h) PROVE TypeOK'
    BY <1>0, <2>7 DEF UseFreed, Crash, TypeOK, tree, Faults
  <2>8. ASSUME CompoundOther PROVE TypeOK'
    <3>1. exec' \in Seq(Lines)
      BY <1>0, <2>8 DEF CompoundOther, LineIs, TypeOK
    <3> QED BY <1>0, <2>8, <3>1 DEF CompoundOther, TypeOK, tree
  <2>9. ASSUME UNCHANGED vars PROVE TypeOK'
    BY <1>0, <2>9 DEF vars, TypeOK, tree
  <2>10. ASSUME CompoundBad PROVE TypeOK'
    <3>1. exec' \in Seq(Lines)
      BY <1>0, <2>10 DEF CompoundBad, LineIs, TypeOK
    <3> QED BY <1>0, <2>10, <3>1 DEF CompoundBad, Crash, TypeOK, tree, Faults
  <2>11. ASSUME CompoundAstray PROVE TypeOK'
    <3>1. exec' \in Seq(Lines)
      BY <1>0, <2>11 DEF CompoundAstray, LineIs, TypeOK
    <3> QED BY <1>0, <2>11, <3>1 DEF CompoundAstray, Crash, TypeOK, tree, Faults
  <2>12. ASSUME WalkInto PROVE TypeOK'
    <3>1. PICK e \in live : walk' = [walk EXCEPT !.at = e, !.rest = Tail(@)]
      BY <2>12 DEF WalkInto
    <3>2. walk.rest \in Seq(Names) /\ walk.rest # << >>
          /\ walk \in [at : Ents, rest : Seq(Names), ask : Asks]
      BY <1>0, <2>12, WalkAtEntry DEF WalkInto, Walking
    <3>3. Tail(walk.rest) \in Seq(Names) /\ e \in Ents
      BY <1>0, <3>2 DEF TypeOK
    <3>4. walk' \in Walks
      BY <3>1, <3>2, <3>3 DEF Walks
    <3> QED BY <1>0, <2>12, <3>4 DEF WalkInto, TypeOK, tree
  <2>13. ASSUME WalkLost \/ WalkRefused PROVE TypeOK'
    <3>1. walk' \in Walks
      BY <2>13 DEF WalkLost, WalkRefused, WalkEnds, Walks
    <3> QED BY <1>0, <2>13, <3>1 DEF WalkLost, WalkRefused, TypeOK, tree
  <2>14. ASSUME WalkAstray PROVE TypeOK'
    BY <1>0, <2>14 DEF WalkAstray, Crash, TypeOK, tree, Faults
  <2>15. ASSUME WalkCreates \/ WalkLinks PROVE TypeOK'
    <3>1. walk' \in Walks
      BY <2>15 DEF WalkCreates, WalkLinks, WalkEnds, Walks
    <3>2. walk.at \in live
      BY <2>15 DEF WalkCreates, WalkLinks, WalkEnds, Walking
    <3>3. hidden' \in [Ents -> BOOLEAN]
      BY <1>0, <2>15 DEF WalkCreates, WalkLinks, TypeOK
    <3>4. fh' \in [Handles -> live' \cup {NULL, Freed, FreedDir}]
      BY <1>0, <2>15, <3>2 DEF WalkCreates, WalkLinks, TypeOK, tree
    <3>5. WalkLinks => walk.ask[2] \in Targets
      BY <1>0, <3>2, WalkAtEntry DEF WalkLinks, WalkEnds, Asks
    <3>6. link' \in [Ents -> Targets \cup {NULL}]
      BY <1>0, <2>15, <3>5 DEF WalkCreates, WalkLinks, TypeOK
    <3> QED BY <1>0, <2>15, <3>1, <3>3, <3>4, <3>6
            DEF WalkCreates, WalkLinks, TypeOK, tree
  <2> QED BY <2>1, <2>2, <2>3, <2>4, <2>5, <2>6, <2>7, <2>8, <2>9, <2>10, <2>11,
             <2>12, <2>13, <2>14, <2>15
<1> QED BY <1>2, <1>3, <1>4 DEF IInv

\* Whatever a write leaves in a file is a sequence of lines.
LEMMA SetOutcomesType ==
    ASSUME TypeOK, NEW e \in live, NEW b \in Seq(Lines),
           NEW o \in 0 .. Len(data[e]), NEW v \in SetOutcomes(e, b, o)
    PROVE  v \in Seq(Lines)
<1>1. data[e] \in Seq(Lines)
  BY DEF TypeOK
<1>2. Overlay(data[e], b, o) \in Seq(Lines)
  BY <1>1, OverlayType
<1> QED BY <1>1, <1>2 DEF SetOutcomes

\* write keeps the invariant.
LEMMA WriteInv ==
    ASSUME IInv, NEW h \in Handles, NEW b \in Bufs, NEW o \in 0 .. MaxLines,
           Write(h, b, o)
    PROVE  IInv'
<1>0. TypeOK /\ TreeInv /\ AssertionsHold /\ b \in Seq(Lines)
  BY ValueAssumption DEF IInv
<1>1. fh[h] \in live /\ data[fh[h]] \in Seq(Lines)
  BY <1>0 DEF Write, TypeOK
<1>2. o \in 0 .. Len(data[fh[h]])
  BY <1>1, ValueAssumption DEF Write
<1>3. data' \in [Ents -> Seq(Lines)]
  <2>1. PICK v \in SetOutcomes(fh[h], b, o) : data' = [data EXCEPT ![fh[h]] = v]
    BY DEF Write
  <2>2. v \in Seq(Lines)
    BY <1>0, <1>1, <1>2, SetOutcomesType
  <2> QED BY <1>0, <2>1, <2>2 DEF TypeOK
<1>4. UNCHANGED <<root, tree, hidden, link, fh, exec, walk, fault, stale>>
  BY DEF Write
<1>5. TypeOK'
  BY <1>0, <1>3, <1>4 DEF TypeOK, tree
<1> QED BY <1>0, <1>4, <1>5, TreeUnchanged DEF IInv, AssertionsHold

\* Each line of a batch keeps the invariant, although it reaches the
\* handlers past the checks of the kernel.
LEMMA CompoundInv ==
    ASSUME IInv, CompoundMkdir \/ CompoundRmdir \/ CompoundWrite
    PROVE  IInv'
<1> DEFINE c == Cmd[Head(exec)]
<1>0. TypeOK /\ TreeInv /\ AssertionsHold
  BY DEF IInv
<1>1. exec \in Seq(Lines) /\ exec # << >> /\ exec' = Tail(exec)
  BY <1>0 DEF CompoundMkdir, CompoundRmdir, CompoundWrite, LineIs, TypeOK
<1>2. Head(exec) \in Lines /\ exec' \in Seq(Lines)
  BY <1>1
<1>7. walk' = walk
  BY DEF CompoundMkdir, CompoundRmdir, CompoundWrite
<1>3. LinePath \in Seq(Names) /\ c.text \in Seq(Lines)
  BY <1>2, ValueAssumption DEF LinePath
<1>4. CASE CompoundMkdir
  <2> DEFINE d == IF LinePath = << >> THEN NULL ELSE Search(Front(LinePath))
  <2>1. stale' = stale /\ stale' \in BOOLEAN
    BY <1>0, <1>4 DEF CompoundMkdir, TypeOK
  <2>2. CASE /\ d \in live
             /\ MkdirRet(d, Last(LinePath)) = "ok"
             /\ MkdirPlaces(d) # {}
    <3>1. DoMkdir(d, Last(LinePath))
      BY <1>4, <2>2 DEF CompoundMkdir
    <3>2. LinePath # << >>
      BY <1>0, <2>2, ValueAssumption DEF TypeOK
    <3>3. Last(LinePath) \in Names
      BY <1>3, <3>2, PathName
    <3> HIDE DEF d
    <3>4. TypeOK' /\ TreeInv' /\ fault' = fault
      BY <1>0, <1>2, <1>7, <2>1, <2>2, <3>1, <3>3, MkdirStep
    <3> QED BY <1>0, <3>4 DEF IInv, AssertionsHold
  <2>3. CASE ~(/\ d \in live
               /\ MkdirRet(d, Last(LinePath)) = "ok"
               /\ MkdirPlaces(d) # {})
    <3>1. UNCHANGED <<root, tree, hidden, link, data, fh, fault>>
      BY <1>4, <2>3 DEF CompoundMkdir
    <3>2. TypeOK'
      BY <1>0, <1>2, <1>7, <2>1, <3>1 DEF TypeOK, tree
    <3> QED BY <1>0, <3>1, <3>2, TreeUnchanged DEF IInv, AssertionsHold
  <2> QED BY <2>2, <2>3
<1>5. CASE CompoundRmdir
  <2> DEFINE e == Search(LinePath)
  <2>1. CASE e \in live /\ RmdirRet(e) = "ok"
    <3>1. DoRmdir(e) /\ stale' = TRUE
      BY <1>5, <2>1 DEF CompoundRmdir
    <3> HIDE DEF e
    <3>2. TypeOK' /\ TreeInv' /\ fault' \in {fault, "null"}
      BY <1>0, <1>2, <1>7, <2>1, <3>1, RmdirStep
    <3> QED BY <1>0, <3>2 DEF IInv, AssertionsHold
  <2>2. CASE ~(e \in live /\ RmdirRet(e) = "ok")
    <3>1. UNCHANGED <<root, tree, hidden, link, data, fh, fault, stale>>
      BY <1>5, <2>2 DEF CompoundRmdir
    <3>2. TypeOK'
      BY <1>0, <1>2, <1>7, <3>1 DEF TypeOK, tree
    <3> QED BY <1>0, <3>1, <3>2, TreeUnchanged DEF IInv, AssertionsHold
  <2> QED BY <2>1, <2>2
<1>6. CASE CompoundWrite
  <2> DEFINE e == Search(LinePath)
  <2>1. UNCHANGED <<root, tree, hidden, link, fh, fault, stale>>
    BY <1>6 DEF CompoundWrite
  <2>2. data' \in [Ents -> Seq(Lines)]
    <3>1. CASE e \in live /\ Found(e) /\ SetOutcomes(e, c.text, 0) # {}
      <4>1. PICK v \in SetOutcomes(e, c.text, 0) : data' = [data EXCEPT ![e] = v]
        BY <1>6, <3>1 DEF CompoundWrite
      <4>2. 0 \in 0 .. Len(data[e])
        BY <1>0, <3>1 DEF TypeOK
      <4>3. v \in Seq(Lines)
        <5> HIDE DEF e, c
        <5> QED BY <1>0, <1>3, <3>1, <4>2, SetOutcomesType
      <4> QED BY <1>0, <3>1, <4>1, <4>3 DEF TypeOK
    <3>2. CASE ~(e \in live /\ Found(e) /\ SetOutcomes(e, c.text, 0) # {})
      BY <1>0, <1>6, <3>2 DEF CompoundWrite, TypeOK
    <3> QED BY <3>1, <3>2
  <2>3. TypeOK'
    BY <1>0, <1>2, <1>7, <2>1, <2>2 DEF TypeOK, tree
  <2> QED BY <1>0, <2>1, <2>3, TreeUnchanged DEF IInv, AssertionsHold
<1> QED BY <1>4, <1>5, <1>6

\* Every step of the filesystem keeps the invariant.
LEMMA NextInv == IInv /\ [Next]_vars => IInv'
<1> SUFFICES ASSUME IInv, [Next]_vars PROVE IInv'
  OBVIOUS
<1>1. ASSUME Mount PROVE IInv'
  BY <1>1, MountInv
<1>2. ASSUME Die PROVE IInv'
  BY <1>2, DieInv
<1>3. ASSUME NEW p \in Paths, Mkdir(p) PROVE IInv'
  BY <1>3, MkdirInv
<1>4. ASSUME NEW p \in Paths, Rmdir(p) PROVE IInv'
  BY <1>4, RmdirInv
<1>5. ASSUME NEW p \in Paths, NEW t \in Targets,
             SymlinkNew(p, t) \/ SymlinkHidden(p, t)
      PROVE  IInv'
  BY <1>5, SymlinkInv
<1>6. ASSUME NEW pq \in Moves, Rename(pq[1], pq[2]) PROVE IInv'
  <2>1. pq[1] \in Paths /\ pq[2] \in Paths
    BY ValueAssumption
  <2> QED BY <1>6, <2>1, RenameInv
<1>7. ASSUME NEW h \in Handles, NEW p \in Paths,
             CreateNew(h, p) \/ CreateHidden(h, p)
      PROVE  IInv'
  BY <1>7, CreateInv
<1>8. ASSUME NEW h \in Handles, NEW b \in Bufs, NEW o \in 0 .. MaxLines,
             Write(h, b, o)
      PROVE  IInv'
  BY <1>8, WriteInv
<1>9. ASSUME CompoundMkdir \/ CompoundRmdir \/ CompoundWrite PROVE IInv'
  BY <1>9, CompoundInv
<1>10. ASSUME \/ \E p \in Paths : Unlink(p)
              \/ \E p, q \in Paths : RenameStale(p, q)
              \/ StaleExpires
              \/ \E h \in Handles : \/ \E p \in Paths : Open(h, p)
                                    \/ Release(h) \/ CloseDir(h) \/ UseFreed(h)
              \/ CompoundOther
              \/ CompoundBad \/ CompoundAstray
              \/ WalkInto \/ WalkLost \/ WalkAstray
              \/ WalkCreates \/ WalkLinks \/ WalkRefused
              \/ UNCHANGED vars
       PROVE  IInv'
  BY <1>10, QuietInv
<1>11. ASSUME NEW pq \in Moves, RenameStale(pq[1], pq[2]) PROVE IInv'
  <2>1. pq[1] \in Paths /\ pq[2] \in Paths
    BY ValueAssumption
  <2> QED BY <1>10, <1>11, <2>1
<1>12. ASSUME WalkDetour \/ \E p \in Paths, ask \in Asks : PatternOnWay(p, ask)
       PROVE  IInv'
  BY <1>12, DetourInv
<1> QED BY <1>1, <1>2, <1>3, <1>4, <1>5, <1>6, <1>7, <1>8, <1>9, <1>10, <1>11, <1>12
        DEF Next

\* The invariant holds in every behaviour.
THEOREM Invariant == Spec => []IInv
<1> QED BY InitInv, NextInv, PTL DEF Spec

\* The heap, the handles and the batch being run keep their types; a handle
\* that is not marked freed points to an allocated entry.
THEOREM TypeCorrect == Spec => []TypeOK
<1>1. IInv => TypeOK
  BY DEF IInv
<1> QED BY <1>1, Invariant, PTL

\* The sibling lists and parent pointers of schemafs.c describe one tree
\* without cycles, under every interleaving of requests and batches.
THEOREM TreeShape == Spec => []TreeInv
<1>1. IInv => TreeInv
  BY DEF IInv
<1> QED BY <1>1, Invariant, PTL

\* The assertions at schemafs.c:424 and schemafs.c:572 never fail.
THEOREM AssertionsNeverFail == Spec => []AssertionsHold
<1>1. IInv => AssertionsHold
  BY DEF IInv
<1> QED BY <1>1, Invariant, PTL

\* Every entry that was hung into the tree can still be reached from the
\* root: no handler cuts one off, and freeing the root would free them all.
THEOREM NothingLost == Spec => []AllReachable
<1>1. IInv => AllReachable
  <2> SUFFICES ASSUME TypeOK, TreeInv, root # NULL PROVE Subtree(root) = live
    BY DEF IInv, AllReachable
  <2> DEFINE D == DirsBelow(root)
             S == Dirs \ D
  <2>1. /\ root \in live
        /\ \A d \in live : \A k \in Kids(d) : k \in live
        /\ \A x \in live \ {root} : parent[x] \in live /\ x \in Kids(parent[x])
        /\ \A x \in live : ~IsDir(x) => Kids(x) = {}
    BY DEF TreeInv, ListsMatchParents, FilesAreLeaves, Listed, Kids
  <2>2. CASE ~IsDir(root)
    <3>1. S = Dirs /\ D = {}
      BY <2>2 DEF DirsBelow
    <3>2. root \notin Dirs
      BY <2>2 DEF Dirs
    <3>3. Dirs = {}
      <4> SUFFICES ASSUME Dirs # {} PROVE FALSE
        OBVIOUS
      <4>1. Dirs \in SUBSET (Dirs \ {root})
        BY <3>2
      <4>2. PICK x \in Dirs : parent[x] \notin Dirs
        BY <4>1 DEF TreeInv, NoCycle
      <4> QED BY <2>1, <3>2, <4>2 DEF Dirs
    <3>4. \A x \in live : x = root
      BY <2>1, <3>3 DEF Dirs
    <3> QED BY <2>1, <3>1, <3>4 DEF Subtree
  <2>3. CASE IsDir(root)
    <3>1. /\ D \subseteq Dirs /\ root \in D
          /\ \A d \in D : \A k \in Kids(d) \cap Dirs : k \in D
      BY <2>1, <2>3, DirsBelowLeast
    <3> HIDE DEF D
    <3>2. S = {}
      <4> SUFFICES ASSUME S # {} PROVE FALSE
        OBVIOUS
      <4>1. S \in SUBSET (Dirs \ {root})
        BY <3>1
      <4>2. PICK x \in S : parent[x] \notin S
        BY <4>1 DEF TreeInv, NoCycle
      <4>3. parent[x] \in Dirs /\ x \in Kids(parent[x]) /\ x \in Dirs
        BY <2>1, <4>1, <4>2 DEF Dirs
      <4> QED BY <3>1, <4>2, <4>3
    <3>3. \A x \in live \ {root} : parent[x] \in D /\ x \in Kids(parent[x])
      BY <2>1, <3>2 DEF Dirs
    <3>4. D \subseteq live
      BY <3>1 DEF Dirs
    <3>5. Subtree(root) = {root} \cup UNION {Kids(d) : d \in D}
      BY DEF Subtree, D
    <3> QED BY <2>1, <3>3, <3>4, <3>5
  <2> QED BY <2>2, <2>3
<1> QED BY <1>1, Invariant, PTL

\* One step: an entry that goes away and is not a subdir goes with its
\* parent, for it was freed by the rmdir of a directory above it.
LEMMA StepRemovesSubdir ==
    ASSUME IInv, [Next]_vars, fault = "none",
           NEW x \in live, x \notin live', type[x] # "subdir"
    PROVE  parent[x] \notin live'
<1>0. TypeOK /\ TreeInv
  BY DEF IInv
<1>1. ASSUME NEW e \in live, DoRmdir(e), RmdirRet(e) = "ok"
      PROVE  parent[x] \notin live'
  <2>1. CASE parent[e] = NULL \/ ~Listed(e)
    BY <1>1, <2>1 DEF DoRmdir, Crash, tree
  <2>2. CASE parent[e] # NULL /\ Listed(e)
    <3>1. live' = live \ Subtree(e)
      BY <1>1, <2>2 DEF DoRmdir, Free
    <3>2. x \in Subtree(e) /\ x # e
      BY <1>1, <3>1 DEF RmdirRet
    <3>3. e # root
      BY <1>0, <2>2, ListedEntry
    <3>4. parent[x] \in Subtree(e)
      BY <1>0, <3>2, <3>3, SubtreeFacts
    <3> QED BY <3>1, <3>4
  <2> QED BY <2>1, <2>2
<1>2. ASSUME NEW m, NEW s, NEW t, NEW n, NEW d, Fill(m, s, t, n, d) PROVE FALSE
  BY <1>2 DEF Fill
<1>3. \A p \in Paths : ~Mkdir(p)
  BY <1>2 DEF Mkdir, DoMkdir
<1>4. \A p \in Paths, t \in Targets : ~SymlinkNew(p, t)
  BY <1>2 DEF SymlinkNew, NewFromPattern
<1>5. \A p \in Paths, h \in Handles : ~CreateNew(h, p)
  BY <1>2 DEF CreateNew, NewFromPattern
<1>13. ~WalkDetour /\ \A p \in Paths, ask \in Asks : ~PatternOnWay(p, ask)
  BY <1>2 DEF WalkDetour, PatternOnWay, Detour, NewFromPattern
<1>6. ~Mount
  BY <1>2 DEF Mount
<1>7. ~Die
  BY DEF Die
<1>8. ASSUME NEW p \in Paths, Rmdir(p) PROVE parent[x] \notin live'
  BY <1>1, <1>8 DEF Rmdir
<1>9. CASE CompoundRmdir
  <2> DEFINE e == Search(LinePath)
  <2>1. CASE e \in live /\ RmdirRet(e) = "ok"
    <3>1. DoRmdir(e)
      BY <1>9, <2>1 DEF CompoundRmdir
    <3> QED BY <1>1, <2>1, <3>1
  <2>2. CASE ~(e \in live /\ RmdirRet(e) = "ok")
    BY <1>9, <2>2 DEF CompoundRmdir, tree
  <2> QED BY <2>1, <2>2
<1>10. ~CompoundMkdir
  <2> SUFFICES ASSUME CompoundMkdir PROVE FALSE
    OBVIOUS
  <2> DEFINE d == IF LinePath = << >> THEN NULL ELSE Search(Front(LinePath))
  <2>1. DoMkdir(d, Last(LinePath)) \/ live' = live
    BY DEF CompoundMkdir, tree
  <2> QED BY <1>2, <2>1 DEF DoMkdir
<1>11. ASSUME NEW p \in Paths, NEW q \in Paths, Rename(p, q) PROVE live' = live
  BY <1>11 DEF Rename, DoRename, Crash, tree
<1>12. ASSUME NEW pq \in Moves, Rename(pq[1], pq[2]) PROVE live' = live
  <2>1. pq[1] \in Paths /\ pq[2] \in Paths
    BY ValueAssumption
  <2> QED BY <1>11, <1>12, <2>1
<1> QED
  <2>1. ASSUME NEW p \in Paths, Unlink(p) PROVE live' = live
    BY <2>1 DEF Unlink, tree
  <2>2. ASSUME NEW p \in Paths, NEW t \in Targets, SymlinkHidden(p, t)
        PROVE  live' = live
    BY <2>2 DEF SymlinkHidden, tree
  <2>3. ASSUME NEW p, NEW q, RenameStale(p, q) PROVE live' = live
    BY <2>3 DEF RenameStale, Crash, tree
  <2>4. ASSUME NEW h \in Handles, NEW p \in Paths, Open(h, p) \/ CreateHidden(h, p)
        PROVE  live' = live
    BY <2>4 DEF Open, CreateHidden, tree
  <2>5. ASSUME NEW h \in Handles, NEW b \in Bufs, NEW o \in 0 .. MaxLines,
               Write(h, b, o)
        PROVE  live' = live
    BY <2>5 DEF Write, tree
  <2>6. ASSUME NEW h \in Handles, Release(h) \/ CloseDir(h) \/ UseFreed(h)
        PROVE  live' = live
    BY <2>6 DEF Release, CloseDir, UseFreed, Crash, tree
  <2>7. ASSUME \/ StaleExpires \/ CompoundWrite \/ CompoundOther \/ CompoundBad
               \/ CompoundAstray \/ WalkInto \/ WalkLost \/ WalkAstray
               \/ WalkCreates \/ WalkLinks \/ WalkRefused
               \/ UNCHANGED vars
        PROVE  live' = live
    BY <2>7 DEF StaleExpires, CompoundWrite, CompoundOther, CompoundBad, CompoundAstray,
                WalkInto, WalkLost, WalkAstray, WalkCreates, WalkLinks, WalkRefused,
                Crash, vars, tree
  <2> QED BY <1>3, <1>4, <1>5, <1>6, <1>7, <1>8, <1>9, <1>10, <1>12, <1>13,
             <2>1, <2>2, <2>3, <2>4, <2>5, <2>6, <2>7 DEF Next

\* A file, a link or an object directory goes away only with its directory.
THEOREM OnlySubdirsGo == Spec => OnlySubdirsRemoved
<1>1. IInv /\ [Next]_vars =>
        [fault = "none" =>
            \A e \in live \ live' : type[e] # "subdir" => parent[e] \notin live']_vars
  BY StepRemovesSubdir
<1> QED BY <1>1, Invariant, PTL DEF Spec, OnlySubdirsRemoved

-----------------------------------------------------------------------------
(* Path lookup                                                             *)

\* A set of natural numbers that is not empty has a smallest member.
LEMMA LeastNatural ==
    ASSUME NEW S \in SUBSET Nat, S # {}
    PROVE \E x \in S : \A y \in S : x <= y
<1>1. PICK x \in S : \A y \in S : <<y, x>> \notin OpToRel(<, Nat)
  BY WFMin, NatLessThanWellFounded, Zenon
<1>2. ASSUME NEW y \in S PROVE ~(y < x)
  <2>1. <<y, x>> \notin {ss \in Nat \X Nat : ss[1] < ss[2]} BY <1>1, Zenon DEF OpToRel
  <2> QED BY <2>1
<1> QED BY <1>2

\* The entries schemafs_search() comes by on its way along p.
Walk(p, at) ==
    at = [i \in 0 .. Len(p) |-> IF i = 0 THEN root ELSE Step(at[i - 1], p[i])]

\* Every path can be walked.
LEMMA WalkExists ==
    ASSUME NEW p \in Seq(Names)
    PROVE  \E at : Walk(p, at)
<1> DEFINE Prefix(n, at) ==
               at = [i \in 0 .. n |-> IF i = 0 THEN root ELSE Step(at[i - 1], p[i])]
           S == {n \in Nat : ~\E at : Prefix(n, at)}
<1>1. SUFFICES ASSUME S # {} PROVE FALSE
  <2>1. Len(p) \in Nat OBVIOUS
  <2> QED BY <1>1, <2>1 DEF Walk
<1>2. PICK n \in S : \A k \in S : n <= k
  <2> HIDE DEF S
  <2>1. S \in SUBSET Nat BY DEF S
  <2> QED BY <1>1, <2>1, LeastNatural
<1>3. n \in Nat /\ ~\E at : Prefix(n, at)
  OBVIOUS
<1>4. CASE n = 0
  <2> DEFINE f == [i \in 0 .. 0 |-> root]
  <2>1. Prefix(0, f) OBVIOUS
  <2> QED BY <1>3, <1>4, <2>1
<1>5. CASE n # 0
  <2>1. n - 1 \in Nat /\ ~(n <= n - 1) BY <1>3, <1>5
  <2>2. n - 1 \notin S BY <1>2, <2>1
  <2>3. PICK g : Prefix(n - 1, g) BY <2>1, <2>2
  <2> DEFINE f == [i \in 0 .. n |-> IF i = n THEN Step(g[n - 1], p[n]) ELSE g[i]]
  <2>4. \A i \in 0 .. n : f[i] = IF i = 0 THEN root ELSE Step(f[i - 1], p[i])
    <3> TAKE i \in 0 .. n
    <3>1. CASE i = n
      <4>1. i # 0 /\ n - 1 \in 0 .. n /\ n - 1 # n BY <1>3, <1>5, <3>1
      <4>2. f[n - 1] = g[n - 1] BY <4>1
      <4> QED BY <3>1, <4>1, <4>2
    <3>2. CASE i # n
      <4>1. i \in 0 .. n - 1 BY <1>3, <3>2
      <4>2. g[i] = IF i = 0 THEN root ELSE Step(g[i - 1], p[i]) BY <2>3, <4>1
      <4>3. i # 0 => i - 1 \in 0 .. n /\ i - 1 # n BY <1>3, <4>1
      <4>4. i # 0 => f[i - 1] = g[i - 1] BY <4>3
      <4> QED BY <3>2, <4>2, <4>4
    <3> QED BY <3>1, <3>2
  <2>5. f = [i \in 0 .. n |-> f[i]] OBVIOUS
  <2> HIDE DEF f
  <2>6. Prefix(n, f) BY <2>4, <2>5
  <2> QED BY <1>3, <2>6
<1> QED BY <1>4, <1>5

\* There is one way to walk it.
LEMMA SearchWalks ==
    ASSUME NEW p \in Seq(Names)
    PROVE  \E at : Walk(p, at) /\ Search(p) = at[Len(p)]
BY WalkExists DEF Walk, Search

\* All of a path but its last name.
LEMMA FrontIs ==
    ASSUME NEW p \in Seq(Names), p # << >>
    PROVE  /\ Front(p) \in Seq(Names) /\ Len(p) - 1 \in Nat
           /\ Len(Front(p)) = Len(p) - 1
           /\ \A i \in 1 .. Len(p) - 1 : Front(p)[i] = p[i]
<1>1. Len(p) \in Nat /\ Len(p) # 0 OBVIOUS
<1>2. Front(p) = [i \in 1 .. Len(p) - 1 |-> p[i]]
  <2>1. SubSeq(p, 1, Len(p) - 1) = [i \in 1 .. Len(p) - 1 |-> p[i]] BY <1>1
  <2> QED BY <2>1 DEF Front
<1>3. \A i \in 1 .. Len(p) - 1 : p[i] \in Names BY <1>1
<1>4. Front(p) \in [1 .. Len(p) - 1 -> Names] BY <1>2, <1>3
<1>5. Len(p) - 1 \in Nat BY <1>1
<1> QED BY <1>2, <1>4, <1>5, FunctionIsSeq

\* Two walks along paths that begin alike come by the same entries.
LEMMA WalksAgree ==
    ASSUME NEW p \in Seq(Names), NEW at, Walk(p, at), p # << >>,
           NEW to, Walk(Front(p), to)
    PROVE  to[Len(Front(p))] = at[Len(p) - 1]
<1> DEFINE n == Len(p) - 1
           S == {i \in 0 .. n : to[i] # at[i]}
<1>1. n \in Nat /\ Len(Front(p)) = n /\ Len(p) = n + 1 BY FrontIs
<1>2. \A i \in 1 .. n : Front(p)[i] = p[i] BY FrontIs
<1>3. \A i \in 0 .. n : at[i] = IF i = 0 THEN root ELSE Step(at[i - 1], p[i])
  <2>1. \A i \in 0 .. Len(p) : at[i] = IF i = 0 THEN root ELSE Step(at[i - 1], p[i])
    BY Zenon DEF Walk
  <2> HIDE DEF n
  <2> QED BY <1>1, <2>1
<1>4. \A i \in 0 .. n : to[i] = IF i = 0 THEN root ELSE Step(to[i - 1], Front(p)[i])
  <2>1. \A i \in 0 .. Len(Front(p)) :
           to[i] = IF i = 0 THEN root ELSE Step(to[i - 1], Front(p)[i])
    BY Zenon DEF Walk
  <2> QED BY <1>1, <2>1
<1> HIDE DEF n
<1>5. ASSUME S # {} PROVE FALSE
  <2>1. S \in SUBSET Nat BY <1>1
  <2> HIDE DEF S
  <2>2. PICK k \in S : \A j \in S : k <= j BY <1>5, <2>1, LeastNatural
  <2> USE DEF S
  <2>3. k # 0 /\ k \in 1 .. n /\ k - 1 \in 0 .. n /\ ~(k <= k - 1)
    BY <1>1, <1>3, <1>4, <2>2
  <2>4. to[k - 1] = at[k - 1] BY <2>2, <2>3
  <2> QED BY <1>2, <1>3, <1>4, <2>2, <2>3, <2>4
<1>6. n \in 0 .. n BY <1>1
<1> QED BY <1>1, <1>5, <1>6 DEF n

\* The last step of schemafs_search().
LEMMA SearchStep ==
    ASSUME NEW p \in Seq(Names), p # << >>
    PROVE  Search(p) = Step(Search(Front(p)), Last(p))
<1>1. Front(p) \in Seq(Names) /\ Len(p) \in Nat /\ Len(p) - 1 \in Nat BY FrontIs
<1>2. PICK at : Walk(p, at) /\ Search(p) = at[Len(p)] BY SearchWalks
<1>3. PICK to : Walk(Front(p), to) /\ Search(Front(p)) = to[Len(Front(p))]
  BY <1>1, SearchWalks
<1>4. to[Len(Front(p))] = at[Len(p) - 1] BY <1>2, <1>3, WalksAgree
<1>5. at[Len(p)] = Step(at[Len(p) - 1], p[Len(p)])
  <2>1. \A i \in 0 .. Len(p) : at[i] = IF i = 0 THEN root ELSE Step(at[i - 1], p[i])
    BY <1>2, Zenon DEF Walk
  <2> QED BY <1>1, <2>1
<1> QED BY <1>2, <1>3, <1>4, <1>5 DEF Last

\* The first of the wanted entries of a list.
LEMMA FirstKidFinds ==
    ASSUME TypeOK, NEW d \in live, NEW W
    PROVE  \/ FirstKid(d, W) = NULL /\ \A i \in DOMAIN kids[d] : kids[d][i] \notin W
           \/ \E i \in DOMAIN kids[d] :
                 /\ FirstKid(d, W) = kids[d][i] /\ kids[d][i] \in W
                 /\ kids[d][i] # NULL
                 /\ \A j \in DOMAIN kids[d] : kids[d][j] \in W => i <= j
<1> DEFINE hits == {i \in DOMAIN kids[d] : kids[d][i] \in W}
<1>1. kids[d] \in Seq(Ents) BY DEF TypeOK
<1>2. hits \in SUBSET Nat BY <1>1
<1>3. CASE hits = {} BY <1>3 DEF FirstKid
<1>4. CASE hits # {}
  <2>1. \E i \in hits : \A j \in hits : i <= j
    <3> HIDE DEF hits
    <3> QED BY <1>2, <1>4, LeastNatural
  <2> DEFINE k == CHOOSE i \in hits : \A j \in hits : i <= j
  <2>2. k \in hits /\ \A j \in hits : k <= j BY <2>1, Zenon
  <2>3. FirstKid(d, W) = kids[d][k] BY <1>4 DEF FirstKid
  <2> HIDE DEF k
  <2>4. kids[d][k] # NULL BY <1>1, <2>2, ValueAssumption
  <2> QED BY <2>2, <2>3, <2>4
<1> QED BY <1>3, <1>4

\* Clients name entries, not places on the way.
NoDots == \A p \in Paths : \A i \in DOMAIN p : p[i] \notin {".", ".."}

\* What the kernel is told of a path: NULL, or the first entry of that name.
LEMMA SearchFinds ==
    ASSUME TypeOK, NoDots, NEW p \in Paths, p # << >>,
           NEW d \in live, d = Search(Front(p))
    PROVE  \/ Search(p) = NULL /\ \A i \in DOMAIN kids[d] : name[kids[d][i]] # Last(p)
           \/ \E i \in DOMAIN kids[d] :
                 /\ Search(p) = kids[d][i] /\ name[kids[d][i]] = Last(p)
                 /\ \A j \in DOMAIN kids[d] : name[kids[d][j]] = Last(p) => i <= j
<1> DEFINE W == {k \in Kids(d) : name[k] = Last(p)}
<1>1. p \in Seq(Names) /\ Last(p) \notin {".", ".."}
  BY ValueAssumption DEF NoDots, Last
<1>2. d # NULL BY ValueAssumption DEF TypeOK
<1>3. Search(p) = FirstKid(d, W) BY <1>1, <1>2, SearchStep DEF Step
<1>4. \A i \in DOMAIN kids[d] : kids[d][i] \in W <=> name[kids[d][i]] = Last(p)
  BY DEF Kids
<1> HIDE DEF W
<1> QED BY <1>3, <1>4, FirstKidFinds

\* Lookup stays among the entries of the tree.
LEMMA StepLive ==
    ASSUME TypeOK, TreeInv, root # NULL, NEW e \in live \cup {NULL}, NEW n
    PROVE  Step(e, n) \in live \cup {NULL}
<1>1. CASE e = NULL BY <1>1 DEF Step
<1>2. CASE e # NULL /\ n = ".."
  <2>1. parent[e] = NULL \/ parent[e] \in live
    BY <1>2 DEF TreeInv, ListsMatchParents
  <2> QED BY <1>2, <2>1 DEF Step
<1>3. CASE e # NULL /\ n # ".." /\ n = "." BY <1>3 DEF Step
<1>4. CASE e # NULL /\ n # ".." /\ n # "."
  <2> DEFINE W == {k \in Kids(e) : name[k] = n}
  <2>1. e \in live /\ Step(e, n) = FirstKid(e, W) BY <1>4 DEF Step
  <2>2. \A i \in DOMAIN kids[e] : kids[e][i] \in live
    BY <2>1 DEF TreeInv, ListsMatchParents
  <2> HIDE DEF W
  <2> QED BY <2>1, <2>2, FirstKidFinds
<1> QED BY <1>1, <1>2, <1>3, <1>4

LEMMA SearchLive ==
    ASSUME TypeOK, TreeInv, root # NULL, NEW p \in Seq(Names)
    PROVE  Search(p) \in live \cup {NULL}
<1>1. PICK at : Walk(p, at) /\ Search(p) = at[Len(p)] BY SearchWalks
<1> DEFINE S == {i \in 0 .. Len(p) : at[i] \notin live \cup {NULL}}
<1>2. \A i \in 0 .. Len(p) : at[i] = IF i = 0 THEN root ELSE Step(at[i - 1], p[i])
  BY <1>1, Zenon DEF Walk
<1>3. Len(p) \in Nat
  OBVIOUS
<1>4. ASSUME S # {} PROVE FALSE
  <2>1. S \in SUBSET Nat BY <1>3
  <2> HIDE DEF S
  <2>2. PICK k \in S : \A j \in S : k <= j BY <1>4, <2>1, LeastNatural
  <2> USE DEF S
  <2>3. root \in live BY DEF TreeInv, ListsMatchParents
  <2>4. k # 0 /\ k \in 0 .. Len(p) /\ k - 1 \in 0 .. Len(p) /\ ~(k <= k - 1)
    BY <1>2, <1>3, <2>2, <2>3
  <2>5. at[k - 1] \in live \cup {NULL} BY <2>2, <2>4
  <2>6. at[k] = Step(at[k - 1], p[k]) BY <1>2, <2>4
  <2>7. at[k] \in live \cup {NULL} BY <2>5, <2>6, StepLive
  <2> QED BY <2>2, <2>7
<1>5. Len(p) \in 0 .. Len(p) BY <1>3
<1> QED BY <1>1, <1>4, <1>5

\* The directory a path the kernel has walked ends in.
LEMMA WalkableParent ==
    ASSUME TypeOK, TreeInv, root # NULL, NEW p \in Paths, p # << >>, Walkable(p)
    PROVE  Search(Front(p)) \in live
<1>1. p \in Seq(Names) BY ValueAssumption
<1>2. Front(p) \in Seq(Names) /\ Len(p) - 1 \in 0 .. Len(p) - 1
  BY <1>1, FrontIs
<1>3. Search(SubSeq(p, 1, Len(p) - 1)) # NULL
  BY <1>2 DEF Walkable, Found
<1> QED BY <1>2, <1>3, SearchLive DEF Front

\* What a client removes hangs in a directory.
LEMMA NotTheRoot ==
    ASSUME TypeOK, TreeInv, NoDots, root # NULL, NEW p \in Paths, p # << >>, Walkable(p),
           Search(p) # NULL
    PROVE  Search(p) # root
<1>1. Search(Front(p)) \in live BY WalkableParent
<1>2. PICK d \in live : d = Search(Front(p)) BY <1>1
<1>3. PICK i \in DOMAIN kids[d] : Search(p) = kids[d][i]
  BY <1>2, SearchFinds
<1>4. parent[Search(p)] = d /\ d # NULL
  BY <1>3, ValueAssumption DEF TypeOK, TreeInv, ListsMatchParents
<1> QED BY <1>4 DEF TreeInv, ListsMatchParents

-----------------------------------------------------------------------------
(***************************************************************************)
(* Order.  New entries go to the front of a list and lookup takes the      *)
(* first that fits, so what a name means is a matter of which entries come *)
(* before which.  C and D are sets of pairs: those that may.               *)
(***************************************************************************)
Ordered(q, C) == \A i, j \in DOMAIN q : i < j => <<q[i], q[j]>> \in C

\* Taking an entry out keeps the order of the others.
LEMMA OrderedWithout ==
    ASSUME NEW S, NEW q \in Seq(S), NEW k \in DOMAIN q,
           \A i, j \in DOMAIN q : q[i] = q[j] => i = j,
           NEW C, Ordered(q, C)
    PROVE  Ordered(Without(q, q[k]), C)
<1>1. DOMAIN q = 1 .. Len(q) /\ Len(q) \in Nat
  OBVIOUS
<1>2. (CHOOSE i \in DOMAIN q : q[i] = q[k]) = k
  OBVIOUS
<1>3. Without(q, q[k]) = [j \in 1 .. Len(q) - 1 |-> IF j < k THEN q[j] ELSE q[j + 1]]
  BY <1>2 DEF Without
<1> DEFINE w == Without(q, q[k])
           up(x) == IF x < k THEN x ELSE x + 1
<1>4. DOMAIN w = 1 .. Len(q) - 1 /\ \A i \in DOMAIN w : w[i] = q[up(i)]
  BY <1>3
<1>5. \A i \in DOMAIN w : up(i) \in DOMAIN q BY <1>1, <1>4
<1>6. \A i, j \in DOMAIN w : i < j => up(i) < up(j) BY <1>1, <1>4
<1> HIDE DEF w, up
<1>7. Ordered(w, C) BY <1>4, <1>5, <1>6 DEF Ordered
<1> QED BY <1>7 DEF w

\* An entry may go to the front if it may come before the others.
LEMMA OrderedFront ==
    ASSUME NEW S, NEW q \in Seq(S), NEW e \in S, NEW C, Ordered(q, C),
           \A i \in DOMAIN q : <<e, q[i]>> \in C
    PROVE  Ordered(<<e>> \o q, C)
<1> DEFINE r == <<e>> \o q
<1>1. /\ DOMAIN q = 1 .. Len(q) /\ Len(q) \in Nat /\ DOMAIN r = 1 .. Len(q) + 1
      /\ r[1] = e /\ \A i \in DOMAIN r : i # 1 => i - 1 \in DOMAIN q /\ r[i] = q[i - 1]
  OBVIOUS
<1> HIDE DEF r
<1>2. ASSUME NEW i \in DOMAIN r, NEW j \in DOMAIN r, i < j
      PROVE  <<r[i], r[j]>> \in C
  <2>1. j # 1 /\ j - 1 \in DOMAIN q /\ r[j] = q[j - 1] BY <1>1, <1>2
  <2>2. CASE i = 1 BY <1>1, <2>1, <2>2
  <2>3. CASE i # 1
    <3>1. i - 1 \in DOMAIN q /\ r[i] = q[i - 1] /\ i - 1 < j - 1 BY <1>1, <1>2, <2>3
    <3> QED BY <2>1, <3>1 DEF Ordered
  <2> QED BY <2>2, <2>3
<1>3. Ordered(r, C) BY <1>2 DEF Ordered
<1> QED BY <1>3 DEF r

\* What may come before what in the lists of a tree that stays as it is.
LEMMA SameOrdered ==
    ASSUME TreeInv, UNCHANGED tree,
           NEW C, \A d \in live : Ordered(kids[d], C),
           NEW D, \A x, y \in live : <<x, y>> \in C => <<x, y>> \in D
    PROVE  \A d \in live' : Ordered(kids'[d], D)
<1>1. \A d \in live : \A i \in DOMAIN kids[d] : kids[d][i] \in live
  BY DEF TreeInv, ListsMatchParents
<1> QED BY <1>1 DEF Ordered, tree

\* What _fill() hangs in below a directory.
LEMMA FillOrdered ==
    ASSUME TypeOK, TreeInv,
           NEW s \in Schemas, NEW t \in Types, NEW n, NEW d,
           NEW m \in malloc(FillNodes(s, t), Ents \ live),
           Fill(m, s, t, n, d),
           NEW C, \A x \in live : Ordered(kids[x], C),
           NEW D, \A x, y \in live : <<x, y>> \in C => <<x, y>> \in D,
           d \in live => \A i \in DOMAIN kids[d] : <<m[s], kids[d][i]>> \in D,
           \A y \in FillNodes(s, t) : \A i, j \in DOMAIN SKids[y] :
              /\ i < j
              /\ SKids[y][i] \in FillNodes(s, t) \ {s}
              /\ SKids[y][j] \in FillNodes(s, t) \ {s}
              => <<m[SKids[y][i]], m[SKids[y][j]]>> \in D
    PROVE  \A x \in live' : Ordered(kids'[x], D)
<1>0. FillResult(m, s, t, n, d) BY FillEffect
<1>1. /\ Range(m) = {m[y] : y \in FillNodes(s, t)}
      /\ Range(m) \subseteq Ents \ live /\ s \in FillNodes(s, t)
  BY Placement, FillNodesTree
<1>2. live' = live \cup Range(m) /\ live \subseteq Ents /\ live \cap Range(m) = {}
  BY <1>0, <1>1 DEF FillResult, TypeOK
<1>3. ASSUME NEW x \in live
      PROVE  /\ x \in Ents
             /\ kids'[x] = IF x = d THEN <<m[s]>> \o kids[x] ELSE kids[x]
  <2>1. x \in Ents \ Range(m) BY <1>2
  <2> QED BY <1>0, <2>1 DEF FillResult
<1>4. ASSUME NEW x \in live PROVE Ordered(kids[x], D)
  <2>1. \A i \in DOMAIN kids[x] : kids[x][i] \in live
    BY DEF TreeInv, ListsMatchParents
  <2> QED BY <2>1 DEF Ordered
<1>5. ASSUME NEW x \in live PROVE Ordered(kids'[x], D)
  <2>1. CASE x # d BY <1>3, <1>4, <2>1
  <2>2. CASE x = d
    <3>1. m[s] \in Ents BY <1>1
    <3>2. kids[x] \in Seq(Ents) BY <1>3 DEF TypeOK
    <3>3. Ordered(<<m[s]>> \o kids[x], D) BY <1>4, <2>2, <3>1, <3>2, OrderedFront
    <3> QED BY <1>3, <2>2, <3>3
  <2> QED BY <2>1, <2>2
<1>6. ASSUME NEW y \in FillNodes(s, t) PROVE Ordered(kids'[m[y]], D)
  <2> DEFINE T == IF y = s THEN t ELSE SType[y]
  <2>1. CASE T # "subdir"
    <3>1. kids'[m[y]] = << >> BY <1>0, <2>1 DEF FillResult
    <3> QED BY <3>1 DEF Ordered
  <2>2. CASE T = "subdir"
    <3>1. kids'[m[y]] = [i \in DOMAIN SKids[y] |-> m[SKids[y][i]]]
      BY <1>0, <2>2 DEF FillResult
    <3>2. SKidSet(y) \subseteq FillNodes(s, t) /\ s \notin SKidSet(y) /\ y \in Schemas
      BY <2>2, FillNodesTree
    <3>3. \A i \in DOMAIN SKids[y] : SKids[y][i] \in FillNodes(s, t) \ {s}
      BY <3>2 DEF SKidSet
    <3> QED BY <3>1, <3>3 DEF Ordered
  <2> QED BY <2>1, <2>2
<1> QED BY <1>1, <1>2, <1>5, <1>6

\* The list that loses e stays in order.
LEMMA UnlistOrdered ==
    ASSUME TypeOK, TreeInv, NEW C, \A d \in live : Ordered(kids[d], C),
           NEW e \in live, e # root
    PROVE  Ordered(Without(kids[parent[e]], e), C)
<1> DEFINE q == kids[parent[e]]
<1>1. parent[e] \in live /\ e \in Kids(parent[e]) /\ parent[e] \in Ents
  BY DEF TreeInv, ListsMatchParents, Listed, TypeOK
<1>2. q \in Seq(Ents) /\ \A i, j \in DOMAIN q : q[i] = q[j] => i = j
  BY <1>1 DEF TypeOK, TreeInv, ListsMatchParents
<1>3. PICK k \in DOMAIN q : q[k] = e
  BY <1>1 DEF Kids
<1>4. Ordered(q, C) BY <1>1
<1> HIDE DEF q
<1>5. Ordered(Without(q, q[k]), C) BY <1>2, <1>4, OrderedWithout
<1> QED BY <1>3, <1>5 DEF q

\* _rmdir frees what is below e and takes e out of its list.
LEMMA RmdirOrdered ==
    ASSUME TypeOK, TreeInv, NEW e \in live, e # root, DoRmdir(e),
           NEW C, \A d \in live : Ordered(kids[d], C),
           NEW D, \A x, y \in live' : <<x, y>> \in C => <<x, y>> \in D
    PROVE  \A d \in live' : Ordered(kids'[d], D)
<1> DEFINE gone == Subtree(e)
           w == Without(kids[parent[e]], e)
<1>1. parent[e] # NULL /\ Listed(e) BY ListedEntry
<1>2. /\ live' = live \ gone
      /\ \A x \in live \ gone : kids'[x] = IF x = parent[e] THEN w ELSE kids[x]
  <2>1. live \subseteq Ents BY DEF TypeOK
  <2> QED BY <1>1, <2>1 DEF DoRmdir, Free
<1>3. /\ \A x \in live : parent[x] \in gone => x \in gone
      /\ \A x \in gone \ {e} : parent[x] \in gone
  BY SubtreeFacts
<1> HIDE DEF gone
<1>4. ASSUME NEW x \in live \ gone
      PROVE  \A i \in DOMAIN kids'[x] : kids'[x][i] \in live \ gone
  <2>1. \A k \in Kids(x) : k \in live /\ parent[k] = x
    BY DEF TreeInv, ListsMatchParents, Kids
  <2>2. \A k \in Kids(x) : k # e => k \in live \ gone BY <1>3, <2>1
  <2>3. CASE x = parent[e]
    <3>1. \A i \in DOMAIN w : w[i] # e /\ w[i] \in Kids(parent[e])
      BY UnlistEntry
    <3> QED BY <1>2, <2>2, <2>3, <3>1
  <2>4. CASE x # parent[e]
    <3>1. kids'[x] = kids[x] BY <1>2, <2>4
    <3> QED BY <2>1, <2>2, <2>4, <3>1 DEF Kids
  <2> QED BY <2>3, <2>4
<1>5. ASSUME NEW x \in live \ gone PROVE Ordered(kids'[x], D)
  <2>1. Ordered(kids'[x], C) BY <1>2, UnlistOrdered
  <2> QED BY <1>2, <1>4, <2>1 DEF Ordered
<1> QED BY <1>2, <1>5

\* _rename moves e to the front of a list.
LEMMA RenameOrdered ==
    ASSUME TypeOK, TreeInv, NEW e \in live, NEW par \in live, NEW n,
           e # root, DoRename(e, par, n),
           NEW C, \A d \in live : Ordered(kids[d], C),
           NEW D, \A x, y \in live \ {e} : <<x, y>> \in C => <<x, y>> \in D,
           \A y \in Kids(par) \ {e} : <<e, y>> \in D
    PROVE  \A d \in live' : Ordered(kids'[d], D)
<1> DEFINE w == Without(kids[parent[e]], e)
           left(x) == IF x = parent[e] THEN w ELSE kids[x]
<1>0. Listed(e) /\ parent[e] \in live
  BY DEF TreeInv, ListsMatchParents
<1>1. /\ live' = live /\ live \subseteq Ents
      /\ \A x \in live : kids'[x] = IF x = par THEN <<e>> \o left(x) ELSE left(x)
  <2>1. live \subseteq Ents BY DEF TypeOK
  <2>2. /\ live' = live
        /\ kids' = [x \in Ents |-> IF x = par THEN <<e>> \o left(x) ELSE left(x)]
    BY <1>0 DEF DoRename
  <2> HIDE DEF left
  <2>3. \A x \in live : kids'[x] = IF x = par THEN <<e>> \o left(x) ELSE left(x)
    BY <2>1, <2>2, Zenon
  <2> QED BY <2>1, <2>2, <2>3
<1>2. /\ w \in Seq(Ents)
      /\ \A i \in DOMAIN w : w[i] # e /\ w[i] \in Kids(parent[e])
      /\ Ordered(w, C)
  BY UnlistEntry, UnlistOrdered
<1>3. \A x \in live : \A k \in Kids(x) : k \in live /\ parent[k] = x
  BY DEF TreeInv, ListsMatchParents, Kids
<1>4. ASSUME NEW x \in live
      PROVE  /\ left(x) \in Seq(Ents) /\ Ordered(left(x), C)
             /\ \A i \in DOMAIN left(x) : left(x)[i] \in Kids(x) \ {e}
  <2> HIDE DEF w
  <2>1. CASE x = parent[e] BY <1>2, <2>1
  <2>2. CASE x # parent[e]
    <3>1. e \notin Kids(x) BY <1>3, <2>2
    <3>2. kids[x] \in Seq(Ents) BY DEF TypeOK
    <3> QED BY <2>2, <3>1, <3>2 DEF Kids
  <2> QED BY <2>1, <2>2
<1> HIDE DEF w, left
<1>5. ASSUME NEW x \in live PROVE Ordered(left(x), D)
  <2>1. \A i \in DOMAIN left(x) : left(x)[i] \in live \ {e} BY <1>3, <1>4
  <2> QED BY <1>4, <2>1 DEF Ordered
<1>6. ASSUME NEW x \in live PROVE Ordered(kids'[x], D)
  <2>1. CASE x # par BY <1>1, <1>5, <2>1
  <2>2. CASE x = par
    <3>1. e \in Ents /\ \A i \in DOMAIN left(x) : <<e, left(x)[i]>> \in D
      BY <1>1, <1>4, <2>2
    <3>2. Ordered(<<e>> \o left(x), D) BY <1>4, <1>5, <3>1, OrderedFront
    <3> QED BY <1>1, <2>2, <3>2
  <2> QED BY <2>1, <2>2
<1> QED BY <1>1, <1>6

-----------------------------------------------------------------------------
(***************************************************************************)
(* Patterns.  A pattern before a directory it matches leads create and     *)
(* symlink astray.  There is none if the schema declares patterns behind   *)
(* such directories and clients give no entry the name of a pattern.       *)
(***************************************************************************)
Plain(n) == \A k \in Names : <<n, k>> \in Matches => k = n

PlainPaths == \A p \in Paths : \A i \in DOMAIN p : Plain(p[i])

PatternsLast ==
    \A s \in Schemas : \A i, j \in DOMAIN SKids[s] :
        /\ i < j
        /\ SType[SKids[s][j]] \in DirTypes
        /\ <<SName[SKids[s][i]], SName[SKids[s][j]]>> \in Matches
        => SName[SKids[s][i]] = SName[SKids[s][j]]

\* The entries that may come before others, and the lists that say so.
Clear ==
    {xy \in Ents \X Ents :
        /\ IsDir(xy[2])
        /\ <<name[xy[1]], name[xy[2]]>> \in Matches
        => name[xy[1]] = name[xy[2]]}

PathsClear == \A d \in live : Ordered(kids[d], Clear)

\* The parts of a path.
LEMMA Prefix ==
    ASSUME NEW p \in Seq(Names), NEW i \in 1 .. Len(p)
    PROVE  /\ SubSeq(p, 1, i) \in Seq(Names) /\ SubSeq(p, 1, i) # << >>
           /\ Front(SubSeq(p, 1, i)) = SubSeq(p, 1, i - 1)
           /\ Last(SubSeq(p, 1, i)) = p[i] /\ p[i] \in Names
<1> DEFINE q == SubSeq(p, 1, i)
<1>1. q \in Seq(Names) /\ Len(q) = i /\ \A j \in 1 .. i : q[j] = p[j]
  OBVIOUS
<1>2. i \in Nat /\ i > 0 /\ i <= Len(p) /\ p[i] \in Names
  OBVIOUS
<1>3. Front(q) = SubSeq(p, 1, i - 1)
  <2>1. Front(q) = [j \in 1 .. i - 1 |-> q[j]] BY <1>1, <1>2 DEF Front
  <2>2. SubSeq(p, 1, i - 1) = [j \in 1 .. i - 1 |-> p[j]] BY <1>2
  <2> QED BY <1>1, <1>2, <2>1, <2>2
<1> QED BY <1>1, <1>2, <1>3 DEF Last

\* On the way along a path the kernel has walked, schemafs_fnmatch() meets no
\* pattern before the directory it looks for.
LEMMA WayIsClear ==
    ASSUME TypeOK, TreeInv, PathsClear, NoDots, root # NULL, NEW p \in Paths,
           Walkable(p), NEW i \in 1 .. Len(p) - 1
    PROVE  LET e == FnMatch(Search(SubSeq(p, 1, i - 1)), p[i])
           IN  e = Search(SubSeq(p, 1, i)) /\ name[e] = p[i]
<1>1. p \in Seq(Names) /\ Len(p) \in Nat /\ i \in DOMAIN p /\ i \in 1 .. Len(p)
  BY ValueAssumption
<1> DEFINE q == SubSeq(p, 1, i)
<1>2. /\ q \in Seq(Names) /\ q # << >> /\ Front(q) = SubSeq(p, 1, i - 1)
      /\ Last(q) = p[i] /\ SubSeq(p, 1, i - 1) \in Seq(Names)
  BY <1>1, Prefix
<1>3. /\ Found(Search(q)) /\ IsDir(Search(q)) /\ Search(Front(q)) # NULL
  <2>1. i \in 0 .. Len(p) - 1 /\ i - 1 \in 0 .. Len(p) - 1 BY <1>1
  <2> QED BY <1>2, <2>1 DEF Walkable, Found
<1>4. Search(Front(q)) \in live BY <1>2, <1>3, SearchLive
<1>5. PICK d \in live : d = Search(Front(q)) BY <1>4
<1> DEFINE W == {k \in Kids(d) : name[k] = p[i]}
           V == {k \in Kids(d) : name[k] = p[i] \/ <<name[k], p[i]>> \in Matches}
<1>6. Search(q) = FirstKid(d, W)
  BY <1>1, <1>2, <1>3, <1>5, SearchStep DEF Step, NoDots
<1>7. FnMatch(d, p[i]) = FirstKid(d, V) BY DEF FnMatch
<1>8. kids[d] \in Seq(Ents) /\ \A j \in DOMAIN kids[d] : kids[d][j] \in Kids(d)
  BY DEF TypeOK, Kids
<1> HIDE DEF q
<1>9. PICK k \in DOMAIN kids[d] :
          /\ Search(q) = kids[d][k] /\ name[kids[d][k]] = p[i]
          /\ \A j \in DOMAIN kids[d] : name[kids[d][j]] = p[i] => k <= j
  <2>1. Search(q) # NULL BY <1>3 DEF Found
  <2>2. \A j \in DOMAIN kids[d] : kids[d][j] \in W <=> name[kids[d][j]] = p[i]
    BY <1>8
  <2> HIDE DEF W
  <2> QED BY <1>6, <2>1, <2>2, FirstKidFinds
<1>10. PICK l \in DOMAIN kids[d] :
          /\ FnMatch(d, p[i]) = kids[d][l] /\ kids[d][l] \in V
          /\ \A j \in DOMAIN kids[d] : kids[d][j] \in V => l <= j
  <2>1. kids[d][k] \in V BY <1>8, <1>9
  <2> HIDE DEF V
  <2> QED BY <1>7, <2>1, FirstKidFinds
<1>11. l <= k BY <1>8, <1>9, <1>10
<1>12. name[kids[d][l]] = p[i]
  <2>1. CASE l = k BY <1>9, <2>1
  <2>2. CASE l # k /\ name[kids[d][l]] # p[i]
    <3>1. l < k BY <1>8, <1>11, <2>2
    <3>2. <<kids[d][l], kids[d][k]>> \in Clear BY <3>1 DEF PathsClear, Ordered
    <3>3. <<name[kids[d][l]], p[i]>> \in Matches BY <1>10, <2>2
    <3>4. IsDir(kids[d][k]) BY <1>3, <1>9
    <3>5. name[kids[d][l]] = name[kids[d][k]] BY <1>9, <3>2, <3>3, <3>4 DEF Clear
    <3> QED BY <1>9, <2>2, <3>5
  <2> QED BY <2>1, <2>2
<1>13. l = k BY <1>8, <1>9, <1>11, <1>12
<1> QED BY <1>2, <1>5, <1>9, <1>10, <1>13 DEF q

\* While paths are clear, and none is left, no walk is led off its path.
LEMMA NoWalks ==
    ASSUME TypeOK, TreeInv, PathsClear, NoDots, walk = NoWalk
    PROVE  /\ ~\E p \in Paths, ask \in Asks : PatternOnWay(p, ask)
           /\ ~WalkInto /\ ~WalkDetour /\ ~WalkLost /\ ~WalkAstray
           /\ ~WalkCreates /\ ~WalkLinks /\ ~WalkRefused
<1>1. ~Walking BY ValueAssumption DEF Walking, NoWalk, TypeOK
<1>2. ASSUME NEW p \in Paths, NEW ask \in Asks, PatternOnWay(p, ask) PROVE FALSE
  <2>1. root # NULL /\ Walkable(p) BY <1>2 DEF PatternOnWay, Idle, Absent
  <2>2. PICK i \in 1 .. Len(p) - 1, d \in live, e \in live :
            /\ d = Search(SubSeq(p, 1, i - 1)) /\ e = FnMatch(d, p[i])
            /\ Detour(d, e, p[i], SubSeq(p, i + 1, Len(p)), ask)
    BY <1>2 DEF PatternOnWay
  <2>3. name[e] # p[i] BY <2>2 DEF Detour, NewFromPattern
  <2> QED BY <2>1, <2>2, <2>3, WayIsClear
<1> QED BY <1>1, <1>2 DEF WalkInto, WalkDetour, WalkLost, WalkAstray, WalkCreates,
                          WalkLinks, WalkRefused, WalkEnds

\* Entries of a plain name may come before all others.
LEMMA PlainClear ==
    ASSUME TypeOK, NEW x \in Ents, Plain(name[x]), NEW y \in Ents
    PROVE  <<x, y>> \in Clear
BY DEF Clear, Plain, TypeOK

\* What is clear depends on names and types.
LEMMA ClearSame ==
    ASSUME NEW x, NEW y, <<x, y>> \in Clear,
           name'[x] = name[x], name'[y] = name[y], type'[y] = type[y]
    PROVE  <<x, y>> \in Clear'
BY DEF Clear, IsDir

\* A name a path ends with is plain.
LEMMA PathPlain ==
    ASSUME PlainPaths, NEW p \in Paths, p # << >>
    PROVE  Last(p) \in Names /\ Plain(Last(p))
<1>1. p \in Seq(Names) BY ValueAssumption
<1>2. Len(p) \in DOMAIN p BY <1>1
<1> QED BY <1>1, <1>2, PathName DEF PlainPaths, Last

\* _fill() of a plain name leaves the paths clear.
LEMMA FillClear ==
    ASSUME TypeOK, TypeOK', TreeInv, PathsClear, PatternsLast,
           NEW s \in Schemas, NEW t \in Types, NEW n,
           NEW d, d \in live => Plain(n),
           NEW m \in malloc(FillNodes(s, t), Ents \ live), Fill(m, s, t, n, d)
    PROVE  PathsClear'
<1>1. FillResult(m, s, t, n, d) BY FillEffect
<1>2. /\ Range(m) = {m[y] : y \in FillNodes(s, t)} /\ s \in FillNodes(s, t)
      /\ Range(m) \subseteq Ents \ live /\ FillNodes(s, t) \subseteq Schemas
  BY Placement, FillNodesTree
<1>3. \A x \in live : x \in Ents \ Range(m) BY <1>2 DEF TypeOK
<1>4. ASSUME NEW x \in live, NEW y \in live, <<x, y>> \in Clear PROVE <<x, y>> \in Clear'
  <2>1. name'[x] = name[x] /\ name'[y] = name[y] /\ type'[y] = type[y]
    BY <1>1, <1>3 DEF FillResult
  <2> QED BY <1>4, <2>1, ClearSame
<1>5. ASSUME d \in live, NEW i \in DOMAIN kids[d] PROVE <<m[s], kids[d][i]>> \in Clear'
  <2>1. m[s] \in Ents /\ name'[m[s]] = n BY <1>1, <1>2 DEF FillResult
  <2>2. kids[d][i] \in Ents BY <1>5 DEF TypeOK
  <2> QED BY <1>5, <2>1, <2>2 DEF Clear, Plain, TypeOK
<1>6. ASSUME NEW y \in FillNodes(s, t), NEW i \in DOMAIN SKids[y], NEW j \in DOMAIN SKids[y],
             i < j, SKids[y][i] \in FillNodes(s, t) \ {s}, SKids[y][j] \in FillNodes(s, t) \ {s}
      PROVE  <<m[SKids[y][i]], m[SKids[y][j]]>> \in Clear'
  <2>1. /\ name'[m[SKids[y][i]]] = SName[SKids[y][i]]
        /\ name'[m[SKids[y][j]]] = SName[SKids[y][j]]
        /\ type'[m[SKids[y][j]]] = SType[SKids[y][j]]
    BY <1>1, <1>6 DEF FillResult
  <2>2. m[SKids[y][i]] \in Ents /\ m[SKids[y][j]] \in Ents BY <1>2, <1>6
  <2> QED BY <1>2, <1>6, <2>1, <2>2 DEF Clear, IsDir, PatternsLast
<1>7. \A x \in live : Ordered(kids[x], Clear) BY DEF PathsClear
<1>8. \A x \in live' : Ordered(kids'[x], Clear')
  BY <1>4, <1>5, <1>6, <1>7, FillOrdered
<1> QED BY <1>8 DEF PathsClear

\* _rmdir leaves the paths clear.
LEMMA RmdirClear ==
    ASSUME TypeOK, TreeInv, PathsClear, NEW e \in live, e # root, DoRmdir(e)
    PROVE  PathsClear'
<1>1. parent[e] # NULL /\ Listed(e) BY ListedEntry
<1>2. ASSUME NEW x \in live', NEW y \in live', <<x, y>> \in Clear PROVE <<x, y>> \in Clear'
  <2>1. x \in Ents \ Subtree(e) /\ y \in Ents \ Subtree(e)
    BY <1>1 DEF DoRmdir, Free, TypeOK
  <2>2. name'[x] = name[x] /\ name'[y] = name[y] /\ type'[y] = type[y]
    BY <1>1, <2>1 DEF DoRmdir, Free
  <2> QED BY <1>2, <2>2, ClearSame
<1>3. \A x \in live : Ordered(kids[x], Clear) BY DEF PathsClear
<1>4. \A x \in live' : Ordered(kids'[x], Clear') BY <1>2, <1>3, RmdirOrdered
<1> QED BY <1>4 DEF PathsClear

\* _rename to a plain name leaves the paths clear.
LEMMA RenameClear ==
    ASSUME TypeOK, TypeOK', TreeInv, PathsClear, NEW e \in live, NEW par \in live,
           NEW n, Plain(n), e # root, DoRename(e, par, n)
    PROVE  PathsClear'
<1>1. Listed(e) BY DEF TreeInv, ListsMatchParents
<1>2. /\ live \subseteq Ents /\ type' = type /\ name'[e] = n
      /\ \A x \in live \ {e} : name'[x] = name[x]
  BY <1>1 DEF DoRename, TypeOK
<1>3. ASSUME NEW x \in live \ {e}, NEW y \in live \ {e}, <<x, y>> \in Clear
      PROVE  <<x, y>> \in Clear'
  BY <1>2, <1>3, ClearSame
<1>4. ASSUME NEW y \in Kids(par) \ {e} PROVE <<e, y>> \in Clear'
  <2>1. y \in Ents /\ e \in Ents BY <1>2 DEF TypeOK, Kids
  <2> QED BY <1>2, <2>1 DEF Clear, Plain, TypeOK
<1>5. \A x \in live : Ordered(kids[x], Clear) BY DEF PathsClear
<1>6. \A x \in live' : Ordered(kids'[x], Clear') BY <1>3, <1>4, <1>5, RenameOrdered
<1> QED BY <1>6 DEF PathsClear

-----------------------------------------------------------------------------
(***************************************************************************)
(* Names.  Of the entries of one name all but the first are hidden:        *)
(* schemafs_search() finds the one that shows, if one does.                *)
(***************************************************************************)
Behind == {xy \in Ents \X Ents : name[xy[1]] = name[xy[2]] => hidden[xy[2]]}

FirstShown == \A d \in live : Ordered(kids[d], Behind)

\* What may come behind what depends on names and hidden flags.
LEMMA BehindSame ==
    ASSUME NEW x, NEW y, <<x, y>> \in Behind, name'[x] = name[x], name'[y] = name[y],
           hidden[y] => hidden'[y]
    PROVE  <<x, y>> \in Behind'
BY DEF Behind

\* In directories that keep their lists, entries may go on to be hidden.
LEMMA FirstShownSame ==
    ASSUME TreeInv, FirstShown, UNCHANGED tree, \A x \in live : hidden[x] => hidden'[x]
    PROVE  FirstShown'
<1>1. ASSUME NEW x \in live, NEW y \in live, <<x, y>> \in Behind PROVE <<x, y>> \in Behind'
  BY <1>1, BehindSame DEF tree
<1>2. \A d \in live : Ordered(kids[d], Behind) BY DEF FirstShown
<1>3. \A d \in live' : Ordered(kids'[d], Behind') BY <1>1, <1>2, SameOrdered
<1> QED BY <1>3 DEF FirstShown

\* A name the kernel did not find names only hidden entries.
LEMMA AbsentHidden ==
    ASSUME TypeOK, FirstShown, NoDots, NEW p \in Paths, p # << >>,
           NEW d \in live, d = Search(Front(p)), ~Found(Search(p)),
           NEW i \in DOMAIN kids[d], name[kids[d][i]] = Last(p)
    PROVE  hidden[kids[d][i]]
<1>1. PICK k \in DOMAIN kids[d] :
         /\ Search(p) = kids[d][k] /\ name[kids[d][k]] = Last(p)
         /\ \A j \in DOMAIN kids[d] : name[kids[d][j]] = Last(p) => k <= j
  BY SearchFinds
<1>2. kids[d] \in Seq(Ents) BY DEF TypeOK
<1>3. kids[d][k] # NULL BY <1>2, ValueAssumption
<1>4. hidden[kids[d][k]] BY <1>1, <1>3 DEF Found
<1>5. k <= i /\ k \in Nat /\ i \in Nat BY <1>1, <1>2
<1>6. CASE k = i BY <1>4, <1>6
<1>7. CASE k < i
  <2>1. <<kids[d][k], kids[d][i]>> \in Behind BY <1>7 DEF FirstShown, Ordered
  <2> QED BY <1>1, <2>1 DEF Behind
<1> QED BY <1>5, <1>6, <1>7

\* The children of a schema node have different names.
SiblingsDiffer ==
    \A s \in Schemas : \A i, j \in DOMAIN SKids[s] :
        SName[SKids[s][i]] = SName[SKids[s][j]] => i = j

\* The order _fill() must keep for what shows to stay in front.
LEMMA FillBehind ==
    ASSUME TypeOK, TreeInv, FirstShown,
           NEW s \in Schemas, NEW t \in Types, NEW n, NEW d,
           NEW m \in malloc(FillNodes(s, t), Ents \ live),
           Fill(m, s, t, n, d),
           \A x, y \in live : <<x, y>> \in Behind => <<x, y>> \in Behind',
           d \in live => \A i \in DOMAIN kids[d] : <<m[s], kids[d][i]>> \in Behind',
           \A y \in FillNodes(s, t) : \A i, j \in DOMAIN SKids[y] :
              /\ i < j
              /\ SKids[y][i] \in FillNodes(s, t) \ {s}
              /\ SKids[y][j] \in FillNodes(s, t) \ {s}
              => <<m[SKids[y][i]], m[SKids[y][j]]>> \in Behind'
    PROVE  FirstShown'
<1>1. \A x \in live : Ordered(kids[x], Behind) BY DEF FirstShown
<1>2. \A x \in live' : Ordered(kids'[x], Behind') BY <1>1, FillOrdered
<1> QED BY <1>2 DEF FirstShown

\* What _fill() hangs in below a directory shows once.
LEMMA FillShown ==
    ASSUME TypeOK, TreeInv, FirstShown, SiblingsDiffer,
           NEW s \in Schemas, NEW t \in Types, NEW n \in Names, NEW d,
           NEW m \in malloc(FillNodes(s, t), Ents \ live),
           Fill(m, s, t, n, d), \A x \in live : hidden'[x] = hidden[x],
           d \in live => \A i \in DOMAIN kids[d] : name[kids[d][i]] = n => hidden[kids[d][i]]
    PROVE  FirstShown'
<1>1. FillResult(m, s, t, n, d) BY FillEffect
<1>2. /\ Range(m) = {m[y] : y \in FillNodes(s, t)} /\ s \in FillNodes(s, t)
      /\ Range(m) \subseteq Ents \ live /\ FillNodes(s, t) \subseteq Schemas
  BY Placement, FillNodesTree
<1>3. \A x \in live : x \in Ents \ Range(m) /\ name'[x] = name[x]
  BY <1>1, <1>2 DEF TypeOK, FillResult
<1>4. ASSUME NEW x \in live, NEW y \in live, <<x, y>> \in Behind PROVE <<x, y>> \in Behind'
  BY <1>3, <1>4, BehindSame
<1>5. ASSUME d \in live, NEW i \in DOMAIN kids[d] PROVE <<m[s], kids[d][i]>> \in Behind'
  <2>1. m[s] \in Ents /\ name'[m[s]] = n BY <1>1, <1>2 DEF FillResult
  <2>2. kids[d][i] \in live BY <1>5 DEF TreeInv, ListsMatchParents
  <2>3. name'[kids[d][i]] = name[kids[d][i]] /\ kids[d][i] \in Ents BY <1>3, <2>2
  <2> QED BY <1>5, <2>1, <2>2, <2>3 DEF Behind
<1>6. ASSUME NEW y \in FillNodes(s, t), NEW i \in DOMAIN SKids[y], NEW j \in DOMAIN SKids[y],
             i < j, SKids[y][i] \in FillNodes(s, t) \ {s}, SKids[y][j] \in FillNodes(s, t) \ {s}
      PROVE  <<m[SKids[y][i]], m[SKids[y][j]]>> \in Behind'
  <2>1. /\ name'[m[SKids[y][i]]] = SName[SKids[y][i]]
        /\ name'[m[SKids[y][j]]] = SName[SKids[y][j]]
    BY <1>1, <1>6 DEF FillResult
  <2>2. m[SKids[y][i]] \in Ents /\ m[SKids[y][j]] \in Ents /\ y \in Schemas BY <1>2, <1>6
  <2>3. SKids[y] \in Seq(Schemas) BY <2>2, SchemaAssumption
  <2>4. i # j BY <1>6, <2>3
  <2>5. SName[SKids[y][i]] # SName[SKids[y][j]] BY <2>2, <2>4 DEF SiblingsDiffer
  <2> QED BY <2>1, <2>2, <2>5 DEF Behind
<1>7. \A x, y \in live : <<x, y>> \in Behind => <<x, y>> \in Behind' BY <1>4
<1>8. d \in live => \A i \in DOMAIN kids[d] : <<m[s], kids[d][i]>> \in Behind' BY <1>5
<1>9. \A y \in FillNodes(s, t) : \A i, j \in DOMAIN SKids[y] :
          /\ i < j
          /\ SKids[y][i] \in FillNodes(s, t) \ {s}
          /\ SKids[y][j] \in FillNodes(s, t) \ {s}
          => <<m[SKids[y][i]], m[SKids[y][j]]>> \in Behind'
  BY <1>6
<1> QED BY <1>7, <1>8, <1>9, FillBehind

\* _rmdir leaves what shows in front.
LEMMA RmdirShown ==
    ASSUME TypeOK, TreeInv, FirstShown, NEW e \in live, e # root, DoRmdir(e)
    PROVE  FirstShown'
<1>1. parent[e] # NULL /\ Listed(e) BY ListedEntry
<1>2. ASSUME NEW x \in live', NEW y \in live', <<x, y>> \in Behind PROVE <<x, y>> \in Behind'
  <2>1. x \in Ents \ Subtree(e) /\ y \in Ents \ Subtree(e)
    BY <1>1 DEF DoRmdir, Free, TypeOK
  <2>2. name'[x] = name[x] /\ name'[y] = name[y] /\ hidden'[y] = hidden[y]
    BY <1>1, <2>1 DEF DoRmdir, Free
  <2> QED BY <1>2, <2>2, BehindSame
<1>3. \A x \in live : Ordered(kids[x], Behind) BY DEF FirstShown
<1>4. \A x \in live' : Ordered(kids'[x], Behind') BY <1>2, <1>3, RmdirOrdered
<1> QED BY <1>4 DEF FirstShown

\* _rename moves e to the front of a list in which nothing shows its new name.
LEMMA RenameShown ==
    ASSUME TypeOK, TreeInv, FirstShown, NEW e \in live, NEW par \in live, NEW n,
           e # root, DoRename(e, par, n),
           \A i \in DOMAIN kids[par] : name[kids[par][i]] = n => hidden[kids[par][i]]
    PROVE  FirstShown'
<1>1. Listed(e) BY DEF TreeInv, ListsMatchParents
<1>2. /\ live \subseteq Ents /\ hidden' = hidden /\ name'[e] = n
      /\ \A x \in live \ {e} : name'[x] = name[x]
  BY <1>1 DEF DoRename, TypeOK
<1>3. ASSUME NEW x \in live \ {e}, NEW y \in live \ {e}, <<x, y>> \in Behind
      PROVE  <<x, y>> \in Behind'
  BY <1>2, <1>3, BehindSame
<1>4. ASSUME NEW y \in Kids(par) \ {e} PROVE <<e, y>> \in Behind'
  <2>1. y \in live /\ y \in Ents /\ e \in Ents
    BY <1>2 DEF TreeInv, ListsMatchParents, Kids
  <2>2. name[y] = n => hidden[y] BY DEF Kids
  <2> QED BY <1>2, <2>1, <2>2 DEF Behind
<1>5. \A x \in live : Ordered(kids[x], Behind) BY DEF FirstShown
<1>6. \A x \in live' : Ordered(kids'[x], Behind') BY <1>3, <1>4, <1>5, RenameOrdered
<1> QED BY <1>6 DEF FirstShown

\* An entry that no other of its name precedes may show.
LEMMA UnhideShown ==
    ASSUME TypeOK, TreeInv, FirstShown, UNCHANGED tree, NEW d \in live, NEW n,
           NEW e \in live, e = FnMatch(d, n), name[e] = n,
           hidden' = [hidden EXCEPT ![e] = FALSE]
    PROVE  FirstShown'
<1> DEFINE W == {k \in Kids(d) : name[k] = n \/ <<name[k], n>> \in Matches}
<1>1. e # NULL /\ hidden = [x \in Ents |-> hidden[x]] /\ live \subseteq Ents
  BY ValueAssumption DEF TypeOK
<1>2. PICK k \in DOMAIN kids[d] :
         /\ e = kids[d][k] /\ \A j \in DOMAIN kids[d] : kids[d][j] \in W => k <= j
  <2>1. e = FirstKid(d, W) BY DEF FnMatch
  <2> HIDE DEF W
  <2> QED BY <1>1, <2>1, FirstKidFinds
<1>3. \A j \in DOMAIN kids[d] : name[kids[d][j]] = n => k <= j BY <1>2 DEF Kids
<1>4. /\ \A x \in live : \A i \in DOMAIN kids[x] : kids[x][i] \in live /\ parent[kids[x][i]] = x
      /\ \A i, j \in DOMAIN kids[d] : kids[d][i] = kids[d][j] => i = j
  BY DEF TreeInv, ListsMatchParents
<1>5. ASSUME NEW x \in live, NEW i \in DOMAIN kids[x], NEW j \in DOMAIN kids[x],
             i < j, name[kids[x][i]] = name[kids[x][j]]
      PROVE  hidden'[kids[x][j]]
  <2>1. hidden[kids[x][j]] BY <1>5 DEF FirstShown, Ordered, Behind
  <2>2. kids[x] \in Seq(Ents) BY DEF TypeOK
  <2>3. kids[x][j] # e
    <3> SUFFICES ASSUME kids[x][j] = e PROVE FALSE OBVIOUS
    <3>1. x = d BY <1>2, <1>4
    <3>2. j = k BY <1>2, <1>4, <3>1
    <3>3. k <= i BY <1>3, <1>5, <3>1
    <3> QED BY <1>5, <2>2, <3>2, <3>3
  <2> QED BY <1>1, <1>4, <2>1, <2>3
<1>6. \A x \in live : kids[x] \in Seq(Ents) BY <1>1 DEF TypeOK
<1> QED BY <1>5, <1>6 DEF FirstShown, Ordered, Behind, tree

-----------------------------------------------------------------------------
(***************************************************************************)
(* What clients do not do: they write no batches, and so no line that is   *)
(* run does anything, and no name goes behind the kernel's back.           *)
(***************************************************************************)
NoBatches == \A b \in Bufs : \A i \in DOMAIN b : Cmd[b[i]].op = "other"

Harmless(q) == \A i \in DOMAIN q : Cmd[q[i]].op = "other"

NothingToRun == (\A x \in Ents : Harmless(data[x])) /\ Harmless(exec) /\ ~stale

\* Laying harmless lines over harmless lines.
LEMMA OverlayHarmless ==
    ASSUME NEW old \in Seq(Lines), NEW new \in Seq(Lines), NEW o \in 0 .. Len(old),
           Harmless(old), Harmless(new)
    PROVE  Harmless(Overlay(old, new, o))
<1> DEFINE n == IF o + Len(new) > Len(old) THEN o + Len(new) ELSE Len(old)
           w == Overlay(old, new, o)
<1>1. n \in Nat /\ Len(old) \in Nat /\ Len(new) \in Nat /\ o \in Nat
  OBVIOUS
<1>2. w = [i \in 1 .. n |-> IF i > o /\ i <= o + Len(new) THEN new[i - o] ELSE old[i]]
  BY DEF Overlay
<1>3. ASSUME NEW i \in 1 .. n PROVE Cmd[w[i]].op = "other"
  <2>1. CASE i > o /\ i <= o + Len(new)
    <3>1. i - o \in DOMAIN new /\ w[i] = new[i - o] BY <1>1, <1>2, <2>1
    <3> QED BY <3>1 DEF Harmless
  <2>2. CASE ~(i > o /\ i <= o + Len(new))
    <3>1. i \in DOMAIN old /\ w[i] = old[i] BY <1>1, <1>2, <2>2
    <3> QED BY <3>1 DEF Harmless
  <2> QED BY <2>1, <2>2
<1>4. DOMAIN w = 1 .. n BY <1>2
<1> HIDE DEF w, n
<1> QED BY <1>3, <1>4 DEF Harmless, w

\* No line of a batch runs that does anything.
LEMMA NoBatchRuns ==
    ASSUME IInv, NothingToRun
    PROVE  /\ ~CompoundMkdir /\ ~CompoundRmdir /\ ~CompoundWrite
           /\ ~CompoundBad /\ ~CompoundAstray
<1>1. exec \in Seq(Lines) BY DEF IInv, TypeOK
<1>2. exec # << >> => 1 \in DOMAIN exec /\ Head(exec) = exec[1] BY <1>1
<1>3. exec # << >> => Cmd[Head(exec)].op = "other"
  BY <1>2 DEF NothingToRun, Harmless
<1> QED BY <1>3 DEF CompoundMkdir, CompoundRmdir, CompoundWrite, CompoundBad,
                    CompoundAstray, LineIs

\* Nothing is run but lines that do nothing, and only Release gives them.
LEMMA NothingToRunStep ==
    ASSUME IInv, NoBatches, NothingToRun, [Next]_vars
    PROVE  NothingToRun'
<1>0. TypeOK BY DEF IInv
<1>1. ASSUME NEW s, NEW t, NEW n, NEW d, NEW m, Fill(m, s, t, n, d)
      PROVE  \A x \in Ents : Harmless(data'[x])
  <2>1. \A x \in Ents : data'[x] \in {data[x], << >>} BY <1>1 DEF Fill
  <2> QED BY <2>1 DEF NothingToRun, Harmless
<1>2. ASSUME NEW e, DoRmdir(e) PROVE \A x \in Ents : Harmless(data'[x])
  <2>1. CASE data' = data BY <2>1 DEF NothingToRun
  <2>2. CASE Free(Subtree(e))
    <3>1. \A x \in Ents : data'[x] \in {data[x], << >>} BY <2>2 DEF Free
    <3> QED BY <3>1 DEF NothingToRun, Harmless
  <2> QED BY <1>2, <2>1, <2>2 DEF DoRmdir, Crash
<1>3. ~CompoundMkdir /\ ~CompoundRmdir /\ ~CompoundWrite /\ ~CompoundBad
      /\ ~CompoundAstray
  BY NoBatchRuns
<1>4. ASSUME Mount PROVE NothingToRun'
  BY <1>1, <1>4 DEF Mount, NothingToRun, Harmless
<1>5. ASSUME Die PROVE NothingToRun'
  BY <1>5 DEF Die, Blank, NothingToRun, Harmless
<1>6. ASSUME NEW p \in Paths, Mkdir(p) PROVE NothingToRun'
  BY <1>1, <1>6 DEF Mkdir, DoMkdir, NothingToRun, Harmless
<1>7. ASSUME NEW p \in Paths, Rmdir(p) PROVE NothingToRun'
  BY <1>2, <1>7 DEF Rmdir, NothingToRun, Harmless
<1>8. ASSUME NEW p \in Paths, NEW t \in Targets, SymlinkNew(p, t) PROVE NothingToRun'
  BY <1>1, <1>8 DEF SymlinkNew, NewFromPattern, NothingToRun, Harmless
<1>9. ASSUME NEW h \in Handles, NEW p \in Paths, CreateNew(h, p) PROVE NothingToRun'
  BY <1>1, <1>9 DEF CreateNew, NewFromPattern, NothingToRun, Harmless
<1>10. ASSUME NEW h \in Handles, NEW b \in Bufs, NEW o \in 0 .. MaxLines, Write(h, b, o)
       PROVE NothingToRun'
  <2> DEFINE e == fh[h]
  <2>1. PICK v \in SetOutcomes(e, b, o) : data' = [data EXCEPT ![e] = v]
    BY <1>10 DEF Write
  <2>2. e \in live /\ e \in Ents /\ data[e] \in Seq(Lines) /\ b \in Seq(Lines)
        /\ o <= Len(data[e])
    BY <1>0, <1>10, ValueAssumption DEF Write, TypeOK
  <2>3. o \in 0 .. Len(data[e]) BY <2>2, ValueAssumption
  <2>4. Harmless(b) /\ Harmless(data[e])
    BY <2>2 DEF NoBatches, Harmless, NothingToRun
  <2>5. Harmless(v)
    <3> HIDE DEF e
    <3> QED BY <2>1, <2>2, <2>3, <2>4, OverlayHarmless DEF SetOutcomes
  <2>6. \A x \in Ents : data'[x] = IF x = e THEN v ELSE data[x]
    BY <1>0, <2>1 DEF TypeOK
  <2>7. \A x \in Ents : Harmless(data'[x]) BY <2>5, <2>6 DEF NothingToRun
  <2> QED BY <1>10, <2>7 DEF Write, NothingToRun, Harmless
<1>11. ASSUME NEW h \in Handles, Release(h) PROVE NothingToRun'
  <2>1. fh[h] \in Ents BY <1>0, <1>11 DEF Release, TypeOK
  <2>2. Harmless(exec') BY <1>11, <2>1 DEF Release, NothingToRun, Harmless
  <2> QED BY <1>11, <2>2 DEF Release, NothingToRun, Harmless
<1>12. ASSUME CompoundOther PROVE NothingToRun'
  <2>1. exec \in Seq(Lines) /\ exec # << >> /\ exec' = Tail(exec)
    BY <1>0, <1>12 DEF CompoundOther, LineIs, TypeOK
  <2>2. \A i \in DOMAIN exec' : i + 1 \in DOMAIN exec /\ exec'[i] = exec[i + 1] BY <2>1
  <2>3. Harmless(exec') BY <2>2 DEF NothingToRun, Harmless
  <2> QED BY <1>12, <2>3 DEF CompoundOther, NothingToRun, Harmless
<1>13. ASSUME UNCHANGED <<data, exec, stale>> PROVE NothingToRun'
  BY <1>13 DEF NothingToRun, Harmless
<1>14. ASSUME NEW p, NEW q, Rename(p, q) PROVE NothingToRun'
  BY <1>13, <1>14 DEF Rename, DoRename, Crash
<1>15. ASSUME NEW p, NEW q, RenameStale(p, q) PROVE NothingToRun'
  BY <1>15 DEF RenameStale, NothingToRun
<1>16. ASSUME StaleExpires PROVE NothingToRun'
  BY <1>16 DEF StaleExpires, NothingToRun
<1>17. ASSUME \/ \E p \in Paths : Unlink(p)
              \/ \E p \in Paths, t \in Targets : SymlinkHidden(p, t)
              \/ \E h \in Handles : \/ \E p \in Paths : Open(h, p) \/ CreateHidden(h, p)
                                    \/ CloseDir(h) \/ UseFreed(h)
              \/ UNCHANGED vars
       PROVE  NothingToRun'
  BY <1>13, <1>17 DEF Unlink, SymlinkHidden, Open, CreateHidden, CloseDir, UseFreed,
                      Crash, vars
<1>18. ASSUME NEW d, NEW e, NEW n, NEW rest, NEW ask, Detour(d, e, n, rest, ask)
       PROVE  NothingToRun'
  BY <1>1, <1>18 DEF Detour, NewFromPattern, NothingToRun, Harmless
<1>19. ASSUME WalkDetour \/ \E p \in Paths, ask \in Asks : PatternOnWay(p, ask)
       PROVE  NothingToRun'
  BY <1>18, <1>19 DEF WalkDetour, PatternOnWay
<1>20. ASSUME \/ WalkInto \/ WalkLost \/ WalkAstray
              \/ WalkCreates \/ WalkLinks \/ WalkRefused
       PROVE  NothingToRun'
  BY <1>13, <1>20 DEF WalkInto, WalkLost, WalkAstray, WalkCreates, WalkLinks,
                      WalkRefused, Crash
<1> QED BY <1>3, <1>4, <1>5, <1>6, <1>7, <1>8, <1>9, <1>10, <1>11, <1>12, <1>14, <1>15,
           <1>16, <1>17, <1>19, <1>20 DEF Next

\* No step leads a walk off its path.
OnPath == walk = NoWalk /\ PathsClear

LEMMA OnPathStep ==
    ASSUME IInv, NothingToRun, OnPath, PlainPaths, PatternsLast, NoDots, [Next]_vars
    PROVE  OnPath'
<1>0. TypeOK /\ TreeInv /\ TypeOK' BY NextInv DEF IInv
<1>1. /\ ~\E p \in Paths, ask \in Asks : PatternOnWay(p, ask)
      /\ ~WalkInto /\ ~WalkDetour /\ ~WalkLost /\ ~WalkAstray
      /\ ~WalkCreates /\ ~WalkLinks /\ ~WalkRefused
  BY <1>0, NoWalks DEF OnPath
<1>2. ~CompoundMkdir /\ ~CompoundRmdir /\ ~CompoundWrite /\ ~CompoundBad
      /\ ~CompoundAstray
  BY NoBatchRuns
<1>3. ASSUME UNCHANGED tree PROVE PathsClear'
  <2>1. \A x, y \in live : <<x, y>> \in Clear => <<x, y>> \in Clear'
    BY <1>3, ClearSame DEF tree
  <2>2. \A d \in live : Ordered(kids[d], Clear) BY DEF OnPath, PathsClear
  <2>3. \A d \in live' : Ordered(kids'[d], Clear') BY <1>0, <1>3, <2>1, <2>2, SameOrdered
  <2> QED BY <2>3 DEF PathsClear
<1>4. ASSUME Mount PROVE OnPath'
  <2>1. live = {} /\ Ents \ live = Ents /\ NULL \notin live
    BY <1>0, <1>4 DEF Mount, TreeInv, ListsMatchParents
  <2>2. RootSchema \in Schemas /\ "subdir" \in Types BY SchemaAssumption DEF Types
  <2>3. PICK m \in malloc(FillNodes(RootSchema, "subdir"), Ents \ live) :
           Fill(m, RootSchema, "subdir", SName[RootSchema], NULL)
    BY <1>4, <2>1 DEF Mount
  <2>4. PathsClear' BY <1>0, <2>1, <2>2, <2>3, FillClear DEF OnPath
  <2> QED BY <1>4, <2>4 DEF Mount, OnPath
<1>5. ASSUME Die PROVE OnPath'
  BY <1>5 DEF Die, OnPath, PathsClear
<1>6. ASSUME NEW p \in Paths, Mkdir(p) PROVE OnPath'
  <2>1. PICK d \in live : DoMkdir(d, Last(p)) BY <1>6 DEF Mkdir
  <2>2. PICK m \in malloc(FillNodes(schema[d], "subdir"), Ents \ live) :
           Fill(m, schema[d], "subdir", Last(p), d)
    BY <2>1 DEF DoMkdir, MkdirPlaces
  <2>3. Plain(Last(p)) BY <1>6, PathPlain DEF Mkdir, Absent
  <2>4. schema[d] \in Schemas /\ "subdir" \in Types BY <1>0 DEF TypeOK, Types
  <2>5. PathsClear' BY <1>0, <2>2, <2>3, <2>4, FillClear DEF OnPath
  <2> QED BY <1>6, <2>5 DEF Mkdir, OnPath
<1>7. ASSUME NEW p \in Paths, Rmdir(p) PROVE OnPath'
  <2>1. PICK e \in live : e = Search(p) /\ DoRmdir(e) BY <1>7 DEF Rmdir
  <2>2. p # << >> /\ Walkable(p) /\ root # NULL /\ Search(p) # NULL
    BY <1>7 DEF Rmdir, Exists, Found, Idle
  <2>3. PathsClear' BY <1>0, <2>1, <2>2, NotTheRoot, RmdirClear DEF OnPath
  <2> QED BY <1>7, <2>3 DEF Rmdir, OnPath
<1>8. ASSUME NEW p \in Paths,
             \/ \E h \in Handles : CreateNew(h, p)
             \/ \E t \in Targets : SymlinkNew(p, t)
      PROVE  OnPath'
  <2>1. PICK d \in live, e \in live : \E m \in PatternPlaces(e) :
           NewFromPattern(m, d, e, Last(p))
    BY <1>8 DEF CreateNew, SymlinkNew
  <2>2. PICK m \in malloc(FillNodes(schema[e], type[e]), Ents \ live) :
           Fill(m, schema[e], type[e], Last(p), d)
    BY <2>1 DEF PatternPlaces, NewFromPattern
  <2>3. Plain(Last(p)) BY <1>8, PathPlain DEF CreateNew, SymlinkNew, Absent
  <2>4. schema[e] \in Schemas /\ type[e] \in Types BY <1>0 DEF TypeOK
  <2>5. PathsClear' BY <1>0, <2>2, <2>3, <2>4, FillClear DEF OnPath
  <2> QED BY <1>8, <2>5 DEF CreateNew, SymlinkNew, OnPath
<1>9. ASSUME NEW pq \in Moves, Rename(pq[1], pq[2]) PROVE OnPath'
  <2>1. PICK q \in Paths : q = pq[2] BY ValueAssumption
  <2>2. PICK e \in live, par \in live : e # root /\ DoRename(e, par, Last(q))
    BY <1>9, <2>1 DEF Rename, KernelMayRename
  <2>3. Plain(Last(q)) BY <1>9, <2>1, PathPlain DEF Rename
  <2>4. PathsClear' BY <1>0, <2>2, <2>3, RenameClear DEF OnPath
  <2> QED BY <1>9, <2>4 DEF Rename, OnPath
<1>10. ASSUME \/ \E p, q : RenameStale(p, q)
              \/ StaleExpires
              \/ \E p \in Paths : Unlink(p) \/ \E t \in Targets : SymlinkHidden(p, t)
              \/ \E h \in Handles : \/ \E p \in Paths : Open(h, p) \/ CreateHidden(h, p)
                                    \/ \E b \in Bufs, o \in 0 .. MaxLines : Write(h, b, o)
                                    \/ Release(h) \/ CloseDir(h) \/ UseFreed(h)
              \/ CompoundOther
              \/ UNCHANGED vars
       PROVE  OnPath'
  <2>1. UNCHANGED <<tree, walk>>
    BY <1>10 DEF RenameStale, StaleExpires, Unlink, SymlinkHidden, Open, CreateHidden,
                 Write, Release, CloseDir, UseFreed, CompoundOther, Crash, vars
  <2> QED BY <1>3, <2>1 DEF OnPath
<1> QED BY <1>1, <1>2, <1>4, <1>5, <1>6, <1>7, <1>8, <1>9, <1>10 DEF Next

-----------------------------------------------------------------------------
(* Names are unique *)

\* _fill() leaves the flags of the other entries.
LEMMA FlagsAfterFill ==
    ASSUME TypeOK, NEW s \in Schemas, NEW t \in Types,
           NEW m \in malloc(FillNodes(s, t), Ents \ live),
           hidden' \in {HiddenAfterFill(m), [HiddenAfterFill(m) EXCEPT ![m[s]] = FALSE]}
    PROVE  \A x \in live : hidden'[x] = hidden[x]
<1>1. Range(m) \subseteq Ents \ live /\ m[s] \in Range(m)
  BY Placement, FillNodesTree
<1>2. \A x \in live : x \in Ents /\ x \notin Range(m) /\ x # m[s] BY <1>1 DEF TypeOK
<1> DEFINE H == HiddenAfterFill(m)
<1>3. DOMAIN H = Ents /\ \A x \in Ents \ Range(m) : H[x] = hidden[x]
  BY DEF HiddenAfterFill
<1> HIDE DEF H
<1>4. hidden' = H \/ hidden' = [H EXCEPT ![m[s]] = FALSE] BY DEF H
<1>5. CASE hidden' = H BY <1>2, <1>3, <1>5
<1>6. CASE hidden' = [H EXCEPT ![m[s]] = FALSE] BY <1>2, <1>3, <1>6
<1> QED BY <1>4, <1>5, <1>6

\* An entry made from a pattern, for a name the kernel did not find.
LEMMA PatternShown ==
    ASSUME IInv, FirstShown, SiblingsDiffer, NoDots, NEW p \in Paths, Absent(p),
           NEW d \in live, NEW e \in live, d = Search(Front(p)),
           NEW m \in PatternPlaces(e), NewFromPattern(m, d, e, Last(p))
    PROVE  FirstShown'
<1>1. TypeOK /\ TreeInv /\ p # << >> /\ ~Found(Search(p)) BY DEF IInv, Absent
<1>2. schema[e] \in Schemas /\ type[e] \in Types BY <1>1 DEF TypeOK
<1>3. Last(p) \in Names BY <1>1, PathName, ValueAssumption
<1>4. /\ m \in malloc(FillNodes(schema[e], type[e]), Ents \ live)
      /\ Fill(m, schema[e], type[e], Last(p), d)
      /\ hidden' = [HiddenAfterFill(m) EXCEPT ![m[schema[e]]] = FALSE]
  BY DEF PatternPlaces, NewFromPattern
<1>5. \A x \in live : hidden'[x] = hidden[x] BY <1>1, <1>2, <1>4, FlagsAfterFill
<1>6. \A i \in DOMAIN kids[d] : name[kids[d][i]] = Last(p) => hidden[kids[d][i]]
  BY <1>1, AbsentHidden
<1> QED BY <1>1, <1>2, <1>3, <1>4, <1>5, <1>6, FillShown

\* Every step keeps the entries that show in front.
LEMMA FirstShownStep ==
    ASSUME IInv, NothingToRun, OnPath, FirstShown, SiblingsDiffer, NoDots, NoBatches,
           ~Replace, [Next]_vars
    PROVE  FirstShown'
<1>0. TypeOK /\ TreeInv BY DEF IInv
<1>14. /\ ~\E p \in Paths, ask \in Asks : PatternOnWay(p, ask)
       /\ ~WalkInto /\ ~WalkDetour /\ ~WalkLost /\ ~WalkAstray
       /\ ~WalkCreates /\ ~WalkLinks /\ ~WalkRefused
  BY <1>0, NoWalks DEF OnPath
<1>1. ASSUME UNCHANGED tree, UNCHANGED hidden PROVE FirstShown'
  BY <1>0, <1>1, FirstShownSame
<1>2. ~CompoundMkdir /\ ~CompoundRmdir /\ ~CompoundWrite /\ ~CompoundBad
      /\ ~CompoundAstray
  BY NoBatchRuns
<1>3. ASSUME Mount PROVE FirstShown'
  <2>1. live = {} /\ Ents \ live = Ents
    BY <1>0, <1>3 DEF Mount, TreeInv, ListsMatchParents
  <2>2. RootSchema \in Schemas /\ "subdir" \in Types /\ SName[RootSchema] \in Names
    BY SchemaAssumption DEF Types
  <2>3. PICK m \in malloc(FillNodes(RootSchema, "subdir"), Ents \ live) :
           Fill(m, RootSchema, "subdir", SName[RootSchema], NULL)
    BY <1>3, <2>1 DEF Mount
  <2> QED BY <1>0, <2>1, <2>2, <2>3, FillShown
<1>4. ASSUME Die PROVE FirstShown'
  BY <1>4 DEF Die, FirstShown
<1>5. ASSUME NEW p \in Paths, Mkdir(p) PROVE FirstShown'
  <2>1. PICK d \in live : d = Search(Front(p)) /\ DoMkdir(d, Last(p))
    BY <1>5 DEF Mkdir
  <2>2. PICK m \in malloc(FillNodes(schema[d], "subdir"), Ents \ live) :
           Fill(m, schema[d], "subdir", Last(p), d) /\ hidden' = HiddenAfterFill(m)
    BY <2>1 DEF DoMkdir, MkdirPlaces
  <2>3. p # << >> /\ ~Found(Search(p)) BY <1>5 DEF Mkdir, Absent
  <2>4. Last(p) \in Names BY <2>3, PathName, ValueAssumption
  <2>5. schema[d] \in Schemas /\ "subdir" \in Types BY <1>0 DEF TypeOK, Types
  <2>6. \A x \in live : hidden'[x] = hidden[x] BY <1>0, <2>2, <2>5, FlagsAfterFill
  <2>7. \A i \in DOMAIN kids[d] : name[kids[d][i]] = Last(p) => hidden[kids[d][i]]
    BY <1>0, <2>1, <2>3, AbsentHidden
  <2> QED BY <1>0, <2>2, <2>4, <2>5, <2>6, <2>7, FillShown
<1>6. ASSUME NEW p \in Paths, Rmdir(p) PROVE FirstShown'
  <2>1. PICK e \in live : e = Search(p) /\ DoRmdir(e) BY <1>6 DEF Rmdir
  <2>2. p # << >> /\ Walkable(p) /\ root # NULL /\ Search(p) # NULL
    BY <1>6 DEF Rmdir, Exists, Found, Idle
  <2> QED BY <1>0, <2>1, <2>2, NotTheRoot, RmdirShown
<1>7. ASSUME NEW p \in Paths, NEW t \in Targets, SymlinkNew(p, t) PROVE FirstShown'
  <2>1. PICK d \in live, e \in live :
           /\ d = Search(Front(p))
           /\ \E m \in PatternPlaces(e) : NewFromPattern(m, d, e, Last(p))
    BY <1>7 DEF SymlinkNew
  <2>2. Absent(p) BY <1>7 DEF SymlinkNew
  <2> QED BY <2>1, <2>2, PatternShown
<1>8. ASSUME NEW h \in Handles, NEW p \in Paths, CreateNew(h, p) PROVE FirstShown'
  <2>1. PICK d \in live, e \in live :
           /\ d = Search(Front(p))
           /\ \E m \in PatternPlaces(e) : NewFromPattern(m, d, e, Last(p))
    BY <1>8 DEF CreateNew
  <2>2. Absent(p) BY <1>8 DEF CreateNew
  <2> QED BY <2>1, <2>2, PatternShown
<1>9. ASSUME NEW p \in Paths,
             \/ \E t \in Targets : SymlinkHidden(p, t)
             \/ \E h \in Handles : CreateHidden(h, p)
      PROVE  FirstShown'
  <2>1. PICK e \in live : /\ e = FnMatch(Search(Front(p)), Last(p)) /\ name[e] = Last(p)
                          /\ hidden' = [hidden EXCEPT ![e] = FALSE]
    BY <1>9 DEF SymlinkHidden, CreateHidden
  <2>2. UNCHANGED tree BY <1>9 DEF SymlinkHidden, CreateHidden
  <2>3. Search(Front(p)) \in live
    <3>1. p # << >> /\ Walkable(p) /\ root # NULL
      BY <1>9 DEF SymlinkHidden, CreateHidden, Absent, Idle
    <3> QED BY <1>0, <3>1, WalkableParent
  <2> QED BY <1>0, <2>1, <2>2, <2>3, UnhideShown
<1>10. ASSUME NEW p \in Paths, Unlink(p) PROVE FirstShown'
  <2>1. UNCHANGED tree /\ \E e \in live : hidden' = [hidden EXCEPT ![e] = TRUE]
    BY <1>10 DEF Unlink
  <2>2. \A x \in live : hidden[x] => hidden'[x] BY <1>0, <2>1 DEF TypeOK
  <2> QED BY <1>0, <2>1, <2>2, FirstShownSame
<1>11. ASSUME NEW p \in Paths, NEW q \in Paths, Rename(p, q) PROVE FirstShown'
  <2>1. PICK e \in live, par \in live :
           /\ par = Search(Front(q)) /\ e # root /\ ~Found(Search(q))
           /\ DoRename(e, par, Last(q))
    BY <1>11 DEF Rename, KernelMayRename
  <2>2. q # << >> BY <1>11 DEF Rename
  <2>3. \A i \in DOMAIN kids[par] : name[kids[par][i]] = Last(q) => hidden[kids[par][i]]
    BY <1>0, <2>1, <2>2, AbsentHidden
  <2> QED BY <1>0, <2>1, <2>3, RenameShown
<1>12. ASSUME NEW pq \in Moves, Rename(pq[1], pq[2]) PROVE FirstShown'
  <2>1. pq[1] \in Paths /\ pq[2] \in Paths BY ValueAssumption
  <2> QED BY <1>11, <1>12, <2>1
<1>13. ASSUME \/ \E p, q : RenameStale(p, q)
              \/ StaleExpires
              \/ \E h \in Handles : \/ \E p \in Paths : Open(h, p)
                                    \/ \E b \in Bufs, o \in 0 .. MaxLines : Write(h, b, o)
                                    \/ Release(h) \/ CloseDir(h) \/ UseFreed(h)
              \/ CompoundOther
              \/ UNCHANGED vars
       PROVE  FirstShown'
  BY <1>1, <1>13 DEF RenameStale, StaleExpires, Open, Write, Release, CloseDir, UseFreed,
                     CompoundOther, Crash, vars
<1> QED BY <1>2, <1>3, <1>4, <1>5, <1>6, <1>7, <1>8, <1>9, <1>10, <1>12, <1>13, <1>14
        DEF Next

\* What FirstShown is for.
LEMMA ShownOnce == TypeOK /\ FirstShown => VisibleNamesUnique
<1> SUFFICES ASSUME TypeOK, FirstShown, NEW d \in live, NEW x \in Kids(d), NEW y \in Kids(d),
                    name[x] = name[y], ~hidden[x], ~hidden[y]
             PROVE  x = y
  BY DEF VisibleNamesUnique
<1>1. PICK i \in DOMAIN kids[d], j \in DOMAIN kids[d] : x = kids[d][i] /\ y = kids[d][j]
  BY DEF Kids
<1>2. kids[d] \in Seq(Ents) BY DEF TypeOK
<1>3. i < j \/ j < i \/ i = j BY <1>2
<1>4. ASSUME NEW a \in DOMAIN kids[d], NEW b \in DOMAIN kids[d], a < b,
             name[kids[d][a]] = name[kids[d][b]]
      PROVE  hidden[kids[d][b]]
  BY <1>4 DEF FirstShown, Ordered, Behind
<1> QED BY <1>1, <1>3, <1>4

\* A name shows one entry of a directory, whatever is made from patterns,
\* hidden, moved and removed (schemafs_search, schemafs_fnmatch), for clients
\* that go through the kernel, give no entry the name of a pattern and do not
\* rename onto a name that is there, if the schema declares no pattern before a
\* directory it matches.
THEOREM NamesAreUnique ==
    ASSUME SiblingsDiffer, PatternsLast, PlainPaths, NoDots, NoBatches, ~Replace
    PROVE  Spec => []VisibleNamesUnique
<1> DEFINE Inv == IInv /\ NothingToRun /\ OnPath /\ FirstShown
<1>1. Init => Inv
  <2>1. Init => NothingToRun BY DEF Init, Blank, NothingToRun, Harmless
  <2>2. Init => FirstShown BY DEF Init, FirstShown
  <2>3. Init => OnPath BY DEF Init, OnPath, PathsClear
  <2> QED BY <2>1, <2>2, <2>3, InitInv
<1>2. Inv /\ [Next]_vars => Inv'
  BY NextInv, NothingToRunStep, OnPathStep, FirstShownStep
<1>3. Inv => VisibleNamesUnique BY ShownOnce DEF IInv
<1> HIDE DEF Inv
<1> QED BY <1>1, <1>2, <1>3, PTL DEF Spec

-----------------------------------------------------------------------------
(* Nothing fails *)

Sound == fault = "none" /\ \A h \in Handles : fh[h] \notin {Freed, FreedDir}

\* No step fails, and none leaves a handle to a freed cell.
LEMMA SoundStep ==
    ASSUME IInv, NothingToRun, OnPath, Sound, CloseFirst, NoDots, [Next]_vars
    PROVE  Sound'
<1>0. TypeOK /\ TreeInv BY DEF IInv
<1>11. /\ ~\E p \in Paths, ask \in Asks : PatternOnWay(p, ask)
       /\ ~WalkInto /\ ~WalkDetour /\ ~WalkLost /\ ~WalkAstray
       /\ ~WalkCreates /\ ~WalkLinks /\ ~WalkRefused
  BY <1>0, NoWalks DEF OnPath
<1>1. ASSUME UNCHANGED <<fh, fault>> PROVE Sound'
  BY <1>1 DEF Sound
<1>2. ASSUME NEW h \in Handles, NEW x \in Ents \cup {NULL}, fh' = [fh EXCEPT ![h] = x],
             fault' = fault
      PROVE  Sound'
  BY <1>0, <1>2, ValueAssumption DEF Sound, TypeOK
<1>3. ~CompoundMkdir /\ ~CompoundRmdir /\ ~CompoundWrite /\ ~CompoundBad
      /\ ~CompoundAstray
  BY NoBatchRuns
<1>4. ~Die /\ ~\E p, q : RenameStale(p, q)
  BY DEF Die, RenameStale, Sound, NothingToRun
<1>5. ~\E h \in Handles : UseFreed(h)
  BY DEF UseFreed, Sound
<1>6. ASSUME \/ Mount
             \/ \E p \in Paths : \/ Mkdir(p) \/ Unlink(p)
                                 \/ \E t \in Targets : SymlinkNew(p, t) \/ SymlinkHidden(p, t)
             \/ StaleExpires
             \/ \E h \in Handles, b \in Bufs, o \in 0 .. MaxLines : Write(h, b, o)
             \/ CompoundOther
             \/ UNCHANGED vars
      PROVE  Sound'
  BY <1>1, <1>6 DEF Mount, Mkdir, DoMkdir, Unlink, SymlinkNew, SymlinkHidden, StaleExpires,
                    Write, CompoundOther, vars
<1>7. ASSUME NEW p \in Paths, Rmdir(p) PROVE Sound'
  <2>1. PICK e \in live : /\ e = Search(p) /\ DoRmdir(e)
                          /\ \A h \in Handles : fh[h] \notin Subtree(e)
    BY <1>7 DEF Rmdir
  <2>2. p # << >> /\ Walkable(p) /\ root # NULL /\ Search(p) # NULL
    BY <1>7 DEF Rmdir, Exists, Found, Idle
  <2>3. e # root BY <1>0, <2>1, <2>2, NotTheRoot
  <2>4. parent[e] # NULL /\ Listed(e) BY <1>0, <2>3, ListedEntry
  <2>5. Free(Subtree(e)) /\ fault' = fault BY <2>1, <2>4 DEF DoRmdir
  <2>6. \A h \in Handles : fh'[h] = fh[h] BY <2>1, <2>5 DEF Free
  <2> QED BY <2>5, <2>6 DEF Sound
<1>8. ASSUME NEW h \in Handles, NEW p \in Paths, CreateNew(h, p) PROVE Sound'
  <2>1. PICK e \in live : \E m \in PatternPlaces(e) :
           fh' = [fh EXCEPT ![h] = IF type[e] \in {"link", "subdir", "object"}
                                   THEN NULL ELSE m[schema[e]]]
    BY <1>8 DEF CreateNew
  <2>2. PICK m \in PatternPlaces(e) :
           fh' = [fh EXCEPT ![h] = IF type[e] \in {"link", "subdir", "object"}
                                   THEN NULL ELSE m[schema[e]]]
    BY <2>1
  <2>3. schema[e] \in Schemas /\ type[e] \in Types BY <1>0 DEF TypeOK
  <2>4. m[schema[e]] \in Ents
    <3>1. schema[e] \in FillNodes(schema[e], type[e]) BY DEF FillNodes
    <3> QED BY <2>3, <3>1, Placement DEF PatternPlaces
  <2>5. fault' = fault BY <1>8 DEF CreateNew
  <2> QED BY <1>2, <2>2, <2>4, <2>5
<1>9. ASSUME NEW h \in Handles,
             \/ \E p \in Paths : Open(h, p) \/ CreateHidden(h, p)
             \/ Release(h) \/ CloseDir(h)
      PROVE  Sound'
  <2>1. live \subseteq Ents BY <1>0 DEF TypeOK
  <2>2. /\ \E x \in Ents \cup {NULL} : fh' = [fh EXCEPT ![h] = x]
        /\ fault' = fault
    BY <1>9, <2>1 DEF Open, CreateHidden, Release, CloseDir
  <2> QED BY <1>2, <2>2
<1>10. ASSUME NEW p, NEW q, Rename(p, q) PROVE Sound'
  <2>1. PICK e \in live, par \in live : e # root /\ DoRename(e, par, Last(q))
    BY <1>10 DEF Rename, KernelMayRename
  <2>2. Listed(e) BY <1>0, <2>1, ListedEntry
  <2> QED BY <1>1, <2>1, <2>2 DEF DoRename
<1> QED BY <1>3, <1>4, <1>5, <1>6, <1>7, <1>8, <1>9, <1>10, <1>11 DEF Next

\* Clients that close what is below a directory before they remove it, write no
\* batches and give no entry the name of a pattern cannot make the process fail:
\* no assertion, no null pointer, no freed SchemaEnt behind fi->fh, no children
\* of a file (_rmdir, _rename, _release, schemafs_fnmatch), if the schema
\* declares no pattern before a directory it matches.
THEOREM NothingFails ==
    ASSUME PatternsLast, PlainPaths, CloseFirst, NoDots, NoBatches
    PROVE  Spec => []NoFault
<1> DEFINE Inv == IInv /\ NothingToRun /\ OnPath /\ Sound
<1>1. Init => Inv
  <2>1. Init => NothingToRun BY DEF Init, Blank, NothingToRun, Harmless
  <2>2. Init => Sound BY ValueAssumption DEF Init, Sound
  <2>3. Init => OnPath BY DEF Init, OnPath, PathsClear
  <2> QED BY <2>1, <2>2, <2>3, InitInv
<1>2. Inv /\ [Next]_vars => Inv'
  BY NextInv, NothingToRunStep, OnPathStep, SoundStep
<1>3. Inv => NoFault BY DEF Sound, NoFault
<1> HIDE DEF Inv
<1> QED BY <1>1, <1>2, <1>3, PTL DEF Spec

-----------------------------------------------------------------------------
(***************************************************************************)
(* Links.  A link is made visible by symlink alone, if no link of the      *)
(* schema is a pattern and none gets the name of a pattern.                *)
(***************************************************************************)
PlainLinks ==
    /\ \A s \in Schemas : SType[s] = "link" => Plain(SName[s])
    /\ \A pq \in Moves : Plain(Last(pq[2]))

LinksKept ==
    \A x \in live : type[x] = "link" =>
        Plain(name[x]) /\ (hidden[x] <=> link[x] = NULL)

\* The links _fill() hangs in start hidden and without a target.
LEMMA FillLinks ==
    ASSUME TypeOK, LinksKept, PlainLinks,
           NEW s \in Schemas, NEW t \in Types, t # "link", NEW n, NEW d,
           NEW m \in malloc(FillNodes(s, t), Ents \ live), Fill(m, s, t, n, d),
           hidden' \in {HiddenAfterFill(m), [HiddenAfterFill(m) EXCEPT ![m[s]] = FALSE]},
           link' = LinkAfterFill(m)
    PROVE  LinksKept'
<1>1. FillResult(m, s, t, n, d) BY FillEffect
<1>2. /\ Range(m) = {m[y] : y \in FillNodes(s, t)} /\ Range(m) \subseteq Ents \ live
      /\ \A y \in FillNodes(s, t) : m[y] = m[s] => y = s
      /\ s \in FillNodes(s, t)
  BY Placement, FillNodesTree
<1>3. FillNodes(s, t) \subseteq Schemas BY FillNodesTree
<1>4. ASSUME NEW x \in live, type'[x] = "link"
      PROVE  Plain(name'[x]) /\ (hidden'[x] <=> link'[x] = NULL)
  <2>1. x \in Ents \ Range(m) BY <1>2 DEF TypeOK
  <2>2. type'[x] = type[x] /\ name'[x] = name[x] BY <1>1, <2>1 DEF FillResult
  <2>3. hidden'[x] = hidden[x] BY FlagsAfterFill
  <2>4. link'[x] = link[x] BY <2>1 DEF LinkAfterFill
  <2> QED BY <1>4, <2>2, <2>3, <2>4 DEF LinksKept
<1>5. ASSUME NEW y \in FillNodes(s, t), type'[m[y]] = "link"
      PROVE  Plain(name'[m[y]]) /\ (hidden'[m[y]] <=> link'[m[y]] = NULL)
  <2>1. y # s /\ SType[y] = "link" /\ name'[m[y]] = SName[y] /\ m[y] \in Ents
    BY <1>1, <1>5 DEF FillResult
  <2>2. Plain(SName[y]) BY <1>3, <2>1 DEF PlainLinks
  <2>3. m[y] \in Range(m) /\ m[y] # m[s] BY <1>2, <2>1
  <2>4. HiddenAfterFill(m)[m[y]] BY <1>5, <2>1, <2>3 DEF HiddenAfterFill
  <2>5. DOMAIN HiddenAfterFill(m) = Ents BY DEF HiddenAfterFill
  <2>6. hidden'[m[y]]
    <3> DEFINE H == HiddenAfterFill(m)
    <3>1. H[m[y]] /\ DOMAIN H = Ents BY <2>4, <2>5
    <3> HIDE DEF H
    <3>2. hidden' = H \/ hidden' = [H EXCEPT ![m[s]] = FALSE] BY DEF H
    <3>3. hidden'[m[y]] = H[m[y]] BY <2>1, <2>3, <3>1, <3>2
    <3> QED BY <3>1, <3>3
  <2>7. link'[m[y]] = NULL BY <2>1, <2>3 DEF LinkAfterFill
  <2> QED BY <2>1, <2>2, <2>6, <2>7
<1>6. live' = live \cup {m[y] : y \in FillNodes(s, t)} BY <1>1, <1>2 DEF FillResult
<1> QED BY <1>4, <1>5, <1>6 DEF LinksKept

\* A pattern that stands for another name is no link.
LEMMA PatternNoLink ==
    ASSUME TypeOK, LinksKept, NEW d \in live, NEW e \in live, NEW n \in Names,
           e = FnMatch(d, n), name[e] # n
    PROVE  type[e] # "link"
<1> DEFINE W == {k \in Kids(d) : name[k] = n \/ <<name[k], n>> \in Matches}
<1>1. e # NULL BY ValueAssumption DEF TypeOK
<1>2. e \in W
  <2>1. e = FirstKid(d, W) BY DEF FnMatch
  <2> HIDE DEF W
  <2> QED BY <1>1, <2>1, FirstKidFinds
<1>3. <<name[e], n>> \in Matches BY <1>2
<1> QED BY <1>3 DEF LinksKept, Plain

\* _rmdir keeps the entries it leaves.
LEMMA RmdirLinks ==
    ASSUME TypeOK, LinksKept, NEW e, DoRmdir(e)
    PROVE  LinksKept'
<1>1. CASE UNCHANGED <<tree, hidden, link>> BY <1>1 DEF LinksKept, tree
<1>2. CASE Free(Subtree(e))
  <2> DEFINE gone == Subtree(e)
  <2>1. \A x \in live \ gone : /\ x \in Ents /\ name'[x] = name[x] /\ type'[x] = type[x]
                               /\ hidden'[x] = hidden[x] /\ link'[x] = link[x]
    BY <1>2 DEF Free, TypeOK
  <2>2. live' = live \ gone BY <1>2 DEF Free
  <2> HIDE DEF gone
  <2> QED BY <2>1, <2>2 DEF LinksKept
<1> QED BY <1>1, <1>2 DEF DoRmdir, Crash

\* Every step keeps the links.
LEMMA LinksStep ==
    ASSUME IInv, LinksKept, PlainLinks, [Next]_vars
    PROVE  LinksKept'
<1>0. TypeOK /\ TreeInv BY DEF IInv
<1>1. ASSUME UNCHANGED <<live, name, type, hidden, link>> PROVE LinksKept'
  BY <1>1 DEF LinksKept
<1>2. ASSUME Mount PROVE LinksKept'
  <2>1. live = {} /\ Ents \ live = Ents
    BY <1>0, <1>2 DEF Mount, TreeInv, ListsMatchParents
  <2>2. RootSchema \in Schemas /\ "subdir" \in Types
    BY SchemaAssumption DEF Types
  <2>3. PICK m \in malloc(FillNodes(RootSchema, "subdir"), Ents \ live) :
           /\ Fill(m, RootSchema, "subdir", SName[RootSchema], NULL)
           /\ hidden' = HiddenAfterFill(m) /\ link' = LinkAfterFill(m)
    BY <1>2, <2>1 DEF Mount
  <2> QED BY <1>0, <2>2, <2>3, FillLinks
<1>3. ASSUME Die PROVE LinksKept'
  BY <1>3 DEF Die, LinksKept
<1>4. ASSUME NEW d \in live, NEW n, DoMkdir(d, n) PROVE LinksKept'
  <2>1. PICK m \in malloc(FillNodes(schema[d], "subdir"), Ents \ live) :
           /\ Fill(m, schema[d], "subdir", n, d)
           /\ hidden' = HiddenAfterFill(m) /\ link' = LinkAfterFill(m)
    BY <1>4 DEF DoMkdir, MkdirPlaces
  <2>2. schema[d] \in Schemas /\ "subdir" \in Types BY <1>0 DEF TypeOK, Types
  <2> QED BY <1>0, <2>1, <2>2, FillLinks
<1>5. ASSUME NEW p \in Paths,
             \/ \E h \in Handles : CreateNew(h, p)
             \/ \E t \in Targets : SymlinkNew(p, t)
      PROVE  LinksKept'
  <2>1. PICK d \in live, e \in live : \E m \in PatternPlaces(e) :
           /\ e = FnMatch(d, Last(p)) /\ NewFromPattern(m, d, e, Last(p))
           /\ type[e] # "link" => link' = LinkAfterFill(m)
    BY <1>5 DEF CreateNew, SymlinkNew
  <2>2. PICK m \in PatternPlaces(e) :
           /\ e = FnMatch(d, Last(p)) /\ NewFromPattern(m, d, e, Last(p))
           /\ type[e] # "link" => link' = LinkAfterFill(m)
    BY <2>1
  <2>3. Last(p) \in Names
    BY <1>5, PathName, ValueAssumption DEF CreateNew, SymlinkNew, Absent
  <2>4. type[e] # "link" BY <1>0, <2>2, <2>3, PatternNoLink DEF NewFromPattern
  <2>5. schema[e] \in Schemas /\ type[e] \in Types BY <1>0 DEF TypeOK
  <2>6. /\ m \in malloc(FillNodes(schema[e], type[e]), Ents \ live)
        /\ Fill(m, schema[e], type[e], Last(p), d)
        /\ hidden' = [HiddenAfterFill(m) EXCEPT ![m[schema[e]]] = FALSE]
    BY <2>2 DEF PatternPlaces, NewFromPattern
  <2> QED BY <1>0, <2>2, <2>4, <2>5, <2>6, FillLinks
<1>6. ASSUME NEW p, NEW t \in Targets, SymlinkHidden(p, t) PROVE LinksKept'
  <2>1. PICK e \in live : link' = [link EXCEPT ![e] = t] /\ hidden' = [hidden EXCEPT ![e] = FALSE]
    BY <1>6 DEF SymlinkHidden
  <2>2. UNCHANGED tree BY <1>6 DEF SymlinkHidden
  <2>3. /\ \A x \in live : x # e => hidden'[x] = hidden[x] /\ link'[x] = link[x]
        /\ link'[e] # NULL /\ ~hidden'[e]
    BY <1>0, <2>1, ValueAssumption DEF TypeOK
  <2> QED BY <2>2, <2>3 DEF LinksKept, tree
<1>7. ASSUME NEW h, NEW p, CreateHidden(h, p) PROVE LinksKept'
  <2>1. PICK e \in live : type[e] # "link" /\ hidden' = [hidden EXCEPT ![e] = FALSE]
    BY <1>7 DEF CreateHidden
  <2>2. UNCHANGED tree /\ link' = link BY <1>7 DEF CreateHidden
  <2>3. \A x \in live : x # e => hidden'[x] = hidden[x] BY <1>0, <2>1 DEF TypeOK
  <2> QED BY <2>1, <2>2, <2>3 DEF LinksKept, tree
<1>8. ASSUME NEW p, Unlink(p) PROVE LinksKept'
  <2>1. PICK e \in live : link' = [link EXCEPT ![e] = NULL] /\ hidden' = [hidden EXCEPT ![e] = TRUE]
    BY <1>8 DEF Unlink
  <2>2. UNCHANGED tree BY <1>8 DEF Unlink
  <2>3. /\ \A x \in live : x # e => hidden'[x] = hidden[x] /\ link'[x] = link[x]
        /\ link'[e] = NULL /\ hidden'[e]
    BY <1>0, <2>1 DEF TypeOK
  <2> QED BY <2>2, <2>3 DEF LinksKept, tree
<1>9. ASSUME NEW pq \in Moves, Rename(pq[1], pq[2]) PROVE LinksKept'
  <2>1. PICK e \in live, par \in live : DoRename(e, par, Last(pq[2]))
    BY <1>9 DEF Rename
  <2>2. CASE ~Listed(e) BY <1>1, <2>1, <2>2 DEF DoRename, Crash, tree
  <2>3. CASE Listed(e)
    <3>1. UNCHANGED <<live, type, hidden, link>> /\ name' = [name EXCEPT ![e] = Last(pq[2])]
      BY <2>1, <2>3 DEF DoRename
    <3>2. \A x \in live : name'[x] = name[x] \/ name'[x] = Last(pq[2])
      BY <1>0, <3>1 DEF TypeOK
    <3> QED BY <3>1, <3>2 DEF LinksKept, PlainLinks
  <2> QED BY <2>2, <2>3
<1>10. ASSUME NEW p \in Paths, Mkdir(p) PROVE LinksKept'
  BY <1>4, <1>10 DEF Mkdir
<1>11. ASSUME CompoundMkdir PROVE LinksKept'
  BY <1>1, <1>4, <1>11 DEF CompoundMkdir, tree
<1>12. ASSUME CompoundRmdir \/ \E p \in Paths : Rmdir(p) PROVE LinksKept'
  BY <1>0, <1>1, <1>12, RmdirLinks DEF CompoundRmdir, Rmdir, tree
<1>13. ASSUME \/ \E p, q : RenameStale(p, q)
              \/ StaleExpires
              \/ \E h \in Handles : \/ \E p \in Paths : Open(h, p)
                                    \/ \E b \in Bufs, o \in 0 .. MaxLines : Write(h, b, o)
                                    \/ Release(h) \/ CloseDir(h) \/ UseFreed(h)
              \/ CompoundWrite \/ CompoundOther \/ CompoundBad \/ CompoundAstray
              \/ WalkInto \/ WalkLost \/ WalkAstray \/ WalkRefused
              \/ UNCHANGED vars
       PROVE  LinksKept'
  BY <1>1, <1>13 DEF RenameStale, StaleExpires, Open, Write, Release, CloseDir, UseFreed,
                     CompoundWrite, CompoundOther, CompoundBad, CompoundAstray, WalkInto,
                     WalkLost, WalkAstray, WalkRefused, Crash, vars, tree
<1>14. ASSUME NEW d \in live, NEW e \in live, NEW n \in Names, NEW rest, NEW ask,
              e = FnMatch(d, n), Detour(d, e, n, rest, ask)
       PROVE  LinksKept'
  <2>1. PICK m \in PatternPlaces(e) : NewFromPattern(m, d, e, n) /\ link' = LinkAfterFill(m)
    BY <1>14 DEF Detour
  <2>2. type[e] # "link" BY <1>0, <1>14, <2>1, PatternNoLink DEF NewFromPattern
  <2>3. schema[e] \in Schemas /\ type[e] \in Types BY <1>0 DEF TypeOK
  <2>4. /\ m \in malloc(FillNodes(schema[e], type[e]), Ents \ live)
        /\ Fill(m, schema[e], type[e], n, d)
        /\ hidden' = [HiddenAfterFill(m) EXCEPT ![m[schema[e]]] = FALSE]
    BY <2>1 DEF PatternPlaces, NewFromPattern
  <2> QED BY <1>0, <2>1, <2>2, <2>3, <2>4, FillLinks
<1>15. ASSUME NEW p \in Paths, NEW ask \in Asks, PatternOnWay(p, ask) PROVE LinksKept'
  <2>1. PICK i \in 1 .. Len(p) - 1, d \in live, e \in live :
            e = FnMatch(d, p[i]) /\ Detour(d, e, p[i], SubSeq(p, i + 1, Len(p)), ask)
    BY <1>15 DEF PatternOnWay
  <2>2. p[i] \in Names
    <3>1. p \in Seq(Names) BY ValueAssumption
    <3> QED BY <3>1
  <2> QED BY <1>14, <2>1, <2>2
<1>16. ASSUME WalkDetour PROVE LinksKept'
  <2>1. walk \in [at : Ents, rest : Seq(Names), ask : Asks] /\ walk.rest # << >>
        /\ walk.at \in live
    BY <1>0, <1>16, WalkAtEntry DEF WalkDetour, Walking
  <2>2. Head(walk.rest) \in Names BY <2>1
  <2> QED BY <1>14, <1>16, <2>1, <2>2 DEF WalkDetour
<1>17. ASSUME WalkCreates PROVE LinksKept'
  <2>1. /\ type[walk.at] # "link" /\ hidden' = [hidden EXCEPT ![walk.at] = FALSE]
        /\ UNCHANGED tree /\ link' = link
    BY <1>17 DEF WalkCreates
  <2>2. \A x \in live : x # walk.at => hidden'[x] = hidden[x] BY <1>0, <2>1 DEF TypeOK
  <2> QED BY <2>1, <2>2 DEF LinksKept, tree
<1>18. ASSUME WalkLinks PROVE LinksKept'
  <2>1. walk \in [at : Ents, rest : Seq(Names), ask : Asks] /\ walk.ask[1] = "symlink"
    BY <1>0, <1>18, WalkAtEntry DEF WalkLinks, WalkEnds, Walking
  <2>2. walk.ask[2] # NULL /\ walk.at \in Ents BY <2>1, ValueAssumption DEF Asks
  <2>3. /\ link' = [link EXCEPT ![walk.at] = walk.ask[2]] /\ UNCHANGED tree
        /\ hidden' = [hidden EXCEPT ![walk.at] = FALSE]
    BY <1>18 DEF WalkLinks
  <2>4. /\ \A x \in live : x # walk.at => hidden'[x] = hidden[x] /\ link'[x] = link[x]
        /\ link'[walk.at] # NULL /\ ~hidden'[walk.at]
    BY <1>0, <2>2, <2>3 DEF TypeOK
  <2> QED BY <2>3, <2>4 DEF LinksKept, tree
<1> QED BY <1>2, <1>3, <1>5, <1>6, <1>7, <1>8, <1>9, <1>10, <1>11, <1>12, <1>13, <1>15,
           <1>16, <1>17, <1>18 DEF Next

\* A link is visible exactly while it has a target, so readlink never answers
\* EIO (_symlink, _unlink, _readlink), if no link is a pattern; clients may
\* write batches and keep what they remove open.
THEOREM LinksShowTargets ==
    ASSUME PlainLinks
    PROVE  Spec => []LinkVisibleIffTarget
<1>1. Init => LinksKept BY DEF Init, LinksKept
<1>2. IInv /\ LinksKept /\ [Next]_vars => LinksKept' BY LinksStep
<1>3. LinksKept => LinkVisibleIffTarget BY DEF LinksKept, LinkVisibleIffTarget
<1> QED BY <1>1, <1>2, <1>3, Invariant, PTL DEF Spec

-----------------------------------------------------------------------------
(***************************************************************************)
(* Refinement.  SchemaFS implements DirTree.  The lemmas named ...Maps say *)
(* which step of the abstract tree a change of the cells is; TreeStep goes *)
(* through the handlers.                                                   *)
(***************************************************************************)
\* The directory that lists an entry is the one its parent pointer says.
HoldersAreParents == \A e \in live : Holder(e) = parent[e]

\* In a tree the lists and the parent pointers agree.
LEMMA ListsSayParents == TypeOK /\ TreeInv => HoldersAreParents
<1> SUFFICES ASSUME TypeOK, TreeInv, NEW e \in live PROVE Holder(e) = parent[e]
  BY DEF HoldersAreParents
<1>1. \A d \in live : e \in Kids(d) => parent[e] = d
  BY DEF TreeInv, ListsMatchParents, Kids
<1>2. CASE e = root
  <2>1. parent[e] = NULL BY <1>2 DEF TreeInv, ListsMatchParents
  <2>2. NULL \notin live BY ValueAssumption DEF TypeOK
  <2> QED BY <1>1, <2>1, <2>2 DEF Holder
<1>3. CASE e # root
  <2>1. parent[e] \in live /\ e \in Kids(parent[e])
    BY <1>3 DEF TreeInv, ListsMatchParents, Listed
  <2> QED BY <1>1, <2>1 DEF Holder
<1> QED BY <1>2, <1>3

\* A branch that is new, in the terms of DirTree.
LEMMA NewMaps ==
    ASSUME HoldersAreParents, HoldersAreParents', live \subseteq live',
           NEW x \in live' \ live, parent'[x] \notin live' \ live,
           \A y \in live' \ {x} : y \in live' \ live <=> parent'[y] \in live' \ live,
           \A y \in live : /\ parent'[y] = parent[y] /\ name'[y] = name[y]
                           /\ type'[y] = type[y] /\ hidden'[y] = hidden[y],
           \A y \in live' \ (live \cup {x}) : parent'[y] \in live' /\ type'[parent'[y]] \in DirTypes,
           \A y, z \in live' \ live :
              ~hidden'[y] /\ ~hidden'[z] /\ parent'[y] = parent'[z] /\ name'[y] = name'[z]
                 => y = z
    PROVE  Tree!New(x)
<1> DEFINE new == live' \ live
<1>1. Tree!IsBranch(new, x, [e \in live |-> [dir |-> Holder(e), name |-> name[e]]]')
  BY DEF Tree!IsBranch, HoldersAreParents
<1>2. [e \in live |-> [dir |-> Holder(e), name |-> name[e]]] = [e \in live |-> [dir |-> Holder(e), name |-> name[e]]']
  BY DEF HoldersAreParents
<1> QED BY <1>1, <1>2 DEF Tree!New, HoldersAreParents, Tree!Entries, Dirs, IsDir

\* What _fill() makes is a new branch, and shows no name of a directory twice.
LEMMA FillBranch ==
    ASSUME IInv, IInv', VisibleNamesUnique',
           NEW s \in Schemas, NEW t \in Types, NEW n \in Names, NEW d \in live \cup {NULL},
           NEW m \in malloc(FillNodes(s, t), Ents \ live), Fill(m, s, t, n, d),
           \A x \in live : hidden'[x] = hidden[x]
    PROVE  /\ m[s] \in live' \ live /\ parent'[m[s]] = d /\ name'[m[s]] = n
           /\ Tree!New(m[s])
<1> DEFINE new == live' \ live
<1>0. TypeOK /\ TreeInv /\ TypeOK' /\ TreeInv' BY DEF IInv
<1>1. live \subseteq Ents /\ NULL \notin Ents BY <1>0, ValueAssumption DEF TypeOK
<1>2. FillResult(m, s, t, n, d) BY FillEffect
<1>3. /\ Range(m) = {m[y] : y \in FillNodes(s, t)}
      /\ Range(m) \subseteq Ents \ live
      /\ \A y, z \in FillNodes(s, t) : m[y] = m[z] => y = z
  BY Placement
<1>4. /\ s \in FillNodes(s, t)
      /\ \A y \in FillNodes(s, t) \ {s} :
            /\ SParent(y) \in FillNodes(s, t)
            /\ (IF SParent(y) = s THEN t ELSE SType[SParent(y)]) = "subdir"
  BY FillNodesTree
<1>5. new = Range(m) /\ live \subseteq live' BY <1>2, <1>3 DEF FillResult
<1>6. m[s] \in new /\ parent'[m[s]] = d /\ name'[m[s]] = n
  BY <1>2, <1>3, <1>4, <1>5 DEF FillResult
<1>7. d \notin new BY <1>1, <1>3, <1>5
<1>8. \A y \in new \ {m[s]} : parent'[y] \in new /\ type'[parent'[y]] = "subdir"
  <2> SUFFICES ASSUME NEW y \in new, y # m[s]
               PROVE  parent'[y] \in new /\ type'[parent'[y]] = "subdir"
    OBVIOUS
  <2>1. PICK z \in FillNodes(s, t) : y = m[z] BY <1>3, <1>5
  <2>2. z # s BY <2>1
  <2>3. parent'[y] = m[SParent(z)] BY <1>2, <2>1, <2>2 DEF FillResult
  <2>4. type'[m[SParent(z)]] = IF SParent(z) = s THEN t ELSE SType[SParent(z)]
    BY <1>2, <1>4, <2>2 DEF FillResult
  <2> QED BY <1>3, <1>4, <1>5, <2>2, <2>3, <2>4
<1>9. \A y \in live : /\ parent'[y] = parent[y] /\ name'[y] = name[y]
                      /\ type'[y] = type[y] /\ hidden'[y] = hidden[y]
  BY <1>1, <1>2, <1>3 DEF FillResult
<1>10. \A y \in live : parent[y] \in live \cup {NULL}
  BY <1>0 DEF TreeInv, ListsMatchParents
<1>11. \A y \in live' \ {m[s]} : y \in new <=> parent'[y] \in new
  BY <1>1, <1>3, <1>5, <1>8, <1>9, <1>10
<1>12. ASSUME NEW y \in new, NEW z \in new, ~hidden'[y], ~hidden'[z],
              parent'[y] = parent'[z], name'[y] = name'[z]
       PROVE  y = z
  <2>1. CASE parent'[y] \in new
    <3>1. PICK q \in live' : q = parent'[y] BY <2>1
    <3>2. q # NULL BY <1>1, <1>3, <1>5, <2>1, <3>1
    <3>3. y # root' /\ z # root'
      BY <1>0, <1>12, <3>1, <3>2 DEF TreeInv, ListsMatchParents
    <3>4. y \in Kids(q)' /\ z \in Kids(q)'
      BY <1>0, <1>12, <3>1, <3>3 DEF TreeInv, ListsMatchParents, Listed
    <3> QED BY <1>12, <3>1, <3>4 DEF VisibleNamesUnique
  <2>2. CASE parent'[y] \notin new
    BY <1>8, <1>12, <2>2
  <2> QED BY <2>1, <2>2
<1>13. HoldersAreParents /\ HoldersAreParents'
  <2>1. TypeOK' /\ TreeInv' BY <1>0
  <2>2. HoldersAreParents' BY <2>1, ListsSayParents, PTL
  <2> QED BY <1>0, <2>2, ListsSayParents
<1>14. \A y \in live' \ (live \cup {m[s]}) :
          parent'[y] \in live' /\ type'[parent'[y]] \in DirTypes
  BY <1>8 DEF DirTypes
<1>15. Tree!New(m[s])
  <2>1. PICK x \in live' \ live : x = m[s] BY <1>6
  <2>2. parent'[x] \notin live' \ live BY <1>6, <1>7, <2>1
  <2>3. \A y \in live' \ {x} : y \in live' \ live <=> parent'[y] \in live' \ live
    BY <1>11, <2>1
  <2>4. \A y \in live' \ (live \cup {x}) :
           parent'[y] \in live' /\ type'[parent'[y]] \in DirTypes
    BY <1>14, <2>1
  <2>5. \A y, z \in live' \ live :
           ~hidden'[y] /\ ~hidden'[z] /\ parent'[y] = parent'[z] /\ name'[y] = name'[z]
              => y = z
    BY <1>12
  <2>6. Tree!New(x) BY <1>5, <1>9, <1>13, <2>2, <2>3, <2>4, <2>5, NewMaps
  <2> QED BY <2>1, <2>6
<1> QED BY <1>6, <1>15

\* Nothing else that shows is at the place, d and n.
PlaceFree(d, n) == \A k \in Kids(d) : name[k] = n => hidden[k]

\* A name nothing shows in a list is a place nothing shows at.
LEMMA FreeIsUnused ==
    ASSUME TypeOK, TreeInv, NEW d \in live, NEW n, PlaceFree(d, n), HoldersAreParents
    PROVE  Tree!Unused([dir |-> d, name |-> n])
<1>1. ASSUME NEW x \in live, ~hidden[x], parent[x] = d, name[x] = n PROVE FALSE
  <2>1. x \in Kids(d)
    BY <1>1, ValueAssumption DEF TypeOK, TreeInv, ListsMatchParents, Listed
  <2> QED BY <1>1, <2>1 DEF PlaceFree
<1>2. \A x \in live : ~hidden[x] => [dir |-> Holder(x), name |-> name[x]] # [dir |-> d, name |-> n]
  BY <1>1 DEF HoldersAreParents
<1> QED BY <1>2 DEF Tree!Unused

\* A branch hung in at a place that was free.
LEMMA MakeMaps ==
    ASSUME TypeOK, TreeInv, HoldersAreParents, HoldersAreParents',
           NEW e \in live' \ live, Tree!New(e),
           NEW d \in live, NEW n, parent'[e] = d, name'[e] = n,
           IsDir(d), ~hidden[d], PlaceFree(d, n)
    PROVE  Tree!Make(e)
<1>1. Tree!Unused([dir |-> d, name |-> n]) BY FreeIsUnused
<1> QED BY <1>1 DEF Tree!Make, HoldersAreParents, Dirs

\* An entry of a list that starts to show (create and symlink).
LEMMA AppearMaps ==
    ASSUME TypeOK, TreeInv, UNCHANGED tree, NEW d \in live, NEW e \in Kids(d),
           IsDir(d), ~hidden[d], PlaceFree(d, name[e]), hidden[e], ~IsDir(e),
           hidden' = [hidden EXCEPT ![e] = FALSE]
    PROVE  e \in live /\ Tree!Appear(e)
<1>0. HoldersAreParents BY ListsSayParents
<1>1. e \in live /\ parent[e] = d
  BY DEF TreeInv, ListsMatchParents, Kids
<1>2. Tree!Unused([dir |-> d, name |-> name[e]]) BY <1>0, FreeIsUnused
<1>3. \A x \in live : hidden'[x] = IF x = e THEN FALSE ELSE hidden[x] BY DEF TypeOK
<1>4. {x \in live : ~hidden[x]}' = {x \in live : ~hidden[x]} \cup {e}
  <2>1. live' = live BY DEF tree
  <2>2. \A x \in live : ~hidden'[x] <=> ~hidden[x] \/ x = e BY <1>3
  <2> QED BY <1>1, <2>1, <2>2
<1>5. UNCHANGED <<[x \in live |-> [dir |-> Holder(x), name |-> name[x]]], Dirs>>
  BY DEF tree, Holder, Kids, Dirs, IsDir
<1> QED BY <1>0, <1>1, <1>2, <1>4, <1>5 DEF Tree!Appear, HoldersAreParents, Dirs

\* An entry that no longer shows (unlink).
LEMMA DisappearMaps ==
    ASSUME TypeOK, TreeInv, UNCHANGED tree, NEW e \in live, ~hidden[e], ~IsDir(e),
           hidden' = [hidden EXCEPT ![e] = TRUE]
    PROVE  Tree!Disappear(e)
<1>3. \A x \in live : hidden'[x] = IF x = e THEN TRUE ELSE hidden[x] BY DEF TypeOK
<1>4. {x \in live : ~hidden[x]}' = {x \in live : ~hidden[x]} \ {e}
  BY <1>3 DEF tree
<1>5. UNCHANGED <<[x \in live |-> [dir |-> Holder(x), name |-> name[x]]], Dirs>>
  BY DEF tree, Holder, Kids, Dirs, IsDir
<1> QED BY <1>4, <1>5 DEF Tree!Disappear, Dirs

\* What schemafs_free() would free is the branch at e.
LEMMA BranchMaps ==
    ASSUME TypeOK, TreeInv, HoldersAreParents, NEW e \in live, e # root
    PROVE  Tree!IsBranch(Subtree(e), e, [x \in live |-> [dir |-> Holder(x), name |-> name[x]]])
BY SubtreeFacts DEF Tree!IsBranch, HoldersAreParents

\* _rename moves a branch, to where nothing shows, and not below itself.
LEMMA MoveMaps ==
    ASSUME IInv, IInv', NEW e \in live, NEW par \in live, NEW n, e # root, ~hidden[e],
           IsDir(par), ~hidden[par], par \notin Subtree(e), PlaceFree(par, n),
           DoRename(e, par, n)
    PROVE  Tree!Move(e)
<1>0. TypeOK /\ TreeInv /\ TypeOK' /\ TreeInv' BY DEF IInv
<1>1. HoldersAreParents /\ HoldersAreParents'
  <2>1. TypeOK' /\ TreeInv' BY <1>0
  <2>2. HoldersAreParents' BY <2>1, ListsSayParents, PTL
  <2> QED BY <1>0, <2>2, ListsSayParents
<1>2. Listed(e) /\ parent[e] \in live BY <1>0 DEF TreeInv, ListsMatchParents
<1>3. /\ name' = [name EXCEPT ![e] = n] /\ parent' = [parent EXCEPT ![e] = par]
      /\ UNCHANGED <<live, type, hidden>>
  BY <1>2 DEF DoRename
<1>4. \A x \in live : /\ parent'[x] = IF x = e THEN par ELSE parent[x]
                      /\ name'[x] = IF x = e THEN n ELSE name[x]
  BY <1>0, <1>3 DEF TypeOK
<1>5. IsDir(parent[e])
  BY <1>2 DEF TreeInv, FilesAreLeaves, Listed, Kids, IInv
<1>6. Tree!Unused([dir |-> par, name |-> n]) BY <1>0, <1>1, FreeIsUnused
<1>7. Subtree(e) \in SUBSET live BY <1>0, SubtreeFacts
<1>8. Tree!IsBranch(Subtree(e), e, [x \in live |-> [dir |-> Holder(x), name |-> name[x]]])
  BY <1>0, <1>1, BranchMaps
<1> DEFINE P == [x \in live |-> [dir |-> Holder(x), name |-> name[x]]]
<1>9. P' = [P EXCEPT ![e] = [dir |-> par, name |-> n]]
  <2>1. \A x \in live : P'[x] = IF x = e THEN [dir |-> par, name |-> n] ELSE P[x]
    BY <1>1, <1>3, <1>4 DEF HoldersAreParents
  <2>2. P = [x \in live |-> P[x]] /\ P' = [x \in live |-> P'[x]] BY <1>3
  <2> HIDE DEF P
  <2> QED BY <2>1, <2>2
<1>10. P'[e] = [dir |-> par, name |-> n] /\ P[e].dir = parent[e] /\ DOMAIN P = live
  BY <1>1, <1>3, <1>4 DEF HoldersAreParents
<1>11. UNCHANGED Dirs /\ UNCHANGED {x \in live : ~hidden[x]}
  BY <1>3 DEF Dirs, IsDir
<1>12. par \in Dirs /\ parent[e] \in Dirs BY <1>2, <1>5 DEF Dirs
<1> QED
  BY <1>3, <1>6, <1>7, <1>8, <1>9, <1>10, <1>11, <1>12 DEF Tree!Move, Tree!Entries

\* _rmdir takes a branch away and leaves the rest in its place.
LEMMA RemoveMaps ==
    ASSUME IInv, IInv', NEW e \in live, e # root, ~hidden[e], IsDir(e), DoRmdir(e)
    PROVE  Tree!Remove(e)
<1>0. TypeOK /\ TreeInv /\ TypeOK' /\ TreeInv' BY DEF IInv
<1>1. HoldersAreParents /\ HoldersAreParents'
  <2>1. TypeOK' /\ TreeInv' BY <1>0
  <2>2. HoldersAreParents' BY <2>1, ListsSayParents, PTL
  <2> QED BY <1>0, <2>2, ListsSayParents
<1>2. Listed(e) /\ parent[e] \in live /\ parent[e] # NULL
  BY <1>0, ValueAssumption DEF TypeOK, TreeInv, ListsMatchParents
<1>3. Free(Subtree(e)) BY <1>2 DEF DoRmdir
<1>4. Subtree(e) \subseteq live BY <1>0, SubtreeFacts
<1>5. /\ live' = live \ Subtree(e)
      /\ \A x \in live' : /\ parent'[x] = parent[x] /\ name'[x] = name[x]
                          /\ type'[x] = type[x] /\ hidden'[x] = hidden[x]
  BY <1>0, <1>3 DEF Free, TypeOK
<1>6. IsDir(parent[e])
  BY <1>2 DEF TreeInv, FilesAreLeaves, Listed, Kids, IInv
<1>7. Tree!IsBranch(Subtree(e), e, [x \in live |-> [dir |-> Holder(x), name |-> name[x]]])
  BY <1>0, <1>1, BranchMaps
<1>8. live \ live' = Subtree(e) BY <1>4, <1>5
<1>9. parent[e] \in Dirs /\ e \in Dirs BY <1>2, <1>6 DEF Dirs
<1> DEFINE P == [x \in live |-> [dir |-> Holder(x), name |-> name[x]]]
           S == {x \in live : ~hidden[x]}
<1>10. DOMAIN P = live /\ DOMAIN P' = live' /\ P[e].dir = parent[e]
  BY <1>1 DEF HoldersAreParents
<1>11. P' = [x \in live \ Subtree(e) |-> P[x]]
  BY <1>1, <1>5 DEF HoldersAreParents
<1>12. Dirs' = Dirs \ Subtree(e) BY <1>5 DEF Dirs, IsDir
<1>13. S' = S \ Subtree(e) BY <1>5
<1>14. e \in S OBVIOUS
<1> QED BY <1>7, <1>8, <1>9, <1>10, <1>11, <1>12, <1>13, <1>14 DEF Tree!Remove, Tree!Entries

\* Where the kernel found no name, the place is free.
LEMMA AbsentFree ==
    ASSUME TypeOK, FirstShown, NoDots, NEW p \in Paths, p # << >>,
           NEW d \in live, d = Search(Front(p)), ~Found(Search(p))
    PROVE  PlaceFree(d, Last(p))
BY AbsentHidden DEF PlaceFree, Kids

\* A path the kernel has walked ends in a directory that shows.
LEMMA WalkableDir ==
    ASSUME NEW p \in Paths, p # << >>, Walkable(p), NEW d \in live, d = Search(Front(p))
    PROVE  ~hidden[d] /\ IsDir(d)
<1>1. p \in Seq(Names) BY ValueAssumption
<1>2. Len(p) - 1 \in 0 .. Len(p) - 1 BY <1>1
<1>3. Front(p) = SubSeq(p, 1, Len(p) - 1) BY DEF Front
<1> QED BY <1>2, <1>3 DEF Walkable, Found

\* create and symlink with a pattern make a branch.
LEMMA PatternMaps ==
    ASSUME IInv, IInv', FirstShown, VisibleNamesUnique', NoDots, NEW p \in Paths, Absent(p),
           NEW d \in live, NEW e \in live, d = Search(Front(p)),
           NEW m \in PatternPlaces(e), NewFromPattern(m, d, e, Last(p))
    PROVE  \E x \in live' \ live : Tree!Make(x)
<1>0. TypeOK /\ TreeInv /\ TypeOK' /\ TreeInv' BY DEF IInv
<1>1. p # << >> /\ ~Found(Search(p)) /\ Walkable(p) BY DEF Absent
<1>2. schema[e] \in Schemas /\ type[e] \in Types BY <1>0 DEF TypeOK
<1>3. Last(p) \in Names BY <1>1, PathName, ValueAssumption
<1>4. /\ m \in malloc(FillNodes(schema[e], type[e]), Ents \ live)
      /\ Fill(m, schema[e], type[e], Last(p), d)
      /\ hidden' = [HiddenAfterFill(m) EXCEPT ![m[schema[e]]] = FALSE]
  BY DEF PatternPlaces, NewFromPattern
<1>5. \A x \in live : hidden'[x] = hidden[x] BY <1>0, <1>2, <1>4, FlagsAfterFill
<1>6. PICK x \in live' \ live : parent'[x] = d /\ name'[x] = Last(p) /\ Tree!New(x)
  <2>1. PICK s \in Schemas, t \in Types : s = schema[e] /\ t = type[e] BY <1>2
  <2>2. m \in malloc(FillNodes(s, t), Ents \ live) /\ Fill(m, s, t, Last(p), d)
    BY <1>4, <2>1
  <2>3. /\ m[s] \in live' \ live /\ parent'[m[s]] = d /\ name'[m[s]] = Last(p)
        /\ Tree!New(m[s])
    BY <1>3, <1>5, <2>2, FillBranch
  <2> QED BY <2>3
<1>7. ~hidden[d] /\ IsDir(d) BY <1>1, WalkableDir
<1>8. PlaceFree(d, Last(p)) BY <1>0, <1>1, AbsentFree
<1>9. HoldersAreParents /\ HoldersAreParents'
  <2>1. TypeOK' /\ TreeInv' BY <1>0
  <2>2. HoldersAreParents' BY <2>1, ListsSayParents, PTL
  <2> QED BY <1>0, <2>2, ListsSayParents
<1>10. Tree!Make(x) BY <1>0, <1>6, <1>7, <1>8, <1>9, MakeMaps
<1> QED BY <1>10

\* create and symlink of an entry the schema made show it.
LEMMA HiddenMaps ==
    ASSUME IInv, FirstShown, NoDots, NEW p \in Paths, Absent(p), root # NULL,
           NEW e \in live, e = FnMatch(Search(Front(p)), Last(p)), name[e] = Last(p),
           ~IsDir(e), UNCHANGED tree, hidden' = [hidden EXCEPT ![e] = FALSE]
    PROVE  Tree!Appear(e)
<1>0. TypeOK /\ TreeInv BY DEF IInv
<1>1. p # << >> /\ ~Found(Search(p)) /\ Walkable(p) BY DEF Absent
<1>2. PICK d \in live : d = Search(Front(p)) BY <1>0, <1>1, WalkableParent
<1>3. ~hidden[d] /\ IsDir(d) BY <1>1, <1>2, WalkableDir
<1>4. PlaceFree(d, Last(p)) BY <1>0, <1>1, <1>2, AbsentFree
<1>5. e \in Kids(d)
  <2>1. e # NULL BY <1>0, ValueAssumption DEF TypeOK
  <2> DEFINE W == {k \in Kids(d) : name[k] = Last(p) \/ <<name[k], Last(p)>> \in Matches}
  <2>2. e = FirstKid(d, W) BY <1>2 DEF FnMatch
  <2> HIDE DEF W
  <2>3. \E i \in DOMAIN kids[d] : e = kids[d][i] BY <1>0, <2>1, <2>2, FirstKidFinds
  <2> QED BY <2>3 DEF Kids
<1>6. hidden[e] BY <1>4, <1>5 DEF PlaceFree
<1> QED BY <1>0, <1>3, <1>4, <1>5, <1>6, AppearMaps

\* Every step of the filesystem is a step of the directory tree, or none.
LEMMA TreeStep ==
    ASSUME IInv, IInv', NothingToRun, OnPath, FirstShown, VisibleNamesUnique',
           NoDots, ~Replace, [Next]_vars
    PROVE  [Tree!Next]_Tree!vars
<1>0. TypeOK /\ TreeInv /\ TypeOK' /\ TreeInv' BY DEF IInv
<1>15. /\ ~\E p \in Paths, ask \in Asks : PatternOnWay(p, ask)
       /\ ~WalkInto /\ ~WalkDetour /\ ~WalkLost /\ ~WalkAstray
       /\ ~WalkCreates /\ ~WalkLinks /\ ~WalkRefused
  BY <1>0, NoWalks DEF OnPath
<1>1. Tree!Entries = live /\ Tree!Entries' = live' BY DEF Tree!Entries
<1>2. ASSUME NEW e \in live' \ live, Tree!MakeRoot(e) \/ Tree!Make(e) PROVE Tree!Next
  BY <1>1, <1>2 DEF Tree!Next
<1>3. ASSUME NEW e \in live, \/ Tree!Appear(e) \/ Tree!Disappear(e)
                             \/ Tree!Move(e) \/ Tree!Remove(e)
      PROVE  Tree!Next
  BY <1>1, <1>3 DEF Tree!Next
<1>4. ASSUME UNCHANGED tree, UNCHANGED hidden PROVE UNCHANGED Tree!vars
  BY <1>4 DEF tree, Tree!vars, Holder, Kids, Dirs, IsDir
<1>5. ~CompoundMkdir /\ ~CompoundRmdir /\ ~CompoundWrite /\ ~CompoundBad
      /\ ~CompoundAstray
  BY NoBatchRuns
<1>6. ASSUME Mount PROVE Tree!Next
  <2>1. live = {} /\ Ents \ live = Ents
    BY <1>0, <1>6 DEF Mount, TreeInv, ListsMatchParents
  <2>2. RootSchema \in Schemas /\ "subdir" \in Types /\ SName[RootSchema] \in Names
    BY SchemaAssumption DEF Types
  <2>3. PICK m \in malloc(FillNodes(RootSchema, "subdir"), Ents \ live) :
           Fill(m, RootSchema, "subdir", SName[RootSchema], NULL)
    BY <1>6, <2>1 DEF Mount
  <2>4. PICK x \in live' \ live : Tree!New(x) BY <2>1, <2>2, <2>3, FillBranch
  <2>5. Tree!MakeRoot(x) BY <1>1, <2>1, <2>4 DEF Tree!MakeRoot
  <2> QED BY <1>2, <2>5
<1>7. ASSUME Die PROVE Tree!Next
  <2>1. live' = {} BY <1>7 DEF Die
  <2>2. Tree!End BY <2>1 DEF Tree!End, Dirs
  <2> QED BY <2>2 DEF Tree!Next
<1>8. ASSUME NEW p \in Paths, Mkdir(p) PROVE Tree!Next
  <2>1. PICK d \in live : /\ d = Search(Front(p)) /\ DoMkdir(d, Last(p))
    BY <1>8 DEF Mkdir
  <2>2. PICK m \in malloc(FillNodes(schema[d], "subdir"), Ents \ live) :
           Fill(m, schema[d], "subdir", Last(p), d) /\ hidden' = HiddenAfterFill(m)
    BY <2>1 DEF DoMkdir, MkdirPlaces
  <2>3. p # << >> /\ ~Found(Search(p)) /\ Walkable(p) BY <1>8 DEF Mkdir, Absent
  <2>4. Last(p) \in Names BY <2>3, PathName, ValueAssumption
  <2>5. schema[d] \in Schemas /\ "subdir" \in Types BY <1>0 DEF TypeOK, Types
  <2>6. \A x \in live : hidden'[x] = hidden[x] BY <1>0, <2>2, <2>5, FlagsAfterFill
  <2>7. PICK x \in live' \ live : parent'[x] = d /\ name'[x] = Last(p) /\ Tree!New(x)
    <3>1. PICK s \in Schemas : s = schema[d] BY <2>5
    <3>2. /\ m \in malloc(FillNodes(s, "subdir"), Ents \ live)
          /\ Fill(m, s, "subdir", Last(p), d)
      BY <2>2, <3>1
    <3>3. /\ m[s] \in live' \ live /\ parent'[m[s]] = d /\ name'[m[s]] = Last(p)
          /\ Tree!New(m[s])
      BY <2>4, <2>5, <2>6, <3>2, FillBranch
    <3> QED BY <3>3
  <2>8. ~hidden[d] /\ IsDir(d) BY <2>1, <2>3, WalkableDir
  <2>9. PlaceFree(d, Last(p)) BY <1>0, <2>1, <2>3, AbsentFree
  <2>10. HoldersAreParents /\ HoldersAreParents'
    <3>1. TypeOK' /\ TreeInv' BY <1>0
    <3>2. HoldersAreParents' BY <3>1, ListsSayParents, PTL
    <3> QED BY <1>0, <3>2, ListsSayParents
  <2>11. Tree!Make(x) BY <1>0, <2>7, <2>8, <2>9, <2>10, MakeMaps
  <2> QED BY <1>2, <2>11
<1>9. ASSUME NEW p \in Paths, Rmdir(p) PROVE Tree!Next
  <2>1. PICK e \in live : e = Search(p) /\ RmdirRet(e) = "ok" /\ DoRmdir(e)
    BY <1>9 DEF Rmdir
  <2>2. p # << >> /\ Walkable(p) /\ root # NULL /\ Search(p) # NULL
    BY <1>9 DEF Rmdir, Exists, Found, Idle
  <2>3. e # root BY <1>0, <2>1, <2>2, NotTheRoot
  <2>4. ~hidden[e] /\ IsDir(e) BY <2>1 DEF RmdirRet, Found, IsDir, DirTypes
  <2>5. Tree!Remove(e) BY <2>1, <2>3, <2>4, RemoveMaps
  <2> QED BY <1>3, <2>5
<1>10. ASSUME NEW p \in Paths,
              \/ \E t \in Targets : SymlinkNew(p, t)
              \/ \E h \in Handles : CreateNew(h, p)
       PROVE  Tree!Next
  <2>1. PICK d \in live, e \in live :
           /\ d = Search(Front(p))
           /\ \E m \in PatternPlaces(e) : NewFromPattern(m, d, e, Last(p))
    BY <1>10 DEF SymlinkNew, CreateNew
  <2>2. Absent(p) BY <1>10 DEF SymlinkNew, CreateNew
  <2>3. \E x \in live' \ live : Tree!Make(x) BY <2>1, <2>2, PatternMaps
  <2> QED BY <1>2, <2>3
<1>11. ASSUME NEW p \in Paths,
              \/ \E t \in Targets : SymlinkHidden(p, t)
              \/ \E h \in Handles : CreateHidden(h, p)
       PROVE  Tree!Next
  <2>1. PICK e \in live :
           /\ e = FnMatch(Search(Front(p)), Last(p)) /\ name[e] = Last(p) /\ ~IsDir(e)
           /\ hidden' = [hidden EXCEPT ![e] = FALSE]
    BY <1>11 DEF SymlinkHidden, CreateHidden, IsDir, DirTypes
  <2>2. UNCHANGED tree /\ Absent(p) /\ root # NULL
    BY <1>11 DEF SymlinkHidden, CreateHidden, Idle
  <2>3. Tree!Appear(e) BY <2>1, <2>2, HiddenMaps
  <2> QED BY <1>3, <2>3
<1>12. ASSUME NEW p \in Paths, Unlink(p) PROVE Tree!Next
  <2>1. PICK e \in live : UnlinkRet(e) = "ok" /\ hidden' = [hidden EXCEPT ![e] = TRUE]
    BY <1>12 DEF Unlink
  <2>2. UNCHANGED tree BY <1>12 DEF Unlink
  <2>3. ~hidden[e] /\ ~IsDir(e) BY <2>1 DEF UnlinkRet, Found, IsDir, DirTypes
  <2>4. Tree!Disappear(e) BY <1>0, <2>1, <2>2, <2>3, DisappearMaps
  <2> QED BY <1>3, <2>4
<1>13. ASSUME NEW pq \in Moves, Rename(pq[1], pq[2]) PROVE Tree!Next
  <2>1. PICK q \in Paths : q = pq[2] BY ValueAssumption
  <2>2. PICK e \in live, par \in live :
           /\ par = Search(Front(q)) /\ RenameRet(par, Last(q), e) = "ok"
           /\ KernelMayRename(e, par, Search(q)) /\ DoRename(e, par, Last(q))
    BY <1>13, <2>1 DEF Rename
  <2>3. q # << >> BY <1>13, <2>1 DEF Rename
  <2>4. ~hidden[par] /\ ~hidden[e] BY <2>2 DEF RenameRet, Found
  <2>5. e # root /\ IsDir(par) /\ par \notin Subtree(e) /\ ~Found(Search(q))
    BY <2>2 DEF KernelMayRename
  <2>6. PlaceFree(par, Last(q)) BY <1>0, <2>2, <2>3, <2>5, AbsentFree
  <2>7. Tree!Move(e) BY <2>2, <2>4, <2>5, <2>6, MoveMaps
  <2> QED BY <1>3, <2>7
<1>14. ASSUME \/ \E p, q : RenameStale(p, q)
              \/ StaleExpires
              \/ \E h \in Handles : \/ \E p \in Paths : Open(h, p)
                                    \/ \E b \in Bufs, o \in 0 .. MaxLines : Write(h, b, o)
                                    \/ Release(h) \/ CloseDir(h) \/ UseFreed(h)
              \/ CompoundOther
              \/ UNCHANGED vars
       PROVE  UNCHANGED Tree!vars
  BY <1>4, <1>14 DEF RenameStale, StaleExpires, Open, Write, Release, CloseDir, UseFreed,
                     CompoundOther, Crash, vars
<1> QED BY <1>5, <1>6, <1>7, <1>8, <1>9, <1>10, <1>11, <1>12, <1>13, <1>14, <1>15 DEF Next

\* The handlers of schemafs.c implement the directory tree of DirTree, for
\* clients that go through the kernel, write no batches, give no entry the name
\* of a pattern and do not rename onto a name that is there, if the schema
\* declares no pattern before a directory it matches: each request makes, shows,
\* hides, moves or removes one branch, where no other entry shows, and leaves the
\* rest as it was.
THEOREM ImplementsDirTree ==
    ASSUME SiblingsDiffer, PatternsLast, PlainPaths, NoDots, NoBatches, ~Replace
    PROVE  Spec => ImplementsTree
<1> DEFINE Inv == IInv /\ NothingToRun /\ OnPath /\ FirstShown
<1>1. Init => Inv
  <2>1. Init => NothingToRun BY DEF Init, Blank, NothingToRun, Harmless
  <2>2. Init => FirstShown BY DEF Init, FirstShown
  <2>3. Init => OnPath BY DEF Init, OnPath, PathsClear
  <2> QED BY <2>1, <2>2, <2>3, InitInv
<1>2. Inv /\ [Next]_vars => Inv'
  BY NextInv, NothingToRunStep, OnPathStep, FirstShownStep
<1>3. Inv => VisibleNamesUnique BY ShownOnce DEF IInv
<1>4. Init => Tree!Init BY DEF Init, Tree!Init, Dirs
<1>5. IInv /\ IInv' /\ NothingToRun /\ OnPath /\ FirstShown /\ VisibleNamesUnique'
         /\ [Next]_vars
         => [Tree!Next]_Tree!vars
  BY TreeStep
<1>6. Inv => IInv /\ NothingToRun /\ OnPath /\ FirstShown OBVIOUS
<1> HIDE DEF Inv
<1> QED BY <1>1, <1>2, <1>3, <1>4, <1>5, <1>6, PTL DEF Spec, ImplementsTree, Tree!Spec

=============================================================================
