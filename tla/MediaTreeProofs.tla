-------------------------- MODULE MediaTreeProofs ---------------------------
(***************************************************************************)
(* For every set of sources, media and configurations of an install tree:  *)
(* its sources are opened at most once and closed exactly once             *)
(* (EverySourceOnce); the numbers of its nodes stay distinct and never     *)
(* change while it is served (InodesAreStable); and what it serves is what *)
(* the configured sets and layers say, whatever the order in which the     *)
(* walk met the copies of a file (ServedAsConfigured).                     *)
(***************************************************************************)
EXTENDS MediaTree, FiniteSetTheorems, WellFoundedInduction, TLAPS

Over == pc \in {"failed", "closed"}

\* The inductive invariant: while the tree lives it will close exactly what was opened, and
\* afterwards nothing is left to close.
Accounted ==
  /\ opens \in [Sources -> {0, 1}]
  /\ IF Over THEN closes = opens /\ closers = [s \in Sources |-> 0]
     ELSE closes = [s \in Sources |-> 0] /\ closers = opens

\* Nothing was opened at first.
LEMMA AccountedInit == Init => Accounted
  BY DEF Init, Accounted, Over

\* Close, from a living tree, closes what was opened, once.
LEMMA CloseAccounts ==
  ASSUME Accounted, ~Over, Close, pc' \in {"failed", "closed"}
  PROVE  Accounted'
<1>1. closes = [s \in Sources |-> 0] /\ closers = opens /\ opens \in [Sources -> {0, 1}]
  BY DEF Accounted
<1>2. closes' = [s \in Sources |-> closes[s] + closers[s]]
  BY DEF Close
<1>3. closes' = opens
  BY <1>1, <1>2
<1>4. opens' = opens /\ closers' = [s \in Sources |-> 0]
  BY DEF Close
<1> QED
  BY <1>1, <1>3, <1>4 DEF Accounted, Over

\* A step that leaves the sources alone and does not end the tree's life.
LEMMA QuietAccounts ==
  ASSUME Accounted, ~Over, UNCHANGED sources, pc' \notin {"failed", "closed"}
  PROVE  Accounted'
  BY DEF Accounted, Over, sources

\* Every step of the build and of the tree's life keeps the account.
LEMMA AccountedNext == Accounted /\ [Next]_vars => Accounted'
<1> SUFFICES ASSUME Accounted, [Next]_vars PROVE Accounted'
  OBVIOUS
<1>a. ASSUME ~Over, Fail PROVE Accounted'
  BY <1>a, CloseAccounts DEF Fail
<1>g. ASSUME ~Over, NEW next, Goto(next), next \notin {"failed", "closed"} PROVE Accounted'
  BY <1>g, QuietAccounts DEF Goto
<1>1. CASE BeginSet
  <2>1. ~Over
    BY <1>1 DEF BeginSet, Over
  <2> QED
    BY <1>1, <2>1, <1>a, <1>g DEF BeginSet
<1>2. CASE Resolve
  <2>1. ~Over /\ pc = "layer"
    BY <1>2 DEF Resolve, Over
  <2>2. CASE /\ opens' = [opens EXCEPT ![layer.source] = 1]
             /\ closers' = [closers EXCEPT ![layer.source] = 1]
             /\ pc' = "dist" /\ closes' = closes
    BY <2>1, <2>2, Zenon DEF Accounted, Over
  <2> QED
    BY <1>2, <2>1, <2>2, <1>a, <1>g DEF Resolve
<1>m. ASSUME ~Over, NEW dir, NEW target, NEW next, next \notin {"failed", "closed"},
             mergeTree(dir, target, next)
      PROVE  Accounted'
  BY <1>m, <1>a, <1>g DEF mergeTree
<1>3. CASE MergeDist
  <2>1. ~Over
    BY <1>3 DEF MergeDist, Over
  <2> QED
    BY <1>3, <2>1, <1>a, <1>m DEF MergeDist
<1>4. CASE MergeStand
  <2>1. ~Over
    BY <1>4 DEF MergeStand, Over
  <2> QED
    BY <1>4, <2>1, <1>m DEF MergeStand
<1>5. CASE walkFS
  <2>1. ~Over /\ pc \notin {"failed", "closed"}
    BY <1>5 DEF walkFS, Over
  <2>2. Fail \/ Goto(pc)
    BY <1>5 DEF walkFS, walkEntry
  <2> QED
    BY <2>1, <2>2, <1>a, <1>g
<1>6. CASE CompareFails
  <2>1. ~Over
    BY <1>6 DEF CompareFails, Over
  <2> QED
    BY <1>6, <2>1, <1>a DEF CompareFails
<1>7. CASE NextLayer
  <2>1. ~Over
    BY <1>7 DEF NextLayer, Over
  <2> QED
    BY <1>7, <2>1, <1>g DEF NextLayer
<1>8. CASE EndSet
  <2>1. ~Over
    BY <1>8 DEF EndSet, Over
  <2> QED
    BY <1>8, <2>1, <1>a, <1>g DEF EndSet
<1>9. CASE Built
  BY <1>9, QuietAccounts DEF Built, Over
<1>10. ASSUME NEW p \in Generated, AddGenerated(p) PROVE Accounted'
  <2>1. ~Over
    BY <1>10 DEF AddGenerated, Over
  <2>2. Fail \/ (pc' = pc /\ UNCHANGED sources)
    BY <1>10 DEF AddGenerated
  <2> QED
    BY <2>1, <2>2, <1>a, QuietAccounts DEF Over
<1>11. CASE CloseTree
  <2>1. ~Over
    BY <1>11 DEF CloseTree, Over
  <2> QED
    BY <1>11, <2>1, CloseAccounts DEF CloseTree
<1>12. CASE UNCHANGED vars
  BY <1>12 DEF Accounted, Over, vars
<1> QED
  BY <1>1, <1>2, <1>3, <1>4, <1>5, <1>6, <1>7, <1>8, <1>9, <1>10, <1>11, <1>12 DEF Next

\* Whatever the media and the configuration, and wherever the build fails, each source is
\* opened at most once and closed exactly once (Build, addLayer, Tree.Close).
THEOREM EverySourceOnce == Spec => []SourcesOnce
<1>1. Accounted => SourcesOnce
  BY DEF Accounted, SourcesOnce, Over
<1> QED
  BY <1>1, AccountedInit, AccountedNext, PTL DEF Spec

-----------------------------------------------------------------------------
(* Paths in lexical order.                                                 *)

\* A set of numbers has a least one.
LEMMA NatLeast ==
  ASSUME NEW S, S \subseteq Nat, S # {}
  PROVE  \E x \in S : \A y \in S : x <= y
<1> DEFINE R == OpToRel(<, Nat)
<1>1. IsWellFoundedOn(R, Nat)
  BY NatLessThanWellFounded, Zenon
<1>2. \A x, y \in Nat : y < x => <<y, x>> \in R
  BY Zenon DEF OpToRel
<1> HIDE DEF R
<1>3. PICK x \in S : \A y \in S : ~(<<y, x>> \in R)
  BY <1>1, WFMin, Zenon
<1>4. \A y \in S : ~(y < x)
  BY <1>2, <1>3, Zenon
<1>5. \A y \in S : x <= y
  BY <1>4
<1> QED
  BY <1>5, Zenon

\* A prefix, name by name.
LEMMA PrefixIs ==
  ASSUME NEW p \in Seq(Nat), NEW q \in Seq(Nat)
  PROVE  IsPrefix(p, q) <=> Len(p) <= Len(q) /\ \A k \in 1..Len(p) : p[k] = q[k]
<1>1. Len(p) \in Nat /\ Len(q) \in Nat /\ DOMAIN p = 1..Len(p) /\ p = [k \in 1..Len(p) |-> p[k]]
  OBVIOUS
<1>2. ASSUME Len(p) <= Len(q)
      PROVE  SubSeq(q, 1, Len(p)) = [k \in 1..Len(p) |-> q[k]]
  BY <1>1, <1>2
<1> DEFINE f == [k \in 1..Len(p) |-> p[k]]
           g == [k \in 1..Len(p) |-> q[k]]
<1>3. f = g <=> \A k \in 1..Len(p) : p[k] = q[k]
  <2>1. ASSUME f = g PROVE \A k \in 1..Len(p) : p[k] = q[k]
    <3> TAKE k \in 1..Len(p)
    <3>1. f[k] = g[k]
      BY <2>1
    <3> QED
      BY <3>1
  <2> QED
    BY <2>1
<1> QED
  BY <1>1, <1>2, <1>3, Zenon DEF IsPrefix

\* One path comes before another at the place of the other's name where they first part.
PartAt(p, q, k) ==
  /\ k \in 1..Len(q) /\ k - 1 <= Len(p)
  /\ \A j \in 1..(k - 1) : p[j] = q[j]
  /\ k <= Len(p) => p[k] < q[k]

LEMMA BeforeIs ==
  ASSUME NEW p \in Seq(Nat), NEW q \in Seq(Nat)
  PROVE  Before(p, q) <=> \E k \in 1..Len(q) : PartAt(p, q, k)
<1>0. Len(p) \in Nat /\ Len(q) \in Nat
  OBVIOUS
<1>1. ASSUME p # q, IsPrefix(p, q)
      PROVE  \E k \in 1..Len(q) : PartAt(p, q, k)
  <2>1. Len(p) <= Len(q) /\ \A k \in 1..Len(p) : p[k] = q[k]
    BY <1>1, PrefixIs, Zenon
  <2>2. Len(p) # Len(q)
    BY <1>1, <2>1
  <2>3. PartAt(p, q, Len(p) + 1) /\ Len(p) + 1 \in 1..Len(q)
    BY <1>0, <2>1, <2>2 DEF PartAt
  <2> QED
    BY <2>3, Zenon
<1>2. ASSUME NEW k \in 1..Len(p), k <= Len(q), p[k] < q[k], \A j \in 1..(k - 1) : p[j] = q[j]
      PROVE  \E m \in 1..Len(q) : PartAt(p, q, m)
  <2>1. PartAt(p, q, k) /\ k \in 1..Len(q)
    BY <1>0, <1>2 DEF PartAt
  <2> QED
    BY <2>1, Zenon
<1>3. ASSUME NEW k \in 1..Len(q), PartAt(p, q, k)
      PROVE  Before(p, q)
  <2>1. CASE k <= Len(p)
    <3>1. k \in 1..Len(p) /\ k <= Len(q) /\ p[k] < q[k] /\ \A j \in 1..(k - 1) : p[j] = q[j]
      BY <1>0, <1>3, <2>1 DEF PartAt
    <3> QED
      BY <3>1, Zenon DEF Before
  <2>2. CASE ~(k <= Len(p))
    <3>1. Len(p) = k - 1 /\ Len(p) <= Len(q) /\ Len(p) # Len(q)
      BY <1>0, <1>3, <2>2 DEF PartAt
    <3>2. \A j \in 1..Len(p) : p[j] = q[j]
      BY <3>1, <1>3 DEF PartAt
    <3>3. IsPrefix(p, q) /\ p # q
      BY <3>1, <3>2, PrefixIs, Zenon
    <3> QED
      BY <3>3, Zenon DEF Before
  <2> QED
    BY <2>1, <2>2, Zenon
<1> QED
  BY <1>1, <1>2, <1>3, Zenon DEF Before

\* Lexical pre-order is a strict total order.
LEMMA BeforeIrreflexive ==
  ASSUME NEW p \in Seq(Nat)
  PROVE  ~Before(p, p)
<1>1. Len(p) \in Nat /\ \A k \in 1..Len(p) : p[k] \in Nat
  OBVIOUS
<1>2. \A k \in 1..Len(p) : ~PartAt(p, p, k)
  BY <1>1 DEF PartAt
<1> QED
  BY <1>2, BeforeIs, Zenon

\* Numbers in a path compare transitively.
LEMMA LessLess ==
  ASSUME NEW a \in Nat, NEW b \in Nat, NEW c \in Nat, a = b \/ a < b, b < c
  PROVE  a < c
  OBVIOUS

LEMMA BeforeTransitive ==
  ASSUME NEW p \in Seq(Nat), NEW q \in Seq(Nat), NEW r \in Seq(Nat), Before(p, q), Before(q, r)
  PROVE  Before(p, r)
<1>0. /\ Len(p) \in Nat /\ Len(q) \in Nat /\ Len(r) \in Nat
      /\ \A k \in 1..Len(p) : p[k] \in Nat
      /\ \A k \in 1..Len(q) : q[k] \in Nat
      /\ \A k \in 1..Len(r) : r[k] \in Nat
  OBVIOUS
<1>1. PICK k \in 1..Len(q) : PartAt(p, q, k)
  BY BeforeIs, Zenon
<1>2. PICK m \in 1..Len(r) : PartAt(q, r, m)
  BY BeforeIs, Zenon
<1>3. CASE k < m
  <2>1. k \in 1..Len(r) /\ k - 1 <= Len(p) /\ q[k] = r[k]
    BY <1>0, <1>1, <1>2, <1>3 DEF PartAt
  <2>2. \A j \in 1..(k - 1) : p[j] = r[j]
    BY <1>0, <1>1, <1>2, <1>3 DEF PartAt
  <2>3. k <= Len(p) => p[k] < r[k]
    BY <1>1, <2>1 DEF PartAt
  <2> QED
    BY <2>1, <2>2, <2>3, BeforeIs, Zenon DEF PartAt
<1>4. CASE m <= k
  <2>1. m \in 1..Len(q) /\ q[m] < r[m]
    BY <1>0, <1>1, <1>2, <1>4 DEF PartAt
  <2>2. ASSUME m <= Len(p) PROVE p[m] < r[m]
    <3>1. p[m] \in Nat /\ q[m] \in Nat /\ r[m] \in Nat
      BY <1>0, <2>1, <2>2
    <3>2. p[m] = q[m] \/ p[m] < q[m]
      BY <1>0, <1>1, <1>4, <2>1, <2>2, SMTT(60) DEF PartAt
    <3> QED
      BY <2>1, <3>1, <3>2, LessLess, Zenon
  <2>3. PartAt(p, r, m)
    BY <1>0, <1>1, <1>2, <1>4, <2>2, SMTT(60) DEF PartAt
  <2> QED
    BY <2>3, BeforeIs, Zenon
<1> QED
  BY <1>0, <1>1, <1>2, <1>3, <1>4

LEMMA BeforeTotal ==
  ASSUME NEW p \in Seq(Nat), NEW q \in Seq(Nat), p # q
  PROVE  Before(p, q) \/ Before(q, p)
<1>0. /\ Len(p) \in Nat /\ Len(q) \in Nat
      /\ \A k \in 1..Len(p) : p[k] \in Nat
      /\ \A k \in 1..Len(q) : q[k] \in Nat
  OBVIOUS
<1> DEFINE D == {k \in Nat : k \in 1..Len(p) /\ k \in 1..Len(q) /\ p[k] # q[k]}
<1>1. CASE D = {}
  <2>1. \A k \in 1..Len(p) : k \in 1..Len(q) => p[k] = q[k]
    BY <1>1
  <2>2. CASE Len(p) <= Len(q)
    <3>1. \A k \in 1..Len(p) : p[k] = q[k]
      BY <1>0, <2>1, <2>2
    <3>2. IsPrefix(p, q)
      BY <2>2, <3>1, PrefixIs, Zenon
    <3> QED
      BY <3>2, Zenon DEF Before
  <2>3. CASE Len(q) <= Len(p)
    <3>1. \A k \in 1..Len(q) : q[k] = p[k]
      BY <1>0, <2>1, <2>3
    <3>2. IsPrefix(q, p)
      BY <2>3, <3>1, PrefixIs, Zenon
    <3> QED
      BY <3>2, Zenon DEF Before
  <2> QED
    BY <1>0, <2>2, <2>3
<1>2. CASE D # {}
  <2>1. D \subseteq Nat
    BY Zenon
  <2>2. PICK k \in D : \A j \in D : k <= j
    <3> HIDE DEF D
    <3> QED
      BY <1>2, <2>1, NatLeast, Zenon
  <2>3. k \in 1..Len(p) /\ k \in 1..Len(q) /\ p[k] # q[k]
    BY Zenon
  <2>4. \A j \in 1..(k - 1) : p[j] = q[j]
    BY <1>0, <2>2, <2>3, SMTT(60)
  <2>5. PartAt(p, q, k) \/ PartAt(q, p, k)
    BY <1>0, <2>3, <2>4 DEF PartAt
  <2> QED
    BY <2>3, <2>5, BeforeIs, Zenon
<1> QED
  BY <1>1, <1>2, Zenon

\* Nothing comes before the root.
LEMMA NothingBeforeRoot ==
  ASSUME NEW p \in Seq(Nat)
  PROVE  ~Before(p, <<>>)
<1>1. <<>> \in Seq(Nat) /\ 1..Len(<<>>) = {}
  OBVIOUS
<1> QED
  BY <1>1, BeforeIs, Zenon

\* A path has finitely many prefixes, which are paths.
LEMMA PrefixesFinite ==
  ASSUME NEW p \in Seq(Nat)
  PROVE  IsFiniteSet(Prefixes(p)) /\ Prefixes(p) \subseteq Seq(Nat)
<1>1. Len(p) \in Nat /\ \A k \in 0..Len(p) : SubSeq(p, 1, k) \in Seq(Nat)
  OBVIOUS
<1> DEFINE f == [k \in 0..Len(p) |-> SubSeq(p, 1, k)]
<1>2. f \in Surjection(0..Len(p), Prefixes(p))
  BY Zenon DEF Surjection, Prefixes
<1>3. IsFiniteSet(0..Len(p))
  <2>1. 0 \in Int /\ Len(p) \in Int
    BY <1>1
  <2> QED
    BY <2>1, FS_Interval, Zenon
<1>4. IsFiniteSet(Prefixes(p))
  <2> HIDE DEF f
  <2> QED
    BY <1>2, <1>3, FS_Surjection, Zenon
<1> QED
  BY <1>1, <1>4, Zenon DEF Prefixes

-----------------------------------------------------------------------------
(* Nodes and trees.                                                        *)

IsNode(n) ==
  /\ n = [dir |-> n.dir, layer |-> n.layer, bytes |-> n.bytes, ino |-> n.ino]
  /\ n.ino \in Nat

IsTree(t) ==
  /\ t = [p \in DOMAIN t |-> t[p]]
  /\ IsFiniteSet(DOMAIN t) /\ DOMAIN t \subseteq Seq(Nat) /\ <<>> \in DOMAIN t
  /\ \A p \in DOMAIN t : IsNode(t[p])

\* Two nodes that differ in nothing but the inode.
Alike(m, n) == m.dir = n.dir /\ m.layer = n.layer /\ m.bytes = n.bytes

LEMMA WithIno ==
  ASSUME NEW n, IsNode(n), NEW v \in Nat
  PROVE  LET m == [n EXCEPT !.ino = v] IN IsNode(m) /\ m.ino = v /\ Alike(m, n)
<1> DEFINE r == [dir |-> n.dir, layer |-> n.layer, bytes |-> n.bytes, ino |-> n.ino]
           m == [r EXCEPT !.ino = v]
<1>1. n = r
  BY Zenon DEF IsNode
<1>2. m = [dir |-> n.dir, layer |-> n.layer, bytes |-> n.bytes, ino |-> v]
  OBVIOUS
<1>3. m.dir = n.dir /\ m.layer = n.layer /\ m.bytes = n.bytes /\ m.ino = v
  BY <1>2
<1>4. m = [dir |-> m.dir, layer |-> m.layer, bytes |-> m.bytes, ino |-> m.ino]
  BY <1>2, <1>3, Zenon
<1>5. IsNode(m) /\ m.ino = v /\ Alike(m, n)
  BY <1>3, <1>4, Zenon DEF IsNode, Alike
<1> HIDE DEF r
<1> QED
  BY <1>1, <1>5, Zenon

\* The nodes numbered before one.
Rank(t, p) == Cardinality({q \in Unnumbered(t) : Before(q, p)})

\* Nodes without an inode have ranks of their own, below their number; the root's is 0.
LEMMA Ranks ==
  ASSUME NEW t, IsTree(t)
  PROVE  /\ Cardinality(Unnumbered(t)) \in Nat
         /\ \A p \in DOMAIN t : Rank(t, p) \in Nat
         /\ \A p \in Unnumbered(t) : Rank(t, p) < Cardinality(Unnumbered(t))
         /\ \A p, q \in Unnumbered(t) : p # q => Rank(t, p) # Rank(t, q)
         /\ Rank(t, <<>>) = 0
<1> DEFINE U == Unnumbered(t)
           B(p) == {q \in U : Before(q, p)}
<1>1. IsFiniteSet(U) /\ U \subseteq DOMAIN t /\ U \subseteq Seq(Nat) /\ Cardinality(U) \in Nat
  <2>1. U \subseteq DOMAIN t /\ IsFiniteSet(DOMAIN t) /\ DOMAIN t \subseteq Seq(Nat)
    BY Zenon DEF Unnumbered, IsTree
  <2>2. IsFiniteSet(U)
    BY <2>1, FS_Subset, Zenon
  <2> QED
    BY <2>1, <2>2, FS_CardinalityType, Zenon
<1> HIDE DEF U
<1>2. \A p : B(p) \in SUBSET U
  BY Zenon
<1>3. ASSUME NEW p
      PROVE  IsFiniteSet(B(p)) /\ Cardinality(B(p)) \in Nat /\ Cardinality(B(p)) <= Cardinality(U)
             /\ (Cardinality(U) = Cardinality(B(p)) => U = B(p))
  <2>1. B(p) \in SUBSET U
    BY <1>2, Zenon
  <2> HIDE DEF B
  <2> QED
    BY <1>1, <2>1, FS_Subset, FS_CardinalityType, Zenon
<1>4. ASSUME NEW p \in U PROVE Cardinality(B(p)) < Cardinality(U)
  <2>1. p \notin B(p)
    BY <1>1, BeforeIrreflexive, Zenon
  <2>2. Cardinality(B(p)) # Cardinality(U)
    BY <1>3, <2>1, Zenon
  <2> HIDE DEF B
  <2> QED
    BY <1>1, <1>3, <2>2
<1>5. ASSUME NEW p \in U, NEW q \in U, Before(p, q) PROVE Cardinality(B(p)) # Cardinality(B(q))
  <2>1. B(p) \in SUBSET B(q)
    BY <1>1, <1>5, BeforeTransitive, Zenon
  <2>2. p \in B(q) /\ p \notin B(p)
    BY <1>1, <1>5, BeforeIrreflexive, Zenon
  <2>3. IsFiniteSet(B(q))
    BY <1>3, Zenon
  <2> HIDE DEF B
  <2>4. Cardinality(B(q)) = Cardinality(B(p)) => B(q) = B(p)
    BY <2>1, <2>3, FS_Subset, Zenon
  <2> QED
    BY <2>2, <2>4, Zenon
<1>6. ASSUME NEW p \in U, NEW q \in U, p # q PROVE Cardinality(B(p)) # Cardinality(B(q))
  <2>1. Before(p, q) \/ Before(q, p)
    BY <1>1, <1>6, BeforeTotal, Zenon
  <2> HIDE DEF B
  <2> QED
    BY <1>5, <2>1, Zenon
<1>7. Cardinality(B(<<>>)) = 0
  <2>1. B(<<>>) = {}
    BY <1>1, NothingBeforeRoot, Zenon
  <2> QED
    BY <2>1, FS_EmptySet, Zenon
<1> QED
  BY <1>1, <1>3, <1>4, <1>6, <1>7, Zenon DEF Rank, U

\* number leaves the nodes as they are but for the inode, keeps the ones that have one, and
\* gives the others the next ones, each its own.
LEMMA NumberIs ==
  ASSUME NEW t, IsTree(t), NEW next \in Nat
  PROVE  LET u == number(t, next) IN
         /\ IsTree(u) /\ DOMAIN u = DOMAIN t
         /\ \A p \in DOMAIN t : Alike(u[p], t[p])
         /\ \A p \in DOMAIN t : t[p].ino # 0 => u[p].ino = t[p].ino
         /\ \A p \in Unnumbered(t) : u[p].ino = next + Rank(t, p)
<1> DEFINE u == number(t, next)
<1>1. /\ DOMAIN u = DOMAIN t
      /\ u = [p \in DOMAIN u |-> u[p]]
      /\ \A p \in DOMAIN t : u[p] = IF t[p].ino # 0 THEN t[p]
                                    ELSE [t[p] EXCEPT !.ino = next + Rank(t, p)]
  BY Zenon DEF number, Rank
<1> HIDE DEF u
<1>2. ASSUME NEW p \in DOMAIN t
      PROVE  /\ IsNode(u[p]) /\ Alike(u[p], t[p])
             /\ t[p].ino # 0 => u[p].ino = t[p].ino
             /\ t[p].ino = 0 => u[p].ino = next + Rank(t, p)
  <2>1. IsNode(t[p])
    BY Zenon DEF IsTree
  <2>2. CASE t[p].ino # 0
    BY <1>1, <2>1, <2>2, Zenon DEF Alike
  <2>3. CASE t[p].ino = 0
    <3>1. Rank(t, p) \in Nat
      BY Ranks, Zenon
    <3>2. next + Rank(t, p) \in Nat
      BY <3>1
    <3>3. u[p] = [t[p] EXCEPT !.ino = next + Rank(t, p)]
      BY <1>1, <2>3, Zenon
    <3> QED
      BY <2>1, <2>3, <3>2, <3>3, WithIno, ZenonT(60)
  <2> QED
    BY <2>2, <2>3, Zenon
<1>3. IsTree(u)
  BY <1>1, <1>2, Zenon DEF IsTree
<1>4. \A p \in Unnumbered(t) : p \in DOMAIN t /\ t[p].ino = 0
  BY Zenon DEF Unnumbered
<1>5. /\ IsTree(u) /\ DOMAIN u = DOMAIN t
      /\ \A p \in DOMAIN t : Alike(u[p], t[p])
      /\ \A p \in DOMAIN t : t[p].ino # 0 => u[p].ino = t[p].ino
      /\ \A p \in Unnumbered(t) : u[p].ino = next + Rank(t, p)
  BY <1>1, <1>2, <1>3, <1>4, Zenon
<1> QED
  BY <1>5, Zenon DEF u

\* Put and ensureDir make a tree of a tree.
IsPut(u, t, p, n) ==
  DOMAIN u = DOMAIN t \cup {p} /\ u[p] = n /\ \A q \in DOMAIN t : q # p => u[q] = t[q]

LEMMA PutIs ==
  ASSUME NEW t, IsTree(t), NEW p \in Seq(Nat), NEW n, IsNode(n)
  PROVE  IsTree(Put(t, p, n)) /\ IsPut(Put(t, p, n), t, p, n)
<1> DEFINE u == Put(t, p, n)
<1>1. /\ DOMAIN u = DOMAIN t \cup {p} /\ u = [q \in DOMAIN u |-> u[q]] /\ u[p] = n
      /\ \A q \in DOMAIN t : q # p => u[q] = t[q]
  BY Zenon DEF Put
<1> HIDE DEF u
<1>2. IsFiniteSet(DOMAIN u)
  <2>1. IsFiniteSet(DOMAIN t)
    BY Zenon DEF IsTree
  <2>2. IsFiniteSet(DOMAIN t \cup {p})
    BY <2>1, FS_AddElement, Zenon
  <2> QED
    BY <1>1, <2>2, Zenon
<1>3. IsTree(u)
  BY <1>1, <1>2, Zenon DEF IsTree
<1> QED
  BY <1>1, <1>3, Zenon DEF u, IsPut

LEMMA FreshNode ==
  ASSUME NEW l, NEW b
  PROVE  /\ IsNode(Dir(l)) /\ Dir(l).ino = 0 /\ Dir(l).dir /\ Dir(l).layer = l
         /\ IsNode(File(l, b)) /\ File(l, b).ino = 0 /\ ~File(l, b).dir
         /\ File(l, b).layer = l /\ File(l, b).bytes = b
  BY DEF IsNode, Dir, File

LEMMA EnsureIs ==
  ASSUME NEW t, IsTree(t), NEW p \in Seq(Nat), NEW l
  PROVE  /\ IsTree(ensureDir(t, p, l)) /\ DOMAIN ensureDir(t, p, l) = DOMAIN t \cup Prefixes(p)
         /\ \A q \in DOMAIN t : ensureDir(t, p, l)[q] = t[q]
         /\ \A q \in Prefixes(p) : q \notin DOMAIN t => ensureDir(t, p, l)[q] = Dir(l)
<1> DEFINE u == ensureDir(t, p, l)
<1>1. /\ DOMAIN u = DOMAIN t \cup Prefixes(p) /\ u = [q \in DOMAIN u |-> u[q]]
      /\ \A q \in DOMAIN t : u[q] = t[q]
      /\ \A q \in Prefixes(p) : q \notin DOMAIN t => u[q] = Dir(l)
  BY Zenon DEF ensureDir
<1> HIDE DEF u
<1>2. IsFiniteSet(DOMAIN u) /\ DOMAIN u \subseteq Seq(Nat)
  <2>1. IsFiniteSet(DOMAIN t) /\ DOMAIN t \subseteq Seq(Nat)
    BY Zenon DEF IsTree
  <2>2. IsFiniteSet(Prefixes(p)) /\ Prefixes(p) \subseteq Seq(Nat)
    BY PrefixesFinite, Zenon
  <2>3. IsFiniteSet(DOMAIN t \cup Prefixes(p))
    BY <2>1, <2>2, FS_Union, Zenon
  <2> QED
    BY <1>1, <2>1, <2>2, <2>3, Zenon
<1>3. \A q \in DOMAIN u : IsNode(u[q])
  <2>1. ASSUME NEW q \in DOMAIN t PROVE IsNode(u[q])
    BY <1>1, Zenon DEF IsTree
  <2>2. ASSUME NEW q \in Prefixes(p), q \notin DOMAIN t PROVE IsNode(u[q])
    <3>1. u[q] = Dir(l)
      BY <1>1, <2>2, Zenon
    <3> QED
      BY <3>1, FreshNode, ZenonT(60)
  <2> QED
    BY <1>1, <2>1, <2>2, Zenon
<1>4. IsTree(u)
  BY <1>1, <1>2, <1>3, Zenon DEF IsTree
<1> QED
  BY <1>1, <1>4, Zenon DEF u

-----------------------------------------------------------------------------
(* What a walk meets, and where it lands.                                  *)

\* Paths with the same names are the same path.
LEMMA SamePath ==
  ASSUME NEW p \in Seq(Nat), NEW q \in Seq(Nat), Len(p) = Len(q), \A k \in 1..Len(p) : p[k] = q[k]
  PROVE  p = q
  OBVIOUS

LEMMA PrefixOrder ==
  ASSUME NEW p \in Seq(Nat), NEW q \in Seq(Nat), NEW r \in Seq(Nat)
  PROVE  /\ IsPrefix(p, p)
         /\ IsPrefix(p, q) /\ IsPrefix(q, r) => IsPrefix(p, r)
         /\ IsPrefix(p, r) /\ IsPrefix(q, r) /\ Len(p) <= Len(q) => IsPrefix(p, q)
         /\ IsPrefix(p, q) /\ Len(q) <= Len(p) => p = q
<1>1. Len(p) \in Nat /\ Len(q) \in Nat /\ Len(r) \in Nat
  OBVIOUS
<1>2. IsPrefix(p, p)
  BY <1>1, PrefixIs
<1>3. ASSUME IsPrefix(p, q), IsPrefix(q, r) PROVE IsPrefix(p, r)
  <2>1. /\ Len(p) <= Len(q) /\ \A k \in 1..Len(p) : p[k] = q[k]
        /\ Len(q) <= Len(r) /\ \A k \in 1..Len(q) : q[k] = r[k]
    BY <1>3, PrefixIs, Zenon
  <2>2. Len(p) <= Len(r) /\ \A k \in 1..Len(p) : p[k] = r[k]
    BY <1>1, <2>1
  <2> QED
    BY <2>2, PrefixIs, Zenon
<1>4. ASSUME IsPrefix(p, r), IsPrefix(q, r), Len(p) <= Len(q) PROVE IsPrefix(p, q)
  <2>1. /\ \A k \in 1..Len(p) : p[k] = r[k]
        /\ \A k \in 1..Len(q) : q[k] = r[k]
    BY <1>4, PrefixIs, Zenon
  <2>2. \A k \in 1..Len(p) : p[k] = q[k]
    BY <1>1, <1>4, <2>1
  <2> QED
    BY <1>4, <2>2, PrefixIs, Zenon
<1>5. ASSUME IsPrefix(p, q), Len(q) <= Len(p) PROVE p = q
  <2>1. Len(p) <= Len(q) /\ \A k \in 1..Len(p) : p[k] = q[k]
    BY <1>5, PrefixIs, Zenon
  <2>2. Len(p) = Len(q)
    BY <1>1, <1>5, <2>1
  <2> QED
    BY <2>1, <2>2, SamePath, Zenon
<1> QED
  BY <1>2, <1>3, <1>4, <1>5, Zenon

LEMMA PrefixesAre ==
  ASSUME NEW q \in Seq(Nat), NEW x
  PROVE  x \in Prefixes(q) <=> x \in Seq(Nat) /\ IsPrefix(x, q)
<1>1. Len(q) \in Nat
  OBVIOUS
<1>2. ASSUME NEW k \in 0..Len(q), x = SubSeq(q, 1, k) PROVE x \in Seq(Nat) /\ IsPrefix(x, q)
  <2>1. x \in Seq(Nat) /\ Len(x) = k /\ k <= Len(q)
    BY <1>1, <1>2
  <2> QED
    BY <1>2, <2>1, Zenon DEF IsPrefix
<1>3. ASSUME x \in Seq(Nat), IsPrefix(x, q) PROVE \E k \in 0..Len(q) : x = SubSeq(q, 1, k)
  <2>1. Len(x) \in 0..Len(q) /\ x = SubSeq(q, 1, Len(x))
    BY <1>1, <1>3 DEF IsPrefix
  <2> QED
    BY <2>1, Zenon
<1> QED
  BY <1>2, <1>3, Zenon DEF Prefixes

\* A directory that is walked, the root of the walk or one below it.
Within(fs, root, d) == d \in Seq(Nat) /\ IsPrefix(root, d) /\ (d = root \/ d \in Below(fs, root))

IsSource(fs) == DOMAIN fs \subseteq Seq(Nat)

\* What is in a walked directory is met.
LEMMA NamesBelow ==
  ASSUME NEW fs, IsSource(fs), NEW root \in Seq(Nat), NEW d, Within(fs, root, d),
         Kind(fs, d) = "dir", NEW q \in Names(fs, d)
  PROVE  q \in Below(fs, root) /\ IsPrefix(d, q) /\ Len(q) = Len(d) + 1 /\ q \in Seq(Nat)
<1>1. q \in DOMAIN fs /\ Len(q) = Len(d) + 1 /\ IsPrefix(d, q) /\ q \in Seq(Nat)
  BY Zenon DEF Names, IsSource
<1>2. d \in Seq(Nat) /\ IsPrefix(root, d) /\ (d = root \/ d \in Below(fs, root))
  BY Zenon DEF Within
<1>3. IsPrefix(root, q)
  BY <1>1, <1>2, PrefixOrder, Zenon
<1>4. q # root
  <2>1. Len(root) <= Len(d) /\ Len(root) \in Nat /\ Len(d) \in Nat
    BY <1>2 DEF IsPrefix
  <2>2. Len(q) # Len(root)
    BY <1>1, <2>1
  <2> QED
    BY <2>2, Zenon
<1>5. ASSUME NEW x \in Prefixes(q), x # q, IsPrefix(root, x) PROVE Kind(fs, x) = "dir"
  <2>1. x \in Seq(Nat) /\ IsPrefix(x, q)
    BY <1>1, PrefixesAre, Zenon
  <2>2. ~(Len(q) <= Len(x))
    BY <1>1, <1>5, <2>1, PrefixOrder, Zenon
  <2>3. Len(x) <= Len(d)
    BY <1>1, <1>2, <2>1, <2>2
  <2>4. IsPrefix(x, d)
    BY <1>1, <1>2, <2>1, <2>3, PrefixOrder, Zenon
  <2>5. CASE x = d
    BY <2>5, Zenon
  <2>6. CASE x # d /\ d \in Below(fs, root)
    <3>1. x \in Prefixes(d)
      BY <1>2, <2>1, <2>4, PrefixesAre, Zenon
    <3> QED
      BY <1>5, <2>6, <3>1, Zenon DEF Below
  <2>7. CASE x # d /\ d = root
    <3>1. Len(root) <= Len(x)
      BY <1>5, Zenon DEF IsPrefix
    <3> QED
      BY <2>1, <2>4, <2>7, <3>1, PrefixOrder, Zenon
  <2> QED
    BY <1>2, <2>5, <2>6, <2>7, Zenon
<1>6. Kind(fs, root) = "dir"
  BY <1>2, Zenon DEF Below
<1> QED
  BY <1>1, <1>3, <1>4, <1>5, <1>6, Zenon DEF Below

\* What is met deeper is met through a name in the directory.
LEMMA BelowVia ==
  ASSUME NEW fs, IsSource(fs), NEW root \in Seq(Nat), NEW e \in Below(fs, root),
         NEW d \in Seq(Nat), IsPrefix(root, d), IsPrefix(d, e), d # e
  PROVE  \E q \in Names(fs, d) : IsPrefix(q, e)
<1>1. e \in DOMAIN fs /\ e \in Seq(Nat)
  BY Zenon DEF Below, IsSource
<1>2. Len(d) \in Nat /\ Len(e) \in Nat
  BY <1>1
<1>3. Len(d) + 1 <= Len(e)
  <2>1. ~(Len(e) <= Len(d))
    BY <1>1, PrefixOrder, Zenon
  <2> QED
    BY <1>2, <2>1
<1> DEFINE q == SubSeq(e, 1, Len(d) + 1)
<1>4. q \in Prefixes(e)
  <2>1. Len(d) + 1 \in 0..Len(e)
    BY <1>2, <1>3
  <2> QED
    BY <2>1, Zenon DEF Prefixes
<1>5. Len(q) = Len(d) + 1
  BY <1>1, <1>2, <1>3
<1> HIDE DEF q
<1>6. q \in Seq(Nat) /\ IsPrefix(q, e)
  BY <1>1, <1>4, PrefixesAre, Zenon
<1>7. IsPrefix(d, q)
  <2>1. Len(d) <= Len(q)
    BY <1>2, <1>5
  <2> QED
    BY <1>1, <1>6, <2>1, PrefixOrder, Zenon
<1>8. q \in DOMAIN fs
  <2>1. CASE q = e
    BY <1>1, <2>1, Zenon
  <2>2. CASE q # e
    <3>1. IsPrefix(root, q)
      BY <1>6, <1>7, PrefixOrder, Zenon
    <3>2. Kind(fs, q) = "dir"
      BY <1>4, <2>2, <3>1, Zenon DEF Below
    <3> QED
      BY <3>2 DEF Kind
  <2> QED
    BY <2>1, <2>2, Zenon
<1> QED
  BY <1>5, <1>6, <1>7, <1>8, Zenon DEF Names

LEMMA ConcatIs ==
  ASSUME NEW p \in Seq(Nat), NEW q \in Seq(Nat)
  PROVE  /\ p \o q \in Seq(Nat) /\ Len(p \o q) = Len(p) + Len(q)
         /\ \A k \in 1..Len(p) : (p \o q)[k] = p[k]
         /\ \A k \in 1..Len(q) : (p \o q)[Len(p) + k] = q[k]
  OBVIOUS

\* A path made of two names and of what a path has after its root.
Lands(l, a, b, root, e) ==
  /\ l \in Seq(Nat) /\ Len(l) = 2 + Len(e) - Len(root) /\ l[1] = a /\ l[2] = b
  /\ \A k \in 1..(Len(e) - Len(root)) : l[2 + k] = e[Len(root) + k]

LEMMA LandingIs ==
  ASSUME NEW a \in Nat, NEW b \in Nat, NEW root \in Seq(Nat), NEW e \in Seq(Nat), IsPrefix(root, e)
  PROVE  Lands(Landing(a, b, root, e), a, b, root, e)
<1>1. Len(root) \in Nat /\ Len(e) \in Nat /\ Len(root) <= Len(e)
  BY DEF IsPrefix
<1> DEFINE t == SubSeq(e, Len(root) + 1, Len(e))
           h == <<a, b>>
<1>2. /\ t \in Seq(Nat) /\ Len(t) = Len(e) - Len(root)
      /\ \A k \in 1..(Len(e) - Len(root)) : t[k] = e[Len(root) + k]
  BY <1>1
<1>3. h \in Seq(Nat) /\ Len(h) = 2 /\ h[1] = a /\ h[2] = b
  OBVIOUS
<1> HIDE DEF t, h
<1> DEFINE l == h \o t
<1>4. /\ l \in Seq(Nat) /\ Len(l) = 2 + Len(t)
      /\ \A k \in 1..2 : l[k] = h[k]
      /\ \A k \in 1..Len(t) : l[2 + k] = t[k]
  <2>1. /\ l \in Seq(Nat) /\ Len(l) = Len(h) + Len(t)
        /\ \A k \in 1..Len(h) : l[k] = h[k]
        /\ \A k \in 1..Len(t) : l[Len(h) + k] = t[k]
    <3>1. h \in Seq(Nat) /\ t \in Seq(Nat)
      BY <1>2, <1>3, Zenon
    <3> QED
      BY <3>1, ConcatIs, Zenon
  <2>2. Len(h) = 2
    BY <1>3, Zenon
  <2> HIDE DEF l
  <2> QED
    BY <2>1, <2>2, Zenon
<1>5. Landing(a, b, root, e) = l
  BY Zenon DEF Landing, h, t
<1> HIDE DEF l
<1>6. Len(l) = 2 + Len(e) - Len(root)
  BY <1>1, <1>2, <1>4
<1>7. l[1] = h[1] /\ l[2] = h[2]
  BY <1>4
<1> QED
  BY <1>2, <1>3, <1>4, <1>5, <1>6, <1>7, Zenon DEF Lands

\* The root lands on the directory itself.
LEMMA LandingRoot ==
  ASSUME NEW a \in Nat, NEW b \in Nat, NEW root \in Seq(Nat)
  PROVE  Landing(a, b, root, root) = <<a, b>>
<1>1. IsPrefix(root, root) /\ Len(root) \in Nat
  BY PrefixOrder
<1> DEFINE l == Landing(a, b, root, root)
<1>2. Lands(l, a, b, root, root)
  BY <1>1, LandingIs, Zenon
<1> HIDE DEF l
<1>3. l \in Seq(Nat) /\ Len(l) = 2 /\ l[1] = a /\ l[2] = b
  BY <1>1, <1>2 DEF Lands
<1>4. l = <<a, b>>
  BY <1>3
<1> QED
  BY <1>4 DEF l

\* A name in a directory lands under where the directory lands.
LEMMA LandingChild ==
  ASSUME NEW a \in Nat, NEW b \in Nat, NEW root \in Seq(Nat), NEW d \in Seq(Nat), NEW q \in Seq(Nat),
         IsPrefix(root, d), IsPrefix(d, q), Len(q) = Len(d) + 1
  PROVE  Landing(a, b, root, q) = Append(Landing(a, b, root, d), Base(q))
<1> DEFINE l == Landing(a, b, root, d)
           m == Landing(a, b, root, q)
<1>1. Lands(l, a, b, root, d)
  BY LandingIs, Zenon
<1>2. Lands(m, a, b, root, q)
  <2>1. IsPrefix(root, q)
    BY PrefixOrder, Zenon
  <2> QED
    BY <2>1, LandingIs, Zenon
<1>3. Len(root) \in Nat /\ Len(d) \in Nat /\ Len(q) \in Nat /\ Len(root) <= Len(d)
      /\ \A k \in 1..Len(d) : d[k] = q[k]
  BY PrefixIs DEF IsPrefix
<1> HIDE DEF l, m
<1>4. q[Len(q)] \in Nat
  BY <1>3
<1> USE DEF Lands
<1> DEFINE n == Append(l, q[Len(q)])
<1>5. n \in Seq(Nat) /\ Len(n) = Len(l) + 1 /\ n[Len(l) + 1] = q[Len(q)]
      /\ \A k \in 1..Len(l) : n[k] = l[k]
  BY <1>1, <1>4, SMTT(60)
<1> HIDE DEF n
<1>6. Len(m) = Len(n)
  BY <1>1, <1>2, <1>3, <1>5
<1>7. ASSUME NEW k \in 1..Len(m) PROVE m[k] = n[k]
  <2>1. CASE k = 1 \/ k = 2
    <3>1. 1 \in 1..Len(l) /\ 2 \in 1..Len(l)
      BY <1>1, <1>3
    <3>2. n[1] = l[1] /\ n[2] = l[2]
      BY <1>5, <3>1, Zenon
    <3> QED
      BY <1>1, <1>2, <2>1, <3>2, Zenon
  <2>2. CASE ~(k = 1 \/ k = 2) /\ k # Len(m)
    <3>1. k = 2 + (k - 2) /\ k - 2 \in 1..(Len(d) - Len(root)) /\ k - 2 \in 1..(Len(q) - Len(root))
      <4>1. Len(m) = 2 + (Len(d) + 1) - Len(root) /\ k \in Nat /\ k <= Len(m) /\ k > 2
        BY <1>2, <1>3, <2>2
      <4> HIDE DEF Lands
      <4> QED
        BY <1>3, <2>2, <4>1
    <3>3. Len(root) + (k - 2) \in 1..Len(d) /\ k \in 1..Len(l)
      BY <1>1, <1>3, <3>1
    <3>2. m[k] = q[Len(root) + (k - 2)] /\ l[k] = d[Len(root) + (k - 2)]
      BY <1>1, <1>2, <3>1, Zenon
    <3> QED
      BY <1>3, <1>5, <3>2, <3>3, Zenon
  <2>3. CASE ~(k = 1 \/ k = 2) /\ k = Len(m)
    <3>1. k = 2 + (k - 2) /\ k - 2 \in 1..(Len(q) - Len(root)) /\ Len(root) + (k - 2) = Len(q)
          /\ k = Len(l) + 1
      BY <1>1, <1>2, <1>3, <2>3
    <3>2. m[k] = q[Len(root) + (k - 2)]
      BY <1>2, <3>1, Zenon
    <3> QED
      BY <1>5, <3>1, <3>2, Zenon
  <2> QED
    BY <2>1, <2>2, <2>3, Zenon
<1>8. m = n
  BY <1>2, <1>5, <1>6, <1>7, SamePath, Zenon
<1> QED
  BY <1>8, Zenon DEF m, n, l, Base

\* No two entries of a walk land on one path.
LEMMA LandingOnce ==
  ASSUME NEW a \in Nat, NEW b \in Nat, NEW root \in Seq(Nat), NEW d \in Seq(Nat), NEW e \in Seq(Nat),
         IsPrefix(root, d), IsPrefix(root, e), Landing(a, b, root, d) = Landing(a, b, root, e)
  PROVE  d = e
<1> DEFINE l == Landing(a, b, root, d)
<1>1. Lands(l, a, b, root, d) /\ Lands(l, a, b, root, e)
  BY LandingIs, Zenon
<1> HIDE DEF l
<1>2. /\ Len(l) = 2 + Len(d) - Len(root) /\ Len(l) = 2 + Len(e) - Len(root)
      /\ \A k \in 1..(Len(d) - Len(root)) : l[2 + k] = d[Len(root) + k]
      /\ \A k \in 1..(Len(e) - Len(root)) : l[2 + k] = e[Len(root) + k]
  BY <1>1, Zenon DEF Lands
<1>3. Len(root) \in Nat /\ Len(d) \in Nat /\ Len(e) \in Nat
      /\ (\A k \in 1..Len(root) : root[k] = d[k]) /\ (\A k \in 1..Len(root) : root[k] = e[k])
  BY PrefixIs
<1>4. Len(d) = Len(e)
  BY <1>2, <1>3
<1>5. ASSUME NEW k \in 1..Len(d) PROVE d[k] = e[k]
  <2>1. CASE k \in 1..Len(root)
    BY <1>3, <2>1, Zenon
  <2>2. CASE k \notin 1..Len(root)
    <3>1. k = Len(root) + (k - Len(root)) /\ k - Len(root) \in 1..(Len(d) - Len(root))
          /\ k - Len(root) \in 1..(Len(e) - Len(root))
      BY <1>3, <1>4, <2>2
    <3>2. l[2 + (k - Len(root))] = d[k] /\ l[2 + (k - Len(root))] = e[k]
      BY <1>2, <3>1, Zenon
    <3> QED
      BY <3>2, Zenon
  <2> QED
    BY <2>1, <2>2, Zenon
<1> QED
  BY <1>4, <1>5, SamePath, Zenon

-----------------------------------------------------------------------------
(* The place of the build.                                                 *)

RootOf(fs, r) == Follow(fs, r[2]).path

\* The entries still to be walked are below the root of the walk, and land where they should.
Placed(T, fs, s, r) ==
  /\ Kind(fs, RootOf(fs, r)) = "dir"
  /\ \A f \in T : /\ f.src \in Below(fs, RootOf(fs, r))
                  /\ f.target = Landing(s.name, r[1], RootOf(fs, r), f.src)

DistOf(l) == <<distDir, l.dist>>
StandOf(l) == <<standDir, l.stand>>

PlaceInv ==
  /\ spec \in Specs /\ media \in [Sources -> Media]
  /\ at = [set |-> at.set, layer |-> at.layer]
  /\ at.set \in Nat \ {0} /\ at.layer \in Nat \ {0}
  /\ pc = "set" => at.layer = 1
  /\ pc \in {"layer", "dist", "walk", "stand"} => at.set \in DOMAIN spec
  /\ pc \in {"dist", "walk", "stand"} => at.layer \in DOMAIN set.layers
  /\ pc = "walk" => Placed(todo, fsys, set, DistOf(layer))
  /\ pc = "stand" => layer.boot /\ Placed(todo, fsys, set, StandOf(layer))

\* The tree of a build has no inodes, a built one has them, each its own.
Fresh(t) == IsTree(t) /\ \A p \in DOMAIN t : t[p].ino = 0

Numbered(t, n) ==
  /\ IsTree(t) /\ n \in Nat /\ n > RootIno /\ t[<<>>].ino = RootIno
  /\ \A p \in DOMAIN t : t[p].ino \in RootIno..(n - 1)
  /\ \A p, q \in DOMAIN t : p # q => t[p].ino # t[q].ino

TreeInv ==
  /\ pc \notin {"built", "closed", "failed"} => nextIno = RootIno /\ Fresh(tree)
  /\ pc \in {"built", "closed"} => Numbered(tree, nextIno)

\* What the configurations and the media are.
LEMMA SpecIs ==
  ASSUME NEW s \in Specs, NEW k \in DOMAIN s
  PROVE  /\ Len(s) \in Nat /\ DOMAIN s = 1..Len(s) /\ s[k].name \in Nat
         /\ Len(s[k].layers) \in Nat /\ DOMAIN s[k].layers = 1..Len(s[k].layers)
         /\ \A i \in DOMAIN s[k].layers : s[k].layers[i] \in LayerSpec
<1>1. /\ Len(s) \in Nat /\ DOMAIN s = 1..Len(s) /\ s[k].name \in Nat
      /\ s[k].layers \in Seq(LayerSpec)
  BY TreeAssumption, Zenon
<1>2. ASSUME NEW l \in Seq(LayerSpec)
      PROVE  Len(l) \in Nat /\ DOMAIN l = 1..Len(l) /\ \A i \in DOMAIN l : l[i] \in LayerSpec
  OBVIOUS
<1> QED
  BY <1>1, <1>2, Zenon

LEMMA LayerIs ==
  ASSUME NEW m \in [Sources -> Media], NEW l \in LayerSpec
  PROVE  /\ m[l.source] \in Media /\ IsSource(m[l.source]) /\ l.dist \in Seq(Nat) /\ l.stand \in Seq(Nat)
         /\ \A p \in DOMAIN m[l.source] : m[l.source][p].kind \in {"dir", "file", "link", "special"}
<1>1. l.source \in Sources /\ l.dist \in Seq(Nat) /\ l.stand \in Seq(Nat)
  BY DEF LayerSpec
<1>2. m[l.source] \in Media
  BY <1>1
<1> QED
  BY <1>1, <1>2, TreeAssumption, Zenon DEF IsSource

LEMMA InSet ==
  ASSUME PlaceInv, pc \in {"layer", "dist", "walk", "stand"}
  PROVE  /\ set.name \in Nat /\ Len(set.layers) \in Nat /\ DOMAIN set.layers = 1..Len(set.layers)
         /\ \A i \in DOMAIN set.layers : set.layers[i] \in LayerSpec
<1>1. spec \in Specs /\ at.set \in DOMAIN spec
  BY Zenon DEF PlaceInv
<1> QED
  BY <1>1, SpecIs, Zenon DEF set

LEMMA InLayer ==
  ASSUME PlaceInv, pc \in {"dist", "walk", "stand"}
  PROVE  /\ layer \in LayerSpec /\ IsSource(fsys)
         /\ \A p \in DOMAIN fsys : fsys[p].kind \in {"dir", "file", "link", "special"}
<1>1. at.layer \in DOMAIN set.layers /\ media \in [Sources -> Media]
  BY Zenon DEF PlaceInv
<1>2. pc \in {"layer", "dist", "walk", "stand"}
  BY Zenon
<1>3. layer \in LayerSpec
  BY <1>1, <1>2, InSet, Zenon DEF layer
<1> QED
  BY <1>1, <1>3, LayerIs, Zenon DEF fsys

\* What is followed to is there; what is no link is its own end.
LEMMA FollowIs ==
  ASSUME NEW fs, NEW p
  PROVE  /\ Follow(fs, p).kind # "none" =>
              Follow(fs, p).kind = Kind(fs, Follow(fs, p).path) /\ Follow(fs, p).path \in DOMAIN fs
         /\ Kind(fs, p) # "link" => Follow(fs, p).kind = Kind(fs, p) /\ Follow(fs, p).path = p
<1> DEFINE end == IF Kind(fs, p) = "link" THEN resolveLink(fs, p) ELSE p
           k == IF Kind(fs, end) = "link" THEN "none" ELSE Kind(fs, end)
<1>1. Follow(fs, p) = [kind |-> k, path |-> end]
  BY Zenon DEF Follow
<1> HIDE DEF k, end
<1>2. Follow(fs, p).kind = k /\ Follow(fs, p).path = end
  BY <1>1
<1>3. k # "none" => k = Kind(fs, end)
  BY Zenon DEF k
<1>4. Kind(fs, end) # "none" => end \in DOMAIN fs
  BY Zenon DEF Kind
<1>5. Kind(fs, p) # "link" => end = p /\ k = Kind(fs, p)
  BY Zenon DEF k, end
<1> QED
  BY <1>2, <1>3, <1>4, <1>5, Zenon

\* The entries of a directory, and where they land under a path.
EntriesOf(fs, d, l) == {[src |-> q, target |-> Append(l, Base(q))] : q \in Names(fs, d)}

\* A walked directory gives way to its entries.
LEMMA PlacedEntries ==
  ASSUME NEW T, NEW fs, IsSource(fs), NEW s, s.name \in Nat, NEW r, r[1] \in Nat, Placed(T, fs, s, r),
         NEW d, Within(fs, RootOf(fs, r), d), Kind(fs, d) = "dir"
  PROVE  Placed(T \cup EntriesOf(fs, d, Landing(s.name, r[1], RootOf(fs, r), d)), fs, s, r)
<1> DEFINE root == RootOf(fs, r)
           l == Landing(s.name, r[1], root, d)
<1>1. Kind(fs, root) = "dir"
  BY Zenon DEF Placed
<1>2. root \in Seq(Nat)
  <2>1. root \in DOMAIN fs
    BY <1>1 DEF Kind
  <2> QED
    BY <2>1, Zenon DEF IsSource
<1> HIDE DEF root, l
<1>3. ASSUME NEW f \in EntriesOf(fs, d, l)
      PROVE  f.src \in Below(fs, root) /\ f.target = Landing(s.name, r[1], root, f.src)
  <2>1. PICK q \in Names(fs, d) : f = [src |-> q, target |-> Append(l, Base(q))]
    BY Zenon DEF EntriesOf
  <2>2. f.src = q /\ f.target = Append(l, Base(q))
    BY <2>1
  <2>3. Within(fs, root, d)
    BY Zenon DEF root
  <2>4. q \in Below(fs, root) /\ IsPrefix(d, q) /\ Len(q) = Len(d) + 1 /\ q \in Seq(Nat)
    BY <1>2, <2>3, NamesBelow, Zenon
  <2>5. d \in Seq(Nat) /\ IsPrefix(root, d)
    BY <2>3, Zenon DEF Within
  <2>6. Landing(s.name, r[1], root, q) = Append(l, Base(q))
    BY <1>2, <2>4, <2>5, LandingChild, ZenonT(60) DEF l
  <2> QED
    BY <2>2, <2>4, <2>6, Zenon
<1> QED
  BY <1>1, <1>3, Zenon DEF Placed, root, l

\* The entries of the root of a walk.
LEMMA PlacedRoot ==
  ASSUME NEW fs, IsSource(fs), NEW s, s.name \in Nat, NEW r, r[1] \in Nat,
         Follow(fs, r[2]).kind = "dir"
  PROVE  Placed(EntriesOf(fs, RootOf(fs, r), <<s.name, r[1]>>), fs, s, r)
<1> DEFINE root == RootOf(fs, r)
<1>1. Kind(fs, root) = "dir" /\ root \in DOMAIN fs
  BY FollowIs, Zenon DEF RootOf
<1>2. root \in Seq(Nat)
  BY <1>1, Zenon DEF IsSource
<1>3. Placed({}, fs, s, r)
  BY <1>1, Zenon DEF Placed
<1>4. Within(fs, root, root)
  BY <1>2, PrefixOrder, Zenon DEF Within
<1>5. Landing(s.name, r[1], root, root) = <<s.name, r[1]>>
  BY <1>2, LandingRoot, Zenon
<1>6. Placed({} \cup EntriesOf(fs, root, Landing(s.name, r[1], root, root)), fs, s, r)
  <2> HIDE DEF root
  <2>1. Within(fs, RootOf(fs, r), root) /\ Kind(fs, root) = "dir" /\ root = RootOf(fs, r)
    BY <1>1, <1>4, Zenon DEF root
  <2> QED
    BY <1>3, <2>1, PlacedEntries, Zenon
<1>7. \A S : {} \cup S = S
  BY Zenon
<1> QED
  BY <1>5, <1>6, <1>7, Zenon

\* What is still to be walked lands within the set.
LEMMA PlacedIs ==
  ASSUME NEW T, NEW fs, IsSource(fs), NEW s, s.name \in Nat, NEW r, r[1] \in Nat, Placed(T, fs, s, r),
         NEW f \in T
  PROVE  /\ RootOf(fs, r) \in Seq(Nat) /\ f.src \in Seq(Nat) /\ f.src \in DOMAIN fs
         /\ IsPrefix(RootOf(fs, r), f.src) /\ Within(fs, RootOf(fs, r), f.src)
         /\ f.target \in Seq(Nat) /\ f.target # <<>> /\ f.target[1] = s.name /\ f.target[2] = r[1]
<1> DEFINE root == RootOf(fs, r)
<1>1. /\ Kind(fs, root) = "dir" /\ f.src \in Below(fs, root)
      /\ f.target = Landing(s.name, r[1], root, f.src)
  BY Zenon DEF Placed
<1>2. root \in Seq(Nat)
  <2>1. root \in DOMAIN fs
    BY <1>1 DEF Kind
  <2> QED
    BY <2>1, Zenon DEF IsSource
<1>3. f.src \in Seq(Nat) /\ f.src \in DOMAIN fs /\ IsPrefix(root, f.src)
  BY <1>1, Zenon DEF Below, IsSource
<1> HIDE DEF root
<1>4. Lands(f.target, s.name, r[1], root, f.src)
  BY <1>1, <1>2, <1>3, LandingIs, Zenon
<1>5. Len(root) \in Nat /\ Len(f.src) \in Nat /\ Len(root) <= Len(f.src)
  BY <1>2, <1>3 DEF IsPrefix
<1>6. f.target \in Seq(Nat) /\ Len(f.target) = 2 + Len(f.src) - Len(root) /\ f.target[1] = s.name
      /\ f.target[2] = r[1]
  BY <1>4, Zenon DEF Lands
<1>7. f.target # <<>>
  BY <1>5, <1>6
<1> QED
  BY <1>1, <1>2, <1>3, <1>6, <1>7, Zenon DEF Within, root

\* The root of the walk at hand.
Here == IF pc = "walk" THEN DistOf(layer) ELSE StandOf(layer)

LEMMA HereIs ==
  ASSUME PlaceInv, pc \in {"walk", "stand"}
  PROVE  /\ Here[1] = (IF pc = "walk" THEN distDir ELSE standDir) /\ Here[1] \in Nat
         /\ Here \in Roots(layer) /\ Placed(todo, fsys, set, Here)
<1>1. /\ DistOf(layer)[1] = distDir /\ StandOf(layer)[1] = standDir
      /\ distDir \in Nat /\ standDir \in Nat
  BY DEF DistOf, StandOf, distDir, standDir
<1>2. CASE pc = "walk"
  <2>1. Here = DistOf(layer) /\ Placed(todo, fsys, set, DistOf(layer))
    BY <1>2, Zenon DEF Here, PlaceInv
  <2> QED
    BY <1>1, <1>2, <2>1, Zenon DEF Roots, DistOf
<1>3. CASE pc = "stand"
  <2>1. "stand" # "walk"
    OBVIOUS
  <2>2. Here = StandOf(layer) /\ Placed(todo, fsys, set, StandOf(layer)) /\ layer.boot
    BY <1>3, <2>1, Zenon DEF Here, PlaceInv
  <2> QED
    BY <1>1, <1>3, <2>1, <2>2, Zenon DEF Roots, StandOf
<1> QED
  BY <1>2, <1>3, Zenon

\* What walkFS does with one entry: it leaves a special file out, enters a directory, takes
\* a file, or keeps the one that is there.
NewFile(e) == File(layer.name, fsys[Follow(fsys, e.src).path].bytes)

Skips(e) == Follow(fsys, e.src).kind = "special" /\ tree' = tree /\ todo' = todo \ {e}

Enters(e) ==
  /\ Kind(fsys, e.src) = "dir"
  /\ e.target \in DOMAIN tree => tree[e.target].dir
  /\ tree' = Put(tree, e.target, IF e.target \in DOMAIN tree THEN tree[e.target] ELSE Dir(layer.name))
  /\ todo' = (todo \ {e}) \cup EntriesOf(fsys, e.src, e.target)

Takes(e) ==
  /\ Follow(fsys, e.src).kind = "file"
  /\ e.target \in DOMAIN tree =>
       ~tree[e.target].dir /\ supersedes(tree[e.target], NewFile(e), e.target)
  /\ tree' = Put(tree, e.target, NewFile(e)) /\ todo' = todo \ {e}

Keeps(e) ==
  /\ Follow(fsys, e.src).kind = "file"
  /\ e.target \in DOMAIN tree /\ ~tree[e.target].dir
  /\ Winner(e.target) # "none" \/ tree[e.target].bytes = NewFile(e).bytes
  /\ tree' = Put(tree, e.target, tree[e.target]) /\ todo' = todo \ {e}

LEMMA WalkCases ==
  ASSUME PlaceInv, pc \in {"walk", "stand"}, NEW e \in todo, walkEntry(e)
  PROVE  \/ Fail
         \/ /\ pc' = pc /\ spec' = spec /\ media' = media /\ at' = at /\ nextIno' = nextIno
            /\ Skips(e) \/ Enters(e) \/ Takes(e) \/ Keeps(e)
<1> DEFINE end == Follow(fsys, e.src)
           new == IF end.kind = "dir" THEN Dir(layer.name) ELSE NewFile(e)
           p == e.target
<1>1. SUFFICES ASSUME ~Fail
               PROVE  /\ pc' = pc /\ spec' = spec /\ media' = media /\ at' = at /\ nextIno' = nextIno
                      /\ Skips(e) \/ Enters(e) \/ Takes(e) \/ Keeps(e)
  BY Zenon
<1>2. /\ e.src \in DOMAIN fsys /\ fsys[e.src].kind \in {"dir", "file", "link", "special"}
  <2>1. /\ IsSource(fsys) /\ \A q \in DOMAIN fsys : fsys[q].kind \in {"dir", "file", "link", "special"}
    BY InLayer, Zenon
  <2>2. Here[1] \in Nat /\ Placed(todo, fsys, set, Here)
    BY HereIs, Zenon
  <2>3. set.name \in Nat
    BY InSet, Zenon
  <2>4. e.src \in DOMAIN fsys
    BY <2>1, <2>2, <2>3, PlacedIs, Zenon
  <2> QED
    BY <2>1, <2>4, Zenon
<1>3. /\ ~(Kind(fsys, e.src) = "link" /\ end.kind # "file")
      /\ \/ end.kind = "special" /\ Goto(pc) /\ todo' = todo \ {e} /\ UNCHANGED <<at, tree>>
         \/ /\ end.kind # "special" /\ Goto(pc) /\ UNCHANGED at
            /\ \E n \in mergeChild(p, new) : tree' = Put(tree, p, n)
            /\ todo' = (todo \ {e}) \cup (IF end.kind = "dir" THEN EntriesOf(fsys, e.src, p) ELSE {})
  BY <1>1, Zenon DEF walkEntry, NewFile, Entries, EntriesOf
<1>4. end.kind = "file" \/ (end.kind = Kind(fsys, e.src) /\ end.path = e.src)
  BY <1>3, FollowIs, Zenon
<1>5. Kind(fsys, e.src) = fsys[e.src].kind
  BY <1>2, Zenon DEF Kind
<1>6. end.kind = "file" \/ end.kind \in {"dir", "special"}
  BY <1>2, <1>3, <1>4, <1>5, Zenon
<1>7. pc' = pc /\ spec' = spec /\ media' = media /\ at' = at /\ nextIno' = nextIno
  BY <1>3, Zenon DEF Goto, input
<1> HIDE DEF end
<1>8. CASE end.kind = "special"
  <2>1. Skips(e)
    BY <1>3, <1>8, Zenon DEF Skips, end
  <2> QED
    BY <1>7, <2>1, Zenon
<1>9. CASE end.kind = "dir"
  <2>1. "dir" # "special" /\ "dir" # "file"
    OBVIOUS
  <2>2. PICK n \in mergeChild(p, new) : tree' = Put(tree, p, n)
    BY <1>3, <1>9, <2>1, Zenon
  <2>3. new = Dir(layer.name) /\ new.dir = TRUE
    BY <1>9, FreshNode, Zenon
  <2> HIDE DEF new
  <2>4. CASE p \notin DOMAIN tree
    <3>1. n = Dir(layer.name)
      BY <2>3, <2>4, Zenon DEF mergeChild
    <3> QED
      BY <1>3, <1>4, <1>7, <1>9, <2>1, <2>2, <2>4, <3>1, Zenon DEF Enters
  <2>5. CASE p \in DOMAIN tree
    <3>1. tree[p].dir = new.dir
      BY <2>5, Zenon DEF mergeChild
    <3>2. tree[p].dir
      BY <2>3, <3>1, Zenon
    <3>3. n = tree[p]
      BY <2>5, <3>1, <3>2, Zenon DEF mergeChild
    <3> QED
      BY <1>3, <1>4, <1>7, <1>9, <2>1, <2>2, <2>5, <3>2, <3>3, Zenon DEF Enters
  <2> QED
    BY <2>4, <2>5, Zenon
<1>10. CASE end.kind = "file"
  <2>1. "file" # "special" /\ "file" # "dir"
    OBVIOUS
  <2>2. PICK n \in mergeChild(p, new) : tree' = Put(tree, p, n)
    BY <1>3, <1>10, <2>1, Zenon
  <2>3. new = NewFile(e) /\ ~NewFile(e).dir
    BY <1>10, <2>1, FreshNode, Zenon DEF NewFile
  <2>4. todo' = todo \ {e}
    <3>1. todo' = (todo \ {e}) \cup {}
      BY <1>3, <1>10, <2>1, Zenon
    <3> QED
      BY <3>1, Zenon
  <2> HIDE DEF new
  <2>5. CASE p \notin DOMAIN tree
    <3>1. n = NewFile(e)
      BY <2>3, <2>5, Zenon DEF mergeChild
    <3> QED
      BY <1>7, <1>10, <2>2, <2>4, <2>5, <3>1, Zenon DEF Takes, end
  <2>6. CASE p \in DOMAIN tree
    <3>1. tree[p].dir = new.dir
      BY <2>6, Zenon DEF mergeChild
    <3>2. ~tree[p].dir
      BY <2>3, <3>1, Zenon
    <3>3. CASE supersedes(tree[p], new, p)
      <4>1. n = NewFile(e)
        BY <2>3, <2>6, <3>1, <3>2, <3>3, Zenon DEF mergeChild
      <4> QED
        BY <1>7, <1>10, <2>2, <2>3, <2>4, <2>6, <3>2, <3>3, <4>1, Zenon DEF Takes, end
    <3>4. CASE ~supersedes(tree[p], new, p)
      <4>1. n = tree[p] /\ (Winner(p) # "none" \/ tree[p].bytes = new.bytes)
        BY <2>6, <3>1, <3>2, <3>4, Zenon DEF mergeChild
      <4> QED
        BY <1>7, <1>10, <2>2, <2>3, <2>4, <2>6, <3>2, <4>1, Zenon DEF Keeps, end
    <3> QED
      BY <3>3, <3>4, Zenon
  <2> QED
    BY <2>5, <2>6, Zenon
<1> QED
  BY <1>6, <1>8, <1>9, <1>10, Zenon

-----------------------------------------------------------------------------
(* Inodes.                                                                 *)

LEMMA FreshPut ==
  ASSUME NEW t, Fresh(t), NEW p \in Seq(Nat), NEW n, IsNode(n), n.ino = 0
  PROVE  Fresh(Put(t, p, n))
<1>1. IsTree(t) /\ \A q \in DOMAIN t : t[q].ino = 0
  BY Zenon DEF Fresh
<1> DEFINE u == Put(t, p, n)
<1>2. IsTree(u) /\ IsPut(u, t, p, n)
  BY <1>1, PutIs, Zenon
<1> HIDE DEF u
<1>3. \A q \in DOMAIN u : u[q].ino = 0
  BY <1>1, <1>2, Zenon DEF IsPut
<1> QED
  BY <1>2, <1>3, Zenon DEF Fresh, u

LEMMA FreshEnsure ==
  ASSUME NEW t, Fresh(t), NEW p \in Seq(Nat), NEW l
  PROVE  Fresh(ensureDir(t, p, l))
<1>1. IsTree(t) /\ \A q \in DOMAIN t : t[q].ino = 0
  BY Zenon DEF Fresh
<1> DEFINE u == ensureDir(t, p, l)
<1>2. /\ IsTree(u) /\ DOMAIN u = DOMAIN t \cup Prefixes(p) /\ \A q \in DOMAIN t : u[q] = t[q]
      /\ \A q \in Prefixes(p) : q \notin DOMAIN t => u[q] = Dir(l)
  BY <1>1, EnsureIs, ZenonT(60)
<1> HIDE DEF u
<1>3. Dir(l).ino = 0
  BY FreshNode, Zenon
<1>4. \A q \in DOMAIN u : u[q].ino = 0
  BY <1>1, <1>2, <1>3, Zenon
<1> QED
  BY <1>2, <1>4, Zenon DEF Fresh, u

\* Numbering a tree that has no inodes, or that has all but those of new nodes.
LEMMA NumberAll ==
  ASSUME NEW t, IsTree(t), NEW n \in Nat, n >= RootIno,
         \A p \in DOMAIN t : t[p].ino # 0 => t[p].ino \in RootIno..(n - 1),
         \A p, q \in DOMAIN t : p # q /\ t[p].ino # 0 => t[p].ino # t[q].ino,
         t[<<>>].ino = RootIno \/ (t[<<>>].ino = 0 /\ n = RootIno)
  PROVE  Numbered(number(t, n), n + Cardinality(Unnumbered(t)))
<1> DEFINE u == number(t, n)
           c == Cardinality(Unnumbered(t))
<1>0. RootIno \in Nat /\ RootIno # 0
  BY DEF RootIno
<1>1. /\ IsTree(u) /\ DOMAIN u = DOMAIN t
      /\ \A p \in DOMAIN t : t[p].ino # 0 => u[p].ino = t[p].ino
      /\ \A p \in Unnumbered(t) : u[p].ino = n + Rank(t, p)
  BY NumberIs, Zenon
<1>2. /\ c \in Nat
      /\ \A p \in DOMAIN t : Rank(t, p) \in Nat
      /\ \A p \in Unnumbered(t) : Rank(t, p) < c
      /\ \A p, q \in Unnumbered(t) : p # q => Rank(t, p) # Rank(t, q)
      /\ Rank(t, <<>>) = 0
  BY Ranks, Zenon
<1>3. \A p \in DOMAIN t : t[p].ino = 0 <=> p \in Unnumbered(t)
  BY Zenon DEF Unnumbered
<1>4. <<>> \in DOMAIN t
  BY Zenon DEF IsTree
<1> HIDE DEF u, c
<1>5. ASSUME NEW p \in DOMAIN t, t[p].ino # 0
      PROVE  u[p].ino \in RootIno..(n - 1)
  BY <1>1, <1>5, Zenon
<1>6. ASSUME NEW p \in DOMAIN t, t[p].ino = 0
      PROVE  u[p].ino \in n..(n + c - 1)
  <2>1. u[p].ino = n + Rank(t, p) /\ Rank(t, p) \in Nat /\ Rank(t, p) < c
    BY <1>1, <1>2, <1>3, <1>6, Zenon
  <2> QED
    BY <1>2, <2>1
<1>7. u[<<>>].ino = RootIno /\ n + c > RootIno
  <2>1. CASE t[<<>>].ino = RootIno
    <3>1. t[<<>>].ino # 0 /\ t[<<>>].ino \in RootIno..(n - 1)
      BY <1>0, <1>4, <2>1
    <3>2. u[<<>>].ino = RootIno
      BY <1>1, <1>4, <2>1, <3>1, Zenon
    <3> QED
      BY <1>0, <1>2, <2>1, <3>1, <3>2
  <2>2. CASE t[<<>>].ino = 0 /\ n = RootIno
    <3>1. <<>> \in Unnumbered(t)
      BY <1>3, <1>4, <2>2, Zenon
    <3>2. u[<<>>].ino = n + Rank(t, <<>>) /\ Rank(t, <<>>) < c
      BY <1>1, <1>2, <3>1, Zenon
    <3> QED
      BY <1>0, <1>2, <2>2, <3>2
  <2> QED
    BY <2>1, <2>2, Zenon
<1>8. ASSUME NEW p \in DOMAIN t PROVE u[p].ino \in RootIno..((n + c) - 1)
  BY <1>0, <1>2, <1>5, <1>6
<1>9. ASSUME NEW p \in DOMAIN t, NEW q \in DOMAIN t, p # q PROVE u[p].ino # u[q].ino
  <2>1. CASE t[p].ino # 0 /\ t[q].ino # 0
    BY <1>1, <1>9, <2>1, Zenon
  <2>2. CASE t[p].ino = 0 /\ t[q].ino = 0
    <3>1. /\ u[p].ino = n + Rank(t, p) /\ u[q].ino = n + Rank(t, q)
          /\ Rank(t, p) \in Nat /\ Rank(t, q) \in Nat /\ Rank(t, p) # Rank(t, q)
      BY <1>1, <1>2, <1>3, <1>9, <2>2, Zenon
    <3> QED
      BY <3>1
  <2>3. CASE t[p].ino # 0 /\ t[q].ino = 0
    <3>1. u[p].ino \in RootIno..(n - 1) /\ u[q].ino \in n..(n + c - 1)
      BY <1>5, <1>6, <2>3, Zenon
    <3> QED
      BY <1>0, <1>2, <3>1
  <2>4. CASE t[p].ino = 0 /\ t[q].ino # 0
    <3>1. u[q].ino \in RootIno..(n - 1) /\ u[p].ino \in n..(n + c - 1)
      BY <1>5, <1>6, <2>4, Zenon
    <3> QED
      BY <1>0, <1>2, <3>1
  <2> QED
    BY <2>1, <2>2, <2>3, <2>4, Zenon
<1>10. n + c \in Nat
  BY <1>2
<1>11. Numbered(u, n + c)
  <2>1. \A p \in DOMAIN u : u[p].ino \in RootIno..((n + c) - 1)
    BY <1>1, <1>8, Zenon
  <2>2. \A p, q \in DOMAIN u : p # q => u[p].ino # u[q].ino
    BY <1>1, <1>9, Zenon
  <2> QED
    BY <1>1, <1>7, <1>10, <2>1, <2>2, Zenon DEF Numbered
<1> QED
  BY <1>11, Zenon DEF u, c

LEMMA FreshNumbered ==
  ASSUME NEW t, Fresh(t)
  PROVE  Numbered(number(t, RootIno), RootIno + Cardinality(Unnumbered(t)))
<1>1. IsTree(t) /\ <<>> \in DOMAIN t /\ \A p \in DOMAIN t : t[p].ino = 0
  BY Zenon DEF Fresh, IsTree
<1>2. RootIno \in Nat /\ RootIno >= RootIno
  BY DEF RootIno
<1> QED
  BY <1>1, <1>2, NumberAll, Zenon

\* AddGenerated: a file is shadowed, or one is added with its directories; the tree stays a
\* numbered one, a path keeps its inode, and every other file is as it was.
Generates(t, p) ==
  Put(ensureDir(t, Parent(p), "generated"), p,
      [File("generated", "made") EXCEPT !.ino = IF p \in DOMAIN t THEN t[p].ino ELSE 0])

LEMMA GeneratesIs ==
  ASSUME NEW t, IsTree(t), NEW p \in Seq(Nat), p # <<>>
  PROVE  LET u == Generates(t, p) IN
         /\ IsTree(u) /\ DOMAIN t \subseteq DOMAIN u
         /\ \A q \in DOMAIN t : q # p => u[q] = t[q]
         /\ p \in DOMAIN u /\ ~u[p].dir /\ u[p].layer = "generated"
         /\ \A q \in DOMAIN u : u[q].ino = IF q \in DOMAIN t THEN t[q].ino ELSE 0
<1> DEFINE e == ensureDir(t, Parent(p), "generated")
           i == IF p \in DOMAIN t THEN t[p].ino ELSE 0
           n == [File("generated", "made") EXCEPT !.ino = i]
           u == Put(e, p, n)
<1>1. Parent(p) \in Seq(Nat)
  BY DEF Parent
<1>2. /\ IsTree(e) /\ DOMAIN e = DOMAIN t \cup Prefixes(Parent(p))
      /\ \A q \in DOMAIN t : e[q] = t[q]
      /\ \A q \in Prefixes(Parent(p)) : q \notin DOMAIN t => e[q] = Dir("generated")
  BY <1>1, EnsureIs, ZenonT(60)
<1>3. i \in Nat
  <2>1. p \in DOMAIN t => t[p].ino \in Nat
    BY Zenon DEF IsTree, IsNode
  <2> QED
    BY <2>1
<1> HIDE DEF e, i
<1>4. IsNode(n) /\ n.ino = i /\ Alike(n, File("generated", "made"))
  <2>1. IsNode(File("generated", "made"))
    BY FreshNode, Zenon
  <2> QED
    BY <1>3, <2>1, WithIno, Zenon
<1>5. ~n.dir /\ n.layer = "generated"
  <2>1. ~File("generated", "made").dir /\ File("generated", "made").layer = "generated"
    BY FreshNode, Zenon
  <2> HIDE DEF n
  <2> QED
    BY <1>4, <2>1, Zenon DEF Alike
<1> HIDE DEF n
<1>6. IsTree(u) /\ IsPut(u, e, p, n)
  BY <1>2, <1>4, PutIs, Zenon
<1>7. u = Generates(t, p)
  BY Zenon DEF Generates, e, n, i
<1> HIDE DEF u
<1>8. ASSUME NEW q \in DOMAIN u PROVE u[q].ino = IF q \in DOMAIN t THEN t[q].ino ELSE 0
  <2>1. CASE q = p
    BY <1>4, <1>6, <2>1, Zenon DEF i, IsPut
  <2>2. CASE q # p /\ q \in DOMAIN t
    BY <1>2, <1>6, <2>2, Zenon DEF IsPut
  <2>3. CASE q # p /\ q \notin DOMAIN t
    <3>1. u[q] = Dir("generated") /\ Dir("generated").ino = 0
      BY <1>2, <1>6, <2>3, FreshNode, Zenon DEF IsPut
    <3> QED
      BY <2>3, <3>1, Zenon
  <2> QED
    BY <2>1, <2>2, <2>3, Zenon
<1>9. /\ IsTree(u) /\ DOMAIN t \subseteq DOMAIN u
      /\ \A q \in DOMAIN t : q # p => u[q] = t[q]
      /\ p \in DOMAIN u /\ ~u[p].dir /\ u[p].layer = "generated"
      /\ \A q \in DOMAIN u : u[q].ino = IF q \in DOMAIN t THEN t[q].ino ELSE 0
  BY <1>2, <1>5, <1>6, <1>8, Zenon DEF IsPut
<1> QED
  BY <1>7, <1>9, Zenon

LEMMA GeneratedNumbered ==
  ASSUME NEW t, NEW n, Numbered(t, n), NEW p \in Seq(Nat), p # <<>>
  PROVE  LET u == Generates(t, p) IN
         /\ Numbered(number(u, n), n + Cardinality(Unnumbered(u)))
         /\ \A q \in DOMAIN t : q \in DOMAIN number(u, n) /\ number(u, n)[q].ino = t[q].ino
<1> DEFINE u == Generates(t, p)
<1>1. /\ IsTree(t) /\ n \in Nat /\ n > RootIno /\ t[<<>>].ino = RootIno
      /\ \A q \in DOMAIN t : t[q].ino \in RootIno..(n - 1)
      /\ \A q, x \in DOMAIN t : q # x => t[q].ino # t[x].ino
      /\ <<>> \in DOMAIN t
  BY Zenon DEF Numbered, IsTree
<1>2. /\ IsTree(u) /\ DOMAIN t \subseteq DOMAIN u
      /\ \A q \in DOMAIN u : u[q].ino = IF q \in DOMAIN t THEN t[q].ino ELSE 0
  BY <1>1, GeneratesIs, Zenon
<1> HIDE DEF u
<1>3. RootIno \in Nat /\ RootIno # 0 /\ n >= RootIno
  BY <1>1 DEF RootIno
<1>4. \A q \in DOMAIN t : t[q].ino # 0
  BY <1>1, <1>3
<1>5. \A q \in DOMAIN u : u[q].ino # 0 => u[q].ino \in RootIno..(n - 1)
  BY <1>1, <1>2, Zenon
<1>6. ASSUME NEW q \in DOMAIN u, NEW x \in DOMAIN u, q # x, u[q].ino # 0 PROVE u[q].ino # u[x].ino
  <2>1. q \in DOMAIN t /\ u[q].ino = t[q].ino
    BY <1>2, <1>6, Zenon
  <2>2. CASE x \in DOMAIN t
    BY <1>1, <1>2, <1>6, <2>1, <2>2, Zenon
  <2>3. CASE x \notin DOMAIN t
    BY <1>2, <1>6, <2>3, Zenon
  <2> QED
    BY <2>2, <2>3, Zenon
<1>7. u[<<>>].ino = RootIno
  BY <1>1, <1>2, Zenon
<1>8. Numbered(number(u, n), n + Cardinality(Unnumbered(u)))
  BY <1>1, <1>2, <1>3, <1>5, <1>6, <1>7, NumberAll, Zenon
<1>9. DOMAIN number(u, n) = DOMAIN u /\ \A q \in DOMAIN u : u[q].ino # 0 => number(u, n)[q].ino = u[q].ino
  BY <1>1, <1>2, NumberIs, Zenon
<1>10. \A q \in DOMAIN t : q \in DOMAIN number(u, n) /\ number(u, n)[q].ino = t[q].ino
  BY <1>2, <1>4, <1>9, Zenon
<1> QED
  BY <1>8, <1>10, Zenon DEF u

-----------------------------------------------------------------------------
(* Every step keeps the place and the inodes.                              *)

LEMMA PlaceTreeInit == Init => PlaceInv /\ TreeInv
<1> SUFFICES ASSUME Init PROVE PlaceInv /\ TreeInv
  OBVIOUS
<1>1. PlaceInv
  BY DEF Init, PlaceInv
<1>2. Fresh(tree)
  <2>1. tree = [p \in {<<>>} |-> Dir("none")]
    BY Zenon DEF Init
  <2>2. DOMAIN tree = {<<>>} /\ tree[<<>>] = Dir("none") /\ tree = [p \in DOMAIN tree |-> tree[p]]
    BY <2>1, Zenon
  <2>3. IsFiniteSet({<<>>})
    BY FS_Singleton, Zenon
  <2>4. {<<>>} \subseteq Seq(Nat)
    OBVIOUS
  <2>5. IsNode(Dir("none")) /\ Dir("none").ino = 0
    BY FreshNode, Zenon
  <2> QED
    BY <2>2, <2>3, <2>4, <2>5, Zenon DEF Fresh, IsTree
<1>3. pc = "set" /\ nextIno = RootIno
  BY Zenon DEF Init
<1>4. TreeInv
  BY <1>2, <1>3 DEF TreeInv
<1> QED
  BY <1>1, <1>4, Zenon

LEMMA FailKeeps ==
  ASSUME PlaceInv, TreeInv, Fail
  PROVE  PlaceInv' /\ TreeInv' /\ tree' = tree
<1>1. pc' = "failed" /\ spec' = spec /\ media' = media /\ at' = at /\ tree' = tree
  BY Zenon DEF Fail, input
<1>2. PlaceInv'
  BY <1>1 DEF PlaceInv
<1>3. TreeInv'
  BY <1>1 DEF TreeInv
<1> QED
  BY <1>1, <1>2, <1>3, Zenon

\* The set, the layer and its source are those of the place.
LEMMA SamePlace ==
  ASSUME spec' = spec, media' = media, at' = at
  PROVE  set' = set /\ layer' = layer /\ fsys' = fsys
<1>1. set' = set
  BY Zenon DEF set
<1>2. layer' = layer
  BY <1>1, Zenon DEF layer
<1> QED
  BY <1>1, <1>2, Zenon DEF fsys

LEMMA BeginSetIs ==
  ASSUME PlaceInv, BeginSet, ~Fail
  PROVE  /\ pc = "set" /\ pc' = "layer" /\ spec' = spec /\ media' = media /\ at' = at /\ nextIno' = nextIno
         /\ at.set \in DOMAIN spec /\ <<set.name>> \notin DOMAIN tree
         /\ <<set.name>> \in Seq(Nat)
         /\ tree' = Put(tree, <<set.name>>, Dir("none"))
<1>1. /\ pc = "set" /\ pc' = "layer" /\ spec' = spec /\ media' = media /\ at' = at /\ nextIno' = nextIno
      /\ at.set <= Len(spec) /\ <<set.name>> \notin DOMAIN tree
      /\ tree' = Put(tree, <<set.name>>, Dir("none"))
  BY Zenon DEF BeginSet, Goto, input
<1>2. spec \in Specs /\ at.set \in Nat \ {0}
  BY Zenon DEF PlaceInv
<1>3. Len(spec) \in Nat /\ DOMAIN spec = 1..Len(spec)
  BY <1>2, TreeAssumption, Zenon
<1>4. at.set \in DOMAIN spec
  BY <1>1, <1>2, <1>3
<1>5. set.name \in Nat
  BY <1>2, <1>4, SpecIs, Zenon DEF set
<1>6. <<set.name>> \in Seq(Nat)
  BY <1>5
<1> QED
  BY <1>1, <1>4, <1>6, Zenon

LEMMA BeginSetKeeps ==
  ASSUME PlaceInv, TreeInv, BeginSet
  PROVE  PlaceInv' /\ TreeInv'
<1>1. SUFFICES ASSUME ~Fail PROVE PlaceInv' /\ TreeInv'
  BY FailKeeps, Zenon
<1>2. /\ pc = "set" /\ pc' = "layer" /\ spec' = spec /\ media' = media /\ at' = at /\ nextIno' = nextIno
      /\ at.set \in DOMAIN spec /\ <<set.name>> \in Seq(Nat)
      /\ tree' = Put(tree, <<set.name>>, Dir("none"))
  BY <1>1, BeginSetIs, Zenon
<1>3. PlaceInv'
  BY <1>2 DEF PlaceInv
<1>4. Fresh(tree) /\ nextIno = RootIno
  BY <1>2 DEF TreeInv
<1>5. Fresh(tree')
  BY <1>2, <1>4, FreshNode, FreshPut, Zenon
<1>6. TreeInv'
  BY <1>2, <1>4, <1>5 DEF TreeInv
<1> QED
  BY <1>3, <1>6, Zenon

LEMMA ResolveKeeps ==
  ASSUME PlaceInv, TreeInv, Resolve
  PROVE  PlaceInv' /\ TreeInv'
<1>1. SUFFICES ASSUME ~Fail PROVE PlaceInv' /\ TreeInv'
  BY FailKeeps, Zenon
<1>2. /\ pc = "layer" /\ pc' = "dist" /\ spec' = spec /\ media' = media /\ at' = at /\ nextIno' = nextIno
      /\ tree' = tree /\ at.layer <= Len(set.layers)
  BY <1>1, Zenon DEF Resolve, Goto, input
<1>3. set' = set
  BY <1>2, SamePlace, Zenon
<1>4. Len(set.layers) \in Nat /\ DOMAIN set.layers = 1..Len(set.layers)
  BY <1>2, InSet, Zenon
<1>5. at.layer \in DOMAIN set.layers
  <2>1. at.layer \in Nat \ {0}
    BY Zenon DEF PlaceInv
  <2> QED
    BY <1>2, <1>4, <2>1
<1>6. PlaceInv'
  BY <1>2, <1>3, <1>5 DEF PlaceInv
<1>7. TreeInv'
  BY <1>2 DEF TreeInv
<1> QED
  BY <1>6, <1>7, Zenon

\* mergeTree: the walk of a directory begins.
LEMMA MergeTreeIs ==
  ASSUME PlaceInv, NEW r, NEW next, mergeTree(r[2], <<set.name, r[1]>>, next), ~Fail,
         pc \in {"dist", "walk"}, r[1] \in Nat
  PROVE  /\ pc' = next /\ spec' = spec /\ media' = media /\ at' = at /\ nextIno' = nextIno
         /\ tree' = ensureDir(tree, <<set.name, r[1]>>, layer.name)
         /\ <<set.name, r[1]>> \in Seq(Nat)
         /\ todo' = EntriesOf(fsys, RootOf(fsys, r), <<set.name, r[1]>>)
         /\ Placed(todo', fsys, set, r) /\ set' = set /\ layer' = layer /\ fsys' = fsys
         /\ Kind(fsys, RootOf(fsys, r)) = "dir"
<1>1. /\ pc' = next /\ spec' = spec /\ media' = media /\ at' = at /\ nextIno' = nextIno
      /\ tree' = ensureDir(tree, <<set.name, r[1]>>, layer.name)
      /\ todo' = EntriesOf(fsys, RootOf(fsys, r), <<set.name, r[1]>>)
      /\ Follow(fsys, r[2]).kind = "dir"
  BY Zenon DEF mergeTree, Goto, input, Entries, EntriesOf, RootOf
<1>2. set.name \in Nat /\ IsSource(fsys)
  BY InSet, InLayer, Zenon
<1>3. Placed(todo', fsys, set, r)
  BY <1>1, <1>2, PlacedRoot, Zenon
<1>4. <<set.name, r[1]>> \in Seq(Nat)
  BY <1>2
<1>5. Kind(fsys, RootOf(fsys, r)) = "dir"
  BY <1>3, Zenon DEF Placed
<1> QED
  BY <1>1, <1>3, <1>4, <1>5, SamePlace, Zenon

LEMMA RootNames ==
  ASSUME NEW l
  PROVE  /\ DistOf(l)[1] = distDir /\ DistOf(l)[2] = l.dist /\ distDir \in Nat
         /\ StandOf(l)[1] = standDir /\ StandOf(l)[2] = l.stand /\ standDir \in Nat
         /\ distDir # standDir
  BY DEF DistOf, StandOf, distDir, standDir

LEMMA MergeDistIs ==
  ASSUME MergeDist, ~Fail
  PROVE  pc = "dist" /\ mergeTree(DistOf(layer)[2], <<set.name, DistOf(layer)[1]>>, "walk")
<1>1. pc = "dist" /\ mergeTree(layer.dist, <<set.name, distDir>>, "walk")
  BY Zenon DEF MergeDist
<1> QED
  BY <1>1, RootNames, Zenon

LEMMA MergeDistKeeps ==
  ASSUME PlaceInv, TreeInv, MergeDist
  PROVE  PlaceInv' /\ TreeInv'
<1>1. SUFFICES ASSUME ~Fail PROVE PlaceInv' /\ TreeInv'
  BY FailKeeps, Zenon
<1> DEFINE r == DistOf(layer)
<1>2. pc = "dist" /\ mergeTree(r[2], <<set.name, r[1]>>, "walk") /\ r[1] \in Nat
  BY <1>1, MergeDistIs, RootNames, Zenon
<1> HIDE DEF r
<1>3. /\ pc' = "walk" /\ spec' = spec /\ media' = media /\ at' = at /\ nextIno' = nextIno
      /\ tree' = ensureDir(tree, <<set.name, r[1]>>, layer.name) /\ <<set.name, r[1]>> \in Seq(Nat)
      /\ Placed(todo', fsys, set, r) /\ set' = set /\ layer' = layer /\ fsys' = fsys
  BY <1>1, <1>2, MergeTreeIs, Zenon
<1>4. at.set \in DOMAIN spec /\ at.layer \in DOMAIN set.layers
  BY <1>2, Zenon DEF PlaceInv
<1>5. Placed(todo', fsys', set', DistOf(layer'))
  BY <1>3, Zenon DEF r
<1>6. PlaceInv'
  BY <1>3, <1>4, <1>5 DEF PlaceInv
<1>7. Fresh(tree) /\ nextIno = RootIno
  BY <1>2 DEF TreeInv
<1>8. Fresh(tree')
  BY <1>3, <1>7, FreshEnsure, Zenon
<1>9. TreeInv'
  BY <1>3, <1>7, <1>8 DEF TreeInv
<1> QED
  BY <1>6, <1>9, Zenon

LEMMA MergeStandIs ==
  ASSUME MergeStand
  PROVE  /\ pc = "walk" /\ todo = {} /\ layer.boot
         /\ mergeTree(StandOf(layer)[2], <<set.name, StandOf(layer)[1]>>, "stand")
<1>1. pc = "walk" /\ todo = {} /\ layer.boot /\ mergeTree(layer.stand, <<set.name, standDir>>, "stand")
  BY Zenon DEF MergeStand
<1> QED
  BY <1>1, RootNames, Zenon

LEMMA MergeStandKeeps ==
  ASSUME PlaceInv, TreeInv, MergeStand
  PROVE  PlaceInv' /\ TreeInv'
<1>1. SUFFICES ASSUME ~Fail PROVE PlaceInv' /\ TreeInv'
  BY FailKeeps, Zenon
<1> DEFINE r == StandOf(layer)
<1>2. pc = "walk" /\ layer.boot /\ mergeTree(r[2], <<set.name, r[1]>>, "stand") /\ r[1] \in Nat
  BY <1>1, MergeStandIs, RootNames, Zenon
<1> HIDE DEF r
<1>3. /\ pc' = "stand" /\ spec' = spec /\ media' = media /\ at' = at /\ nextIno' = nextIno
      /\ tree' = ensureDir(tree, <<set.name, r[1]>>, layer.name) /\ <<set.name, r[1]>> \in Seq(Nat)
      /\ Placed(todo', fsys, set, r) /\ set' = set /\ layer' = layer /\ fsys' = fsys
  BY <1>1, <1>2, MergeTreeIs, Zenon
<1>4. at.set \in DOMAIN spec /\ at.layer \in DOMAIN set.layers
  BY <1>2, Zenon DEF PlaceInv
<1>5. Placed(todo', fsys', set', StandOf(layer')) /\ (layer').boot
  BY <1>2, <1>3, Zenon DEF r
<1>6. PlaceInv'
  BY <1>3, <1>4, <1>5 DEF PlaceInv
<1>7. Fresh(tree) /\ nextIno = RootIno
  BY <1>2 DEF TreeInv
<1>8. Fresh(tree')
  BY <1>3, <1>7, FreshEnsure, Zenon
<1>9. TreeInv'
  BY <1>3, <1>7, <1>8 DEF TreeInv
<1> QED
  BY <1>6, <1>9, Zenon

LEMMA PlacedFewer ==
  ASSUME NEW T, NEW U, U \subseteq T, NEW fs, NEW s, NEW r, Placed(T, fs, s, r)
  PROVE  Placed(U, fs, s, r)
  BY Zenon DEF Placed

\* What is still to be walked after an entry is placed as it was before.
LEMMA WalkPlaced ==
  ASSUME PlaceInv, pc \in {"walk", "stand"}, NEW e \in todo,
         Skips(e) \/ Enters(e) \/ Takes(e) \/ Keeps(e)
  PROVE  Placed(todo', fsys, set, Here)
<1>1. /\ set.name \in Nat /\ IsSource(fsys) /\ Here[1] \in Nat /\ Placed(todo, fsys, set, Here)
  BY InSet, InLayer, HereIs, Zenon
<1>2. todo \ {e} \subseteq todo
  BY Zenon
<1>3. Placed(todo \ {e}, fsys, set, Here)
  BY <1>1, <1>2, PlacedFewer, Zenon
<1>4. CASE todo' = todo \ {e}
  BY <1>3, <1>4, Zenon
<1>5. CASE Enters(e)
  <2>1. /\ Kind(fsys, e.src) = "dir"
        /\ todo' = (todo \ {e}) \cup EntriesOf(fsys, e.src, e.target)
    BY <1>5, Zenon DEF Enters
  <2>2. Within(fsys, RootOf(fsys, Here), e.src)
    BY <1>1, PlacedIs, Zenon
  <2>3. e.target = Landing(set.name, Here[1], RootOf(fsys, Here), e.src)
    BY <1>1, Zenon DEF Placed
  <2> QED
    BY <1>1, <1>3, <2>1, <2>2, <2>3, PlacedEntries, Zenon
<1> QED
  BY <1>4, <1>5, Zenon DEF Skips, Takes, Keeps

LEMMA WalkTarget ==
  ASSUME PlaceInv, pc \in {"walk", "stand"}, NEW e \in todo
  PROVE  /\ e.target \in Seq(Nat) /\ e.target # <<>> /\ e.target[1] = set.name
         /\ e.target[2] = Here[1]
<1>1. /\ set.name \in Nat /\ IsSource(fsys) /\ Here[1] \in Nat /\ Placed(todo, fsys, set, Here)
  BY InSet, InLayer, HereIs, Zenon
<1> QED
  BY <1>1, PlacedIs

\* The tree after an entry: as it was, or with a node of its own at the entry's path.
LEMMA WalkTree ==
  ASSUME PlaceInv, Fresh(tree), pc \in {"walk", "stand"}, NEW e \in todo,
         Skips(e) \/ Enters(e) \/ Takes(e) \/ Keeps(e)
  PROVE  Fresh(tree')
<1>1. e.target \in Seq(Nat)
  BY WalkTarget, Zenon
<1>2. \A q \in DOMAIN tree : IsNode(tree[q]) /\ tree[q].ino = 0
  BY Zenon DEF Fresh, IsTree
<1>3. CASE Skips(e)
  BY <1>3, Zenon DEF Skips
<1>4. CASE Enters(e)
  <2> DEFINE n == IF e.target \in DOMAIN tree THEN tree[e.target] ELSE Dir(layer.name)
  <2>1. tree' = Put(tree, e.target, n)
    BY <1>4, Zenon DEF Enters
  <2>2. IsNode(Dir(layer.name)) /\ Dir(layer.name).ino = 0
    BY FreshNode, Zenon
  <2>3. IsNode(n) /\ n.ino = 0
    BY <1>2, <2>2, Zenon
  <2> HIDE DEF n
  <2> QED
    BY <1>1, <2>1, <2>3, FreshPut, Zenon
<1>5. CASE Takes(e)
  <2>1. tree' = Put(tree, e.target, NewFile(e))
    BY <1>5, Zenon DEF Takes
  <2>2. IsNode(NewFile(e)) /\ NewFile(e).ino = 0
    BY FreshNode DEF NewFile
  <2> QED
    BY <1>1, <2>1, <2>2, FreshPut, Zenon
<1>6. CASE Keeps(e)
  <2>1. tree' = Put(tree, e.target, tree[e.target]) /\ e.target \in DOMAIN tree
    BY <1>6, Zenon DEF Keeps
  <2> QED
    BY <1>1, <1>2, <2>1, FreshPut, Zenon
<1> QED
  BY <1>3, <1>4, <1>5, <1>6, Zenon

LEMMA WalkKeeps ==
  ASSUME PlaceInv, TreeInv, walkFS
  PROVE  PlaceInv' /\ TreeInv'
<1>1. SUFFICES ASSUME ~Fail PROVE PlaceInv' /\ TreeInv'
  BY FailKeeps, Zenon
<1>2. pc \in {"walk", "stand"}
  BY Zenon DEF walkFS
<1>3. PICK e \in todo : walkEntry(e)
  BY Zenon DEF walkFS
<1>4. /\ pc' = pc /\ spec' = spec /\ media' = media /\ at' = at /\ nextIno' = nextIno
      /\ Skips(e) \/ Enters(e) \/ Takes(e) \/ Keeps(e)
  BY <1>1, <1>2, <1>3, WalkCases, Zenon
<1>5. set' = set /\ layer' = layer /\ fsys' = fsys
  BY <1>4, SamePlace, Zenon
<1>6. Placed(todo', fsys, set, Here)
  BY <1>2, <1>4, WalkPlaced, Zenon
<1>7. /\ pc = "walk" => Placed(todo', fsys, set, DistOf(layer))
      /\ pc = "stand" => Placed(todo', fsys, set, StandOf(layer))
  <2>1. "stand" # "walk"
    OBVIOUS
  <2> QED
    BY <1>6, <2>1, Zenon DEF Here
<1>8. PlaceInv'
  BY <1>4, <1>5, <1>7 DEF PlaceInv
<1>9. Fresh(tree) /\ nextIno = RootIno
  BY <1>2 DEF TreeInv
<1>10. Fresh(tree')
  BY <1>2, <1>4, <1>9, WalkTree, Zenon
<1>11. TreeInv'
  BY <1>2, <1>4, <1>9, <1>10 DEF TreeInv
<1> QED
  BY <1>8, <1>11, Zenon

LEMMA NextLayerKeeps ==
  ASSUME PlaceInv, TreeInv, NextLayer
  PROVE  PlaceInv' /\ TreeInv'
<1>1. /\ pc \in {"walk", "stand"} /\ pc' = "layer" /\ spec' = spec /\ media' = media
      /\ tree' = tree /\ nextIno' = nextIno /\ at' = [at EXCEPT !.layer = @ + 1]
  BY Zenon DEF NextLayer, Goto, input
<1>2. /\ at = [set |-> at.set, layer |-> at.layer] /\ at.set \in Nat \ {0} /\ at.layer \in Nat \ {0}
      /\ at.set \in DOMAIN spec
  BY <1>1, Zenon DEF PlaceInv
<1>3. at' = [set |-> at.set, layer |-> at.layer + 1]
  BY <1>1, <1>2
<1>4. PlaceInv'
  BY <1>1, <1>2, <1>3 DEF PlaceInv
<1>5. TreeInv'
  BY <1>1 DEF TreeInv
<1> QED
  BY <1>4, <1>5, Zenon

LEMMA EndSetKeeps ==
  ASSUME PlaceInv, TreeInv, EndSet
  PROVE  PlaceInv' /\ TreeInv'
<1>1. SUFFICES ASSUME ~Fail PROVE PlaceInv' /\ TreeInv'
  BY FailKeeps, Zenon
<1>2. /\ pc = "layer" /\ pc' = "set" /\ spec' = spec /\ media' = media
      /\ tree' = tree /\ nextIno' = nextIno /\ at' = [set |-> at.set + 1, layer |-> 1]
  BY <1>1, Zenon DEF EndSet, Goto, input
<1>3. PlaceInv'
  BY <1>2 DEF PlaceInv
<1>4. TreeInv'
  BY <1>2 DEF TreeInv
<1> QED
  BY <1>3, <1>4, Zenon

LEMMA BuiltKeeps ==
  ASSUME PlaceInv, TreeInv, Built
  PROVE  PlaceInv' /\ TreeInv'
<1>1. /\ pc = "set" /\ pc' = "built" /\ spec' = spec /\ media' = media /\ at' = at
      /\ tree' = number(tree, nextIno) /\ nextIno' = nextIno + Cardinality(Unnumbered(tree))
  BY Zenon DEF Built, input
<1>2. PlaceInv'
  BY <1>1 DEF PlaceInv
<1>3. Fresh(tree) /\ nextIno = RootIno
  BY <1>1 DEF TreeInv
<1>4. Numbered(tree', nextIno')
  BY <1>1, <1>3, FreshNumbered, Zenon
<1>5. TreeInv'
  BY <1>1, <1>4 DEF TreeInv
<1> QED
  BY <1>2, <1>5, Zenon

LEMMA AddGeneratedIs ==
  ASSUME NEW p \in Generated, AddGenerated(p), ~Fail
  PROVE  /\ pc = "built" /\ pc' = "built" /\ spec' = spec /\ media' = media /\ at' = at
         /\ tree' = number(Generates(tree, p), nextIno)
         /\ nextIno' = nextIno + Cardinality(Unnumbered(Generates(tree, p)))
         /\ p \in Seq(Nat) /\ p # <<>>
<1>1. /\ pc = "built" /\ pc' = "built" /\ spec' = spec /\ media' = media /\ at' = at
      /\ tree' = number(Generates(tree, p), nextIno)
      /\ nextIno' = nextIno + Cardinality(Unnumbered(Generates(tree, p)))
  BY Zenon DEF AddGenerated, input, Generates
<1>2. p \in Seq(Nat) /\ p # <<>>
  BY TreeAssumption, Zenon
<1> QED
  BY <1>1, <1>2, Zenon

LEMMA AddGeneratedKeeps ==
  ASSUME PlaceInv, TreeInv, NEW p \in Generated, AddGenerated(p)
  PROVE  /\ PlaceInv' /\ TreeInv'
         /\ \A q \in DOMAIN tree : tree[q].ino # 0 => q \in DOMAIN tree' /\ tree'[q].ino = tree[q].ino
<1>1. CASE Fail
  BY <1>1, FailKeeps, Zenon
<1>2. CASE ~Fail
  <2>1. /\ pc = "built" /\ pc' = "built" /\ spec' = spec /\ media' = media /\ at' = at
        /\ tree' = number(Generates(tree, p), nextIno)
        /\ nextIno' = nextIno + Cardinality(Unnumbered(Generates(tree, p)))
        /\ p \in Seq(Nat) /\ p # <<>>
    BY <1>2, AddGeneratedIs, Zenon
  <2>2. PlaceInv'
    BY <2>1 DEF PlaceInv
  <2>3. Numbered(tree, nextIno)
    BY <2>1 DEF TreeInv
  <2>4. /\ Numbered(tree', nextIno')
        /\ \A q \in DOMAIN tree : q \in DOMAIN tree' /\ tree'[q].ino = tree[q].ino
    BY <2>1, <2>3, GeneratedNumbered, Zenon
  <2>5. TreeInv'
    BY <2>1, <2>4 DEF TreeInv
  <2> QED
    BY <2>2, <2>4, <2>5, Zenon
<1> QED
  BY <1>1, <1>2, Zenon

LEMMA CloseTreeKeeps ==
  ASSUME PlaceInv, TreeInv, CloseTree
  PROVE  PlaceInv' /\ TreeInv' /\ tree' = tree
<1>1. /\ pc = "built" /\ pc' = "closed" /\ spec' = spec /\ media' = media /\ at' = at
      /\ tree' = tree /\ nextIno' = nextIno
  BY Zenon DEF CloseTree, input
<1>2. PlaceInv'
  BY <1>1 DEF PlaceInv
<1>3. TreeInv'
  BY <1>1 DEF TreeInv
<1> QED
  BY <1>1, <1>2, <1>3, Zenon

InodesKept == \A p \in DOMAIN tree : tree[p].ino # 0 => p \in DOMAIN tree' /\ tree'[p].ino = tree[p].ino

LEMMA PlaceTreeNext == PlaceInv /\ TreeInv /\ [Next]_vars => PlaceInv' /\ TreeInv' /\ [InodesKept]_vars
<1> SUFFICES ASSUME PlaceInv, TreeInv, [Next]_vars PROVE PlaceInv' /\ TreeInv' /\ [InodesKept]_vars
  OBVIOUS
<1>a. ASSUME pc \notin {"built", "closed", "failed"} PROVE InodesKept
  <2>1. Fresh(tree)
    BY <1>a DEF TreeInv
  <2> QED
    BY <2>1, Zenon DEF Fresh, InodesKept
<1>1. CASE BeginSet
  <2>1. pc = "set"
    BY <1>1, Zenon DEF BeginSet
  <2> QED
    BY <1>1, <1>a, <2>1, BeginSetKeeps
<1>2. CASE Resolve
  <2>1. pc = "layer"
    BY <1>2, Zenon DEF Resolve
  <2> QED
    BY <1>2, <1>a, <2>1, ResolveKeeps
<1>3. CASE MergeDist
  <2>1. pc = "dist"
    BY <1>3, Zenon DEF MergeDist
  <2> QED
    BY <1>3, <1>a, <2>1, MergeDistKeeps
<1>4. CASE MergeStand
  <2>1. pc = "walk"
    BY <1>4, Zenon DEF MergeStand
  <2> QED
    BY <1>4, <1>a, <2>1, MergeStandKeeps
<1>5. CASE walkFS
  <2>1. pc \in {"walk", "stand"}
    BY <1>5, Zenon DEF walkFS
  <2> QED
    BY <1>5, <1>a, <2>1, WalkKeeps
<1>6. CASE CompareFails
  <2>1. pc \in {"walk", "stand"} /\ Fail
    BY <1>6, Zenon DEF CompareFails
  <2> QED
    BY <1>a, <2>1, FailKeeps
<1>7. CASE NextLayer
  <2>1. pc \in {"walk", "stand"}
    BY <1>7, Zenon DEF NextLayer
  <2> QED
    BY <1>7, <1>a, <2>1, NextLayerKeeps
<1>8. CASE EndSet
  <2>1. pc = "layer"
    BY <1>8, Zenon DEF EndSet
  <2> QED
    BY <1>8, <1>a, <2>1, EndSetKeeps
<1>9. CASE Built
  <2>1. pc = "set"
    BY <1>9, Zenon DEF Built
  <2> QED
    BY <1>9, <1>a, <2>1, BuiltKeeps
<1>10. ASSUME NEW p \in Generated, AddGenerated(p) PROVE PlaceInv' /\ TreeInv' /\ InodesKept
  BY <1>10, AddGeneratedKeeps, Zenon DEF InodesKept
<1>11. CASE CloseTree
  <2>1. PlaceInv' /\ TreeInv' /\ tree' = tree
    BY <1>11, CloseTreeKeeps, Zenon
  <2> QED
    BY <2>1, Zenon DEF InodesKept
<1>12. CASE UNCHANGED vars
  <2>1. /\ spec' = spec /\ media' = media /\ pc' = pc /\ at' = at /\ todo' = todo /\ tree' = tree
        /\ nextIno' = nextIno
    BY <1>12, Zenon DEF vars
  <2>2. set' = set /\ layer' = layer /\ fsys' = fsys
    BY <2>1, SamePlace, Zenon
  <2>3. PlaceInv'
    BY <2>1, <2>2, Zenon DEF PlaceInv
  <2>4. TreeInv'
    BY <2>1, Zenon DEF TreeInv
  <2> QED
    BY <1>12, <2>3, <2>4, Zenon
<1> QED
  BY <1>1, <1>2, <1>3, <1>4, <1>5, <1>6, <1>7, <1>8, <1>9, <1>10, <1>11, <1>12, Zenon DEF Next

\* Whatever the media and the configuration, the nodes of a built tree have inodes of their
\* own, the root has the first, and no path is ever given another: not when number() runs
\* again for a generated file, nor when one shadows a file (Build, number, AddGenerated).
THEOREM InodesAreStable == Spec => InodesStable
<1> DEFINE Own == pc = "built" =>
                    /\ tree[<<>>].ino = RootIno
                    /\ \A p, q \in DOMAIN tree :
                         tree[p].ino # 0 /\ (p # q => tree[p].ino # tree[q].ino)
<1>1. TreeInv => Own
  <2> SUFFICES ASSUME TreeInv, pc = "built"
               PROVE  /\ tree[<<>>].ino = RootIno
                      /\ \A p, q \in DOMAIN tree :
                           tree[p].ino # 0 /\ (p # q => tree[p].ino # tree[q].ino)
    BY Zenon
  <2>1. Numbered(tree, nextIno)
    BY DEF TreeInv
  <2>2. \A p \in DOMAIN tree : tree[p].ino \in RootIno..(nextIno - 1)
    BY <2>1, Zenon DEF Numbered
  <2>3. \A p \in DOMAIN tree : tree[p].ino # 0
    BY <2>1, <2>2 DEF RootIno, Numbered
  <2> QED
    BY <2>1, <2>3, Zenon DEF Numbered
<1>2. Spec => []Own
  BY <1>1, PlaceTreeInit, PlaceTreeNext, PTL DEF Spec
<1>3. Spec => [][InodesKept]_vars
  BY PlaceTreeInit, PlaceTreeNext, PTL DEF Spec
<1> QED
  BY <1>2, <1>3, PTL DEF InodesStable, InodesKept

-----------------------------------------------------------------------------
(* The copies of a set.                                                    *)

IsSet(s) == s.name \in Nat /\ Len(s.layers) \in Nat /\ DOMAIN s.layers = 1..Len(s.layers)
            /\ \A i \in DOMAIN s.layers : s.layers[i] \in LayerSpec

\* A copy of a file of a layer's directory.
IsCopy(c, m, s, i, r, e) ==
  /\ i \in DOMAIN s.layers /\ r \in Roots(s.layers[i]) /\ e \in FilesOf(m[s.layers[i].source], r)
  /\ c = Copy(m, s, i, r, e)

\* Where it lies: in its set and its directory.
Lies(c, m, s, i, r, e) ==
  LET fs == m[s.layers[i].source]
  IN  /\ c.at = i /\ c.path = Landing(s.name, r[1], RootOf(fs, r), e)
      /\ c.bytes = fs[Follow(fs, e).path].bytes
      /\ RootOf(fs, r) \in Seq(Nat) /\ e \in Seq(Nat) /\ IsPrefix(RootOf(fs, r), e)
      /\ c.path \in Seq(Nat) /\ c.path # <<>> /\ c.path[1] = s.name /\ c.path[2] = r[1]
      /\ r[1] \in Nat

LEMMA CopiesAre ==
  ASSUME NEW m, NEW s, NEW c
  PROVE  c \in Copies(m, s) <=> \E i, r, e : IsCopy(c, m, s, i, r, e)
<1> DEFINE F(i, r) == {Copy(m, s, i, r, e) : e \in FilesOf(m[s.layers[i].source], r)}
           G(i) == UNION {F(i, r) : r \in Roots(s.layers[i])}
<1>1. Copies(m, s) = UNION {G(i) : i \in DOMAIN s.layers}
  BY Zenon DEF Copies
<1>2. c \in Copies(m, s) <=> \E i \in DOMAIN s.layers : c \in G(i)
  <2> HIDE DEF G
  <2> QED
    BY <1>1, Zenon
<1>3. \A i : c \in G(i) <=> \E r \in Roots(s.layers[i]) : c \in F(i, r)
  <2> HIDE DEF F
  <2> QED
    BY Zenon
<1>4. \A i, r : c \in F(i, r) <=> \E e \in FilesOf(m[s.layers[i].source], r) : c = Copy(m, s, i, r, e)
  BY Zenon
<1> HIDE DEF F, G
<1> QED
  BY <1>2, <1>3, <1>4, Zenon DEF IsCopy

LEMMA RootsAre ==
  ASSUME NEW l, NEW r \in Roots(l)
  PROVE  /\ r[1] \in Nat
         /\ r = DistOf(l) \/ (r = StandOf(l) /\ l.boot)
         /\ r[1] = distDir => r = DistOf(l)
         /\ r[1] # distDir => r = StandOf(l)
<1>1. r = DistOf(l) \/ (r = StandOf(l) /\ l.boot)
  BY Zenon DEF Roots, DistOf, StandOf
<1> QED
  BY <1>1, RootNames, Zenon

LEMMA CopyLies ==
  ASSUME NEW m \in [Sources -> Media], NEW s, IsSet(s), NEW c, NEW i, NEW r, NEW e, IsCopy(c, m, s, i, r, e)
  PROVE  Lies(c, m, s, i, r, e)
<1> DEFINE fs == m[s.layers[i].source]
           root == RootOf(fs, r)
<1>0. /\ i \in DOMAIN s.layers /\ r \in Roots(s.layers[i]) /\ e \in FilesOf(fs, r)
      /\ c = Copy(m, s, i, r, e)
  BY Zenon DEF IsCopy
<1>1. s.name \in Nat /\ s.layers[i] \in LayerSpec /\ r[1] \in Nat
  BY <1>0, RootsAre, Zenon DEF IsSet
<1>2. IsSource(fs)
  BY <1>1, LayerIs, Zenon
<1>3. e \in Below(fs, root)
  BY <1>0, Zenon DEF FilesOf, RootOf
<1>4. c = [path |-> Landing(s.name, r[1], root, e), at |-> i, bytes |-> fs[Follow(fs, e).path].bytes]
  BY <1>0, Zenon DEF Copy, RootOf
<1> HIDE DEF fs, root
<1>5. c.at = i /\ c.path = Landing(s.name, r[1], root, e) /\ c.bytes = fs[Follow(fs, e).path].bytes
  BY <1>4
<1>6. e \in Seq(Nat) /\ IsPrefix(root, e) /\ Kind(fs, root) = "dir"
  BY <1>2, <1>3, Zenon DEF Below, IsSource
<1>7. root \in Seq(Nat)
  <2>1. root \in DOMAIN fs
    BY <1>6 DEF Kind
  <2> QED
    BY <1>2, <2>1, Zenon DEF IsSource
<1>8. Lands(c.path, s.name, r[1], root, e)
  BY <1>1, <1>5, <1>6, <1>7, LandingIs, Zenon
<1>9. Len(root) \in Nat /\ Len(e) \in Nat /\ Len(root) <= Len(e)
  BY <1>6, <1>7 DEF IsPrefix
<1>10. /\ c.path \in Seq(Nat) /\ Len(c.path) = 2 + Len(e) - Len(root)
       /\ c.path[1] = s.name /\ c.path[2] = r[1]
  BY <1>8, Zenon DEF Lands
<1>11. c.path # <<>>
  BY <1>9, <1>10
<1> QED
  BY <1>1, <1>5, <1>6, <1>7, <1>10, <1>11, Zenon DEF Lies, root, fs

LEMMA CopyIn ==
  ASSUME NEW m \in [Sources -> Media], NEW s, IsSet(s), NEW c \in Copies(m, s)
  PROVE  /\ c.path \in Seq(Nat) /\ c.path # <<>> /\ c.path[1] = s.name
         /\ c.at \in Nat /\ c.at \in DOMAIN s.layers
<1>1. \E i, r, e : IsCopy(c, m, s, i, r, e)
  BY CopiesAre, Zenon
<1>2. PICK i, r, e : IsCopy(c, m, s, i, r, e)
  BY <1>1, Zenon
<1>3. Lies(c, m, s, i, r, e)
  BY <1>2, CopyLies, Zenon
<1>4. c.path \in Seq(Nat) /\ c.path # <<>> /\ c.path[1] = s.name /\ c.at = i
  BY <1>3, Zenon DEF Lies
<1>5. i \in DOMAIN s.layers
  BY <1>2, Zenon DEF IsCopy
<1>6. i \in Nat
  BY <1>5 DEF IsSet
<1> QED
  BY <1>4, <1>5, <1>6, Zenon

\* A layer has at most one file for a path.
LEMMA CopyOnce ==
  ASSUME NEW m \in [Sources -> Media], NEW s, IsSet(s), NEW i, NEW b, NEW r, NEW e, NEW c, NEW q, NEW d,
         IsCopy(b, m, s, i, r, e), IsCopy(c, m, s, i, q, d), b.path = c.path
  PROVE  r = q /\ e = d
<1> DEFINE fs == m[s.layers[i].source]
<1>1. Lies(b, m, s, i, r, e) /\ Lies(c, m, s, i, q, d)
  BY CopyLies, Zenon
<1>2. /\ RootOf(fs, r) \in Seq(Nat) /\ e \in Seq(Nat) /\ IsPrefix(RootOf(fs, r), e)
      /\ b.path = Landing(s.name, r[1], RootOf(fs, r), e) /\ b.path[2] = r[1] /\ r[1] \in Nat
  BY <1>1, Zenon DEF Lies
<1>3. /\ d \in Seq(Nat) /\ IsPrefix(RootOf(fs, q), d)
      /\ c.path = Landing(s.name, q[1], RootOf(fs, q), d) /\ c.path[2] = q[1]
  BY <1>1, Zenon DEF Lies
<1> HIDE DEF fs
<1>4. r[1] = q[1]
  BY <1>2, <1>3, Zenon
<1>5. r \in Roots(s.layers[i]) /\ q \in Roots(s.layers[i])
  BY Zenon DEF IsCopy
<1>6. r = q
  <2>1. CASE r[1] = distDir
    <3>1. r = DistOf(s.layers[i]) /\ q = DistOf(s.layers[i])
      BY <1>4, <1>5, <2>1, RootsAre, Zenon
    <3> QED
      BY <3>1, Zenon
  <2>2. CASE r[1] # distDir
    <3>1. r = StandOf(s.layers[i]) /\ q = StandOf(s.layers[i])
      BY <1>4, <1>5, <2>2, RootsAre, Zenon
    <3> QED
      BY <3>1, Zenon
  <2> QED
    BY <2>1, <2>2, Zenon
<1>7. Landing(s.name, r[1], RootOf(fs, r), e) = Landing(s.name, r[1], RootOf(fs, r), d)
  BY <1>2, <1>3, <1>6, Zenon
<1>8. s.name \in Nat
  BY Zenon DEF IsSet
<1>9. e = d
  BY <1>2, <1>3, <1>6, <1>7, <1>8, LandingOnce, Zenon
<1> QED
  BY <1>6, <1>9, Zenon

-----------------------------------------------------------------------------
(* What the tree serves.                                                   *)

\* The tree serves a copy at its path.
Serves(t, s, b) ==
  /\ b.path \in DOMAIN t /\ ~t[b.path].dir
  /\ b.bytes = t[b.path].bytes /\ s.layers[b.at].name = t[b.path].layer

\* The content of a copy was replaced by a later layer that the configuration names.
Replaced(m, s, c) ==
  \E old, new \in Copies(m, s) :
    /\ old.path = c.path /\ new.path = c.path /\ old.bytes = c.bytes
    /\ old.at <= c.at /\ c.at < new.at /\ ReplacedBy(s, old.at, new.at)

Settled(m, s, b, c) ==
  \/ c.path \in DOMAIN s.collisions
  \/ c.bytes = b.bytes /\ b.at <= c.at
  \/ Replaced(m, s, c)

\* The copies that the walk of a layer j has met, in the phase ph with T still to be walked.
HasMet(ph, j, T, i, r, e) ==
  \/ i < j
  \/ /\ i = j
     /\ \/ ph = "stand" /\ r[1] = distDir
        \/ (ph = "stand" \/ (ph = "walk" /\ r[1] = distDir)) /\ \A f \in T : ~IsPrefix(f.src, e)

Met(m, s, ph, j, T) ==
  {c \in Copies(m, s) : \E i \in DOMAIN s.layers : \E r \in Roots(s.layers[i]) :
     \E e \in FilesOf(m[s.layers[i].source], r) : c = Copy(m, s, i, r, e) /\ HasMet(ph, j, T, i, r, e)}

\* Every file of the set is the copy of a layer so far, with which the ones met are settled.
Merged(m, s, t, j, M) ==
  /\ \A p \in DOMAIN t : p # <<>> /\ p[1] = s.name /\ ~t[p].dir =>
       \E b \in Copies(m, s) : /\ b.path = p /\ b.at <= j /\ Serves(t, s, b)
                               /\ \A c \in M : c.path = p => Settled(m, s, b, c)
  /\ \A c \in M : c.path \in DOMAIN t /\ ~t[c.path].dir

\* A set is served as it is configured.
SetServed(m, s, t) ==
  \A c \in Copies(m, s) :
    /\ c.path \in DOMAIN t /\ ~t[c.path].dir
    /\ \E b \in Copies(m, s) :
         /\ b.path = c.path /\ Serves(t, s, b)
         /\ IF c.path \in DOMAIN s.collisions THEN t[c.path].layer = s.collisions[c.path]
            ELSE c.bytes = b.bytes \/ Replaced(m, s, c)

\* The sets of a configuration before the n-th are served, under names other than its own.
DoneSets(m, sp, n, t) ==
  \A k \in 1..(n - 1) : k \in DOMAIN sp /\ <<sp[k].name>> \in DOMAIN t /\ SetServed(m, sp[k], t)

Apart(sp, n) == \A k \in 1..(n - 1) : sp[k].name # sp[n].name

\* Whatever is in the tree is under a name of the root.
TopNamed(t) == \A p \in DOMAIN t : p # <<>> => <<p[1]>> \in DOMAIN t

DoneInv ==
  pc \notin {"built", "closed", "failed"} => TopNamed(tree) /\ DoneSets(media, spec, at.set, tree)

SetInv ==
  pc \in {"layer", "dist", "walk", "stand"} =>
    /\ <<set.name>> \in DOMAIN tree /\ Apart(spec, at.set)
    /\ Merged(media, set, tree, at.layer, Met(media, set, pc, at.layer, todo))

LEMMA MetIs ==
  ASSUME NEW m, NEW s, NEW ph, NEW j, NEW T, NEW c
  PROVE  c \in Met(m, s, ph, j, T) <=>
           \E i, r, e : IsCopy(c, m, s, i, r, e) /\ HasMet(ph, j, T, i, r, e)
<1>1. ASSUME c \in Met(m, s, ph, j, T)
      PROVE  \E i, r, e : IsCopy(c, m, s, i, r, e) /\ HasMet(ph, j, T, i, r, e)
  BY <1>1, Zenon DEF Met, IsCopy
<1>2. ASSUME NEW i, NEW r, NEW e, IsCopy(c, m, s, i, r, e), HasMet(ph, j, T, i, r, e)
      PROVE  c \in Met(m, s, ph, j, T)
  <2>1. c \in Copies(m, s)
    BY <1>2, CopiesAre, Zenon
  <2> QED
    BY <1>2, <2>1, Zenon DEF Met, IsCopy
<1> QED
  BY <1>1, <1>2, Zenon

LEMMA MetLess ==
  ASSUME NEW m, NEW s, NEW ph, NEW j, NEW T, NEW qh, NEW k, NEW U,
         \A c, i, r, e : IsCopy(c, m, s, i, r, e) /\ HasMet(ph, j, T, i, r, e) => HasMet(qh, k, U, i, r, e)
  PROVE  Met(m, s, ph, j, T) \subseteq Met(m, s, qh, k, U)
<1> SUFFICES ASSUME NEW c \in Met(m, s, ph, j, T) PROVE c \in Met(m, s, qh, k, U)
  BY Zenon
<1>1. \E i, r, e : IsCopy(c, m, s, i, r, e) /\ HasMet(ph, j, T, i, r, e)
  BY MetIs, Zenon
<1>2. \E i, r, e : IsCopy(c, m, s, i, r, e) /\ HasMet(qh, k, U, i, r, e)
  BY <1>1, Zenon
<1> QED
  BY <1>2, MetIs, Zenon

\* Before its walk begins, nothing of a layer was met.
LEMMA MetNone ==
  ASSUME NEW m, NEW s, IsSet(s), NEW T
  PROVE  Met(m, s, "layer", 1, T) = {}
<1>1. ASSUME NEW c \in Met(m, s, "layer", 1, T) PROVE FALSE
  <2>1. PICK i, r, e : IsCopy(c, m, s, i, r, e) /\ HasMet("layer", 1, T, i, r, e)
    BY <1>1, MetIs, Zenon
  <2>2. i \in DOMAIN s.layers
    BY <2>1, Zenon DEF IsCopy
  <2>3. i >= 1 /\ i \in Nat
    BY <2>2 DEF IsSet
  <2>4. i < 1
    BY <2>1 DEF HasMet
  <2> QED
    BY <2>3, <2>4
<1> QED
  BY <1>1, Zenon

LEMMA MetResolved ==
  ASSUME NEW m, NEW s, NEW j, NEW T, NEW U
  PROVE  Met(m, s, "dist", j, U) \subseteq Met(m, s, "layer", j, T)
<1>1. ASSUME NEW i, NEW r, NEW e, HasMet("dist", j, U, i, r, e) PROVE HasMet("layer", j, T, i, r, e)
  BY <1>1 DEF HasMet
<1> QED
  BY <1>1, MetLess, Zenon

\* No file below the root of a walk was met when the entries of the root are still to come.
LEMMA RootPending ==
  ASSUME NEW m \in [Sources -> Media], NEW s, IsSet(s), NEW c, NEW i, NEW r, NEW e, IsCopy(c, m, s, i, r, e),
         NEW l
  PROVE  \E f \in EntriesOf(m[s.layers[i].source], RootOf(m[s.layers[i].source], r), l) : IsPrefix(f.src, e)
<1> DEFINE fs == m[s.layers[i].source]
           root == RootOf(fs, r)
<1>1. Lies(c, m, s, i, r, e)
  BY CopyLies, Zenon
<1>2. root \in Seq(Nat) /\ e \in Seq(Nat) /\ IsPrefix(root, e)
  BY <1>1, Zenon DEF Lies
<1>3. i \in DOMAIN s.layers /\ e \in Below(fs, root)
  BY Zenon DEF IsCopy, FilesOf, RootOf
<1>4. IsSource(fs)
  BY <1>3, LayerIs, Zenon DEF IsSet
<1> HIDE DEF fs, root
<1>5. root # e /\ IsPrefix(root, root)
  BY <1>2, <1>3, PrefixOrder, Zenon DEF Below
<1>6. PICK q \in Names(fs, root) : IsPrefix(q, e)
  BY <1>2, <1>3, <1>4, <1>5, BelowVia, Zenon
<1> DEFINE f == [src |-> q, target |-> Append(l, Base(q))]
<1>7. f \in EntriesOf(fs, root, l)
  BY Zenon DEF EntriesOf
<1>8. f.src = q
  OBVIOUS
<1> HIDE DEF f
<1>9. \E g \in EntriesOf(fs, root, l) : IsPrefix(g.src, e)
  BY <1>6, <1>7, <1>8, Zenon
<1> QED
  BY <1>9, Zenon DEF fs, root

LEMMA MetDist ==
  ASSUME NEW m \in [Sources -> Media], NEW s, IsSet(s), NEW j, NEW T, NEW l
  PROVE  LET fs == m[s.layers[j].source]
             r == DistOf(s.layers[j])
         IN  Met(m, s, "walk", j, EntriesOf(fs, RootOf(fs, r), l)) \subseteq Met(m, s, "dist", j, T)
<1> DEFINE fs == m[s.layers[j].source]
           r == DistOf(s.layers[j])
           U == EntriesOf(fs, RootOf(fs, r), l)
<1>1. ASSUME NEW c, NEW i, NEW q, NEW e, IsCopy(c, m, s, i, q, e), HasMet("walk", j, U, i, q, e)
      PROVE  HasMet("dist", j, T, i, q, e)
  <2>1. CASE i < j
    BY <2>1, Zenon DEF HasMet
  <2>2. CASE ~(i < j)
    <3> HIDE DEF U
    <3>1. i = j /\ q[1] = distDir /\ \A f \in U : ~IsPrefix(f.src, e)
      BY <1>1, <2>2 DEF HasMet
    <3>2. q = r
      BY <1>1, <3>1, RootsAre, Zenon DEF IsCopy
    <3>3. \E f \in EntriesOf(m[s.layers[i].source], RootOf(m[s.layers[i].source], q), l) : IsPrefix(f.src, e)
      BY <1>1, RootPending, Zenon
    <3> QED
      BY <3>1, <3>2, <3>3, Zenon DEF U
  <2> QED
    BY <2>1, <2>2, Zenon
<1> HIDE DEF U
<1>2. Met(m, s, "walk", j, U) \subseteq Met(m, s, "dist", j, T)
  BY <1>1, MetLess, Zenon
<1> QED
  BY <1>2, Zenon DEF U

LEMMA MetStand ==
  ASSUME NEW m \in [Sources -> Media], NEW s, IsSet(s), NEW j, NEW l
  PROVE  LET fs == m[s.layers[j].source]
             r == StandOf(s.layers[j])
         IN  Met(m, s, "stand", j, EntriesOf(fs, RootOf(fs, r), l)) \subseteq Met(m, s, "walk", j, {})
<1> DEFINE fs == m[s.layers[j].source]
           r == StandOf(s.layers[j])
           U == EntriesOf(fs, RootOf(fs, r), l)
<1>1. ASSUME NEW c, NEW i, NEW q, NEW e, IsCopy(c, m, s, i, q, e), HasMet("stand", j, U, i, q, e)
      PROVE  HasMet("walk", j, {}, i, q, e)
  <2>1. CASE i < j
    BY <2>1, Zenon DEF HasMet
  <2>2. CASE i = j /\ q[1] = distDir
    BY <2>2, Zenon DEF HasMet
  <2>3. CASE ~(i < j) /\ q[1] # distDir
    <3> HIDE DEF U
    <3>1. i = j /\ \A f \in U : ~IsPrefix(f.src, e)
      BY <1>1, <2>3, Zenon DEF HasMet
    <3>2. q = r
      BY <1>1, <2>3, <3>1, RootsAre, Zenon DEF IsCopy
    <3>3. \E f \in EntriesOf(m[s.layers[i].source], RootOf(m[s.layers[i].source], q), l) : IsPrefix(f.src, e)
      BY <1>1, RootPending, Zenon
    <3> QED
      BY <3>1, <3>2, <3>3, Zenon DEF U
  <2> QED
    BY <1>1, <2>1, <2>2, <2>3, Zenon DEF HasMet
<1> HIDE DEF U
<1>2. Met(m, s, "stand", j, U) \subseteq Met(m, s, "walk", j, {})
  BY <1>1, MetLess, Zenon
<1> QED
  BY <1>2, Zenon DEF U

\* At the end of a layer's walks all its files were met.
LEMMA MetLayer ==
  ASSUME NEW m \in [Sources -> Media], NEW s, IsSet(s), NEW j \in Nat, NEW ph, NEW T,
         ph = "stand" \/ (ph = "walk" /\ ~s.layers[j].boot)
  PROVE  Met(m, s, "layer", j + 1, T) \subseteq Met(m, s, ph, j, {})
<1>1. ASSUME NEW c, NEW i, NEW q, NEW e, IsCopy(c, m, s, i, q, e), HasMet("layer", j + 1, T, i, q, e)
      PROVE  HasMet(ph, j, {}, i, q, e)
  <2>1. i < j + 1
    BY <1>1 DEF HasMet
  <2>2. i \in Nat
    <3>1. i \in DOMAIN s.layers
      BY <1>1, Zenon DEF IsCopy
    <3> QED
      BY <3>1 DEF IsSet
  <2>3. i < j \/ i = j
    BY <2>1, <2>2
  <2>4. CASE i = j /\ ph = "walk"
    <3>1. q[1] = distDir
      BY <1>1, <2>4, RootsAre, RootNames, Zenon DEF IsCopy
    <3> QED
      BY <2>4, <3>1, Zenon DEF HasMet
  <2> QED
    BY <2>3, <2>4, Zenon DEF HasMet
<1> QED
  BY <1>1, MetLess, Zenon

LEMMA MetAll ==
  ASSUME NEW m, NEW s, IsSet(s), NEW j \in Nat, j > Len(s.layers), NEW T
  PROVE  Copies(m, s) \subseteq Met(m, s, "layer", j, T)
<1>1. ASSUME NEW c, NEW i, NEW r, NEW e, IsCopy(c, m, s, i, r, e)
      PROVE  HasMet("layer", j, T, i, r, e)
  <2>1. i \in DOMAIN s.layers
    BY <1>1, Zenon DEF IsCopy
  <2>2. i < j
    BY <2>1 DEF IsSet
  <2> QED
    BY <2>2, Zenon DEF HasMet
<1>2. ASSUME NEW c \in Copies(m, s) PROVE c \in Met(m, s, "layer", j, T)
  <2>1. \E i, r, e : IsCopy(c, m, s, i, r, e)
    BY CopiesAre, Zenon
  <2> QED
    BY <1>1, <2>1, MetIs, Zenon
<1> QED
  BY <1>2, Zenon

\* One more entry was walked: what was met then was met before, or is a copy of that entry.
LEMMA MetWalk ==
  ASSUME NEW m \in [Sources -> Media], NEW s, IsSet(s), NEW j \in DOMAIN s.layers, NEW ph, NEW T, NEW U,
         NEW h \in Roots(s.layers[j]), (ph = "walk" /\ h[1] = distDir) \/ (ph = "stand" /\ h[1] # distDir),
         NEW f \in T, T \ {f} \subseteq U,
         Placed(T, m[s.layers[j].source], s, h),
         Kind(m[s.layers[j].source], f.src) = "dir" => EntriesOf(m[s.layers[j].source], f.src, f.target) \subseteq U,
         NEW c \in Met(m, s, ph, j, U)
  PROVE  c \in Met(m, s, ph, j, T) \/ IsCopy(c, m, s, j, h, f.src)
<1> DEFINE fs == m[s.layers[j].source]
           root == RootOf(fs, h)
<1>1. PICK i, r, e : IsCopy(c, m, s, i, r, e) /\ HasMet(ph, j, U, i, r, e)
  BY MetIs, Zenon
<1>2. SUFFICES ASSUME ~HasMet(ph, j, T, i, r, e) PROVE IsCopy(c, m, s, j, h, f.src)
  BY <1>1, MetIs, Zenon
<1>3. i = j /\ (\A g \in U : ~IsPrefix(g.src, e)) /\ \E g \in T : IsPrefix(g.src, e)
  BY <1>1, <1>2, Zenon DEF HasMet
<1>4. IsPrefix(f.src, e)
  BY <1>3, Zenon
<1>5. r = h
  <2>1. r \in Roots(s.layers[j])
    BY <1>1, <1>3, Zenon DEF IsCopy
  <2>2. CASE ph = "walk"
    <3>1. r[1] = distDir /\ h[1] = distDir
      BY <1>1, <1>2, <1>3, <2>2, Zenon DEF HasMet
    <3>2. r = DistOf(s.layers[j]) /\ h = DistOf(s.layers[j])
      BY <2>1, <3>1, RootsAre, Zenon
    <3> QED
      BY <3>2, Zenon
  <2>3. CASE ph = "stand"
    <3>1. r[1] # distDir /\ h[1] # distDir
      BY <1>1, <1>2, <1>3, <2>3, Zenon DEF HasMet
    <3>2. r = StandOf(s.layers[j]) /\ h = StandOf(s.layers[j])
      BY <2>1, <3>1, RootsAre, Zenon
    <3> QED
      BY <3>2, Zenon
  <2> QED
    BY <2>2, <2>3, Zenon
<1>6. Lies(c, m, s, j, h, e)
  BY <1>1, <1>3, <1>5, CopyLies, Zenon
<1>7. root \in Seq(Nat) /\ e \in Seq(Nat)
  BY <1>6, Zenon DEF Lies
<1>8. e \in Below(fs, root)
  BY <1>1, <1>3, <1>5, Zenon DEF IsCopy, FilesOf, RootOf
<1>9. IsSource(fs) /\ s.name \in Nat /\ h[1] \in Nat
  BY LayerIs, RootsAre, Zenon DEF IsSet
<1>10. f.src \in Seq(Nat) /\ IsPrefix(root, f.src)
  BY <1>9, PlacedIs, Zenon
<1> HIDE DEF fs, root
<1>11. CASE f.src = e
  BY <1>1, <1>3, <1>5, <1>11, Zenon
<1>12. CASE f.src # e
  <2>1. PICK q \in Names(fs, f.src) : IsPrefix(q, e)
    BY <1>4, <1>7, <1>8, <1>9, <1>10, <1>12, BelowVia, Zenon
  <2>2. Kind(fs, f.src) = "dir"
    <3>1. f.src \in Prefixes(e)
      BY <1>4, <1>7, <1>10, PrefixesAre, Zenon
    <3> QED
      BY <1>8, <1>10, <1>12, <3>1, Zenon DEF Below
  <2> DEFINE g == [src |-> q, target |-> Append(f.target, Base(q))]
  <2>3. g \in EntriesOf(fs, f.src, f.target)
    BY Zenon DEF EntriesOf
  <2>4. g.src = q
    OBVIOUS
  <2> HIDE DEF g
  <2>5. g \in U
    BY <2>2, <2>3, Zenon DEF fs
  <2> QED
    BY <1>3, <2>1, <2>4, <2>5, Zenon
<1> QED
  BY <1>11, <1>12, Zenon

-----------------------------------------------------------------------------
(* Merging.                                                                *)

\* A tree with the nodes of another and perhaps more directories.
MoreDirs(t, u) ==
  /\ \A q \in DOMAIN t : q \in DOMAIN u /\ u[q] = t[q]
  /\ \A q \in DOMAIN u : q \notin DOMAIN t => u[q].dir

LEMMA ServedSame ==
  ASSUME NEW m, NEW s, NEW t, NEW u, SetServed(m, s, t),
         \A c \in Copies(m, s) : c.path \in DOMAIN t => c.path \in DOMAIN u /\ u[c.path] = t[c.path]
  PROVE  SetServed(m, s, u)
<1> SUFFICES ASSUME NEW c \in Copies(m, s)
             PROVE  /\ c.path \in DOMAIN u /\ ~u[c.path].dir
                    /\ \E b \in Copies(m, s) :
                         /\ b.path = c.path /\ Serves(u, s, b)
                         /\ IF c.path \in DOMAIN s.collisions THEN u[c.path].layer = s.collisions[c.path]
                            ELSE c.bytes = b.bytes \/ Replaced(m, s, c)
  BY Zenon DEF SetServed
<1>1. PICK b \in Copies(m, s) :
         /\ c.path \in DOMAIN t /\ ~t[c.path].dir /\ b.path = c.path /\ Serves(t, s, b)
         /\ IF c.path \in DOMAIN s.collisions THEN t[c.path].layer = s.collisions[c.path]
            ELSE c.bytes = b.bytes \/ Replaced(m, s, c)
  BY Zenon DEF SetServed
<1>2. c.path \in DOMAIN u /\ u[c.path] = t[c.path]
  BY <1>1, Zenon
<1>3. Serves(u, s, b)
  BY <1>1, <1>2, Zenon DEF Serves
<1> QED
  BY <1>1, <1>2, <1>3, Zenon

LEMMA ServedMoreDirs ==
  ASSUME NEW m, NEW s, NEW t, NEW u, SetServed(m, s, t), MoreDirs(t, u)
  PROVE  SetServed(m, s, u)
<1>1. \A c \in Copies(m, s) : c.path \in DOMAIN t => c.path \in DOMAIN u /\ u[c.path] = t[c.path]
  BY Zenon DEF MoreDirs
<1> QED
  BY <1>1, ServedSame, Zenon

\* What another set does leaves a set as it is.
LEMMA ServedElsewhere ==
  ASSUME NEW m \in [Sources -> Media], NEW s, IsSet(s), NEW t, NEW u, NEW p, NEW n, SetServed(m, s, t),
         IsPut(u, t, p, n), p[1] # s.name
  PROVE  SetServed(m, s, u)
<1>1. ASSUME NEW c \in Copies(m, s), c.path \in DOMAIN t
      PROVE  c.path \in DOMAIN u /\ u[c.path] = t[c.path]
  <2>1. c.path[1] = s.name
    BY CopyIn, Zenon
  <2>2. c.path # p
    BY <2>1, Zenon
  <2> QED
    BY <1>1, <2>2, Zenon DEF IsPut
<1> QED
  BY <1>1, ServedSame, Zenon

\* The copy that owns a file of the set.
Owner(m, s, t, j, M, p, b) ==
  /\ b \in Copies(m, s) /\ b.path = p /\ b.at <= j /\ Serves(t, s, b)
  /\ \A c \in M : c.path = p => Settled(m, s, b, c)

LEMMA MergedIs ==
  ASSUME NEW m, NEW s, NEW t, NEW j, NEW M
  PROVE  Merged(m, s, t, j, M) <=>
           /\ \A p \in DOMAIN t : p # <<>> /\ p[1] = s.name /\ ~t[p].dir => \E b : Owner(m, s, t, j, M, p, b)
           /\ \A c \in M : c.path \in DOMAIN t /\ ~t[c.path].dir
<1>1. ASSUME NEW p
      PROVE  (\E b \in Copies(m, s) : /\ b.path = p /\ b.at <= j /\ Serves(t, s, b)
                                      /\ \A c \in M : c.path = p => Settled(m, s, b, c))
             <=> \E b : Owner(m, s, t, j, M, p, b)
  BY Zenon DEF Owner
<1> QED
  BY <1>1, Zenon DEF Merged

LEMMA MergedLess ==
  ASSUME NEW m \in [Sources -> Media], NEW s, IsSet(s), NEW t, NEW j \in Nat, NEW k \in Nat, j <= k,
         NEW M, NEW N, N \subseteq M, Merged(m, s, t, j, M)
  PROVE  Merged(m, s, t, k, N)
<1>1. ASSUME NEW p, NEW b, Owner(m, s, t, j, M, p, b) PROVE Owner(m, s, t, k, N, p, b)
  <2>1. b \in Copies(m, s) /\ b.at <= j
    BY <1>1, Zenon DEF Owner
  <2>2. b.at \in Nat
    BY <2>1, CopyIn, Zenon
  <2>3. b.at <= k
    BY <2>1, <2>2
  <2> QED
    BY <1>1, <2>3, Zenon DEF Owner
<1>2. /\ \A p \in DOMAIN t : p # <<>> /\ p[1] = s.name /\ ~t[p].dir => \E b : Owner(m, s, t, j, M, p, b)
      /\ \A c \in M : c.path \in DOMAIN t /\ ~t[c.path].dir
  BY MergedIs, Zenon
<1>3. \A p \in DOMAIN t : p # <<>> /\ p[1] = s.name /\ ~t[p].dir => \E b : Owner(m, s, t, k, N, p, b)
  BY <1>1, <1>2, Zenon
<1>4. \A c \in N : c.path \in DOMAIN t /\ ~t[c.path].dir
  BY <1>2, Zenon
<1> QED
  BY <1>3, <1>4, MergedIs, Zenon

LEMMA MergedFewer ==
  ASSUME NEW m, NEW s, NEW t, NEW j, NEW M, NEW N, N \subseteq M, Merged(m, s, t, j, M)
  PROVE  Merged(m, s, t, j, N)
<1>1. /\ \A p \in DOMAIN t : p # <<>> /\ p[1] = s.name /\ ~t[p].dir => \E b : Owner(m, s, t, j, M, p, b)
      /\ \A c \in M : c.path \in DOMAIN t /\ ~t[c.path].dir
  BY MergedIs, Zenon
<1>2. \A p, b : Owner(m, s, t, j, M, p, b) => Owner(m, s, t, j, N, p, b)
  BY Zenon DEF Owner
<1>3. \A p \in DOMAIN t : p # <<>> /\ p[1] = s.name /\ ~t[p].dir => \E b : Owner(m, s, t, j, N, p, b)
  BY <1>1, <1>2, Zenon
<1>4. \A c \in N : c.path \in DOMAIN t /\ ~t[c.path].dir
  BY <1>1, Zenon
<1> QED
  BY <1>3, <1>4, MergedIs, Zenon

LEMMA MergedMoreDirs ==
  ASSUME NEW m, NEW s, NEW t, NEW u, NEW j, NEW M, Merged(m, s, t, j, M), MoreDirs(t, u)
  PROVE  Merged(m, s, u, j, M)
<1>1. /\ \A p \in DOMAIN t : p # <<>> /\ p[1] = s.name /\ ~t[p].dir => \E b : Owner(m, s, t, j, M, p, b)
      /\ \A c \in M : c.path \in DOMAIN t /\ ~t[c.path].dir
  BY MergedIs, Zenon
<1>2. \A q \in DOMAIN u : ~u[q].dir => q \in DOMAIN t /\ u[q] = t[q]
  BY Zenon DEF MoreDirs
<1>3. \A q \in DOMAIN t : q \in DOMAIN u /\ u[q] = t[q]
  BY Zenon DEF MoreDirs
<1>4. ASSUME NEW p \in DOMAIN t, NEW b, Owner(m, s, t, j, M, p, b) PROVE Owner(m, s, u, j, M, p, b)
  <2>1. Serves(t, s, b) /\ b.path = p
    BY <1>4, Zenon DEF Owner
  <2>2. Serves(u, s, b)
    BY <1>3, <2>1, Zenon DEF Serves
  <2> QED
    BY <1>4, <2>2, Zenon DEF Owner
<1>5. ASSUME NEW p \in DOMAIN u, p # <<>>, p[1] = s.name, ~u[p].dir
      PROVE  \E b : Owner(m, s, u, j, M, p, b)
  <2>1. p \in DOMAIN t /\ ~t[p].dir
    BY <1>2, <1>5, Zenon
  <2>2. PICK b : Owner(m, s, t, j, M, p, b)
    BY <1>1, <1>5, <2>1, Zenon
  <2> QED
    BY <1>4, <2>1, <2>2, Zenon
<1>6. \A c \in M : c.path \in DOMAIN u /\ ~u[c.path].dir
  BY <1>1, <1>3, Zenon
<1> QED
  BY <1>5, <1>6, MergedIs, Zenon

\* A file that is kept: the new copy agrees with the one that is there, or a winner decides.
LEMMA MergedKeeps ==
  ASSUME NEW m \in [Sources -> Media], NEW s, IsSet(s), NEW t, NEW j, NEW M, Merged(m, s, t, j, M),
         NEW d \in Copies(m, s), d.at = j, d.path \in DOMAIN t, ~t[d.path].dir,
         d.path \in DOMAIN s.collisions \/ t[d.path].bytes = d.bytes,
         NEW N, N \subseteq M \cup {d}
  PROVE  Merged(m, s, t, j, N)
<1>1. /\ \A p \in DOMAIN t : p # <<>> /\ p[1] = s.name /\ ~t[p].dir => \E b : Owner(m, s, t, j, M, p, b)
      /\ \A c \in M : c.path \in DOMAIN t /\ ~t[c.path].dir
  BY MergedIs, Zenon
<1>2. ASSUME NEW p, NEW b, Owner(m, s, t, j, M, p, b) PROVE Owner(m, s, t, j, N, p, b)
  <2>1. /\ b \in Copies(m, s) /\ b.path = p /\ b.at <= j /\ Serves(t, s, b)
        /\ \A c \in M : c.path = p => Settled(m, s, b, c)
    BY <1>2, Zenon DEF Owner
  <2>2. ASSUME d.path = p PROVE Settled(m, s, b, d)
    <3>1. b.bytes = t[p].bytes
      BY <2>1, Zenon DEF Serves
    <3> QED
      BY <2>1, <2>2, <3>1, Zenon DEF Settled
  <2>3. \A c \in N : c.path = p => Settled(m, s, b, c)
    BY <2>1, <2>2, Zenon
  <2> QED
    BY <2>1, <2>3, Zenon DEF Owner
<1>3. \A p \in DOMAIN t : p # <<>> /\ p[1] = s.name /\ ~t[p].dir => \E b : Owner(m, s, t, j, N, p, b)
  BY <1>1, <1>2, Zenon
<1>4. \A c \in N : c.path \in DOMAIN t /\ ~t[c.path].dir
  BY <1>1, Zenon
<1> QED
  BY <1>3, <1>4, MergedIs, Zenon

\* A file that is taken: nothing was there, or a winner decides, or the layer of the one that
\* was there is replaced by this one.
LEMMA MergedTakes ==
  ASSUME NEW m \in [Sources -> Media], NEW s, IsSet(s), NEW t, NEW j, NEW M, Merged(m, s, t, j, M),
         NEW d \in Copies(m, s), d.at = j,
         NEW u, NEW n, IsPut(u, t, d.path, n), ~n.dir, n.bytes = d.bytes, n.layer = s.layers[j].name,
         d.path \in DOMAIN t =>
           /\ ~t[d.path].dir
           /\ \/ d.path \in DOMAIN s.collisions
              \/ /\ t[d.path].layer \in DOMAIN s.replacements
                 /\ s.replacements[t[d.path].layer] = s.layers[j].name,
         \A c \in M : c.path = d.path => c \in Copies(m, s) /\ c.at < j,
         NEW N, N \subseteq M \cup {d}
  PROVE  Merged(m, s, u, j, N)
<1>1. /\ \A p \in DOMAIN t : p # <<>> /\ p[1] = s.name /\ ~t[p].dir => \E b : Owner(m, s, t, j, M, p, b)
      /\ \A c \in M : c.path \in DOMAIN t /\ ~t[c.path].dir
  BY MergedIs, Zenon
<1>2. DOMAIN u = DOMAIN t \cup {d.path} /\ u[d.path] = n /\ \A q \in DOMAIN t : q # d.path => u[q] = t[q]
  BY Zenon DEF IsPut
<1>3. d.at <= j /\ d.path # <<>> /\ d.path[1] = s.name
  <2>1. d.at \in Nat /\ d.path # <<>> /\ d.path[1] = s.name
    BY CopyIn, Zenon
  <2> QED
    BY <2>1
<1>4. Serves(u, s, d)
  BY <1>2, Zenon DEF Serves
<1>5. ASSUME NEW c \in M, c.path = d.path PROVE Settled(m, s, d, c)
  <2>1. c.path \in DOMAIN t /\ c \in Copies(m, s) /\ c.at < j
    BY <1>1, <1>5, Zenon
  <2>2. PICK b : Owner(m, s, t, j, M, d.path, b)
    BY <1>1, <1>3, <1>5, <2>1, Zenon
  <2>3. Settled(m, s, b, c) /\ b \in Copies(m, s) /\ b.path = d.path /\ s.layers[b.at].name = t[d.path].layer
    BY <1>5, <2>2, Zenon DEF Owner, Serves
  <2>4. CASE c.path \in DOMAIN s.collisions
    BY <2>4, Zenon DEF Settled
  <2>5. CASE Replaced(m, s, c)
    BY <2>5, Zenon DEF Settled
  <2>6. CASE c.bytes = b.bytes /\ b.at <= c.at /\ c.path \notin DOMAIN s.collisions
    <3>1. ReplacedBy(s, b.at, d.at)
      BY <1>5, <2>1, <2>3, <2>6, Zenon DEF ReplacedBy
    <3>2. Replaced(m, s, c)
      BY <1>5, <2>1, <2>3, <2>6, <3>1, Zenon DEF Replaced
    <3> QED
      BY <3>2, Zenon DEF Settled
  <2> QED
    BY <2>3, <2>4, <2>5, <2>6, Zenon DEF Settled
<1>6. Settled(m, s, d, d)
  <2>1. d.at <= d.at
    BY <1>3, Zenon
  <2> QED
    BY <2>1, Zenon DEF Settled
<1>7. Owner(m, s, u, j, N, d.path, d)
  <2>1. \A c \in N : c.path = d.path => Settled(m, s, d, c)
    BY <1>5, <1>6, Zenon
  <2> QED
    BY <1>3, <1>4, <2>1, Zenon DEF Owner
<1>8. ASSUME NEW p \in DOMAIN t, p # d.path, NEW b, Owner(m, s, t, j, M, p, b)
      PROVE  Owner(m, s, u, j, N, p, b)
  <2>1. /\ b \in Copies(m, s) /\ b.path = p /\ b.at <= j /\ Serves(t, s, b)
        /\ \A c \in M : c.path = p => Settled(m, s, b, c)
    BY <1>8, Zenon DEF Owner
  <2>2. p \in DOMAIN u /\ u[p] = t[p]
    BY <1>2, <1>8, Zenon
  <2>3. Serves(u, s, b)
    BY <2>1, <2>2, Zenon DEF Serves
  <2>4. \A c \in N : c.path = p => Settled(m, s, b, c)
    BY <1>8, <2>1, Zenon
  <2> QED
    BY <2>1, <2>3, <2>4, Zenon DEF Owner
<1>9. ASSUME NEW p \in DOMAIN u, p # <<>>, p[1] = s.name, ~u[p].dir
      PROVE  \E b : Owner(m, s, u, j, N, p, b)
  <2>1. CASE p = d.path
    BY <1>7, <2>1, Zenon
  <2>2. CASE p # d.path
    <3>1. p \in DOMAIN t /\ ~t[p].dir
      BY <1>2, <1>9, <2>2, Zenon
    <3>2. PICK b : Owner(m, s, t, j, M, p, b)
      BY <1>1, <1>9, <3>1, Zenon
    <3> QED
      BY <1>8, <2>2, <3>1, <3>2, Zenon
  <2> QED
    BY <2>1, <2>2, Zenon
<1>10. ASSUME NEW c \in N PROVE c.path \in DOMAIN u /\ ~u[c.path].dir
  <2>1. CASE c.path = d.path
    BY <1>2, <2>1, Zenon
  <2>2. CASE c.path # d.path
    <3>1. c \in M
      BY <2>2, Zenon
    <3> QED
      BY <1>1, <1>2, <2>2, <3>1, Zenon
  <2> QED
    BY <2>1, <2>2, Zenon
<1> QED
  BY <1>9, <1>10, MergedIs, Zenon

\* While an entry is still to be walked, the copies met at its path are of earlier layers.
LEMMA MetBefore ==
  ASSUME NEW m \in [Sources -> Media], NEW s, IsSet(s), NEW j, NEW ph, NEW T,
         NEW h, (ph = "walk" /\ h[1] = distDir) \/ (ph = "stand" /\ h[1] # distDir),
         NEW f \in T, NEW d, IsCopy(d, m, s, j, h, f.src),
         NEW c \in Met(m, s, ph, j, T), c.path = d.path
  PROVE  c \in Copies(m, s) /\ c.at < j
<1>1. PICK i, r, e : IsCopy(c, m, s, i, r, e) /\ HasMet(ph, j, T, i, r, e)
  BY MetIs, Zenon
<1>2. c \in Copies(m, s)
  BY <1>1, CopiesAre, Zenon
<1>3. c.at = i
  <2>1. Lies(c, m, s, i, r, e)
    BY <1>1, CopyLies, Zenon
  <2> QED
    BY <2>1, Zenon DEF Lies
<1>4. ASSUME i = j PROVE FALSE
  <2>1. IsCopy(c, m, s, j, r, e)
    BY <1>1, <1>4, Zenon
  <2>2. r = h /\ e = f.src
    BY <2>1, CopyOnce, Zenon
  <2>3. Lies(d, m, s, j, h, f.src)
    BY CopyLies, Zenon
  <2>4. IsPrefix(f.src, f.src)
    <3>1. f.src \in Seq(Nat)
      BY <2>3, Zenon DEF Lies
    <3> QED
      BY <3>1, PrefixOrder, Zenon
  <2>5. j \in Nat
    <3>1. c.at \in Nat
      BY <1>2, CopyIn, Zenon
    <3> QED
      BY <1>3, <1>4, <3>1, Zenon
  <2>6. ~(i < j)
    BY <1>4, <2>5
  <2> QED
    BY <1>1, <2>2, <2>4, <2>6 DEF HasMet
<1>5. i < j
  BY <1>1, <1>4, Zenon DEF HasMet
<1> QED
  BY <1>2, <1>3, <1>5, Zenon

LEMMA TopPut ==
  ASSUME NEW t, TopNamed(t), NEW u, NEW p, NEW n, IsPut(u, t, p, n), p # <<>>, <<p[1]>> \in DOMAIN u
  PROVE  TopNamed(u)
<1>1. DOMAIN u = DOMAIN t \cup {p}
  BY Zenon DEF IsPut
<1> QED
  BY <1>1, Zenon DEF TopNamed

LEMMA PutMoreDirs ==
  ASSUME NEW t, NEW u, NEW p, NEW n, IsPut(u, t, p, n),
         IF p \in DOMAIN t THEN n = t[p] ELSE n.dir
  PROVE  MoreDirs(t, u)
<1>1. DOMAIN u = DOMAIN t \cup {p} /\ u[p] = n /\ \A q \in DOMAIN t : q # p => u[q] = t[q]
  BY Zenon DEF IsPut
<1> QED
  BY <1>1, Zenon DEF MoreDirs

\* The directory of a walk.
LEMMA TopEnsure ==
  ASSUME NEW t, IsTree(t), TopNamed(t), NEW p \in Seq(Nat), <<p[1]>> \in DOMAIN t, NEW l
  PROVE  TopNamed(ensureDir(t, p, l)) /\ MoreDirs(t, ensureDir(t, p, l))
<1> DEFINE u == ensureDir(t, p, l)
<1>1. /\ IsTree(u) /\ DOMAIN u = DOMAIN t \cup Prefixes(p) /\ \A q \in DOMAIN t : u[q] = t[q]
      /\ \A q \in Prefixes(p) : q \notin DOMAIN t => u[q] = Dir(l)
  BY EnsureIs, ZenonT(60)
<1> HIDE DEF u
<1>2. ASSUME NEW q \in Prefixes(p), q # <<>> PROVE <<q[1]>> \in DOMAIN t
  <2>1. q \in Seq(Nat) /\ IsPrefix(q, p)
    BY PrefixesAre, Zenon
  <2>2. Len(q) <= Len(p) /\ \A k \in 1..Len(q) : q[k] = p[k]
    BY <2>1, PrefixIs, Zenon
  <2>3. 1 \in 1..Len(q)
    BY <1>2, <2>1
  <2>4. q[1] = p[1]
    BY <2>2, <2>3, Zenon
  <2> QED
    BY <2>4, Zenon
<1>3. TopNamed(u)
  BY <1>1, <1>2, Zenon DEF TopNamed
<1>4. Dir(l).dir
  BY FreshNode, Zenon
<1>5. MoreDirs(t, u)
  BY <1>1, <1>4, Zenon DEF MoreDirs
<1> QED
  BY <1>3, <1>5, Zenon DEF u

LEMMA DoneMore ==
  ASSUME NEW m, NEW sp, NEW n, NEW t, NEW u, DoneSets(m, sp, n, t), MoreDirs(t, u)
  PROVE  DoneSets(m, sp, n, u)
<1> SUFFICES ASSUME NEW k \in 1..(n - 1)
             PROVE  k \in DOMAIN sp /\ <<sp[k].name>> \in DOMAIN u /\ SetServed(m, sp[k], u)
  BY Zenon DEF DoneSets
<1>1. k \in DOMAIN sp /\ <<sp[k].name>> \in DOMAIN t /\ SetServed(m, sp[k], t)
  BY Zenon DEF DoneSets
<1>2. <<sp[k].name>> \in DOMAIN u
  BY <1>1, Zenon DEF MoreDirs
<1>3. SetServed(m, sp[k], u)
  BY <1>1, ServedMoreDirs, Zenon
<1> QED
  BY <1>1, <1>2, <1>3, Zenon

LEMMA SetIs ==
  ASSUME NEW sp \in Specs, NEW k \in DOMAIN sp
  PROVE  IsSet(sp[k])
  BY SpecIs, Zenon DEF IsSet

LEMMA DonePut ==
  ASSUME NEW m \in [Sources -> Media], NEW sp \in Specs, NEW n, Apart(sp, n), NEW t, NEW u,
         NEW p, p[1] = sp[n].name, NEW x, IsPut(u, t, p, x), DoneSets(m, sp, n, t)
  PROVE  DoneSets(m, sp, n, u)
<1> SUFFICES ASSUME NEW k \in 1..(n - 1)
             PROVE  k \in DOMAIN sp /\ <<sp[k].name>> \in DOMAIN u /\ SetServed(m, sp[k], u)
  BY Zenon DEF DoneSets
<1>1. k \in DOMAIN sp /\ <<sp[k].name>> \in DOMAIN t /\ SetServed(m, sp[k], t)
  BY Zenon DEF DoneSets
<1>2. p[1] # sp[k].name
  BY Zenon DEF Apart
<1>3. <<sp[k].name>> \in DOMAIN u
  BY <1>1, Zenon DEF IsPut
<1>4. IsSet(sp[k])
  BY <1>1, SetIs, Zenon
<1>5. SetServed(m, sp[k], u)
  BY <1>1, <1>2, <1>4, ServedElsewhere, Zenon
<1> QED
  BY <1>1, <1>3, <1>5, Zenon

\* A set whose layers were all merged is served if its winners own their files.
LEMMA MergedServed ==
  ASSUME NEW m \in [Sources -> Media], NEW s, IsSet(s), NEW t, NEW j, Merged(m, s, t, j, Copies(m, s)),
         \A p \in DOMAIN s.collisions : t[p].layer = s.collisions[p]
  PROVE  SetServed(m, s, t)
<1>1. /\ \A p \in DOMAIN t : p # <<>> /\ p[1] = s.name /\ ~t[p].dir =>
           \E b : Owner(m, s, t, j, Copies(m, s), p, b)
      /\ \A c \in Copies(m, s) : c.path \in DOMAIN t /\ ~t[c.path].dir
  BY MergedIs, Zenon
<1>2. ASSUME NEW c \in Copies(m, s)
      PROVE  /\ c.path \in DOMAIN t /\ ~t[c.path].dir
             /\ \E b \in Copies(m, s) :
                  /\ b.path = c.path /\ Serves(t, s, b)
                  /\ IF c.path \in DOMAIN s.collisions THEN t[c.path].layer = s.collisions[c.path]
                     ELSE c.bytes = b.bytes \/ Replaced(m, s, c)
  <2>1. c.path # <<>> /\ c.path[1] = s.name
    BY CopyIn, Zenon
  <2>2. PICK b : Owner(m, s, t, j, Copies(m, s), c.path, b)
    BY <1>1, <2>1, Zenon
  <2>3. b \in Copies(m, s) /\ b.path = c.path /\ Serves(t, s, b) /\ Settled(m, s, b, c)
    BY <2>2, Zenon DEF Owner
  <2>4. IF c.path \in DOMAIN s.collisions THEN t[c.path].layer = s.collisions[c.path]
        ELSE c.bytes = b.bytes \/ Replaced(m, s, c)
    BY <2>3, Zenon DEF Settled
  <2> QED
    BY <1>1, <2>3, <2>4, Zenon
<1> QED
  BY <1>2, Zenon DEF SetServed

-----------------------------------------------------------------------------
(* Each step of a build.                                                   *)

LEMMA AtSet ==
  ASSUME PlaceInv, pc \in {"layer", "dist", "walk", "stand"}
  PROVE  /\ IsSet(set) /\ spec \in Specs /\ media \in [Sources -> Media]
         /\ at.set \in DOMAIN spec /\ at.set \in Nat \ {0} /\ at.layer \in Nat \ {0}
<1>1. /\ spec \in Specs /\ media \in [Sources -> Media]
      /\ at.set \in DOMAIN spec /\ at.set \in Nat \ {0} /\ at.layer \in Nat \ {0}
  BY Zenon DEF PlaceInv
<1>2. IsSet(set)
  BY <1>1, SetIs, Zenon DEF set
<1> QED
  BY <1>1, <1>2, Zenon

LEMMA AtTree ==
  ASSUME TreeInv, DoneInv, pc \in {"set", "layer", "dist", "walk", "stand"}
  PROVE  IsTree(tree) /\ TopNamed(tree) /\ DoneSets(media, spec, at.set, tree)
<1>1. pc \notin {"built", "closed", "failed"}
  OBVIOUS
<1> QED
  BY <1>1, Zenon DEF TreeInv, DoneInv, Fresh

LEMMA FailServes ==
  ASSUME Fail
  PROVE  DoneInv' /\ SetInv'
<1>1. pc' = "failed"
  BY Zenon DEF Fail
<1> QED
  BY <1>1 DEF DoneInv, SetInv

LEMMA BeginSetServes ==
  ASSUME PlaceInv, TreeInv, DoneInv, BeginSet
  PROVE  DoneInv' /\ SetInv'
<1>1. SUFFICES ASSUME ~Fail PROVE DoneInv' /\ SetInv'
  BY FailServes, Zenon
<1>2. /\ pc = "set" /\ pc' = "layer" /\ spec' = spec /\ media' = media /\ at' = at /\ nextIno' = nextIno
      /\ at.set \in DOMAIN spec /\ <<set.name>> \notin DOMAIN tree
      /\ <<set.name>> \in Seq(Nat)
      /\ tree' = Put(tree, <<set.name>>, Dir("none"))
  BY <1>1, BeginSetIs, Zenon
<1>3. IsTree(tree) /\ TopNamed(tree) /\ DoneSets(media, spec, at.set, tree)
  BY <1>2, AtTree, Zenon
<1>4. set' = set
  BY <1>2, SamePlace, Zenon
<1> DEFINE p == <<set.name>>
           n == Dir("none")
<1>5. p # <<>> /\ p[1] = set.name
  OBVIOUS
<1>6. IsNode(n) /\ n.dir
  BY FreshNode, Zenon
<1>7. p \in Seq(Nat) /\ p \notin DOMAIN tree /\ tree' = Put(tree, p, n) /\ <<p[1]>> = p
  BY <1>2, <1>5, Zenon
<1> HIDE DEF p, n
<1>8. IsTree(tree') /\ IsPut(tree', tree, p, n)
  BY <1>3, <1>6, <1>7, PutIs, Zenon
<1>9. DOMAIN tree' = DOMAIN tree \cup {p} /\ tree'[p] = n
  BY <1>8, Zenon DEF IsPut
<1>10. TopNamed(tree')
  BY <1>3, <1>5, <1>7, <1>8, <1>9, TopPut, Zenon
<1>11. MoreDirs(tree, tree')
  BY <1>6, <1>7, <1>8, PutMoreDirs, Zenon
<1>12. DoneSets(media, spec, at.set, tree')
  BY <1>3, <1>11, DoneMore, Zenon
<1>13. DoneInv'
  BY <1>2, <1>10, <1>12, Zenon DEF DoneInv
<1>14. Apart(spec, at.set)
  <2>1. \A k \in 1..(at.set - 1) : <<spec[k].name>> \in DOMAIN tree
    BY <1>3, Zenon DEF DoneSets
  <2>2. <<spec[at.set].name>> \notin DOMAIN tree
    BY <1>2, Zenon DEF set
  <2> QED
    BY <2>1, <2>2, Zenon DEF Apart
<1>15. spec \in Specs /\ at.layer = 1
  BY <1>2, Zenon DEF PlaceInv
<1>16. IsSet(set)
  BY <1>2, <1>15, SetIs, Zenon DEF set
<1>17. Met(media, set, "layer", 1, todo') = {}
  BY <1>16, MetNone, Zenon
<1>18. ASSUME NEW q \in DOMAIN tree', q # <<>>, q[1] = set.name PROVE tree'[q].dir
  <2>1. CASE q = p
    BY <1>6, <1>9, <2>1, Zenon
  <2>2. CASE q # p
    <3>1. q \in DOMAIN tree
      BY <1>9, <2>2, Zenon
    <3>2. <<q[1]>> \in DOMAIN tree
      BY <1>3, <1>18, <3>1, Zenon DEF TopNamed
    <3> QED
      BY <1>2, <1>18, <3>2, Zenon
  <2> QED
    BY <2>1, <2>2, Zenon
<1>19. Merged(media, set, tree', 1, {})
  BY <1>18, Zenon DEF Merged
<1>20. <<set.name>> \in DOMAIN tree'
  BY <1>9, Zenon DEF p
<1>21. SetInv'
  BY <1>2, <1>4, <1>14, <1>15, <1>17, <1>19, <1>20, Zenon DEF SetInv
<1> QED
  BY <1>13, <1>21, Zenon

LEMMA ResolveServes ==
  ASSUME PlaceInv, TreeInv, DoneInv, SetInv, Resolve
  PROVE  DoneInv' /\ SetInv'
<1>1. SUFFICES ASSUME ~Fail PROVE DoneInv' /\ SetInv'
  BY FailServes, Zenon
<1>2. pc = "layer" /\ pc' = "dist" /\ spec' = spec /\ media' = media /\ at' = at /\ tree' = tree
  BY <1>1, Zenon DEF Resolve, Goto, input
<1>3. set' = set
  BY <1>2, SamePlace, Zenon
<1>4. TopNamed(tree) /\ DoneSets(media, spec, at.set, tree)
  BY <1>2, AtTree, Zenon
<1>5. DoneInv'
  BY <1>2, <1>4, Zenon DEF DoneInv
<1>6. /\ <<set.name>> \in DOMAIN tree /\ Apart(spec, at.set)
      /\ Merged(media, set, tree, at.layer, Met(media, set, "layer", at.layer, todo))
  BY <1>2, Zenon DEF SetInv
<1>7. Met(media, set, "dist", at.layer, todo') \subseteq Met(media, set, "layer", at.layer, todo)
  BY MetResolved, Zenon
<1>8. Merged(media, set, tree, at.layer, Met(media, set, "dist", at.layer, todo'))
  BY <1>6, <1>7, MergedFewer, Zenon
<1>9. SetInv'
  BY <1>2, <1>3, <1>6, <1>8, Zenon DEF SetInv
<1> QED
  BY <1>5, <1>9, Zenon

\* The walk of a directory begins: the tree has its directories, and nothing of it was met.
LEMMA MergeTreeServes ==
  ASSUME PlaceInv, TreeInv, DoneInv, SetInv, pc \in {"dist", "walk"}, NEW r, r[1] \in Nat,
         NEW next \in {"walk", "stand"}, mergeTree(r[2], <<set.name, r[1]>>, next), ~Fail,
         Met(media, set, next, at.layer, EntriesOf(fsys, RootOf(fsys, r), <<set.name, r[1]>>))
           \subseteq Met(media, set, pc, at.layer, todo)
  PROVE  DoneInv' /\ SetInv'
<1>1. /\ pc' = next /\ spec' = spec /\ media' = media /\ at' = at /\ nextIno' = nextIno
      /\ tree' = ensureDir(tree, <<set.name, r[1]>>, layer.name)
      /\ <<set.name, r[1]>> \in Seq(Nat)
      /\ todo' = EntriesOf(fsys, RootOf(fsys, r), <<set.name, r[1]>>)
      /\ Placed(todo', fsys, set, r) /\ set' = set /\ layer' = layer /\ fsys' = fsys
      /\ Kind(fsys, RootOf(fsys, r)) = "dir"
  BY MergeTreeIs, Zenon
<1>2. pc \in {"layer", "dist", "walk", "stand"}
  BY Zenon
<1>3. IsTree(tree) /\ TopNamed(tree) /\ DoneSets(media, spec, at.set, tree)
  BY <1>2, AtTree, Zenon
<1>4. /\ <<set.name>> \in DOMAIN tree /\ Apart(spec, at.set)
      /\ Merged(media, set, tree, at.layer, Met(media, set, pc, at.layer, todo))
  BY <1>2, Zenon DEF SetInv
<1> DEFINE p == <<set.name, r[1]>>
<1>5. p[1] = set.name
  OBVIOUS
<1>6. <<p[1]>> \in DOMAIN tree /\ p \in Seq(Nat) /\ tree' = ensureDir(tree, p, layer.name)
  BY <1>1, <1>4, <1>5, Zenon
<1> HIDE DEF p
<1>7. TopNamed(tree') /\ MoreDirs(tree, tree')
  BY <1>3, <1>6, TopEnsure, Zenon
<1>8. DoneSets(media, spec, at.set, tree')
  BY <1>3, <1>7, DoneMore, Zenon
<1>9. DoneInv'
  BY <1>1, <1>7, <1>8, Zenon DEF DoneInv
<1>10. Met(media, set, next, at.layer, todo') \subseteq Met(media, set, pc, at.layer, todo)
  BY <1>1, Zenon
<1>11. Merged(media, set, tree, at.layer, Met(media, set, next, at.layer, todo'))
  BY <1>4, <1>10, MergedFewer, Zenon
<1>12. Merged(media, set, tree', at.layer, Met(media, set, next, at.layer, todo'))
  BY <1>7, <1>11, MergedMoreDirs, Zenon
<1>13. <<set.name>> \in DOMAIN tree'
  BY <1>4, <1>7, Zenon DEF MoreDirs
<1>14. SetInv'
  BY <1>1, <1>4, <1>12, <1>13, Zenon DEF SetInv
<1> QED
  BY <1>9, <1>14, Zenon

LEMMA MergeDistServes ==
  ASSUME PlaceInv, TreeInv, DoneInv, SetInv, MergeDist
  PROVE  DoneInv' /\ SetInv'
<1>1. SUFFICES ASSUME ~Fail PROVE DoneInv' /\ SetInv'
  BY FailServes, Zenon
<1> DEFINE r == DistOf(layer)
           E == EntriesOf(fsys, RootOf(fsys, r), <<set.name, r[1]>>)
<1>2. pc = "dist" /\ mergeTree(r[2], <<set.name, r[1]>>, "walk") /\ r[1] \in Nat
  BY <1>1, MergeDistIs, RootNames, Zenon
<1>3. IsSet(set) /\ media \in [Sources -> Media]
  BY <1>2, AtSet, Zenon
<1>4. Met(media, set, "walk", at.layer, E) \subseteq Met(media, set, "dist", at.layer, todo)
  BY <1>3, MetDist, Zenon DEF fsys, layer
<1> HIDE DEF r
<1> QED
  BY <1>1, <1>2, <1>4, MergeTreeServes, Zenon

LEMMA MergeStandServes ==
  ASSUME PlaceInv, TreeInv, DoneInv, SetInv, MergeStand
  PROVE  DoneInv' /\ SetInv'
<1>1. SUFFICES ASSUME ~Fail PROVE DoneInv' /\ SetInv'
  BY FailServes, Zenon
<1> DEFINE r == StandOf(layer)
           E == EntriesOf(fsys, RootOf(fsys, r), <<set.name, r[1]>>)
<1>2. pc = "walk" /\ todo = {} /\ mergeTree(r[2], <<set.name, r[1]>>, "stand") /\ r[1] \in Nat
  BY <1>1, MergeStandIs, RootNames, Zenon
<1>3. IsSet(set) /\ media \in [Sources -> Media]
  BY <1>2, AtSet, Zenon
<1>4. Met(media, set, "stand", at.layer, E) \subseteq Met(media, set, "walk", at.layer, {})
  BY <1>3, MetStand, Zenon DEF fsys, layer
<1> HIDE DEF r
<1> QED
  BY <1>1, <1>2, <1>4, MergeTreeServes, Zenon

LEMMA WalkMet ==
  ASSUME PlaceInv, pc \in {"walk", "stand"}, NEW e \in todo,
         Skips(e) \/ Enters(e) \/ Takes(e) \/ Keeps(e),
         NEW c \in Met(media, set, pc, at.layer, todo')
  PROVE  c \in Met(media, set, pc, at.layer, todo) \/ IsCopy(c, media, set, at.layer, Here, e.src)
<1>1. IsSet(set) /\ media \in [Sources -> Media]
  BY AtSet, Zenon
<1>2. at.layer \in DOMAIN set.layers
  BY Zenon DEF PlaceInv
<1>3. Here \in Roots(set.layers[at.layer]) /\ Placed(todo, media[set.layers[at.layer].source], set, Here)
  BY HereIs, Zenon DEF layer, fsys
<1>4. (pc = "walk" /\ Here[1] = distDir) \/ (pc = "stand" /\ Here[1] # distDir)
  <2>1. Here[1] = (IF pc = "walk" THEN distDir ELSE standDir) /\ distDir # standDir
    BY HereIs, RootNames, Zenon
  <2> QED
    BY <2>1
<1>5. todo \ {e} \subseteq todo'
  BY Zenon DEF Skips, Enters, Takes, Keeps
<1>6. Kind(fsys, e.src) = "dir" => EntriesOf(fsys, e.src, e.target) \subseteq todo'
  <2>1. CASE Enters(e)
    BY <2>1, Zenon DEF Enters
  <2>2. CASE ~Enters(e)
    <3>1. Follow(fsys, e.src).kind \in {"special", "file"}
      BY <2>2, Zenon DEF Skips, Takes, Keeps
    <3>2. Kind(fsys, e.src) # "link" => Follow(fsys, e.src).kind = Kind(fsys, e.src)
      BY FollowIs, Zenon
    <3> QED
      BY <3>1, <3>2
  <2> QED
    BY <2>1, <2>2, Zenon
<1>7. Kind(media[set.layers[at.layer].source], e.src) = "dir" =>
        EntriesOf(media[set.layers[at.layer].source], e.src, e.target) \subseteq todo'
  BY <1>6, Zenon DEF layer, fsys
<1> QED
  BY <1>1, <1>2, <1>3, <1>4, <1>5, <1>7, MetWalk, Zenon

\* The copy that an entry is.
CopyOf(e) == Copy(media, set, at.layer, Here, e.src)

LEMMA CopyOfIs ==
  ASSUME PlaceInv, pc \in {"walk", "stand"}, NEW e \in todo, Follow(fsys, e.src).kind = "file"
  PROVE  /\ IsCopy(CopyOf(e), media, set, at.layer, Here, e.src) /\ CopyOf(e) \in Copies(media, set)
         /\ CopyOf(e).at = at.layer /\ CopyOf(e).path = e.target /\ CopyOf(e).bytes = NewFile(e).bytes
<1>1. IsSet(set) /\ media \in [Sources -> Media]
  BY AtSet, Zenon
<1>2. at.layer \in DOMAIN set.layers
  BY Zenon DEF PlaceInv
<1>3. Here \in Roots(layer) /\ Placed(todo, fsys, set, Here)
  BY HereIs, Zenon
<1>4. /\ e.src \in Below(fsys, RootOf(fsys, Here))
      /\ e.target = Landing(set.name, Here[1], RootOf(fsys, Here), e.src)
  BY <1>3, Zenon DEF Placed
<1>5. e.src \in FilesOf(fsys, Here)
  BY <1>4, Zenon DEF FilesOf, RootOf
<1>6. IsCopy(CopyOf(e), media, set, at.layer, Here, e.src)
  BY <1>2, <1>3, <1>5, Zenon DEF IsCopy, CopyOf, layer, fsys
<1>7. CopyOf(e) \in Copies(media, set)
  BY <1>6, CopiesAre, Zenon
<1>8. Lies(CopyOf(e), media, set, at.layer, Here, e.src)
  BY <1>1, <1>6, CopyLies, Zenon
<1>9. /\ CopyOf(e).at = at.layer /\ CopyOf(e).path = Landing(set.name, Here[1], RootOf(fsys, Here), e.src)
      /\ CopyOf(e).bytes = fsys[Follow(fsys, e.src).path].bytes
  BY <1>8, Zenon DEF Lies, fsys, layer
<1>10. NewFile(e).bytes = fsys[Follow(fsys, e.src).path].bytes
  BY FreshNode DEF NewFile
<1> QED
  BY <1>4, <1>6, <1>7, <1>9, <1>10, Zenon

\* What an entry adds to the copies that were met.
LEMMA WalkAdds ==
  ASSUME PlaceInv, pc \in {"walk", "stand"}, NEW e \in todo,
         Skips(e) \/ Enters(e) \/ Takes(e) \/ Keeps(e)
  PROVE  /\ Skips(e) \/ Enters(e) =>
              Met(media, set, pc, at.layer, todo') \subseteq Met(media, set, pc, at.layer, todo)
         /\ Met(media, set, pc, at.layer, todo') \subseteq Met(media, set, pc, at.layer, todo) \cup {CopyOf(e)}
<1>1. ASSUME NEW c \in Met(media, set, pc, at.layer, todo')
      PROVE  c \in Met(media, set, pc, at.layer, todo) \/ IsCopy(c, media, set, at.layer, Here, e.src)
  BY WalkMet, Zenon
<1>2. ASSUME NEW c, IsCopy(c, media, set, at.layer, Here, e.src)
      PROVE  c = CopyOf(e) /\ Follow(fsys, e.src).kind = "file"
  BY <1>2, Zenon DEF IsCopy, CopyOf, FilesOf, fsys, layer
<1>3. ASSUME Skips(e) \/ Enters(e) PROVE Follow(fsys, e.src).kind # "file"
  <2>1. CASE Skips(e)
    BY <2>1 DEF Skips
  <2>2. CASE Enters(e)
    <3>1. Kind(fsys, e.src) = "dir"
      BY <2>2, Zenon DEF Enters
    <3>2. Kind(fsys, e.src) # "link" => Follow(fsys, e.src).kind = Kind(fsys, e.src)
      BY FollowIs, Zenon
    <3> QED
      BY <3>1, <3>2
  <2> QED
    BY <1>3, <2>1, <2>2, Zenon
<1> QED
  BY <1>1, <1>2, <1>3, Zenon

\* What an entry does to the tree is what it does to the copies.
LEMMA WalkMerges ==
  ASSUME PlaceInv, IsTree(tree), TopNamed(tree), pc \in {"walk", "stand"}, NEW e \in todo,
         Skips(e) \/ Enters(e) \/ Keeps(e),
         <<set.name>> \in DOMAIN tree,
         Merged(media, set, tree, at.layer, Met(media, set, pc, at.layer, todo))
  PROVE  /\ Merged(media, set, tree', at.layer, Met(media, set, pc, at.layer, todo'))
         /\ MoreDirs(tree, tree') /\ TopNamed(tree')
<1> DEFINE M == Met(media, set, pc, at.layer, todo)
           N == Met(media, set, pc, at.layer, todo')
<1>1. /\ Skips(e) \/ Enters(e) => N \subseteq M
      /\ N \subseteq M \cup {CopyOf(e)}
  BY WalkAdds, Zenon
<1>2. e.target \in Seq(Nat) /\ e.target # <<>> /\ e.target[1] = set.name
  BY WalkTarget, Zenon
<1>3. \A q \in DOMAIN tree : IsNode(tree[q])
  BY Zenon DEF IsTree
<1> HIDE DEF M, N
<1>4. CASE Skips(e)
  <2>1. tree' = tree
    BY <1>4, Zenon DEF Skips
  <2>2. MoreDirs(tree, tree')
    BY <2>1, Zenon DEF MoreDirs
  <2>3. Merged(media, set, tree, at.layer, N)
    BY <1>1, <1>4, MergedFewer, Zenon DEF M
  <2> QED
    BY <2>1, <2>2, <2>3, Zenon DEF N
<1>5. CASE Enters(e) \/ Keeps(e)
  <2> DEFINE n == IF e.target \in DOMAIN tree THEN tree[e.target] ELSE Dir(layer.name)
  <2>1. tree' = Put(tree, e.target, n)
    BY <1>5, Zenon DEF Enters, Keeps
  <2>2. IsNode(Dir(layer.name)) /\ Dir(layer.name).dir
    BY FreshNode, Zenon
  <2>3. IsNode(n) /\ IF e.target \in DOMAIN tree THEN n = tree[e.target] ELSE n.dir
    BY <1>3, <2>2, Zenon
  <2> HIDE DEF n
  <2>4. IsPut(tree', tree, e.target, n)
    BY <1>2, <2>1, <2>3, PutIs, Zenon
  <2>5. MoreDirs(tree, tree')
    BY <2>3, <2>4, PutMoreDirs, Zenon
  <2>6. Merged(media, set, tree, at.layer, N)
    <3>1. CASE Enters(e)
      BY <1>1, <3>1, MergedFewer, Zenon DEF M
    <3>2. CASE Keeps(e)
      <4>1. /\ Follow(fsys, e.src).kind = "file" /\ e.target \in DOMAIN tree /\ ~tree[e.target].dir
            /\ Winner(e.target) # "none" \/ tree[e.target].bytes = NewFile(e).bytes
        BY <3>2, Zenon DEF Keeps
      <4>2. /\ CopyOf(e) \in Copies(media, set) /\ CopyOf(e).at = at.layer /\ CopyOf(e).path = e.target
            /\ CopyOf(e).bytes = NewFile(e).bytes
        BY <4>1, CopyOfIs, Zenon
      <4>3. Winner(e.target) # "none" => e.target \in DOMAIN set.collisions
        BY Zenon DEF Winner
      <4>4. IsSet(set) /\ media \in [Sources -> Media]
        BY AtSet, Zenon
      <4>5. Merged(media, set, tree, at.layer, M)
        BY Zenon DEF M
      <4> DEFINE d == CopyOf(e)
      <4>6. /\ d \in Copies(media, set) /\ d.at = at.layer /\ d.path \in DOMAIN tree /\ ~tree[d.path].dir
            /\ d.path \in DOMAIN set.collisions \/ tree[d.path].bytes = d.bytes
            /\ N \subseteq M \cup {d}
        BY <1>1, <4>1, <4>2, <4>3, Zenon
      <4> HIDE DEF d
      <4> QED
        BY <4>4, <4>5, <4>6, MergedKeeps, Zenon
    <3> QED
      BY <1>5, <3>1, <3>2, Zenon
  <2>7. Merged(media, set, tree', at.layer, N)
    BY <2>5, <2>6, MergedMoreDirs, Zenon
  <2>8. TopNamed(tree')
    <3>1. <<e.target[1]>> \in DOMAIN tree'
      BY <1>2, <2>5, Zenon DEF MoreDirs
    <3> QED
      BY <1>2, <2>4, <3>1, TopPut, Zenon
  <2> QED
    BY <2>5, <2>7, <2>8, Zenon DEF N
<1> QED
  BY <1>4, <1>5, Zenon

LEMMA WalkTakes ==
  ASSUME PlaceInv, IsTree(tree), pc \in {"walk", "stand"}, NEW e \in todo, Takes(e),
         Merged(media, set, tree, at.layer, Met(media, set, pc, at.layer, todo))
  PROVE  /\ Merged(media, set, tree', at.layer, Met(media, set, pc, at.layer, todo'))
         /\ IsPut(tree', tree, e.target, NewFile(e))
<1> DEFINE M == Met(media, set, pc, at.layer, todo)
           N == Met(media, set, pc, at.layer, todo')
           d == CopyOf(e)
           n == NewFile(e)
<1>1. /\ Follow(fsys, e.src).kind = "file" /\ tree' = Put(tree, e.target, n)
      /\ e.target \in DOMAIN tree => ~tree[e.target].dir /\ supersedes(tree[e.target], n, e.target)
  BY Zenon DEF Takes
<1>2. /\ IsCopy(d, media, set, at.layer, Here, e.src) /\ d \in Copies(media, set)
      /\ d.at = at.layer /\ d.path = e.target /\ d.bytes = n.bytes
  BY <1>1, CopyOfIs, Zenon
<1>3. N \subseteq M \cup {d}
  BY WalkAdds, Zenon
<1>4. e.target \in Seq(Nat)
  BY WalkTarget, Zenon
<1>5. IsNode(n) /\ ~n.dir /\ n.layer = set.layers[at.layer].name
  BY FreshNode, ZenonT(60) DEF NewFile, layer
<1>6. IsPut(tree', tree, e.target, n)
  BY <1>1, <1>4, <1>5, PutIs, Zenon
<1>7. IsSet(set) /\ media \in [Sources -> Media]
  BY AtSet, Zenon
<1>8. e.target \in DOMAIN tree =>
        /\ ~tree[e.target].dir
        /\ \/ e.target \in DOMAIN set.collisions
           \/ /\ tree[e.target].layer \in DOMAIN set.replacements
              /\ set.replacements[tree[e.target].layer] = set.layers[at.layer].name
  <2> SUFFICES ASSUME e.target \in DOMAIN tree, e.target \notin DOMAIN set.collisions
               PROVE  /\ tree[e.target].layer \in DOMAIN set.replacements
                      /\ set.replacements[tree[e.target].layer] = set.layers[at.layer].name
    BY <1>1, Zenon
  <2>1. Winner(e.target) = "none"
    BY Zenon DEF Winner
  <2>2. Replaces(tree[e.target].layer, n.layer)
    BY <1>1, <2>1, Zenon DEF supersedes
  <2> QED
    BY <1>5, <2>2, Zenon DEF Replaces
<1>9. (pc = "walk" /\ Here[1] = distDir) \/ (pc = "stand" /\ Here[1] # distDir)
  <2>1. Here[1] = (IF pc = "walk" THEN distDir ELSE standDir) /\ distDir # standDir
    BY HereIs, RootNames, Zenon
  <2> QED
    BY <2>1
<1> HIDE DEF d, n
<1>10. ASSUME NEW c \in M, c.path = d.path PROVE c \in Copies(media, set) /\ c.at < at.layer
  BY <1>2, <1>7, <1>9, <1>10, MetBefore, Zenon
<1>11. Merged(media, set, tree, at.layer, M)
  BY Zenon
<1> HIDE DEF M, N
<1>12. /\ IsPut(tree', tree, d.path, n)
       /\ d.path \in DOMAIN tree =>
            /\ ~tree[d.path].dir
            /\ \/ d.path \in DOMAIN set.collisions
               \/ /\ tree[d.path].layer \in DOMAIN set.replacements
                  /\ set.replacements[tree[d.path].layer] = set.layers[at.layer].name
  BY <1>2, <1>6, <1>8, Zenon
<1>13. Merged(media, set, tree', at.layer, N)
  BY <1>2, <1>3, <1>5, <1>7, <1>10, <1>11, <1>12, MergedTakes, Zenon
<1> QED
  BY <1>6, <1>13, Zenon DEF N, n

LEMMA WalkServes ==
  ASSUME PlaceInv, TreeInv, DoneInv, SetInv, walkFS
  PROVE  DoneInv' /\ SetInv'
<1>1. SUFFICES ASSUME ~Fail PROVE DoneInv' /\ SetInv'
  BY FailServes, Zenon
<1>2. pc \in {"walk", "stand"}
  BY Zenon DEF walkFS
<1>3. PICK e \in todo : walkEntry(e)
  BY Zenon DEF walkFS
<1>4. /\ pc' = pc /\ spec' = spec /\ media' = media /\ at' = at /\ nextIno' = nextIno
      /\ Skips(e) \/ Enters(e) \/ Takes(e) \/ Keeps(e)
  BY <1>1, <1>2, <1>3, WalkCases, Zenon
<1>5. set' = set
  BY <1>4, SamePlace, Zenon
<1>6. pc \in {"layer", "dist", "walk", "stand"} /\ pc \in {"set", "layer", "dist", "walk", "stand"}
  BY <1>2, Zenon
<1>7. IsTree(tree) /\ TopNamed(tree) /\ DoneSets(media, spec, at.set, tree)
  BY <1>6, AtTree, Zenon
<1>8. /\ <<set.name>> \in DOMAIN tree /\ Apart(spec, at.set)
      /\ Merged(media, set, tree, at.layer, Met(media, set, pc, at.layer, todo))
  BY <1>6, Zenon DEF SetInv
<1>9. /\ Merged(media, set, tree', at.layer, Met(media, set, pc, at.layer, todo'))
      /\ <<set.name>> \in DOMAIN tree' /\ TopNamed(tree') /\ DoneSets(media, spec, at.set, tree')
  <2>1. CASE Skips(e) \/ Enters(e) \/ Keeps(e)
    <3>1. /\ Merged(media, set, tree', at.layer, Met(media, set, pc, at.layer, todo'))
          /\ MoreDirs(tree, tree') /\ TopNamed(tree')
      BY <1>2, <1>7, <1>8, <2>1, WalkMerges, Zenon
    <3>2. DoneSets(media, spec, at.set, tree')
      BY <1>7, <3>1, DoneMore, Zenon
    <3>3. <<set.name>> \in DOMAIN tree'
      BY <1>8, <3>1, Zenon DEF MoreDirs
    <3> QED
      BY <3>1, <3>2, <3>3, Zenon
  <2>2. CASE Takes(e)
    <3>1. /\ Merged(media, set, tree', at.layer, Met(media, set, pc, at.layer, todo'))
          /\ IsPut(tree', tree, e.target, NewFile(e))
      BY <1>2, <1>7, <1>8, <2>2, WalkTakes, Zenon
    <3>2. e.target # <<>> /\ e.target[1] = set.name
      BY <1>2, WalkTarget, Zenon
    <3>3. <<set.name>> \in DOMAIN tree'
      BY <1>8, <3>1, Zenon DEF IsPut
    <3>4. <<e.target[1]>> \in DOMAIN tree'
      BY <3>2, <3>3, Zenon
    <3>5. TopNamed(tree')
      BY <1>7, <3>1, <3>2, <3>4, TopPut, Zenon
    <3>6. spec \in Specs /\ media \in [Sources -> Media]
      BY <1>6, AtSet, Zenon
    <3>7. e.target[1] = spec[at.set].name
      BY <3>2, Zenon DEF set
    <3>8. DoneSets(media, spec, at.set, tree')
      BY <1>7, <1>8, <3>1, <3>6, <3>7, DonePut, Zenon
    <3> QED
      BY <3>1, <3>3, <3>5, <3>8, Zenon
  <2> QED
    BY <1>4, <2>1, <2>2, Zenon
<1>10. DoneInv'
  BY <1>4, <1>9, Zenon DEF DoneInv
<1>11. SetInv'
  BY <1>4, <1>5, <1>8, <1>9, Zenon DEF SetInv
<1> QED
  BY <1>10, <1>11, Zenon

LEMMA NextLayerServes ==
  ASSUME PlaceInv, TreeInv, DoneInv, SetInv, NextLayer
  PROVE  DoneInv' /\ SetInv'
<1>1. /\ pc \in {"walk", "stand"} /\ pc' = "layer" /\ spec' = spec /\ media' = media
      /\ tree' = tree /\ todo' = todo /\ todo = {} /\ at' = [at EXCEPT !.layer = @ + 1]
      /\ pc = "walk" => ~layer.boot
  BY Zenon DEF NextLayer, Goto, input
<1>2. /\ at = [set |-> at.set, layer |-> at.layer] /\ at.layer \in Nat
  BY DEF PlaceInv
<1>3. at' = [set |-> at.set, layer |-> at.layer + 1]
  BY <1>1, <1>2
<1>4. (at.set)' = at.set /\ (at.layer)' = at.layer + 1
  BY <1>3
<1>5. set' = set
  BY <1>1, <1>4, Zenon DEF set
<1>6. pc \in {"layer", "dist", "walk", "stand"} /\ pc \in {"set", "layer", "dist", "walk", "stand"}
  BY <1>1, Zenon
<1>7. TopNamed(tree) /\ DoneSets(media, spec, at.set, tree)
  BY <1>6, AtTree, Zenon
<1>8. DoneInv'
  BY <1>1, <1>4, <1>7, Zenon DEF DoneInv
<1>9. /\ <<set.name>> \in DOMAIN tree /\ Apart(spec, at.set)
      /\ Merged(media, set, tree, at.layer, Met(media, set, pc, at.layer, {}))
  BY <1>1, <1>6, Zenon DEF SetInv
<1>10. IsSet(set) /\ media \in [Sources -> Media]
  BY <1>6, AtSet, Zenon
<1>11. pc = "stand" \/ (pc = "walk" /\ ~set.layers[at.layer].boot)
  BY <1>1, Zenon DEF layer
<1> DEFINE M == Met(media, set, pc, at.layer, {})
           N == Met(media, set, "layer", at.layer + 1, todo')
           k == at.layer + 1
<1>12. N \subseteq M
  BY <1>2, <1>10, <1>11, MetLayer, Zenon
<1>13. k \in Nat /\ at.layer <= k
  BY <1>2
<1>14. Merged(media, set, tree, at.layer, M)
  BY <1>9, Zenon
<1> HIDE DEF M, N, k
<1>15. Merged(media, set, tree, k, N)
  BY <1>2, <1>10, <1>12, <1>13, <1>14, MergedLess, Zenon
<1>16. Merged(media, set, tree, at.layer + 1, Met(media, set, "layer", at.layer + 1, todo'))
  BY <1>15, Zenon DEF N, k
<1>17. SetInv'
  BY <1>1, <1>4, <1>5, <1>9, <1>16, Zenon DEF SetInv
<1> QED
  BY <1>8, <1>17, Zenon

LEMMA EndSetServes ==
  ASSUME PlaceInv, TreeInv, DoneInv, SetInv, EndSet
  PROVE  DoneInv' /\ SetInv'
<1>1. SUFFICES ASSUME ~Fail PROVE DoneInv' /\ SetInv'
  BY FailServes, Zenon
<1>2. /\ pc = "layer" /\ pc' = "set" /\ spec' = spec /\ media' = media /\ at.layer > Len(set.layers)
      /\ tree' = tree /\ at' = [set |-> at.set + 1, layer |-> 1] /\ checkCollisions
  BY <1>1, Zenon DEF EndSet, Goto, input
<1>3. (at.set)' = at.set + 1
  BY <1>2
<1>4. TopNamed(tree) /\ DoneSets(media, spec, at.set, tree)
  BY <1>2, AtTree, Zenon
<1>5. /\ <<set.name>> \in DOMAIN tree
      /\ Merged(media, set, tree, at.layer, Met(media, set, "layer", at.layer, todo))
  BY <1>2, Zenon DEF SetInv
<1>6. /\ IsSet(set) /\ media \in [Sources -> Media] /\ at.set \in DOMAIN spec
      /\ at.set \in Nat \ {0} /\ at.layer \in Nat \ {0}
  BY <1>2, AtSet, Zenon
<1>7. Copies(media, set) \subseteq Met(media, set, "layer", at.layer, todo)
  <2>1. at.layer \in Nat
    BY <1>6, Zenon
  <2> QED
    BY <1>2, <1>6, <2>1, MetAll, Zenon
<1>8. Merged(media, set, tree, at.layer, Copies(media, set))
  BY <1>5, <1>7, MergedFewer, Zenon
<1>9. \A p \in DOMAIN set.collisions : tree[p].layer = set.collisions[p]
  BY <1>2, Zenon DEF checkCollisions
<1>10. SetServed(media, set, tree)
  BY <1>6, <1>8, <1>9, MergedServed, Zenon
<1>11. DoneSets(media, spec, at.set + 1, tree)
  <2> SUFFICES ASSUME NEW k \in 1..((at.set + 1) - 1)
               PROVE  /\ k \in DOMAIN spec /\ <<spec[k].name>> \in DOMAIN tree
                      /\ SetServed(media, spec[k], tree)
    BY Zenon DEF DoneSets
  <2>1. k = at.set \/ k \in 1..(at.set - 1)
    BY <1>6
  <2>2. CASE k = at.set
    BY <1>5, <1>6, <1>10, <2>2, Zenon DEF set
  <2>3. CASE k \in 1..(at.set - 1)
    BY <1>4, <2>3, Zenon DEF DoneSets
  <2> QED
    BY <2>1, <2>2, <2>3, Zenon
<1>12. DoneInv'
  BY <1>2, <1>3, <1>4, <1>11, Zenon DEF DoneInv
<1>13. SetInv'
  BY <1>2 DEF SetInv
<1> QED
  BY <1>12, <1>13, Zenon

-----------------------------------------------------------------------------
(* The built tree.                                                         *)

\* A copy is served as it is configured, or a generated file is in its place.
ServedFile(m, s, t, c) ==
  /\ c.path \in DOMAIN t /\ ~t[c.path].dir
  /\ t[c.path].layer # "generated" =>
       \E b \in Copies(m, s) :
         /\ b.path = c.path /\ Serves(t, s, b)
         /\ IF c.path \in DOMAIN s.collisions THEN t[c.path].layer = s.collisions[c.path]
            ELSE c.bytes = b.bytes \/ Replaced(m, s, c)

ServedSets(m, sp, t) == \A k \in DOMAIN sp : \A c \in Copies(m, sp[k]) : ServedFile(m, sp[k], t, c)

ServedInv == pc = "built" => ServedSets(media, spec, tree)

LEMMA ServedAlike ==
  ASSUME NEW m, NEW s, NEW t, NEW u, NEW c, ServedFile(m, s, t, c),
         c.path \in DOMAIN u, Alike(u[c.path], t[c.path])
  PROVE  ServedFile(m, s, u, c)
<1>1. /\ u[c.path].dir = t[c.path].dir /\ u[c.path].layer = t[c.path].layer
      /\ u[c.path].bytes = t[c.path].bytes
  BY Zenon DEF Alike
<1>2. c.path \in DOMAIN t /\ ~t[c.path].dir
  BY Zenon DEF ServedFile
<1>3. ~u[c.path].dir
  BY <1>1, <1>2, Zenon
<1>4. ASSUME u[c.path].layer # "generated"
      PROVE  \E b \in Copies(m, s) :
               /\ b.path = c.path /\ Serves(u, s, b)
               /\ IF c.path \in DOMAIN s.collisions THEN u[c.path].layer = s.collisions[c.path]
                  ELSE c.bytes = b.bytes \/ Replaced(m, s, c)
  <2>1. t[c.path].layer # "generated"
    BY <1>1, <1>4, Zenon
  <2>2. PICK b \in Copies(m, s) :
          /\ b.path = c.path /\ Serves(t, s, b)
          /\ IF c.path \in DOMAIN s.collisions THEN t[c.path].layer = s.collisions[c.path]
             ELSE c.bytes = b.bytes \/ Replaced(m, s, c)
    BY <2>1, Zenon DEF ServedFile
  <2>3. b.bytes = t[c.path].bytes /\ s.layers[b.at].name = t[c.path].layer
    BY <2>2, Zenon DEF Serves
  <2>4. b.bytes = u[c.path].bytes /\ s.layers[b.at].name = u[c.path].layer
    BY <1>1, <2>3, Zenon
  <2>5. Serves(u, s, b)
    BY <1>3, <2>2, <2>4, Zenon DEF Serves
  <2>6. IF c.path \in DOMAIN s.collisions THEN u[c.path].layer = s.collisions[c.path]
        ELSE c.bytes = b.bytes \/ Replaced(m, s, c)
    BY <1>1, <2>2, Zenon
  <2> QED
    BY <2>2, <2>5, <2>6, Zenon
<1> QED
  BY <1>3, <1>4, Zenon DEF ServedFile

LEMMA BuiltServes ==
  ASSUME PlaceInv, TreeInv, DoneInv, Built
  PROVE  ServedInv'
<1>1. /\ pc = "set" /\ pc' = "built" /\ spec' = spec /\ media' = media /\ at.set > Len(spec)
      /\ tree' = number(tree, nextIno)
  BY Zenon DEF Built, input
<1>2. Fresh(tree) /\ nextIno = RootIno
  BY <1>1 DEF TreeInv
<1>3. IsTree(tree) /\ nextIno \in Nat
  BY <1>2 DEF Fresh, RootIno
<1>4. DOMAIN tree' = DOMAIN tree /\ \A p \in DOMAIN tree : Alike(tree'[p], tree[p])
  BY <1>1, <1>3, NumberIs, Zenon
<1>5. DoneSets(media, spec, at.set, tree)
  BY <1>1, AtTree, Zenon
<1>6. spec \in Specs /\ at.set \in Nat \ {0}
  BY Zenon DEF PlaceInv
<1>7. ASSUME NEW k \in DOMAIN spec, NEW c \in Copies(media, spec[k])
      PROVE  ServedFile(media, spec[k], tree', c)
  <2>1. Len(spec) \in Nat /\ DOMAIN spec = 1..Len(spec)
    BY <1>6, SpecIs, Zenon
  <2>2. k \in 1..(at.set - 1)
    BY <1>1, <1>6, <2>1
  <2>3. SetServed(media, spec[k], tree)
    BY <1>5, <2>2, Zenon DEF DoneSets
  <2>4. ServedFile(media, spec[k], tree, c) /\ c.path \in DOMAIN tree
    BY <2>3, Zenon DEF SetServed, ServedFile
  <2>5. c.path \in DOMAIN tree' /\ Alike(tree'[c.path], tree[c.path])
    BY <1>4, <2>4, Zenon
  <2> QED
    BY <2>4, <2>5, ServedAlike, Zenon
<1>8. ServedSets(media, spec, tree')
  BY <1>7, Zenon DEF ServedSets
<1> QED
  BY <1>1, <1>8, Zenon DEF ServedInv

LEMMA AddGeneratedServes ==
  ASSUME TreeInv, ServedInv, NEW p \in Generated, AddGenerated(p)
  PROVE  ServedInv'
<1>1. CASE Fail
  <2>1. pc' = "failed"
    BY <1>1, Zenon DEF Fail
  <2> QED
    BY <2>1 DEF ServedInv
<1>2. CASE ~Fail
  <2> DEFINE u == Generates(tree, p)
  <2>1. /\ pc = "built" /\ pc' = "built" /\ spec' = spec /\ media' = media
        /\ tree' = number(u, nextIno) /\ p \in Seq(Nat) /\ p # <<>>
    BY <1>2, AddGeneratedIs, Zenon
  <2>2. Numbered(tree, nextIno)
    BY <2>1 DEF TreeInv
  <2>3. IsTree(tree) /\ nextIno \in Nat
    BY <2>2, Zenon DEF Numbered
  <2>4. /\ IsTree(u) /\ DOMAIN tree \subseteq DOMAIN u
        /\ \A q \in DOMAIN tree : q # p => u[q] = tree[q]
        /\ p \in DOMAIN u /\ ~u[p].dir /\ u[p].layer = "generated"
    BY <2>1, <2>3, GeneratesIs, Zenon
  <2> HIDE DEF u
  <2>5. DOMAIN tree' = DOMAIN u /\ \A q \in DOMAIN u : Alike(tree'[q], u[q])
    BY <2>1, <2>3, <2>4, NumberIs, Zenon
  <2>6. ASSUME NEW k \in DOMAIN spec, NEW c \in Copies(media, spec[k])
        PROVE  ServedFile(media, spec[k], tree', c)
    <3>1. ServedFile(media, spec[k], tree, c)
      BY <2>1, Zenon DEF ServedInv, ServedSets
    <3>2. c.path \in DOMAIN tree
      BY <3>1, Zenon DEF ServedFile
    <3>3. c.path \in DOMAIN tree' /\ Alike(tree'[c.path], u[c.path])
      BY <2>4, <2>5, <3>2, Zenon
    <3>4. CASE c.path = p
      <4>1. ~u[c.path].dir /\ u[c.path].layer = "generated"
        BY <2>4, <3>4, Zenon
      <4>2. tree'[c.path].dir = u[c.path].dir /\ tree'[c.path].layer = u[c.path].layer
        BY <3>3, Zenon DEF Alike
      <4>3. ~tree'[c.path].dir /\ tree'[c.path].layer = "generated"
        BY <4>1, <4>2, Zenon
      <4> QED
        BY <3>3, <4>3, Zenon DEF ServedFile
    <3>5. CASE c.path # p
      <4>1. Alike(tree'[c.path], tree[c.path])
        BY <2>4, <3>2, <3>3, <3>5, Zenon
      <4> QED
        BY <3>1, <3>3, <4>1, ServedAlike, Zenon
    <3> QED
      BY <3>4, <3>5, Zenon
  <2>7. ServedSets(media, spec, tree')
    BY <2>6, Zenon DEF ServedSets
  <2> QED
    BY <2>1, <2>7, Zenon DEF ServedInv
<1> QED
  BY <1>1, <1>2, Zenon

ServeInv == DoneInv /\ SetInv /\ ServedInv

LEMMA ServeInit == Init => ServeInv
<1> SUFFICES ASSUME Init PROVE ServeInv
  OBVIOUS
<1>1. pc = "set" /\ at = [set |-> 1, layer |-> 1] /\ tree = [p \in {<<>>} |-> Dir("none")]
  BY Zenon DEF Init
<1>2. at.set = 1 /\ DOMAIN tree = {<<>>}
  BY <1>1
<1>3. TopNamed(tree)
  BY <1>2, Zenon DEF TopNamed
<1>4. 1..(1 - 1) = {}
  OBVIOUS
<1>5. DoneSets(media, spec, 1, tree)
  BY <1>4, Zenon DEF DoneSets
<1>6. DoneInv
  BY <1>2, <1>3, <1>5, Zenon DEF DoneInv
<1>7. SetInv /\ ServedInv
  BY <1>1 DEF SetInv, ServedInv
<1> QED
  BY <1>6, <1>7, Zenon DEF ServeInv

LEMMA ServeNext == PlaceInv /\ TreeInv /\ ServeInv /\ [Next]_vars => ServeInv'
<1> SUFFICES ASSUME PlaceInv, TreeInv, ServeInv, [Next]_vars PROVE ServeInv'
  OBVIOUS
<1>0. DoneInv /\ SetInv /\ ServedInv
  BY Zenon DEF ServeInv
<1>a. ASSUME DoneInv' /\ SetInv', pc' # "built" PROVE ServeInv'
  BY <1>a, Zenon DEF ServeInv, ServedInv
<1>b. ASSUME ServedInv', pc' \in {"built", "closed", "failed"} PROVE ServeInv'
  <2>1. pc' \notin {"layer", "dist", "walk", "stand"}
    BY <1>b
  <2> QED
    BY <1>b, <2>1, Zenon DEF ServeInv, DoneInv, SetInv
<1>c. ASSUME Fail PROVE ServeInv'
  <2>1. pc' # "built"
    BY <1>c DEF Fail
  <2> QED
    BY <1>a, <1>c, <2>1, FailServes, Zenon
<1>d. ASSUME ~Fail, BeginSet \/ Resolve \/ MergeDist \/ MergeStand \/ walkFS \/ NextLayer \/ EndSet
      PROVE  pc' # "built"
  BY <1>d DEF BeginSet, Resolve, MergeDist, MergeStand, mergeTree, walkFS, walkEntry, NextLayer, EndSet, Goto
<1>1. CASE BeginSet
  BY <1>0, <1>1, <1>a, <1>c, <1>d, BeginSetServes, Zenon
<1>2. CASE Resolve
  BY <1>0, <1>2, <1>a, <1>c, <1>d, ResolveServes, Zenon
<1>3. CASE MergeDist
  BY <1>0, <1>3, <1>a, <1>c, <1>d, MergeDistServes, Zenon
<1>4. CASE MergeStand
  BY <1>0, <1>4, <1>a, <1>c, <1>d, MergeStandServes, Zenon
<1>5. CASE walkFS
  BY <1>0, <1>5, <1>a, <1>c, <1>d, WalkServes, Zenon
<1>6. CASE CompareFails
  BY <1>6, <1>c, Zenon DEF CompareFails
<1>7. CASE NextLayer
  BY <1>0, <1>7, <1>a, <1>c, <1>d, NextLayerServes, Zenon
<1>8. CASE EndSet
  BY <1>0, <1>8, <1>a, <1>c, <1>d, EndSetServes, Zenon
<1>9. CASE Built
  <2>1. pc' = "built"
    BY <1>9, Zenon DEF Built
  <2> QED
    BY <1>0, <1>9, <1>b, <2>1, BuiltServes, Zenon
<1>10. ASSUME NEW p \in Generated, AddGenerated(p) PROVE ServeInv'
  <2>1. CASE Fail
    BY <2>1, <1>c, Zenon
  <2>2. CASE ~Fail
    <3>1. pc' = "built"
      BY <1>10, <2>2, AddGeneratedIs, Zenon
    <3> QED
      BY <1>0, <1>10, <1>b, <3>1, AddGeneratedServes, Zenon
  <2> QED
    BY <2>1, <2>2, Zenon
<1>11. CASE CloseTree
  <2>1. pc' = "closed"
    BY <1>11, Zenon DEF CloseTree
  <2>2. ServedInv'
    BY <2>1 DEF ServedInv
  <2> QED
    BY <1>b, <2>1, <2>2, Zenon
<1>12. CASE UNCHANGED vars
  <2>1. spec' = spec /\ media' = media /\ pc' = pc /\ at' = at /\ todo' = todo /\ tree' = tree
    BY <1>12, Zenon DEF vars
  <2>2. set' = set
    BY <2>1, SamePlace, Zenon
  <2>3. DoneInv' /\ ServedInv'
    BY <1>0, <2>1, Zenon DEF DoneInv, ServedInv
  <2>4. SetInv'
    BY <1>0, <2>1, <2>2, Zenon DEF SetInv
  <2> QED
    BY <2>3, <2>4, Zenon DEF ServeInv
<1> QED
  BY <1>1, <1>2, <1>3, <1>4, <1>5, <1>6, <1>7, <1>8, <1>9, <1>10, <1>11, <1>12, Zenon DEF Next

\* Whatever the media and the configuration, a tree that Build returned serves at the path of
\* every file of every layer: what the configured winner has there; without one, content that
\* this layer agrees with, unless a later layer that the configuration names replaced it; or
\* a generated file.  No file of a layer is missing (mergeTree, walkFS, mergeChild,
\* checkCollisions, AddGenerated).
THEOREM ServedAsConfigured == Spec => []ServesWhatIsConfigured
<1>1. ServedInv => ServesWhatIsConfigured
  <2> SUFFICES ASSUME ServedInv, pc = "built", NEW k \in DOMAIN spec,
                      NEW s \in {spec[k]}, NEW copies \in {Copies(media, spec[k])}, NEW c \in copies
               PROVE  /\ c.path \in DOMAIN tree /\ ~tree[c.path].dir
                      /\ tree[c.path].layer # "generated" =>
                           \E served \in copies :
                             /\ served.path = c.path /\ served.bytes = tree[c.path].bytes
                             /\ s.layers[served.at].name = tree[c.path].layer
                             /\ IF c.path \in DOMAIN s.collisions
                                THEN tree[c.path].layer = s.collisions[c.path]
                                ELSE c.bytes = served.bytes \/ \E old, new \in copies :
                                       /\ old.path = c.path /\ new.path = c.path /\ old.bytes = c.bytes
                                       /\ old.at <= c.at /\ c.at < new.at
                                       /\ ReplacedBy(s, old.at, new.at)
    BY Zenon DEF ServesWhatIsConfigured
  <2>1. s = spec[k] /\ copies = Copies(media, s)
    BY Zenon
  <2>2. ServedFile(media, s, tree, c)
    BY <2>1, Zenon DEF ServedInv, ServedSets
  <2>3. c.path \in DOMAIN tree /\ ~tree[c.path].dir
    BY <2>2, Zenon DEF ServedFile
  <2>4. ASSUME tree[c.path].layer # "generated"
        PROVE  \E served \in copies :
                 /\ served.path = c.path /\ served.bytes = tree[c.path].bytes
                 /\ s.layers[served.at].name = tree[c.path].layer
                 /\ IF c.path \in DOMAIN s.collisions THEN tree[c.path].layer = s.collisions[c.path]
                    ELSE c.bytes = served.bytes \/ Replaced(media, s, c)
    <3>1. PICK b \in copies :
            /\ b.path = c.path /\ Serves(tree, s, b)
            /\ IF c.path \in DOMAIN s.collisions THEN tree[c.path].layer = s.collisions[c.path]
               ELSE c.bytes = b.bytes \/ Replaced(media, s, c)
      BY <2>1, <2>2, <2>4, Zenon DEF ServedFile
    <3>2. b.bytes = tree[c.path].bytes /\ s.layers[b.at].name = tree[c.path].layer
      BY <3>1, Zenon DEF Serves
    <3> QED
      BY <3>1, <3>2, Zenon
  <2>5. Replaced(media, s, c) =>
          \E old, new \in copies :
            /\ old.path = c.path /\ new.path = c.path /\ old.bytes = c.bytes
            /\ old.at <= c.at /\ c.at < new.at /\ ReplacedBy(s, old.at, new.at)
    BY <2>1, Zenon DEF Replaced
  <2> QED
    BY <2>3, <2>4, <2>5, Zenon
<1>2. Spec => [](PlaceInv /\ TreeInv)
  BY PlaceTreeInit, PlaceTreeNext, PTL DEF Spec
<1>3. Spec => []ServeInv
  BY <1>2, ServeInit, ServeNext, PTL DEF Spec
<1>4. ServeInv => ServedInv
  BY Zenon DEF ServeInv
<1> QED
  BY <1>1, <1>3, <1>4, PTL
====
