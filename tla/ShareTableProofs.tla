-------------------------- MODULE ShareTableProofs --------------------------
(***************************************************************************)
(* For every set of names, number of connections and bounds: the table of  *)
(* a share is well formed, its file replays to it, and a freed id stays    *)
(* free, over interleaved operations and a crash anywhere.  A share asked  *)
(* one thing at a time also keeps every handle at its file.                *)
(***************************************************************************)
EXTENDS ShareTable, WellFoundedInduction, TLAPS

-----------------------------------------------------------------------------
(* Lines and tables.                                                       *)

\* Induction over the numbers, for a set: a set with 0 and with each one's successor has all.
LEMMA NatInd ==
  ASSUME NEW S, 0 \in S, \A n \in Nat : n \in S => n + 1 \in S
  PROVE  Nat \subseteq S
<1> DEFINE T == Nat \ S
           R == OpToRel(<, Nat)
<1>1. SUFFICES ASSUME T # {} PROVE FALSE
  BY Zenon
<1>2. IsWellFoundedOn(R, Nat)
  BY NatLessThanWellFounded, Zenon
<1>3. \A x, y \in Nat : y < x => <<y, x>> \in R
  BY Zenon DEF OpToRel
<1> HIDE DEF R
<1>4. PICK x \in T : \A y \in T : ~(<<y, x>> \in R)
  <2>1. T \subseteq Nat
    BY Zenon
  <2> HIDE DEF T
  <2> QED
    BY <1>1, <1>2, <2>1, WFMin, Zenon
<1>5. x \in Nat /\ x \notin S /\ x - 1 \in Nat /\ x - 1 < x /\ (x - 1) + 1 = x
  <2>1. x \in Nat /\ x \notin S /\ x # 0
    BY Zenon
  <2> QED
    BY <2>1
<1>6. x - 1 \in S
  BY <1>3, <1>4, <1>5, Zenon
<1> QED
  BY <1>5, <1>6, Zenon

\* A line that may be in the table's file.
Lines == {l \in [op : {"set", "del", "next"}, id : 1..MaxId + 1, path : Paths \cup {None}] :
            /\ l.op = "set" => l.id \in Ids /\ l.path \in Paths
            /\ l.op = "del" => l.id \in Ids}

\* The id a path is given leads back to the path.
Agree(t) == \A p \in Paths : t.byPath[p] # 0 => t.byID[t.byPath[p]] = p

\* The next id is above every id in use.
Fresh(t) == \A i \in Ids : t.byID[i] # None => i < t.next

\* The same numbering, whatever byPath finds.
Alike(t, u) == t.byID = u.byID /\ t.next = u.next

\* A path is a sequence of at most Depth names.
LEMMA PathFacts ==
  \A p : p \in Paths <=> p \in Seq(Names) /\ Len(p) <= Depth
<1>1. Depth \in Nat
  BY ShareAssumption, Zenon
<1>2. ASSUME NEW p \in Paths PROVE p \in Seq(Names) /\ Len(p) <= Depth
  <2>1. PICK k \in 0..Depth : p \in [1..k -> Names]
    BY Zenon DEF Paths
  <2>2. k \in Nat /\ k <= Depth
    BY <1>1
  <2>3. p \in Seq(Names) /\ Len(p) = k
    BY <2>1, <2>2
  <2> QED
    BY <2>2, <2>3, Zenon
<1>3. ASSUME NEW p \in Seq(Names), Len(p) <= Depth PROVE p \in Paths
  <2>1. Len(p) \in 0..Depth /\ p \in [1..Len(p) -> Names]
    BY <1>1, <1>3
  <2> QED
    BY <2>1, Zenon DEF Paths
<1> QED
  BY <1>2, <1>3, Zenon

\* No path is None.
LEMMA NoneFacts == None \notin Paths
<1> SUFFICES ASSUME None \in Seq(Names) PROVE FALSE
  BY PathFacts, Zenon
<1>1. None[1] = "none" /\ 1 \in 1..Len(None)
  BY DEF None
<1>2. None[1] \in Names
  BY <1>1
<1> QED
  BY <1>1, <1>2, ShareAssumption, Zenon

\* The parts of a table.
LEMMA TableParts ==
  ASSUME NEW t \in Tables
  PROVE  /\ t = [byID |-> t.byID, byPath |-> t.byPath, next |-> t.next]
         /\ t.byID \in [Ids -> Paths \cup {None}] /\ t.byPath \in [Paths -> 0..MaxId]
         /\ t.next \in 1..MaxId + 1 /\ t.next \in Nat
  BY ShareAssumption DEF Tables

\* Forgetting an id's path.
LEMMA ForgottenOK ==
  ASSUME NEW t \in Tables, NEW i \in Ids
  PROVE  /\ Forgotten(t, i) \in [Paths -> 0..MaxId]
         /\ \A p \in Paths : Forgotten(t, i)[p] = IF t.byID[i] = p THEN 0 ELSE t.byPath[p]
<1>1. /\ t.byID \in [Ids -> Paths \cup {None}] /\ t.byPath \in [Paths -> 0..MaxId]
      /\ 0 \in 0..MaxId
  BY TableParts, ShareAssumption
<1>2. CASE t.byID[i] = None
  BY <1>1, <1>2, NoneFacts, Zenon DEF Forgotten
<1>3. CASE t.byID[i] # None
  <2>1. t.byID[i] \in Paths
    BY <1>1, <1>3, Zenon
  <2> QED
    BY <1>1, <1>3, <2>1, Zenon DEF Forgotten
<1> QED
  BY <1>2, <1>3, Zenon

\* pathTable.set: the id gets the path, and loses the one it had.
LEMMA SetOK ==
  ASSUME NEW t \in Tables, NEW i \in Ids, NEW p \in Paths
  PROVE  /\ Set(t, i, p) \in Tables
         /\ Set(t, i, p).byID = [t.byID EXCEPT ![i] = p]
         /\ Set(t, i, p).next = Larger(t.next, i + 1)
         /\ Agree(t) => Agree(Set(t, i, p))
         /\ Fresh(t) => Fresh(Set(t, i, p))
<1> DEFINE a == [t.byID EXCEPT ![i] = p]
           b == [Forgotten(t, i) EXCEPT ![p] = i]
           n == Larger(t.next, i + 1)
           u == Set(t, i, p)
<1>1. u.byID = a /\ u.byPath = b /\ u.next = n /\ u = [byID |-> a, byPath |-> b, next |-> n]
  BY Zenon DEF Set
<1>2. /\ t.byID \in [Ids -> Paths \cup {None}] /\ t.byPath \in [Paths -> 0..MaxId]
      /\ t.next \in 1..MaxId + 1 /\ t.next \in Nat
      /\ i \in Nat /\ i <= MaxId /\ i > 0 /\ i \in 0..MaxId /\ MaxId \in Nat
  BY TableParts, ShareAssumption DEF Ids
<1>3. /\ Forgotten(t, i) \in [Paths -> 0..MaxId]
      /\ \A q \in Paths : Forgotten(t, i)[q] = IF t.byID[i] = q THEN 0 ELSE t.byPath[q]
  BY ForgottenOK, Zenon
<1>4. a \in [Ids -> Paths \cup {None}] /\ a[i] = p /\ \A j \in Ids : j # i => a[j] = t.byID[j]
  BY <1>2, Zenon
<1>5. b \in [Paths -> 0..MaxId] /\ b[p] = i /\ \A q \in Paths : q # p => b[q] = Forgotten(t, i)[q]
  BY <1>2, <1>3, Zenon
<1>6. n \in 1..MaxId + 1 /\ n >= t.next /\ n > i /\ n \in Nat
  BY <1>2 DEF Larger
<1> HIDE DEF a, b, n, u
<1>7. u \in Tables
  BY <1>1, <1>4, <1>5, <1>6, Zenon DEF Tables
<1>8. ASSUME Agree(t) PROVE Agree(u)
  <2> SUFFICES ASSUME NEW q \in Paths, b[q] # 0 PROVE a[b[q]] = q
    BY <1>1, Zenon DEF Agree
  <2>1. CASE q = p
    BY <1>4, <1>5, <2>1, Zenon
  <2>2. CASE q # p
    <3>1. t.byID[i] # q /\ b[q] = t.byPath[q]
      BY <1>3, <1>5, <2>2, Zenon
    <3>2. t.byID[b[q]] = q /\ b[q] \in Ids
      <4>1. t.byID[b[q]] = q
        BY <1>8, <3>1, Zenon DEF Agree
      <4>2. b[q] \in 0..MaxId /\ b[q] # 0
        BY <1>5, Zenon
      <4> QED
        BY <1>2, <4>1, <4>2 DEF Ids
    <3>3. b[q] # i
      BY <3>1, <3>2, Zenon
    <3> QED
      BY <1>4, <3>2, <3>3, Zenon
  <2> QED
    BY <2>1, <2>2, Zenon
<1>9. ASSUME Fresh(t) PROVE Fresh(u)
  <2> SUFFICES ASSUME NEW j \in Ids, a[j] # None PROVE j < n
    BY <1>1, Zenon DEF Fresh
  <2>1. CASE j = i
    BY <1>2, <1>6, <2>1, Zenon
  <2>2. CASE j # i
    <3>1. j < t.next /\ j \in Nat
      BY <1>2, <1>4, <1>9, <2>2 DEF Fresh, Ids
    <3> QED
      BY <1>2, <1>6, <3>1
  <2> QED
    BY <2>1, <2>2, Zenon
<1> QED
  BY <1>1, <1>7, <1>8, <1>9, Zenon DEF u, a, n

\* pathTable.del: the id has no path.
LEMMA DelOK ==
  ASSUME NEW t \in Tables, NEW i \in Ids
  PROVE  /\ Del(t, i) \in Tables
         /\ Del(t, i).byID = [t.byID EXCEPT ![i] = None]
         /\ Del(t, i).next = t.next
         /\ Agree(t) => Agree(Del(t, i))
         /\ Fresh(t) => Fresh(Del(t, i))
<1> DEFINE a == [t.byID EXCEPT ![i] = None]
           b == Forgotten(t, i)
           u == Del(t, i)
<1>1. /\ t = [byID |-> t.byID, byPath |-> t.byPath, next |-> t.next]
      /\ t.byID \in [Ids -> Paths \cup {None}] /\ t.next \in 1..MaxId + 1 /\ t.next \in Nat
  BY TableParts, Zenon
<1>2. u = [byID |-> a, byPath |-> b, next |-> t.next]
  <2>1. u = [t EXCEPT !.byID = a, !.byPath = b]
    BY <1>1, Zenon DEF Del
  <2> HIDE DEF a, b, u
  <2> QED
    BY <1>1, <2>1, Zenon
<1>3. u.byID = a /\ u.byPath = b /\ u.next = t.next
  BY <1>2
<1>4. b \in [Paths -> 0..MaxId] /\ \A q \in Paths : b[q] = IF t.byID[i] = q THEN 0 ELSE t.byPath[q]
  BY ForgottenOK, Zenon
<1>5. a \in [Ids -> Paths \cup {None}] /\ a[i] = None /\ \A j \in Ids : j # i => a[j] = t.byID[j]
  BY <1>1, Zenon
<1> HIDE DEF a, b, u
<1>6. u \in Tables
  BY <1>1, <1>2, <1>4, <1>5, Zenon DEF Tables
<1>7. ASSUME Agree(t) PROVE Agree(u)
  <2> SUFFICES ASSUME NEW q \in Paths, b[q] # 0 PROVE a[b[q]] = q
    BY <1>3, Zenon DEF Agree
  <2>1. t.byID[i] # q /\ b[q] = t.byPath[q]
    BY <1>4, Zenon
  <2>2. t.byID[b[q]] = q
    BY <1>7, <2>1, Zenon DEF Agree
  <2>3. b[q] \in Ids
    BY <1>4, ShareAssumption DEF Ids
  <2> QED
    BY <1>5, <2>1, <2>2, <2>3, Zenon
<1>8. ASSUME Fresh(t) PROVE Fresh(u)
  BY <1>3, <1>5, <1>8, Zenon DEF Fresh
<1> QED
  BY <1>3, <1>6, <1>7, <1>8, Zenon DEF u, a

\* A line keeps a table well formed.
LEMMA ApplyOK ==
  ASSUME NEW t \in Tables, NEW l \in Lines
  PROVE  /\ Apply(t, l) \in Tables
         /\ Agree(t) => Agree(Apply(t, l))
         /\ Fresh(t) => Fresh(Apply(t, l))
<1>1. CASE l.op = "set"
  <2>1. l.id \in Ids /\ l.path \in Paths /\ Apply(t, l) = Set(t, l.id, l.path)
    BY <1>1, Zenon DEF Lines, Apply
  <2> DEFINE i == l.id
             p == l.path
             u == Set(t, i, p)
  <2> HIDE DEF i, p
  <2>2. i \in Ids /\ p \in Paths /\ Apply(t, l) = u
    BY <2>1, Zenon DEF i, p
  <2>3. u \in Tables /\ (Agree(t) => Agree(u)) /\ (Fresh(t) => Fresh(u))
    BY <2>2, SetOK, Zenon
  <2> HIDE DEF u
  <2> QED
    BY <2>2, <2>3, Zenon
<1>2. CASE l.op = "del"
  <2>1. l.id \in Ids /\ Apply(t, l) = Del(t, l.id)
    BY <1>2, Zenon DEF Lines, Apply
  <2> QED
    BY <2>1, DelOK, Zenon
<1>3. CASE l.op = "next"
  <2> DEFINE n == Larger(t.next, l.id)
             u == Apply(t, l)
  <2>1. t = [byID |-> t.byID, byPath |-> t.byPath, next |-> t.next] /\ t.next \in Nat
        /\ t.next \in 1..MaxId + 1
    BY TableParts, Zenon
  <2>2. u = [byID |-> t.byID, byPath |-> t.byPath, next |-> n]
    BY <1>3, <2>1, Zenon DEF Apply
  <2>3. l.id \in 1..MaxId + 1
    BY Zenon DEF Lines
  <2>4. n \in 1..MaxId + 1 /\ n \in Nat /\ n >= t.next
    BY <2>1, <2>3, ShareAssumption DEF Larger
  <2> HIDE DEF n, u
  <2>5. u \in Tables /\ u.byID = t.byID /\ u.byPath = t.byPath /\ u.next = n
    BY <2>2, <2>4, TableParts, Zenon DEF Tables
  <2>6. Agree(t) => Agree(u)
    BY <2>5, Zenon DEF Agree
  <2>7. Fresh(t) => Fresh(u)
    <3> SUFFICES ASSUME Fresh(t), NEW i \in Ids, t.byID[i] # None PROVE i < n
      BY <2>5, Zenon DEF Fresh
    <3>1. i < t.next /\ i \in Nat
      BY ShareAssumption DEF Fresh, Ids
    <3> QED
      BY <2>1, <2>4, <3>1
  <2> QED
    BY <2>5, <2>6, <2>7, Zenon DEF u
<1> QED
  BY <1>1, <1>2, <1>3, Zenon DEF Lines

-----------------------------------------------------------------------------
(* Replaying lines.                                                        *)

\* g[k] is the table after k lines of s.
Plays(g, t, s) ==
  /\ g \in [0..Len(s) -> Tables]
  /\ g[0] = t
  /\ \A k \in 1..Len(s) : g[k] = Apply(g[k - 1], s[k])

\* There are such tables.
LEMMA PlaysExist ==
  ASSUME NEW t \in Tables, NEW s \in Seq(Lines)
  PROVE  \E g : Plays(g, t, s)
<1> DEFINE P(n) == \E g \in [0..n -> Tables] : g[0] = t /\ \A k \in 1..n : g[k] = Apply(g[k - 1], s[k])
           S == {n \in Nat : n <= Len(s) => P(n)}
<1>1. Len(s) \in Nat /\ \A k \in 1..Len(s) : s[k] \in Lines
  OBVIOUS
<1>2. P(0)
  <2> DEFINE g == [k \in 0..0 |-> t]
  <2>1. g \in [0..0 -> Tables] /\ g[0] = t /\ \A k \in 1..0 : g[k] = Apply(g[k - 1], s[k])
    OBVIOUS
  <2> QED
    BY <2>1, Zenon
<1>3. ASSUME NEW n \in Nat, n + 1 <= Len(s), P(n) PROVE P(n + 1)
  <2>1. PICK g \in [0..n -> Tables] : g[0] = t /\ \A k \in 1..n : g[k] = Apply(g[k - 1], s[k])
    BY <1>3, Zenon
  <2> DEFINE u == Apply(g[n], s[n + 1])
             h == [k \in 0..(n + 1) |-> IF k = n + 1 THEN u ELSE g[k]]
  <2>2. u \in Tables
    <3>1. g[n] \in Tables /\ s[n + 1] \in Lines
      BY <1>1, <1>3
    <3> QED
      BY <3>1, ApplyOK, Zenon
  <2> HIDE DEF u
  <2>3. h \in [0..(n + 1) -> Tables]
    BY <2>1, <2>2
  <2>4. h[0] = t
    BY <2>1
  <2>5. \A k \in 1..(n + 1) : h[k] = Apply(h[k - 1], s[k])
    <3> TAKE k \in 1..(n + 1)
    <3>1. CASE k = n + 1
      <4>1. h[k] = u /\ h[k - 1] = g[n]
        BY <3>1
      <4> QED
        BY <3>1, <4>1, Zenon DEF u
    <3>2. CASE k # n + 1
      <4>1. k \in 1..n /\ k \in 0..(n + 1) /\ k - 1 \in 0..(n + 1) /\ k - 1 # n + 1
        BY <3>2
      <4>2. h[k] = g[k] /\ h[k - 1] = g[k - 1]
        BY <3>2, <4>1, Zenon
      <4> QED
        BY <2>1, <4>1, <4>2, Zenon
    <3> QED
      BY <3>1, <3>2, Zenon
  <2> HIDE DEF h
  <2> QED
    BY <2>3, <2>4, <2>5, Zenon
<1> HIDE DEF P
<1>4. \A n \in Nat : n \in S => n + 1 \in S
  BY <1>1, <1>3
<1>5. Nat \subseteq S
  <2>1. 0 \in S
    BY <1>2, Zenon
  <2> HIDE DEF S
  <2> QED
    BY <1>4, <2>1, NatInd, Zenon
<1>6. P(Len(s))
  BY <1>1, <1>5
<1> QED
  BY <1>6, Zenon DEF P, Plays

\* Play is the last of them.
LEMMA PlayIs ==
  ASSUME NEW t, NEW s \in Seq(Lines), NEW g, Plays(g, t, s)
  PROVE  Play(t, s) = g[Len(s)] /\ Play(t, s) \in Tables
<1> DEFINE n == Len(s)
           A(f, k) == CHOOSE u \in {Apply(v, s[k]) : v \in {f[k - 1]}} : TRUE
           F(f) == [k \in 0..n |-> IF k = 0 THEN t ELSE A(f, k)]
           h == CHOOSE f : f = F(f)
<1>1. n \in Nat
  OBVIOUS
<1>2. \A f, k : A(f, k) = Apply(f[k - 1], s[k])
  BY Zenon
<1>3. Play(t, s) = h[n]
  BY Zenon DEF Play
<1> HIDE DEF A
<1>4. g = F(g)
  <2>1. g = [k \in 0..n |-> g[k]]
    BY Zenon DEF Plays
  <2>2. \A k \in 0..n : g[k] = IF k = 0 THEN t ELSE A(g, k)
    BY <1>1, <1>2 DEF Plays
  <2> QED
    BY <2>1, <2>2, Zenon
<1>5. h = F(h)
  BY <1>4, Zenon
<1> HIDE DEF h
<1>6. \A k \in 0..n : h[k] = IF k = 0 THEN t ELSE Apply(h[k - 1], s[k])
  BY <1>2, <1>5, Zenon
<1> DEFINE S == {k \in Nat : k <= n => g[k] = h[k]}
<1>7. 0 \in S
  BY <1>1, <1>6 DEF Plays
<1>8. ASSUME NEW k \in Nat, k \in S PROVE k + 1 \in S
  <2> SUFFICES ASSUME k + 1 <= n PROVE g[k + 1] = h[k + 1]
    BY <1>8
  <2>1. g[k] = h[k] /\ k + 1 \in 1..n /\ k + 1 \in 0..n /\ k + 1 # 0 /\ (k + 1) - 1 = k
    BY <1>1, <1>8
  <2>2. g[k + 1] = Apply(g[k], s[k + 1])
    BY <2>1, Zenon DEF Plays
  <2>3. h[k + 1] = Apply(h[k], s[k + 1])
    BY <1>6, <2>1, Zenon
  <2> QED
    BY <2>1, <2>2, <2>3, Zenon
<1> HIDE DEF S
<1>9. Nat \subseteq S
  BY <1>7, <1>8, NatInd, Zenon
<1>10. g[n] = h[n] /\ g[n] \in Tables
  BY <1>1, <1>9 DEF S, Plays
<1> QED
  BY <1>3, <1>10, Zenon

\* Replaying no lines, and one.
LEMMA PlayOne ==
  ASSUME NEW t \in Tables
  PROVE  Play(t, <<>>) = t /\ \A l \in Lines : Play(t, <<l>>) = Apply(t, l)
<1>1. Play(t, <<>>) = t
  <2> DEFINE s == <<>>
             g == [k \in 0..0 |-> t]
  <2>1. s \in Seq(Lines) /\ Len(s) = 0
    OBVIOUS
  <2>2. Plays(g, t, s)
    BY <2>1 DEF Plays
  <2>3. g[0] = t
    OBVIOUS
  <2> HIDE DEF g, s
  <2>4. Play(t, s) = t
    BY <2>1, <2>2, <2>3, PlayIs, Zenon
  <2> QED
    BY <2>4, Zenon DEF s
<1>2. ASSUME NEW l \in Lines PROVE Play(t, <<l>>) = Apply(t, l)
  <2> DEFINE s == <<l>>
             u == Apply(t, l)
             g == [k \in 0..1 |-> IF k = 0 THEN t ELSE u]
  <2>1. s \in Seq(Lines) /\ Len(s) = 1 /\ s[1] = l
    OBVIOUS
  <2>2. u \in Tables
    BY ApplyOK, Zenon
  <2>3. /\ g \in [0..1 -> Tables] /\ g[0] = t /\ g[1] = u
        /\ \A k \in 1..1 : k = 1 /\ g[k - 1] = t
    <3> HIDE DEF u
    <3> QED
      BY <2>2
  <2> HIDE DEF g, s
  <2>4. Plays(g, t, s)
    BY <2>1, <2>3, Zenon DEF Plays
  <2>5. Play(t, s) = u
    BY <2>1, <2>3, <2>4, PlayIs, Zenon
  <2> QED
    BY <2>5, Zenon DEF s
<1> QED
  BY <1>1, <1>2, Zenon

\* Replaying one run of lines after another.
LEMMA PlayConcat ==
  ASSUME NEW t \in Tables, NEW a \in Seq(Lines), NEW b \in Seq(Lines)
  PROVE  Play(t, a \o b) = Play(Play(t, a), b)
<1> DEFINE c == a \o b
           m == Len(a)
           n == Len(b)
<1>1. PICK g : Plays(g, t, a)
  BY PlaysExist, Zenon
<1>2. Play(t, a) = g[m] /\ g[m] \in Tables
  BY <1>1, PlayIs, Zenon
<1>3. PICK h : Plays(h, g[m], b)
  BY <1>2, PlaysExist, Zenon
<1>4. Play(g[m], b) = h[n] /\ h[n] \in Tables
  BY <1>3, PlayIs, Zenon
<1>5. /\ m \in Nat /\ n \in Nat /\ c \in Seq(Lines) /\ Len(c) = m + n
      /\ \A k \in 1..m : c[k] = a[k]
      /\ \A k \in 1..n : c[m + k] = b[k]
  OBVIOUS
<1>6. g \in [0..m -> Tables] /\ g[0] = t /\ \A k \in 1..m : g[k] = Apply(g[k - 1], a[k])
  BY <1>1, Zenon DEF Plays
<1>7. h \in [0..n -> Tables] /\ h[0] = g[m] /\ \A k \in 1..n : h[k] = Apply(h[k - 1], b[k])
  BY <1>3, Zenon DEF Plays
<1> HIDE DEF c, m, n
<1> DEFINE f == [k \in 0..(m + n) |-> IF k <= m THEN g[k] ELSE h[k - m]]
<1>8. \A k \in 0..n : m + k \in 0..(m + n) /\ f[m + k] = h[k]
  <2> TAKE k \in 0..n
  <2>1. m + k \in 0..(m + n) /\ (m + k) - m = k
    BY <1>5
  <2>2. CASE k = 0
    <3>1. m + k = m
      BY <1>5, <2>2
    <3> QED
      BY <1>5, <1>7, <2>1, <2>2, <3>1, Zenon
  <2>3. CASE k # 0
    <3>1. ~(m + k <= m)
      BY <1>5, <2>3
    <3> QED
      BY <2>1, <3>1, Zenon
  <2> QED
    BY <2>2, <2>3, Zenon
<1>9. \A k \in 0..m : k \in 0..(m + n) /\ f[k] = g[k]
  BY <1>5
<1>10. \A k \in 0..(m + n) : k \in 0..m \/ (k > m /\ k - m \in 1..n /\ m + (k - m) = k)
  BY <1>5
<1>11. DOMAIN f = 0..(m + n) /\ f = [k \in 0..(m + n) |-> f[k]]
  BY Zenon
<1> HIDE DEF f
<1>12. f \in [0..(m + n) -> Tables]
  <2>1. ASSUME NEW k \in 0..(m + n) PROVE f[k] \in Tables
    <3>1. CASE k \in 0..m
      BY <1>6, <1>9, <3>1, Zenon
    <3>2. CASE k - m \in 1..n /\ m + (k - m) = k
      <4>1. k - m \in 0..n
        BY <1>5, <3>2
      <4>2. f[k] = h[k - m]
        BY <1>8, <3>2, <4>1, Zenon
      <4> QED
        BY <1>7, <4>1, <4>2, Zenon
    <3> QED
      BY <1>10, <3>1, <3>2, Zenon
  <2> QED
    BY <1>11, <2>1, Zenon
<1>13. \A k \in 1..(m + n) : f[k] = Apply(f[k - 1], c[k])
  <2> TAKE k \in 1..(m + n)
  <2>1. CASE k \in 1..m
    <3>1. k \in 0..m /\ k - 1 \in 0..m
      BY <1>5, <2>1
    <3> QED
      BY <1>5, <1>6, <1>9, <2>1, <3>1, Zenon
  <2>2. CASE k \notin 1..m
    <3> DEFINE j == k - m
    <3>1. j \in 1..n /\ j \in 0..n /\ j - 1 \in 0..n /\ m + j = k /\ m + (j - 1) = k - 1
      BY <1>5, <2>2
    <3> HIDE DEF j
    <3>2. f[k] = h[j] /\ f[k - 1] = h[j - 1] /\ c[k] = b[j]
      <4>1. f[m + j] = h[j] /\ f[m + (j - 1)] = h[j - 1]
        BY <1>8, <3>1, Zenon
      <4>2. c[m + j] = b[j]
        BY <1>5, <3>1, Zenon
      <4> QED
        BY <3>1, <4>1, <4>2, Zenon
    <3>3. h[j] = Apply(h[j - 1], b[j])
      BY <1>7, <3>1, Zenon
    <3> QED
      BY <3>2, <3>3, Zenon
  <2> QED
    BY <2>1, <2>2, Zenon
<1>14. f[0] = t /\ f[m + n] = h[n]
  BY <1>5, <1>6, <1>8, <1>9
<1>15. Plays(f, t, c)
  BY <1>5, <1>12, <1>13, <1>14, Zenon DEF Plays
<1>16. Play(t, c) = f[m + n]
  BY <1>5, <1>15, PlayIs, ZenonT(60)
<1> QED
  BY <1>2, <1>4, <1>14, <1>16, Zenon DEF c

\* What each line keeps, a run of lines keeps.
LEMMA PlayKeeps ==
  ASSUME NEW T \in SUBSET Tables, NEW t \in T, NEW s \in Seq(Lines),
         \A u \in T : \A k \in 1..Len(s) : Apply(u, s[k]) \in T
  PROVE  Play(t, s) \in T
<1>1. PICK g : Plays(g, t, s)
  BY PlaysExist, Zenon
<1> DEFINE S == {k \in Nat : k <= Len(s) => g[k] \in T}
<1>2. 0 \in S
  BY <1>1, Zenon DEF Plays
<1>3. ASSUME NEW k \in Nat, k \in S PROVE k + 1 \in S
  <2> SUFFICES ASSUME k + 1 <= Len(s) PROVE g[k + 1] \in T
    BY <1>3
  <2>1. g[k] \in T /\ k + 1 \in 1..Len(s) /\ (k + 1) - 1 = k
    BY <1>3
  <2>2. g[k + 1] = Apply(g[k], s[k + 1])
    BY <1>1, <2>1, Zenon DEF Plays
  <2> QED
    BY <2>1, <2>2, Zenon
<1> HIDE DEF S
<1>4. Nat \subseteq S
  BY <1>2, <1>3, NatInd, Zenon
<1>5. g[Len(s)] \in T
  BY <1>4 DEF S
<1> QED
  BY <1>1, <1>5, PlayIs, Zenon

\* So replaying keeps a table well formed.
LEMMA PlayOK ==
  ASSUME NEW t \in Tables, NEW s \in Seq(Lines), Agree(t), Fresh(t)
  PROVE  Play(t, s) \in Tables /\ Agree(Play(t, s)) /\ Fresh(Play(t, s))
<1> DEFINE T == {u \in Tables : Agree(u) /\ Fresh(u)}
<1>1. \A u \in T : \A k \in 1..Len(s) : Apply(u, s[k]) \in T
  <2> TAKE u \in T
  <2> TAKE k \in 1..Len(s)
  <2>1. s[k] \in Lines
    OBVIOUS
  <2> QED
    BY <2>1, ApplyOK, Zenon
<1>2. t \in T /\ T \in SUBSET Tables
  BY Zenon
<1> HIDE DEF T
<1>3. Play(t, s) \in T
  BY <1>1, <1>2, PlayKeeps, Zenon
<1> QED
  BY <1>3, Zenon DEF T

\* A table with nothing in it.
LEMMA EmptyOK == Empty \in Tables /\ Agree(Empty) /\ Fresh(Empty)
  BY ShareAssumption DEF Empty, Tables, Agree, Fresh, Ids

\* What a line does to the ids.
LEMMA ApplyIds ==
  ASSUME NEW t \in Tables, NEW l \in Lines, l.id < t.next, l.op \in {"set", "del"},
         NEW x, x = IF l.op = "set" THEN l.path ELSE None
  PROVE  /\ Apply(t, l).byID = [t.byID EXCEPT ![l.id] = x]
         /\ Apply(t, l).next = t.next
<1>1. l.id \in Ids
  BY Zenon DEF Lines
<1>2. t.next \in Nat
  BY TableParts, Zenon
<1>3. CASE l.op = "set"
  <2> DEFINE i == l.id
  <2>1. i \in Ids /\ x \in Paths /\ Apply(t, l) = Set(t, i, x)
    BY <1>3, Zenon DEF Lines, Apply
  <2>2. i \in Nat /\ i < t.next
    BY <2>1, ShareAssumption DEF Ids
  <2> HIDE DEF i
  <2>3. Set(t, i, x).byID = [t.byID EXCEPT ![i] = x] /\ Set(t, i, x).next = Larger(t.next, i + 1)
    BY <2>1, SetOK
  <2>4. Larger(t.next, i + 1) = t.next
    BY <1>2, <2>2 DEF Larger
  <2> QED
    BY <2>1, <2>3, <2>4, Zenon DEF i
<1>4. CASE l.op = "del"
  <2>1. Apply(t, l) = Del(t, l.id) /\ x = None
    BY <1>4, Zenon DEF Apply
  <2> QED
    BY <1>1, <2>1, DelOK
<1> QED
  BY <1>3, <1>4, Zenon

\* Lines about ids below next that say of each id what h says of it.
Says(s, h, n) ==
  /\ s \in Seq(Lines)
  /\ \A k \in 1..Len(s) :
       /\ s[k].id \in Ids /\ s[k].id < n
       /\ \/ s[k].op = "set" /\ h[s[k].id] = s[k].path
          \/ s[k].op = "del" /\ h[s[k].id] = None

\* The ids that lines are about.
About(s) == {s[k].id : k \in 1..Len(s)}

\* Such lines give each id they are about what h says, in whatever order they come.
LEMMA Bulk ==
  ASSUME NEW t \in Tables, NEW s, NEW h, Says(s, h, t.next)
  PROVE  /\ Play(t, s).next = t.next
         /\ Play(t, s).byID = [i \in Ids |-> IF i \in About(s) THEN h[i] ELSE t.byID[i]]
<1> DEFINE n == Len(s)
           to(k) == {s[j].id : j \in 1..k}
           G(k) == [i \in Ids |-> IF i \in to(k) THEN h[i] ELSE t.byID[i]]
<1>1. s \in Seq(Lines) /\ n \in Nat /\ \A k \in 1..n : s[k] \in Lines
  BY DEF Says
<1>2. PICK g : Plays(g, t, s)
  BY <1>1, PlaysExist, Zenon
<1>3. t.byID \in [Ids -> Paths \cup {None}]
  BY TableParts, Zenon
<1> DEFINE S == {k \in Nat : k <= n => g[k].next = t.next /\ g[k].byID = G(k)}
<1>4. 0 \in S
  <2>1. g[0] = t /\ to(0) = {}
    BY <1>2 DEF Plays
  <2>2. G(0) = t.byID
    <3> HIDE DEF to
    <3> QED
      BY <1>3, <2>1, Zenon
  <2> QED
    BY <2>1, <2>2, Zenon
<1>5. ASSUME NEW k \in Nat, k \in S PROVE k + 1 \in S
  <2> SUFFICES ASSUME k + 1 <= n PROVE g[k + 1].next = t.next /\ g[k + 1].byID = G(k + 1)
    BY <1>5
  <2>1. /\ g[k].next = t.next /\ g[k].byID = G(k) /\ k + 1 \in 1..n /\ (k + 1) - 1 = k
        /\ k \in 0..n
    BY <1>1, <1>5
  <2> DEFINE l == s[k + 1]
             i == l.id
  <2>2. g[k + 1] = Apply(g[k], l) /\ g[k] \in Tables
    BY <1>1, <1>2, <2>1, Zenon DEF Plays
  <2>3. l \in Lines /\ i \in Ids /\ i < g[k].next
        /\ ((l.op = "set" /\ h[i] = l.path) \/ (l.op = "del" /\ h[i] = None))
    <3>1. /\ l.id \in Ids /\ l.id < t.next
          /\ \/ l.op = "set" /\ h[l.id] = l.path
             \/ l.op = "del" /\ h[l.id] = None
      BY <2>1, Zenon DEF Says
    <3> QED
      BY <1>1, <2>1, <3>1, Zenon
  <2>4. to(k + 1) = to(k) \cup {i}
    <3>1. \A j \in 1..(k + 1) : j \in 1..k \/ j = k + 1
      BY <1>5
    <3>2. \A j \in 1..k : j \in 1..(k + 1)
      BY <1>5
    <3>3. k + 1 \in 1..(k + 1)
      BY <1>5
    <3> QED
      BY <3>1, <3>2, <3>3, Zenon
  <2> HIDE DEF l, to
  <2>5. /\ g[k + 1].next = t.next
        /\ g[k + 1].byID = [G(k) EXCEPT ![i] = h[i]]
    <3> DEFINE u == g[k]
               x == h[i]
    <3>1. l.op \in {"set", "del"} /\ x = IF l.op = "set" THEN l.path ELSE None
      BY <2>3, Zenon
    <3>2. u \in Tables /\ l \in Lines /\ l.id < u.next
      BY <2>2, <2>3, Zenon
    <3> HIDE DEF u, x
    <3>3. Apply(u, l).byID = [u.byID EXCEPT ![l.id] = x] /\ Apply(u, l).next = u.next
      BY <3>1, <3>2, ApplyIds
    <3> HIDE DEF G
    <3> QED
      BY <2>1, <2>2, <3>3, Zenon DEF u, x
  <2> HIDE DEF i
  <2>6. [G(k) EXCEPT ![i] = h[i]] = G(k + 1)
    BY <2>3, <2>4, Zenon
  <2> QED
    BY <2>5, <2>6, Zenon
<1> HIDE DEF S
<1>6. Nat \subseteq S
  BY <1>4, <1>5, NatInd, Zenon
<1>7. g[n].next = t.next /\ g[n].byID = G(n)
  BY <1>1, <1>6 DEF S
<1>8. Play(t, s) = g[n]
  BY <1>1, <1>2, PlayIs, Zenon
<1> QED
  BY <1>7, <1>8, Zenon DEF About

\* An order is a sequence of all the keys.
LEMMA Enumerates ==
  ASSUME NEW S, NEW f \in Orders(S)
  PROVE  f \in Seq(S) /\ DOMAIN f = 1..Len(f) /\ \A x \in S : \E k \in DOMAIN f : f[k] = x
<1>1. PICK n \in 0..MaxId : f \in [1..n -> S]
  BY Zenon DEF Orders
<1>2. n \in Nat
  BY ShareAssumption
<1> QED
  BY <1>1, <1>2 DEF Orders

\* The lines of remove, move and the compacted file: about the ids of S, one each.
LEMMA LinesSay ==
  ASSUME NEW S \in SUBSET Ids, NEW h, NEW op \in {"set", "del"},
         \A i \in S : IF op = "set" THEN h[i] \in Paths ELSE h[i] = None,
         NEW n \in Nat, \A i \in S : i < n,
         NEW ids \in Orders(S)
  PROVE  LET s == [k \in DOMAIN ids |-> Line(op, ids[k], h[ids[k]])]
         IN  Says(s, h, n) /\ About(s) = S
<1> DEFINE s == [k \in DOMAIN ids |-> Line(op, ids[k], h[ids[k]])]
<1>1. ids \in Seq(S) /\ DOMAIN ids = 1..Len(ids) /\ \A x \in S : \E k \in DOMAIN ids : ids[k] = x
  BY Enumerates
<1>2. ASSUME NEW i \in S
      PROVE  /\ Line(op, i, h[i]) \in Lines /\ Line(op, i, h[i]).id = i
             /\ Line(op, i, h[i]).op = op /\ Line(op, i, h[i]).path = h[i]
  <2>1. i \in Ids /\ i \in 1..MaxId + 1
    BY ShareAssumption DEF Ids
  <2>2. h[i] \in Paths \cup {None}
    BY Zenon
  <2> QED
    BY <2>1, <2>2, Zenon DEF Lines, Line
<1>3. \A k \in 1..Len(ids) : ids[k] \in S
  BY <1>1
<1>4. s \in Seq(Lines) /\ Len(s) = Len(ids) /\ DOMAIN s = 1..Len(ids)
  <2>1. Len(ids) \in Nat /\ \A k \in 1..Len(ids) : Line(op, ids[k], h[ids[k]]) \in Lines
    BY <1>1, <1>2, <1>3
  <2>2. s \in [1..Len(ids) -> Lines]
    BY <1>1, <2>1, Zenon
  <2> HIDE DEF s
  <2> QED
    BY <2>1, <2>2
<1>5. \A k \in 1..Len(ids) : s[k] = Line(op, ids[k], h[ids[k]])
  BY <1>1, Zenon
<1> HIDE DEF s
<1>6. Says(s, h, n)
  <2>1. ASSUME NEW k \in 1..Len(s)
        PROVE  /\ s[k].id \in Ids /\ s[k].id < n
               /\ \/ s[k].op = "set" /\ h[s[k].id] = s[k].path
                  \/ s[k].op = "del" /\ h[s[k].id] = None
    <3>1. ids[k] \in S
      BY <1>3, <1>4, Zenon
    <3>2. s[k].id = ids[k] /\ s[k].op = op /\ s[k].path = h[ids[k]]
      BY <1>2, <1>4, <1>5, <3>1
    <3> QED
      BY <3>1, <3>2, Zenon
  <2> QED
    BY <1>4, <2>1, Zenon DEF Says
<1>7. About(s) = S
  <2>1. \A k \in 1..Len(ids) : s[k].id = ids[k]
    BY <1>2, <1>3, <1>5, Zenon
  <2> QED
    BY <1>1, <1>3, <1>4, <2>1 DEF About
<1> QED
  BY <1>6, <1>7, Zenon DEF s

-----------------------------------------------------------------------------
(* What the operations do to the table and its file.                       *)

\* What the lines s of a change make of a table t and its file f.
Changed(t, f, s, h) ==
  /\ Play(t, s) \in Tables /\ Agree(Play(t, s)) /\ Fresh(Play(t, s))
  /\ f \o s \in Seq(Lines) /\ Alike(Play(Empty, f \o s), Play(t, s))
  /\ Play(t, s).next = t.next
  /\ Play(t, s).byID = [i \in Ids |-> IF i \in About(s) THEN h[i] ELSE t.byID[i]]

\* Lines about ids in use, appended to the file and done to the table.
LEMMA ChangeAlike ==
  ASSUME NEW t \in Tables, Agree(t), Fresh(t), NEW f \in Seq(Lines), Alike(Play(Empty, f), t),
         NEW s, NEW h, Says(s, h, t.next)
  PROVE  Changed(t, f, s, h)
<1> DEFINE e == Play(Empty, f)
<1>1. s \in Seq(Lines)
  BY Zenon DEF Says
<1>2. e \in Tables /\ e.next = t.next /\ e.byID = t.byID
  BY EmptyOK, PlayOK, Zenon DEF Alike
<1>3. Play(Empty, f \o s) = Play(e, s) /\ f \o s \in Seq(Lines)
  BY <1>1, EmptyOK, PlayConcat
<1> HIDE DEF e
<1>4. /\ Play(t, s).next = t.next
      /\ Play(t, s).byID = [i \in Ids |-> IF i \in About(s) THEN h[i] ELSE t.byID[i]]
  BY Bulk
<1>5. /\ Play(e, s).next = e.next
      /\ Play(e, s).byID = [i \in Ids |-> IF i \in About(s) THEN h[i] ELSE e.byID[i]]
  <2>1. Says(s, h, e.next)
    BY <1>2, Zenon
  <2> QED
    BY <1>2, <2>1, Bulk
<1>6. Play(t, s) \in Tables /\ Agree(Play(t, s)) /\ Fresh(Play(t, s))
  BY <1>1, PlayOK, Zenon
<1>7. Alike(Play(e, s), Play(t, s))
  BY <1>2, <1>4, <1>5, Zenon DEF Alike
<1> QED
  BY <1>3, <1>4, <1>6, <1>7, Zenon DEF Changed

\* idFor's line: the next id gets the path.
LEMMA NumberAlike ==
  ASSUME NEW t \in Tables, Agree(t), Fresh(t), NEW f \in Seq(Lines), Alike(Play(Empty, f), t),
         t.next \in Ids, NEW p \in Paths
  PROVE  LET u == Set(t, t.next, p)
             g == Append(f, Line("set", t.next, p))
         IN  /\ u \in Tables /\ Agree(u) /\ Fresh(u)
             /\ g \in Seq(Lines) /\ Alike(Play(Empty, g), u)
             /\ u.next = t.next + 1 /\ u.byID = [t.byID EXCEPT ![t.next] = p]
<1> DEFINE n == t.next
           l == Line("set", n, p)
           e == Play(Empty, f)
           u == Set(t, n, p)
           g == Append(f, l)
<1>1. n \in Ids /\ n \in Nat /\ n \in 1..MaxId + 1
  BY TableParts, Zenon
<1>2. e \in Tables /\ e.next = n /\ e.byID = t.byID
  BY EmptyOK, PlayOK, Zenon DEF Alike
<1> HIDE DEF n
<1>3. l \in Lines /\ l.op = "set" /\ l.id = n /\ l.path = p
  BY <1>1, Zenon DEF Lines, Line
<1>4. Apply(e, l) = Set(e, n, p)
  BY <1>3, Zenon DEF Apply
<1> HIDE DEF l, e
<1>5. g = f \o <<l>> /\ <<l>> \in Seq(Lines) /\ g \in Seq(Lines)
  BY <1>3
<1>6. Play(Empty, g) = Set(e, n, p)
  <2> DEFINE o == <<l>>
  <2>1. Play(e, o) = Apply(e, l)
    BY <1>2, <1>3, PlayOne, Zenon
  <2>2. o \in Seq(Lines) /\ g = f \o o
    BY <1>5, Zenon
  <2> HIDE DEF o, g
  <2>3. Play(Empty, g) = Play(e, o)
    BY <2>2, EmptyOK, PlayConcat, Zenon DEF e
  <2> QED
    BY <1>4, <2>1, <2>3, Zenon
<1>7. /\ u \in Tables /\ Agree(u) /\ Fresh(u)
      /\ u.byID = [t.byID EXCEPT ![n] = p] /\ u.next = Larger(t.next, n + 1)
  BY <1>1, SetOK
<1>8. Set(e, n, p).byID = [e.byID EXCEPT ![n] = p] /\ Set(e, n, p).next = Larger(e.next, n + 1)
  BY <1>1, <1>2, SetOK
<1>9. Larger(n, n + 1) = n + 1
  BY <1>1 DEF Larger
<1>10. Alike(Play(Empty, g), u)
  BY <1>2, <1>6, <1>7, <1>8, Zenon DEF Alike, n
<1> QED
  BY <1>5, <1>7, <1>9, <1>10, Zenon DEF n, l

\* The file openPathTable writes replays to the table it was written from.
LEMMA CompactedAlike ==
  ASSUME NEW t \in Tables, Fresh(t), NEW f \in Compacted(t)
  PROVE  f \in Seq(Lines) /\ Alike(Play(Empty, f), t)
<1> DEFINE h == t.byID
           n == t.next
           S == InUse(t)
           first == Line("next", n, None)
           e == Apply(Empty, first)
<1>1. h \in [Ids -> Paths \cup {None}] /\ n \in 1..MaxId + 1 /\ n \in Nat
  BY TableParts, Zenon
<1>2. S \subseteq Ids /\ \A i \in S : h[i] \in Paths /\ i < n
  BY <1>1, Zenon DEF InUse, Fresh
<1>3. PICK sets \in Sorted(t) : f = <<first>> \o sets
  BY Zenon DEF Compacted
<1>4. PICK ids \in Orders(S) : sets = [k \in DOMAIN ids |-> Line("set", ids[k], h[ids[k]])]
  BY <1>3, Zenon DEF Sorted
<1> HIDE DEF S, h, n
<1>5. Says(sets, h, n) /\ About(sets) = S
  <2> DEFINE op == "set"
  <2>1. op \in {"set", "del"} /\ (\A i \in S : IF op = "set" THEN h[i] \in Paths ELSE h[i] = None)
        /\ sets = [k \in DOMAIN ids |-> Line(op, ids[k], h[ids[k]])]
    BY <1>2, <1>4, Zenon
  <2> HIDE DEF op
  <2> QED
    BY <1>1, <1>2, <1>4, <2>1, LinesSay
<1>6. first \in Lines /\ first.op = "next" /\ first.id = n
  BY <1>1, Zenon DEF Lines, Line
<1>7. e.byID = Empty.byID /\ e.next = n
  <2>1. Empty.next = 1 /\ Larger(1, n) = n
    BY <1>1 DEF Empty, Larger
  <2>2. e = [Empty EXCEPT !.next = Larger(Empty.next, n)]
    BY <1>6, Zenon DEF Apply
  <2> HIDE DEF e
  <2> QED
    BY <2>1, <2>2, Zenon DEF Empty
<1> HIDE DEF first
<1>8. e \in Tables
  BY <1>6, EmptyOK, ApplyOK, Zenon
<1>9. <<first>> \in Seq(Lines) /\ sets \in Seq(Lines) /\ f \in Seq(Lines)
  BY <1>3, <1>5, <1>6 DEF Says
<1>10. Play(Empty, f) = Play(e, sets)
  <2> DEFINE o == <<first>>
  <2>1. Play(Empty, o) = e
    BY <1>6, EmptyOK, PlayOne, Zenon
  <2>2. o \in Seq(Lines) /\ f = o \o sets
    BY <1>3, <1>9, Zenon
  <2> HIDE DEF o
  <2>3. Play(Empty, f) = Play(Play(Empty, o), sets)
    BY <1>9, <2>2, EmptyOK, PlayConcat
  <2> QED
    BY <2>1, <2>3, Zenon
<1> HIDE DEF e
<1>11. /\ Play(e, sets).next = n
       /\ Play(e, sets).byID = [i \in Ids |-> IF i \in S THEN h[i] ELSE e.byID[i]]
  <2>1. Says(sets, h, e.next)
    BY <1>5, <1>7, Zenon
  <2> QED
    BY <1>5, <1>7, <1>8, <2>1, Bulk
<1>12. [i \in Ids |-> IF i \in S THEN h[i] ELSE e.byID[i]] = h
  <2>1. \A i \in Ids : i \notin S => h[i] = None
    BY Zenon DEF S, h, InUse
  <2>2. \A i \in Ids : e.byID[i] = None
    BY <1>7, Zenon DEF Empty
  <2> QED
    BY <1>1, <2>1, <2>2, Zenon
<1> QED
  BY <1>9, <1>10, <1>11, <1>12, Zenon DEF Alike, h, n

\* The first lines of a change.
LEMMA PrefixSays ==
  ASSUME NEW s, NEW h, NEW n, Says(s, h, n), NEW m \in 0..Len(s)
  PROVE  Says(SubSeq(s, 1, m), h, n) /\ About(SubSeq(s, 1, m)) \subseteq About(s)
<1> DEFINE u == SubSeq(s, 1, m)
<1>1. s \in Seq(Lines) /\ Len(s) \in Nat /\ m \in Nat
  BY DEF Says
<1>2. u \in Seq(Lines) /\ Len(u) = m /\ \A k \in 1..m : u[k] = s[k]
  BY <1>1
<1>3. 1..m \subseteq 1..Len(s)
  BY <1>1
<1> HIDE DEF u
<1>4. Says(u, h, n)
  BY <1>2, <1>3, Zenon DEF Says
<1>5. About(u) \subseteq About(s)
  BY <1>2, <1>3, Zenon DEF About
<1> QED
  BY <1>4, <1>5, Zenon DEF u

\* remove says of every id below the path that it has none.
LEMMA ForgetSays ==
  ASSUME mem \in Tables, Fresh(mem), NEW c, NEW s \in ForgetLines(c)
  PROVE  LET gone == IF conn[c].op = "rename" THEN conn[c].to ELSE conn[c].rel
         IN  Says(s, [i \in Ids |-> None], mem.next) /\ About(s) = Below(mem, gone)
<1> DEFINE gone == IF conn[c].op = "rename" THEN conn[c].to ELSE conn[c].rel
           S == Below(mem, gone)
           h == [i \in Ids |-> None]
           op == "del"
<1>1. PICK ids \in Orders(S) : s = [k \in DOMAIN ids |-> Line("del", ids[k], None)]
  BY Zenon DEF ForgetLines
<1>2. S \in SUBSET Ids /\ mem.next \in Nat /\ \A i \in S : i < mem.next
  BY TableParts, Zenon DEF Below, InUse, Fresh
<1> HIDE DEF S
<1>4. \A k \in DOMAIN ids : ids[k] \in S
  BY Enumerates
<1>5. /\ op \in {"set", "del"} /\ \A i \in S : IF op = "set" THEN h[i] \in Paths ELSE h[i] = None
  BY <1>2, Zenon
<1>6. s = [k \in DOMAIN ids |-> Line(op, ids[k], h[ids[k]])]
  BY <1>1, <1>2, <1>4, Zenon
<1> HIDE DEF h, op
<1>7. Says(s, h, mem.next) /\ About(s) = S
  BY <1>2, <1>5, <1>6, LinesSay
<1> QED
  BY <1>7, Zenon DEF h, S

\* Rebasing a path.
LEMMA RebasedSeq ==
  ASSUME NEW x \in Paths, NEW p \in Paths, NEW q \in Paths
  PROVE  Rebased(x, p, q) \in Seq(Names)
<1>1. x \in Seq(Names) /\ p \in Seq(Names) /\ q \in Seq(Names)
  BY PathFacts, Zenon
<1>2. SubSeq(x, Len(p) + 1, Len(x)) \in Seq(Names)
  <2>1. \A k \in (Len(p) + 1)..Len(x) : x[k] \in Names
    BY <1>1
  <2>2. Len(p) + 1 \in Int /\ Len(x) \in Int
    BY <1>1
  <2> QED
    BY <1>1, <2>1, <2>2
<1> QED
  BY <1>1, <1>2 DEF Rebased

\* What a move says of the ids.
Moves(t, p, q) == [i \in Ids |-> IF i \in Below(t, p) THEN Rebased(t.byID[i], p, q) ELSE None]

\* move says of every id below the path where it goes.
LEMMA MoveSays ==
  ASSUME scene \in Scenes, mem \in Tables, Fresh(mem),
         NEW c, conn[c].rel \in Paths, conn[c].to \in Paths, NEW s \in MoveLines(c), InBounds(s)
  PROVE  /\ Says(s, Moves(mem, conn[c].rel, conn[c].to), mem.next)
         /\ About(s) = Below(mem, conn[c].rel)
<1> DEFINE p == conn[c].rel
           q == conn[c].to
           S == Below(mem, p)
           h == Moves(mem, p, q)
           op == "set"
<1> HIDE DEF p, q
<1>1. PICK ids \in Orders(S) : s = [k \in DOMAIN ids |-> Line("set", ids[k], Rebased(mem.byID[ids[k]], p, q))]
  BY Zenon DEF MoveLines, p, q
<1>2. /\ S \in SUBSET Ids /\ mem.next \in Nat
      /\ \A i \in S : i < mem.next /\ mem.byID[i] \in Paths
  BY TableParts, Zenon DEF Below, InUse, Fresh
<1>4. \A i \in S : h[i] = Rebased(mem.byID[i], p, q)
  BY <1>2, Zenon DEF Moves
<1> HIDE DEF S, h
<1>5. /\ \A k \in DOMAIN ids : ids[k] \in S
      /\ \A i \in S : \E k \in DOMAIN ids : ids[k] = i
  BY Enumerates
<1>6. ASSUME NEW i \in S PROVE h[i] \in Paths
  <2>1. PICK k \in DOMAIN ids : ids[k] = i
    BY <1>5, Zenon
  <2>2. s[k] = Line("set", i, h[i]) /\ k \in DOMAIN s
    BY <1>1, <1>4, <2>1, Zenon
  <2>3. h[i] = None \/ Len(h[i]) <= scene.depth
    BY <2>2 DEF InBounds, Line
  <2>4. h[i] \in Seq(Names)
    BY <1>2, <1>4, RebasedSeq, Zenon DEF p, q
  <2>5. h[i] # None
    <3>1. None[1] = "none" /\ 1 \in 1..Len(None)
      BY DEF None
    <3>2. None \in Seq(Names) => None[1] \in Names
      BY <3>1
    <3> QED
      BY <2>4, <3>1, <3>2, ShareAssumption, Zenon
  <2>6. scene.depth \in Nat /\ scene.depth <= Depth /\ Depth \in Nat
    BY ShareAssumption
  <2>7. Len(h[i]) <= Depth
    <3>1. Len(h[i]) \in Nat
      BY <2>4
    <3> QED
      BY <2>3, <2>5, <2>6, <3>1
  <2> QED
    BY <2>4, <2>7, PathFacts, Zenon
<1>7. /\ op \in {"set", "del"} /\ \A i \in S : IF op = "set" THEN h[i] \in Paths ELSE h[i] = None
  BY <1>6, Zenon
<1>8. s = [k \in DOMAIN ids |-> Line(op, ids[k], h[ids[k]])]
  BY <1>1, <1>4, <1>5, Zenon
<1> HIDE DEF op
<1>9. Says(s, h, mem.next) /\ About(s) = S
  BY <1>2, <1>7, <1>8, LinesSay
<1> QED
  BY <1>9, Zenon DEF h, S, p, q

-----------------------------------------------------------------------------
(* The invariant.                                                          *)

Calls == [pc : {"idle", "stat", "number", "host", "forget", "move"}, op : Ops,
          rel : Paths, to : Paths, seen : 0..MaxFiles, left : 0..2]

\* The host directory.
HostInv ==
  /\ scene \in Scenes
  /\ host \in [Paths -> 0..MaxFiles] /\ dirs \subseteq Files /\ nfiles \in Files

\* The connections: the server is up while one is busy, and an operation that is about to
\* number a path has seen a file there.
ConnInv ==
  /\ conn \in [Conns -> Calls]
  /\ \A c \in Conns : conn[c].pc # "idle" => phase = "up"
  /\ \A c \in Conns : conn[c].pc = "number" => conn[c].seen # 0
  /\ issued \subseteq [id : Ids, file : Files]

\* The table and its file: the table is well formed, and the file replays to it.
TableInv ==
  /\ phase \in {"down", "loaded", "up"}
  /\ mem \in Tables /\ Agree(mem) /\ Fresh(mem)
  /\ log \in Seq(Lines)
  /\ phase = "up" => Alike(Play(Empty, log), mem)
  /\ phase = "loaded" => mem = Play(Empty, log)

\* The root and None are as they should be.
LEMMA RootFacts == Root \in Paths
<1>1. <<>> \in Seq(Names) /\ Len(<<>>) = 0 /\ Depth \in Nat
  BY ShareAssumption
<1>2. Len(<<>>) <= Depth
  BY <1>1
<1> QED
  BY <1>1, <1>2, PathFacts, Zenon DEF Root

\* The files and the bounds of a scene.
LEMMA SceneFacts ==
  ASSUME scene \in Scenes
  PROVE  /\ scene.files \in 1..MaxFiles /\ scene.ids \in 1..MaxId /\ scene.depth \in 0..Depth
         /\ MaxFiles \in Nat /\ MaxId \in Nat /\ Depth \in Nat /\ 1 \in Files
  BY ShareAssumption DEF Files

\* A connection that is idle.
LEMMA IdleFacts == Idle \in Calls /\ Idle.pc = "idle"
  BY RootFacts, ShareAssumption DEF Idle, Calls, Ops

\* A server that has not been started.
LEMMA ShareInit == Init => HostInv /\ ConnInv /\ TableInv
<1> SUFFICES ASSUME Init PROVE HostInv /\ ConnInv /\ TableInv
  BY Zenon
<1>1. HostInv
  <2>1. scene \in Scenes /\ 1 \in 0..MaxFiles /\ 0 \in 0..MaxFiles /\ 1 \in Files
    BY SceneFacts DEF Init
  <2> QED
    BY <2>1, Zenon DEF Init, HostInv
<1>2. ConnInv
  BY IdleFacts, Zenon DEF Init, ConnInv
<1>3. TableInv
  <2>1. <<>> \in Seq(Lines)
    OBVIOUS
  <2> QED
    BY <2>1, EmptyOK, Zenon DEF Init, TableInv
<1> QED
  BY <1>1, <1>2, <1>3, Zenon

\* Every step keeps the types of the host directory.
LEMMA HostNext == HostInv /\ ConnInv /\ [Next]_vars => HostInv'
<1> SUFFICES ASSUME HostInv, ConnInv, [Next]_vars PROVE HostInv'
  BY Zenon
<1>1. ASSUME unchangedHost PROVE HostInv'
  BY <1>1, Zenon DEF unchangedHost, HostInv
<1>2. ASSUME NEW c \in Conns, Make(c) PROVE HostInv'
  <2>1. CASE HostMake(conn[c].rel, conn[c].op = "mkdir")
    <3> DEFINE p == conn[c].rel
    <3>1. scene' = scene
      BY <1>2, Zenon DEF Make, unchangedTable
    <3>2. /\ nfiles < scene.files /\ nfiles' = nfiles + 1 /\ host' = [host EXCEPT ![p] = nfiles']
          /\ dirs' \subseteq dirs \cup {nfiles'}
      BY <2>1, Zenon DEF HostMake
    <3>3. nfiles' \in Files /\ nfiles' \in 0..MaxFiles
      BY <3>2, SceneFacts DEF HostInv, Files
    <3>4. host' \in [Paths -> 0..MaxFiles]
      BY <3>2, <3>3, Zenon DEF HostInv
    <3> QED
      BY <3>1, <3>2, <3>3, <3>4, Zenon DEF HostInv
  <2> QED
    BY <1>1, <1>2, <2>1, Zenon DEF Make
<1>3. ASSUME NEW c \in Conns, Unlink(c) PROVE HostInv'
  <2>1. CASE HostRemove(conn[c].rel)
    <3>1. scene' = scene /\ 0 \in 0..MaxFiles
      BY <1>3, SceneFacts DEF Unlink, unchangedTable, HostInv
    <3> QED
      BY <2>1, <3>1, Zenon DEF HostRemove, HostInv
  <2> QED
    BY <1>1, <1>3, <2>1, Zenon DEF Unlink
<1>4. ASSUME NEW c \in Conns, Rename(c) PROVE HostInv'
  <2>1. CASE HostRename(conn[c].rel, conn[c].to)
    <3>1. scene' = scene /\ 0 \in 0..MaxFiles
      BY <1>4, SceneFacts DEF Rename, unchangedTable, HostInv
    <3>2. host' \in [Paths -> 0..MaxFiles]
      BY <2>1, <3>1, Zenon DEF HostRename, HostInv
    <3> QED
      BY <2>1, <3>1, <3>2, Zenon DEF HostRename, HostInv
  <2> QED
    BY <1>1, <1>4, <2>1, Zenon DEF Rename
<1>5. CASE UNCHANGED vars
  BY <1>5, Zenon DEF vars, HostInv
<1>6. ASSUME NEW c \in Conns, Begin(c) \/ Stat(c) \/ Number(c) \/ NumberFails(c) \/ Forget(c) \/ Move(c)
             \/ CrashInChange(c)
      PROVE  unchangedHost
  BY <1>6, Zenon DEF Begin, Stat, Number, NumberFails, Forget, Move, CrashInChange
<1>7. ASSUME Crash \/ Load \/ Swap PROVE unchangedHost
  BY <1>7, Zenon DEF Crash, Load, Swap
<1> QED
  BY <1>1, <1>2, <1>3, <1>4, <1>5, <1>6, <1>7, Zenon DEF Next, Step

\* A step of one connection.
LEMMA CallStep ==
  ASSUME ConnInv, NEW c \in Conns, NEW k \in Calls, k.pc = "number" => k.seen # 0,
         conn' = [conn EXCEPT ![c] = k], issued' \subseteq [id : Ids, file : Files], phase' = "up"
  PROVE  ConnInv'
  BY Zenon DEF ConnInv

\* The calls a connection begins.
LEMMA BeginCalls ==
  ASSUME HostInv, ConnInv, TableInv, NEW c \in Conns, Begin(c)
  PROVE  \E k \in Calls : conn' = [conn EXCEPT ![c] = k] /\ k.pc \in {"stat", "host"}
<1>1. ASSUME NEW op \in Ops, NEW pc \in {"stat", "host"}, NEW rel \in Paths, NEW to \in Paths, NEW left \in 0..2,
             Busy(c, op, pc, rel, to, left)
      PROVE  \E k \in Calls : conn' = [conn EXCEPT ![c] = k] /\ k.pc \in {"stat", "host"}
  <2> DEFINE k == [pc |-> pc, op |-> op, rel |-> rel, to |-> to, seen |-> 0, left |-> left]
  <2>1. k \in Calls /\ k.pc = pc
    BY <1>1, ShareAssumption DEF Calls
  <2>2. conn' = [conn EXCEPT ![c] = k]
    BY <1>1, Zenon DEF Busy
  <2> QED
    BY <2>1, <2>2, Zenon
<1>2. {"mount", "lookup", "handle", "unchecked", "guarded", "exclusive", "mkdir", "symlink",
       "remove", "rmdir", "rename"} \subseteq Ops
  BY Zenon DEF Ops, Lookups, Creates, Removes
<1>3. Root \in Paths
  BY RootFacts, Zenon
<1>4. ASSUME NEW h \in issued, mem.byID[h.id] # None PROVE mem.byID[h.id] \in Paths
  BY <1>4, TableParts, Zenon DEF ConnInv, TableInv
<1>5. Entries \subseteq Paths
  BY Zenon DEF Entries
<1>6. 0 \in 0..2 /\ 1 \in 0..2 /\ 2 \in 0..2
  OBVIOUS
<1>7. CASE Busy(c, "mount", "stat", Root, Root, 1)
  BY <1>1, <1>2, <1>3, <1>6, <1>7, Zenon
<1>8. ASSUME NEW h \in issued, mem.byID[h.id] # None, Busy(c, "handle", "stat", mem.byID[h.id], Root, 1)
      PROVE  \E k \in Calls : conn' = [conn EXCEPT ![c] = k] /\ k.pc \in {"stat", "host"}
  BY <1>1, <1>2, <1>3, <1>4, <1>6, <1>8, Zenon
<1>9. ASSUME NEW p \in Entries, NEW op \in {"lookup", "remove", "rmdir", "unchecked"}, Busy(c, op, "stat", p, Root, 1)
      PROVE  \E k \in Calls : conn' = [conn EXCEPT ![c] = k] /\ k.pc \in {"stat", "host"}
  BY <1>1, <1>2, <1>3, <1>5, <1>6, <1>9, Zenon
<1>10. ASSUME NEW p \in Entries, NEW op \in {"guarded", "exclusive", "mkdir", "symlink"}, NEW n \in 1..2,
              Busy(c, op, "host", p, Root, n)
       PROVE  \E k \in Calls : conn' = [conn EXCEPT ![c] = k] /\ k.pc \in {"stat", "host"}
  <2>1. n \in 0..2
    OBVIOUS
  <2> QED
    BY <1>1, <1>2, <1>3, <1>5, <1>10, <2>1, Zenon
<1>11. ASSUME NEW p \in Entries, NEW q \in Entries, Busy(c, "rename", "host", p, q, 0)
       PROVE  \E k \in Calls : conn' = [conn EXCEPT ![c] = k] /\ k.pc \in {"stat", "host"}
  BY <1>1, <1>2, <1>3, <1>5, <1>6, <1>11, Zenon
<1>12. 1 \in 1..2 /\ 2 \in 1..2
  OBVIOUS
<1> QED
  BY <1>7, <1>8, <1>9, <1>10, <1>11, <1>12, Zenon DEF Begin, Removes

\* What follows a number: another stat, the host, or the reply.
LEMMA NumberedCalls ==
  ASSUME ConnInv, NEW c \in Conns, conn[c].pc = "number", NEW i \in Ids, Numbered(c, i)
  PROVE  /\ \E k \in Calls : /\ conn' = [conn EXCEPT ![c] = k] /\ k.pc \in {"idle", "stat", "host"}
                             /\ k.pc = "host" => k.op \in Removes
                             /\ k.rel = conn[c].rel \/ k.pc = "idle"
         /\ issued' \subseteq issued \cup {[id |-> i, file |-> conn[c].seen]}
         /\ conn[c].seen \in Files
<1> DEFINE k == conn[c]
<1>1. k \in Calls /\ k.seen \in Files /\ DOMAIN conn = Conns
  BY ShareAssumption DEF ConnInv, Calls, Files
<1>2. CASE Return(c)
  <2>1. conn' = [conn EXCEPT ![c] = Idle] /\ Idle \in Calls /\ Idle.pc = "idle"
    BY <1>2, IdleFacts, Zenon DEF Return
  <2>2. issued' = issued \/ issued' = issued \cup {[id |-> i, file |-> k.seen]}
    BY Zenon DEF Numbered
  <2>3. \E m \in Calls : /\ conn' = [conn EXCEPT ![c] = m] /\ m.pc \in {"idle", "stat", "host"}
                         /\ m.pc = "host" => m.op \in Removes
                         /\ m.rel = conn[c].rel \/ m.pc = "idle"
    BY <2>1, Zenon
  <2> QED
    BY <1>1, <2>2, <2>3, Zenon
<1>3. CASE k.left > 1 /\ conn' = [conn EXCEPT ![c].pc = "stat", ![c].left = k.left - 1]
  <2> DEFINE n == k.left - 1
             m == [k EXCEPT !.pc = "stat", !.left = n]
  <2>1. n \in 0..2
    BY <1>1, <1>3 DEF Calls
  <2>2. conn' = [conn EXCEPT ![c] = m]
    BY <1>1, <1>3, Zenon
  <2> HIDE DEF n
  <2>3. m \in Calls /\ m.pc = "stat" /\ m.rel = k.rel
    BY <1>1, <2>1, Zenon DEF Calls
  <2>4. issued' = issued
    BY <1>3, <1>1 DEF Numbered, Calls
  <2> HIDE DEF m
  <2> QED
    BY <1>1, <2>2, <2>3, <2>4, Zenon
<1>4. CASE k.op \in Removes /\ Goto(c, "host")
  <2> DEFINE m == [k EXCEPT !.pc = "host"]
  <2>1. conn' = [conn EXCEPT ![c] = m]
    BY <1>1, <1>4, Zenon DEF Goto
  <2>2. m \in Calls /\ m.pc = "host" /\ m.rel = k.rel /\ m.op = k.op
    BY <1>1, Zenon DEF Calls
  <2>3. issued' = issued
    BY <1>1, <1>4, Zenon DEF Numbered
  <2> HIDE DEF m
  <2> QED
    BY <1>1, <1>4, <2>1, <2>2, <2>3, Zenon
<1> QED
  BY <1>2, <1>3, <1>4, Zenon DEF Numbered

\* Every step keeps the connections.
LEMMA ConnNext == HostInv /\ ConnInv /\ TableInv /\ [Next]_vars => ConnInv'
<1> SUFFICES ASSUME HostInv, ConnInv, TableInv, [Next]_vars PROVE ConnInv'
  BY Zenon
<1>1. issued \subseteq [id : Ids, file : Files] /\ DOMAIN conn = Conns /\ \A c \in Conns : conn[c] \in Calls
  BY Zenon DEF ConnInv
<1>u. ASSUME NEW c \in Conns, Step(c) PROVE phase = "up" /\ phase' = "up"
  BY <1>u, Zenon DEF Step, Begin, Stat, Number, NumberFails, Make, Unlink, Rename, Forget, Move, ConnInv, unchangedTable
<1>2. ASSUME NEW c \in Conns, Begin(c) PROVE ConnInv'
  <2>1. PICK k \in Calls : conn' = [conn EXCEPT ![c] = k] /\ k.pc \in {"stat", "host"}
    BY <1>2, BeginCalls, Zenon
  <2>2. issued' = issued
    BY <1>2, Zenon DEF Begin
  <2> QED
    BY <1>1, <1>2, <1>u, <2>1, <2>2, CallStep, Zenon DEF Step
<1>3. ASSUME NEW c \in Conns, Return(c), issued' = issued, phase' = "up" PROVE ConnInv'
  BY <1>1, <1>3, IdleFacts, CallStep, Zenon DEF Return
<1>4. ASSUME NEW c \in Conns, NEW pc \in {"stat", "host", "forget", "move"}, Goto(c, pc), issued' = issued,
             phase' = "up"
      PROVE  ConnInv'
  <2> DEFINE k == conn[c]
             m == [k EXCEPT !.pc = pc]
  <2>1. conn' = [conn EXCEPT ![c] = m]
    BY <1>1, <1>4, Zenon DEF Goto
  <2>2. m \in Calls /\ m.pc = pc
    BY <1>1, Zenon DEF Calls
  <2> HIDE DEF m
  <2> QED
    BY <1>1, <1>4, <2>1, <2>2, CallStep, Zenon
<1>5. ASSUME NEW c \in Conns, NEW pc \in {"stat", "host"}, NEW n \in 0..2,
             conn' = [conn EXCEPT ![c].pc = pc, ![c].left = n], issued' = issued, phase' = "up"
      PROVE  ConnInv'
  <2> DEFINE k == conn[c]
             m == [k EXCEPT !.pc = pc, !.left = n]
  <2>1. conn' = [conn EXCEPT ![c] = m]
    BY <1>1, <1>5, Zenon
  <2>2. m \in Calls /\ m.pc = pc
    BY <1>1, Zenon DEF Calls
  <2> HIDE DEF m
  <2> QED
    BY <1>1, <1>5, <2>1, <2>2, CallStep, Zenon
<1>6. ASSUME NEW c \in Conns, Stat(c) PROVE ConnInv'
  <2> DEFINE k == conn[c]
             f == host[k.rel]
             m == [k EXCEPT !.pc = "number", !.seen = f]
  <2>1. CASE f # 0 /\ conn' = [conn EXCEPT ![c].pc = "number", ![c].seen = f]
    <3>1. conn' = [conn EXCEPT ![c] = m] /\ issued' = issued
      BY <1>1, <1>6, <2>1, Zenon DEF Stat
    <3>2. f \in 0..MaxFiles
      BY <1>1, Zenon DEF HostInv, Calls
    <3> HIDE DEF f
    <3>3. m \in Calls /\ m.pc = "number" /\ m.seen = f
      BY <1>1, <3>2, Zenon DEF Calls
    <3> HIDE DEF m
    <3> QED
      BY <1>1, <1>6, <1>u, <2>1, <3>1, <3>3, CallStep, Zenon DEF Step
  <2>2. issued' = issued /\ 2 \in 0..2 /\ phase' = "up"
    BY <1>6, <1>u DEF Stat, Step
  <2>3. CASE conn' = [conn EXCEPT ![c].pc = "host", ![c].left = 2]
    BY <1>5, <2>2, <2>3, Zenon
  <2> QED
    BY <1>3, <1>6, <2>1, <2>2, <2>3, Zenon DEF Stat, Exists
<1>7. ASSUME NEW c \in Conns, Number(c) PROVE ConnInv'
  <2>1. PICK i \in Ids : Numbered(c, i)
    <3>1. conn[c].rel \in Paths
      BY <1>1, Zenon DEF Calls
    <3>2. mem.byPath[conn[c].rel] # 0 => mem.byPath[conn[c].rel] \in Ids
      BY <3>1, TableParts, ShareAssumption DEF TableInv, Ids
    <3>3. mem.next <= scene.ids => mem.next \in Ids
      BY TableParts, SceneFacts DEF TableInv, HostInv, Ids
    <3> QED
      BY <1>7, <3>2, <3>3, Zenon DEF Number
  <2>2. conn[c].pc = "number"
    BY <1>7, Zenon DEF Number
  <2>3. PICK k \in Calls : conn' = [conn EXCEPT ![c] = k] /\ k.pc \in {"idle", "stat", "host"}
    BY <2>1, <2>2, NumberedCalls, Zenon
  <2>4. issued' \subseteq issued \cup {[id |-> i, file |-> conn[c].seen]} /\ conn[c].seen \in Files
    BY <2>1, <2>2, NumberedCalls, Zenon
  <2>5. issued' \subseteq [id : Ids, file : Files]
    BY <1>1, <2>4
  <2> QED
    BY <1>7, <1>u, <2>3, <2>5, CallStep, Zenon DEF Step
<1>8. ASSUME NEW c \in Conns, NumberFails(c) \/ Unlink(c) \/ Rename(c) \/ Forget(c) \/ Move(c) PROVE ConnInv'
  <2>1. phase' = "up"
    BY <1>8, <1>u, Zenon DEF Step
  <2> QED
    BY <1>3, <1>4, <1>8, <2>1, Zenon DEF NumberFails, Unlink, Rename, Forget, Move
<1>9. ASSUME NEW c \in Conns, Make(c) PROVE ConnInv'
  <2>1. issued' = issued /\ 1 \in 0..2 /\ phase' = "up"
    BY <1>9, <1>u DEF Make, Step
  <2>2. CASE conn' = [conn EXCEPT ![c].pc = "stat", ![c].left = 1]
    BY <1>5, <2>1, <2>2, Zenon
  <2> QED
    BY <1>3, <1>4, <1>9, <2>1, <2>2, Zenon DEF Make
<1>10. ASSUME conn' = [c \in Conns |-> Idle], issued' = issued PROVE ConnInv'
  BY <1>10, IdleFacts, Zenon DEF ConnInv
<1>11. CASE Crash \/ \E c \in Conns : CrashInChange(c)
  BY <1>10, <1>11, Zenon DEF Crash, CrashInChange
<1>12. CASE Load \/ Swap \/ UNCHANGED vars
  BY <1>12, Zenon DEF Load, Swap, vars, ConnInv
<1> QED
  BY <1>2, <1>6, <1>7, <1>8, <1>9, <1>11, <1>12, Zenon DEF Next, Step

\* An id that was free, and is not new, stays free.
Later(t, u) ==
  /\ t.next <= u.next
  /\ \A i \in Ids : i < t.next /\ t.byID[i] = None => u.byID[i] = None

\* What is known of the numbering is a well-formed table.
LEMMA KnownOK ==
  ASSUME TableInv
  PROVE  /\ Known \in Tables /\ Fresh(Known) /\ Play(Empty, log) \in Tables
         /\ phase = "up" => Known = mem
         /\ phase # "up" => Known = Play(Empty, log)
         /\ Alike(Known, Play(Empty, log))
<1>1. Play(Empty, log) \in Tables /\ Fresh(Play(Empty, log))
  BY EmptyOK, PlayOK, Zenon DEF TableInv
<1> QED
  BY <1>1, Zenon DEF TableInv, Known, Alike

\* The file may be replayed at any time without losing or freeing an id.
LEMMA LaterAlike ==
  ASSUME NEW t \in Tables, NEW u, Alike(t, u)
  PROVE  Later(t, u)
<1>1. t.next \in Nat
  BY TableParts, Zenon
<1> QED
  BY <1>1 DEF Alike, Later

\* A change of ids in use.
LEMMA LaterChange ==
  ASSUME NEW t \in Tables, NEW u, u.next = t.next, NEW S, S \subseteq InUse(t), NEW h,
         u.byID = [i \in Ids |-> IF i \in S THEN h[i] ELSE t.byID[i]]
  PROVE  Later(t, u)
<1>1. t.next \in Nat
  BY TableParts, Zenon
<1>2. \A i \in S : t.byID[i] # None
  BY Zenon DEF InUse
<1> QED
  BY <1>1, <1>2 DEF Later

\* A change keeps the table in order, and says what becomes of the ids.
LEMMA ChangeStep ==
  ASSUME TableInv, phase = "up", phase' = phase, NEW s, NEW h, Says(s, h, mem.next),
         About(s) \subseteq InUse(mem), Change(s)
  PROVE  /\ TableInv' /\ Later(Known, Known')
         /\ Known' = mem' /\ mem'.next = mem.next
         /\ mem'.byID = [i \in Ids |-> IF i \in About(s) THEN h[i] ELSE mem.byID[i]]
<1>1. log' = log \o s /\ mem' = Play(mem, s)
  BY Zenon DEF Change
<1>2. mem \in Tables /\ Agree(mem) /\ Fresh(mem) /\ log \in Seq(Lines) /\ Alike(Play(Empty, log), mem)
  BY Zenon DEF TableInv
<1>3. /\ mem' \in Tables /\ Agree(mem') /\ Fresh(mem')
      /\ log' \in Seq(Lines) /\ Alike(Play(Empty, log'), mem')
      /\ mem'.next = mem.next
      /\ mem'.byID = [i \in Ids |-> IF i \in About(s) THEN h[i] ELSE mem.byID[i]]
  <2>1. Changed(mem, log, s, h)
    BY <1>2, ChangeAlike, Zenon
  <2> QED
    BY <1>1, <2>1, Zenon DEF Changed
<1>4. TableInv'
  BY <1>3, Zenon DEF TableInv, Agree, Fresh, Alike
<1>5. Known = mem /\ Known' = mem'
  BY Zenon DEF Known
<1>6. Later(mem, mem')
  <2> DEFINE u == mem'
  <2>1. /\ mem \in Tables /\ u.next = mem.next
        /\ u.byID = [i \in Ids |-> IF i \in About(s) THEN h[i] ELSE mem.byID[i]]
    BY <1>2, <1>3, Zenon
  <2> HIDE DEF u
  <2>2. Later(mem, u)
    BY <2>1, LaterChange
  <2> QED
    BY <2>2, Zenon DEF u
<1> QED
  BY <1>3, <1>4, <1>5, <1>6, Zenon

\* A crash with some lines of a change written.
LEMMA CutStep ==
  ASSUME TableInv, phase = "up", phase' = "down", mem' = Empty, NEW s, NEW h, Says(s, h, mem.next),
         About(s) \subseteq InUse(mem), NEW k \in 0..Len(s), log' = log \o SubSeq(s, 1, k)
  PROVE  TableInv' /\ Later(Known, Known')
<1> DEFINE u == SubSeq(s, 1, k)
           t == Play(mem, u)
<1>1. Says(u, h, mem.next) /\ About(u) \subseteq InUse(mem)
  BY PrefixSays, Zenon
<1>2. mem \in Tables /\ Agree(mem) /\ Fresh(mem) /\ log \in Seq(Lines) /\ Alike(Play(Empty, log), mem)
  BY Zenon DEF TableInv
<1> HIDE DEF u
<1>3. /\ t \in Tables /\ log \o u \in Seq(Lines) /\ Alike(Play(Empty, log \o u), t)
      /\ t.next = mem.next
      /\ t.byID = [i \in Ids |-> IF i \in About(u) THEN h[i] ELSE mem.byID[i]]
  <2>1. Changed(mem, log, u, h)
    BY <1>1, <1>2, ChangeAlike, Zenon
  <2> QED
    BY <2>1, Zenon DEF Changed
<1> HIDE DEF t
<1>4. log' = log \o u
  BY Zenon DEF u
<1>5. TableInv'
  BY <1>3, <1>4, EmptyOK, Zenon DEF TableInv, Agree, Fresh
<1>6. Known = mem /\ Known' = Play(Empty, log')
  BY Zenon DEF Known
<1>7. Later(mem, t)
  <2> DEFINE S == About(u)
  <2>1. /\ mem \in Tables /\ S \subseteq InUse(mem) /\ t.next = mem.next
        /\ t.byID = [i \in Ids |-> IF i \in S THEN h[i] ELSE mem.byID[i]]
    BY <1>1, <1>2, <1>3, Zenon
  <2> HIDE DEF S
  <2>2. mem.next \in Nat /\ \A i \in S : mem.byID[i] # None
    BY <2>1, TableParts, Zenon DEF InUse
  <2> QED
    BY <2>1, <2>2 DEF Later
<1> QED
  BY <1>3, <1>4, <1>5, <1>6, <1>7, Zenon DEF Later, Alike

\* A step that leaves the table and its file alone.
LEMMA SameTable ==
  ASSUME TableInv, UNCHANGED <<phase, mem, log>>
  PROVE  TableInv' /\ Known' = Known /\ Later(Known, Known')
<1>1. Known' = Known
  BY Zenon DEF Known
<1>2. Later(Known, Known)
  BY KnownOK, LaterAlike, Zenon DEF Alike
<1> QED
  BY <1>1, <1>2, Zenon DEF TableInv, Agree, Fresh, Alike

\* Numbering a path.
LEMMA NumberStep ==
  ASSUME HostInv, ConnInv, TableInv, NEW c \in Conns, Number(c)
  PROVE  /\ TableInv' /\ Later(Known, Known')
         /\ \/ Known' = Known
            \/ /\ Known = mem /\ Known' = mem' /\ mem'.next = mem.next + 1
               /\ mem'.byID = [mem.byID EXCEPT ![mem.next] = conn[c].rel]
<1> DEFINE p == conn[c].rel
<1>1. phase = "up" /\ phase' = phase /\ p \in Paths
  BY Zenon DEF Number, ConnInv, Calls
<1>2. CASE mem.byPath[p] # 0
  BY <1>1, <1>2, SameTable, Zenon DEF Number
<1>3. CASE mem.byPath[p] = 0
  <2>1. /\ mem.next <= scene.ids
        /\ log' = Append(log, Line("set", mem.next, p)) /\ mem' = Set(mem, mem.next, p)
    BY <1>3, Zenon DEF Number
  <2>2. mem \in Tables /\ Agree(mem) /\ Fresh(mem) /\ log \in Seq(Lines) /\ Alike(Play(Empty, log), mem)
    BY <1>1, Zenon DEF TableInv
  <2>3. mem.next \in Ids
    BY <2>1, <2>2, TableParts, SceneFacts DEF HostInv, Ids
  <2>4. /\ mem' \in Tables /\ Agree(mem') /\ Fresh(mem')
        /\ log' \in Seq(Lines) /\ Alike(Play(Empty, log'), mem')
        /\ mem'.next = mem.next + 1 /\ mem'.byID = [mem.byID EXCEPT ![mem.next] = p]
    BY <1>1, <2>1, <2>2, <2>3, NumberAlike, Zenon
  <2>5. TableInv'
    BY <1>1, <2>4, Zenon DEF TableInv, Agree, Fresh, Alike
  <2>6. Known = mem /\ Known' = mem'
    BY <1>1, Zenon DEF Known
  <2>7. Later(mem, mem')
    <3>1. mem.next \in Nat /\ mem.byID \in [Ids -> Paths \cup {None}]
      BY <2>2, TableParts, Zenon
    <3>2. mem.next <= mem'.next
      BY <2>4, <3>1
    <3>3. ASSUME NEW i \in Ids, i < mem.next, mem.byID[i] = None PROVE mem'.byID[i] = None
      <4>1. i # mem.next
        BY <3>1, <3>3
      <4> QED
        BY <2>4, <3>1, <3>3, <4>1, Zenon
    <3> QED
      BY <3>2, <3>3, Zenon DEF Later
  <2> QED
    BY <2>4, <2>5, <2>6, <2>7, Zenon
<1> QED
  BY <1>2, <1>3, Zenon

\* remove.
LEMMA ForgetStep ==
  ASSUME HostInv, ConnInv, TableInv, NEW c \in Conns, Forget(c)
  PROVE  /\ TableInv' /\ Later(Known, Known')
         /\ Known = mem /\ Known' = mem' /\ mem'.next = mem.next
         /\ LET gone == IF conn[c].op = "rename" THEN conn[c].to ELSE conn[c].rel
            IN  mem'.byID = [i \in Ids |-> IF i \in Below(mem, gone) THEN None ELSE mem.byID[i]]
<1> DEFINE gone == IF conn[c].op = "rename" THEN conn[c].to ELSE conn[c].rel
           h == [i \in Ids |-> None]
<1>1. phase = "up" /\ phase' = phase /\ Known = mem
  BY Zenon DEF Forget, ConnInv, Known
<1>2. PICK s \in ForgetLines(c) : Change(s)
  BY Zenon DEF Forget
<1>3. Says(s, h, mem.next) /\ About(s) = Below(mem, gone)
  BY <1>2, ForgetSays, Zenon DEF TableInv
<1>4. Below(mem, gone) \subseteq InUse(mem)
  BY Zenon DEF Below
<1> HIDE DEF h, gone
<1>5. /\ TableInv' /\ Later(Known, Known')
      /\ Known' = mem' /\ mem'.next = mem.next
      /\ mem'.byID = [i \in Ids |-> IF i \in About(s) THEN h[i] ELSE mem.byID[i]]
  BY <1>1, <1>2, <1>3, <1>4, ChangeStep
<1>6. mem'.byID = [i \in Ids |-> IF i \in Below(mem, gone) THEN None ELSE mem.byID[i]]
  BY <1>3, <1>5, Zenon DEF h
<1> QED
  BY <1>1, <1>5, <1>6, Zenon DEF gone

\* move.
LEMMA MoveStep ==
  ASSUME HostInv, ConnInv, TableInv, NEW c \in Conns, Move(c)
  PROVE  /\ TableInv' /\ Later(Known, Known')
         /\ Known = mem /\ Known' = mem' /\ mem'.next = mem.next
         /\ mem'.byID = [i \in Ids |-> IF i \in Below(mem, conn[c].rel)
                                       THEN Rebased(mem.byID[i], conn[c].rel, conn[c].to)
                                       ELSE mem.byID[i]]
<1> DEFINE p == conn[c].rel
           q == conn[c].to
           h == Moves(mem, p, q)
<1>1. phase = "up" /\ phase' = phase /\ Known = mem /\ p \in Paths /\ q \in Paths
  BY Zenon DEF Move, ConnInv, Known, Calls
<1>2. PICK s \in MoveLines(c) : Change(s) /\ InBounds(s)
  BY Zenon DEF Move, Change
<1>3. Says(s, h, mem.next) /\ About(s) = Below(mem, p)
  BY <1>1, <1>2, MoveSays, Zenon DEF TableInv, HostInv
<1>4. Below(mem, p) \subseteq InUse(mem) /\ Below(mem, p) \subseteq Ids
  BY Zenon DEF Below, InUse
<1>5. \A i \in Below(mem, p) : h[i] = Rebased(mem.byID[i], p, q)
  BY <1>4, Zenon DEF Moves
<1> HIDE DEF h, p, q
<1>6. /\ TableInv' /\ Later(Known, Known')
      /\ Known' = mem' /\ mem'.next = mem.next
      /\ mem'.byID = [i \in Ids |-> IF i \in About(s) THEN h[i] ELSE mem.byID[i]]
  BY <1>1, <1>2, <1>3, <1>4, ChangeStep
<1>7. mem'.byID = [i \in Ids |-> IF i \in Below(mem, p) THEN Rebased(mem.byID[i], p, q) ELSE mem.byID[i]]
  BY <1>3, <1>5, <1>6, Zenon
<1> QED
  BY <1>1, <1>6, <1>7, Zenon DEF p, q

\* The server's own steps: what is known of the numbering does not change.
LEMMA LifeStep ==
  ASSUME TableInv, Crash \/ Load \/ Swap
  PROVE  TableInv' /\ Later(Known, Known') /\ Alike(Known, Known')
<1>1. ASSUME TableInv', Alike(Known, Known') PROVE Later(Known, Known')
  BY <1>1, KnownOK, LaterAlike, Zenon
<1>2. CASE Crash
  <2>1. phase' = "down" /\ mem' = Empty /\ log' = log
    BY <1>2, Zenon DEF Crash
  <2>2. TableInv'
    BY <2>1, EmptyOK, Zenon DEF TableInv, Agree, Fresh
  <2>3. Known' = Play(Empty, log)
    BY <2>1, Zenon DEF Known
  <2>4. Alike(Known, Known')
    BY <2>3, KnownOK, Zenon
  <2> QED
    BY <1>1, <2>2, <2>4, Zenon
<1>3. CASE Load
  <2>1. phase = "down" /\ phase' = "loaded" /\ mem' = Play(Empty, log) /\ log' = log
    BY <1>3, Zenon DEF Load
  <2>2. mem' \in Tables /\ Agree(mem') /\ Fresh(mem')
    BY <2>1, EmptyOK, PlayOK, Zenon DEF TableInv
  <2>3. TableInv'
    BY <2>1, <2>2, Zenon DEF TableInv, Agree, Fresh
  <2>4. Known = Play(Empty, log) /\ Known' = Play(Empty, log)
    BY <2>1, Zenon DEF Known
  <2> QED
    BY <1>1, <2>3, <2>4, Zenon DEF Alike
<1>4. CASE Swap
  <2>1. phase = "loaded" /\ phase' = "up" /\ log' \in Compacted(mem) /\ mem' = mem
    BY <1>4, Zenon DEF Swap
  <2>2. log' \in Seq(Lines) /\ Alike(Play(Empty, log'), mem)
    BY <2>1, CompactedAlike, Zenon DEF TableInv
  <2>3. TableInv'
    BY <2>1, <2>2, Zenon DEF TableInv, Agree, Fresh, Alike
  <2>4. Known = mem /\ Known' = mem
    BY <2>1, Zenon DEF Known, TableInv
  <2> QED
    BY <1>1, <2>3, <2>4, Zenon DEF Alike
<1> QED
  BY <1>2, <1>3, <1>4, Zenon

\* Every step keeps the table, and frees no id for another use.
LEMMA TableNext ==
  ASSUME HostInv, ConnInv, TableInv, [Next]_vars
  PROVE  TableInv' /\ Later(Known, Known')
<1>1. ASSUME NEW c \in Conns, CrashInChange(c) PROVE TableInv' /\ Later(Known, Known')
  <2>1. conn[c].pc \in {"forget", "move"} /\ phase' = "down" /\ mem' = Empty
    BY <1>1, Zenon DEF CrashInChange
  <2>2. phase = "up" /\ conn[c].rel \in Paths /\ conn[c].to \in Paths
    BY <2>1, Zenon DEF ConnInv, Calls
  <2>3. mem \in Tables /\ Fresh(mem) /\ scene \in Scenes
    BY Zenon DEF TableInv, HostInv
  <2>4. \A p : Below(mem, p) \subseteq InUse(mem)
    BY Zenon DEF Below
  <2>5. PICK s : /\ (conn[c].pc = "forget" /\ s \in ForgetLines(c)) \/ (conn[c].pc = "move" /\ s \in MoveLines(c))
                 /\ InBounds(s)
                 /\ \E k \in 1..(Len(s) - 1) : log' = log \o SubSeq(s, 1, k)
    BY <1>1, Zenon DEF CrashInChange
  <2>6. \E h : Says(s, h, mem.next) /\ About(s) \subseteq InUse(mem)
    <3>1. CASE s \in ForgetLines(c)
      BY <2>3, <2>4, <3>1, ForgetSays, Zenon
    <3>2. CASE s \in MoveLines(c)
      BY <2>2, <2>3, <2>4, <2>5, <3>2, MoveSays, Zenon
    <3> QED
      BY <2>5, <3>1, <3>2, Zenon
  <2>7. PICK h : Says(s, h, mem.next) /\ About(s) \subseteq InUse(mem)
    BY <2>6, Zenon
  <2>8. PICK k \in 1..(Len(s) - 1) : log' = log \o SubSeq(s, 1, k)
    BY <2>5, Zenon
  <2>9. k \in 0..Len(s)
    <3>1. Len(s) \in Nat
      BY <2>7 DEF Says
    <3> QED
      BY <3>1
  <2> QED
    BY <2>1, <2>2, <2>7, <2>8, <2>9, CutStep, Zenon
<1>2. ASSUME NEW c \in Conns, Begin(c) \/ Stat(c) \/ NumberFails(c) \/ Make(c) \/ Unlink(c) \/ Rename(c)
      PROVE  UNCHANGED <<phase, mem, log>>
  BY <1>2, Zenon DEF Begin, Stat, NumberFails, Make, Unlink, Rename, unchangedTable
<1>3. CASE UNCHANGED vars
  BY <1>3, SameTable, Zenon DEF vars
<1> QED
  BY <1>1, <1>2, <1>3, SameTable, NumberStep, ForgetStep, MoveStep, LifeStep, Zenon DEF Next, Step

\* The invariant, whole.
ShareInv == HostInv /\ ConnInv /\ TableInv

\* Every behaviour keeps it.
LEMMA ShareStays == Spec => []ShareInv
<1>1. Init => ShareInv
  BY ShareInit, Zenon DEF ShareInv
<1>2. ShareInv /\ [Next]_vars => ShareInv'
  BY HostNext, ConnNext, TableNext, Zenon DEF ShareInv
<1> QED
  BY <1>1, <1>2, PTL DEF Spec

\* Every variable keeps its type: no handle carries an id that the table cannot have, however
\* paths are numbered, moved and forgotten (idFor, move, remove).
THEOREM ShareTyped == Spec => []TypeOK
<1>1. ShareInv => TypeOK
  <2> SUFFICES ASSUME ShareInv PROVE TypeOK
    BY Zenon
  <2>1. ASSUME NEW k \in DOMAIN log
        PROVE  log[k] \in [op : {"set", "del", "next"}, id : 1..MaxId + 1, path : Paths \cup {None}]
    <3>1. log[k] \in Lines
      BY DEF ShareInv, TableInv
    <3> QED
      BY <3>1, Zenon DEF Lines
  <2> QED
    BY <2>1, Zenon DEF ShareInv, HostInv, ConnInv, TableInv, TypeOK, Calls
<1> QED
  BY <1>1, ShareStays, PTL

\* The two maps of pathTable agree after any operations of any number of connections and any
\* replay: set takes an id's old path out of byPath, del takes out both.
THEOREM MapsStayInStep == Spec => []MapsAgree
<1>1. ShareInv => MapsAgree
  BY Zenon DEF ShareInv, TableInv, Agree, MapsAgree
<1> QED
  BY <1>1, ShareStays, PTL

\* The table's file replays to the running server's numbering at every moment: after any
\* operations, after compaction, and after a crash between any two lines (openPathTable, load).
THEOREM FileReplays == Spec => []LogReplays
<1>1. ShareInv => LogReplays
  BY Zenon DEF ShareInv, TableInv, Alike, LogReplays
<1> QED
  BY <1>1, ShareStays, PTL

\* An id freed by a removal is never used again, over crashes, replays and compactions: the
\* next line of the compacted file, and idFor's order, see to it.
THEOREM FreedIdsStayFree == Spec => FreedStaysFree
<1>1. ASSUME ShareInv, [Next]_vars
      PROVE  [\A now \in {Known}, then \in {Known'} :
                /\ now.next <= then.next
                /\ \A i \in Ids : i < now.next /\ now.byID[i] = None => then.byID[i] = None]_vars
  BY <1>1, TableNext, Zenon DEF ShareInv, Later
<1> QED
  BY <1>1, ShareStays, PTL DEF Spec, FreedStaysFree

-----------------------------------------------------------------------------
(* Paths as sequences of names.                                             *)

\* Two paths with the same names are one.
LEMMA SamePath ==
  ASSUME NEW p \in Seq(Names), NEW q \in Seq(Names), Len(p) = Len(q), \A k \in 1..Len(p) : p[k] = q[k]
  PROVE  p = q
OBVIOUS

\* What lies under a path begins with its names.
LEMMA UnderIs ==
  ASSUME NEW p \in Seq(Names), NEW q \in Seq(Names)
  PROVE  Under(q, p) <=> Len(p) <= Len(q) /\ \A k \in 1..Len(p) : q[k] = p[k]
<1>1. SubSeq(p, 1, Len(p)) = p
  OBVIOUS
<1>2. ASSUME Len(p) <= Len(q)
      PROVE  /\ SubSeq(q, 1, Len(p)) \in Seq(Names) /\ Len(SubSeq(q, 1, Len(p))) = Len(p)
             /\ \A k \in 1..Len(p) : SubSeq(q, 1, Len(p))[k] = q[k]
  BY <1>2
<1>3. ASSUME Under(q, p) PROVE Len(p) <= Len(q) /\ \A k \in 1..Len(p) : q[k] = p[k]
  BY <1>1, <1>2, <1>3, Zenon DEF Under
<1>4. ASSUME Len(p) <= Len(q), \A k \in 1..Len(p) : q[k] = p[k] PROVE Under(q, p)
  <2>1. SubSeq(q, 1, Len(p)) = p
    BY <1>2, <1>4, SamePath, Zenon
  <2> QED
    BY <1>1, <1>4, <2>1, Zenon DEF Under
<1> QED
  BY <1>3, <1>4, Zenon

\* Lying under is an order, and what lies under two paths has them on one line.
LEMMA UnderOrder ==
  ASSUME NEW p \in Seq(Names), NEW q \in Seq(Names), NEW r \in Seq(Names)
  PROVE  /\ Under(p, p)
         /\ Under(p, q) /\ Under(q, p) => p = q
         /\ Under(r, q) /\ Under(q, p) => Under(r, p)
         /\ Under(r, p) /\ Under(r, q) => Under(p, q) \/ Under(q, p)
<1>1. Under(p, p)
  BY UnderIs
<1>2. ASSUME Under(p, q), Under(q, p) PROVE p = q
  <2>1. Len(p) <= Len(q) /\ Len(q) <= Len(p) /\ \A k \in 1..Len(p) : q[k] = p[k]
    BY <1>2, UnderIs, Zenon
  <2> QED
    BY <2>1, SamePath
<1>3. ASSUME Under(r, q), Under(q, p) PROVE Under(r, p)
  <2>1. /\ Len(q) <= Len(r) /\ \A k \in 1..Len(q) : r[k] = q[k]
        /\ Len(p) <= Len(q) /\ \A k \in 1..Len(p) : q[k] = p[k]
    BY <1>3, UnderIs, Zenon
  <2>2. Len(p) <= Len(r) /\ \A k \in 1..Len(p) : r[k] = p[k]
    BY <2>1
  <2> QED
    BY <2>2, UnderIs, Zenon
<1>4. ASSUME Under(r, p), Under(r, q) PROVE Under(p, q) \/ Under(q, p)
  <2>1. /\ \A k \in 1..Len(q) : r[k] = q[k]
        /\ \A k \in 1..Len(p) : r[k] = p[k]
    BY <1>4, UnderIs, Zenon
  <2>2. CASE Len(p) <= Len(q)
    <3>1. \A k \in 1..Len(p) : q[k] = p[k]
      BY <2>1, <2>2
    <3> QED
      BY <2>2, <3>1, UnderIs, Zenon
  <2>3. CASE Len(q) <= Len(p)
    <3>1. \A k \in 1..Len(q) : p[k] = q[k]
      BY <2>1, <2>3
    <3> QED
      BY <2>3, <3>1, UnderIs, Zenon
  <2> QED
    BY <2>2, <2>3
<1> QED
  BY <1>1, <1>2, <1>3, <1>4, Zenon

\* A rebased path, name by name.
LEMMA RebasedIs ==
  ASSUME NEW x \in Seq(Names), NEW p \in Seq(Names), NEW q \in Seq(Names), Under(x, p)
  PROVE  /\ Rebased(x, p, q) \in Seq(Names)
         /\ Len(Rebased(x, p, q)) = Len(q) + (Len(x) - Len(p))
         /\ \A k \in 1..Len(q) : Rebased(x, p, q)[k] = q[k]
         /\ \A k \in 1..(Len(x) - Len(p)) : Rebased(x, p, q)[Len(q) + k] = x[Len(p) + k]
<1> DEFINE u == SubSeq(x, Len(p) + 1, Len(x))
           m == Len(x) - Len(p)
<1>1. Len(p) <= Len(x) /\ Len(p) \in Nat /\ Len(x) \in Nat
  BY UnderIs
<1>2. u \in Seq(Names) /\ Len(u) = m /\ \A k \in 1..m : u[k] = x[Len(p) + k]
  BY <1>1
<1>3. Rebased(x, p, q) = q \o u
  BY Zenon DEF Rebased
<1>4. m \in Nat
  BY <1>1
<1> HIDE DEF u, m
<1>5. /\ q \o u \in Seq(Names) /\ Len(q \o u) = Len(q) + m
      /\ \A k \in 1..Len(q) : (q \o u)[k] = q[k]
      /\ \A k \in 1..m : (q \o u)[Len(q) + k] = u[k]
  <2>1. u \in Seq(Names) /\ Len(u) = m
    BY <1>2, Zenon
  <2>2. /\ q \o u \in Seq(Names) /\ Len(q \o u) = Len(q) + Len(u)
        /\ \A k \in 1..(Len(q) + Len(u)) : (q \o u)[k] = IF k <= Len(q) THEN q[k] ELSE u[k - Len(q)]
    BY <1>1, <2>1
  <2> DEFINE w == q \o u
             n == Len(q)
  <2>3. n \in Nat
    OBVIOUS
  <2>4. \A k \in 1..(n + m) : w[k] = IF k <= n THEN q[k] ELSE u[k - n]
    BY <2>1, <2>2, Zenon
  <2> HIDE DEF w, n
  <2>5. \A k \in 1..n : w[k] = q[k]
    BY <1>4, <2>3, <2>4
  <2>6. ASSUME NEW k \in 1..m PROVE w[n + k] = u[k]
    <3>1. n + k \in 1..(n + m) /\ ~(n + k <= n) /\ (n + k) - n = k
      BY <1>4, <2>3
    <3> QED
      BY <2>4, <3>1, Zenon
  <2> QED
    BY <2>1, <2>2, <2>5, <2>6, Zenon DEF w, n
<1> QED
  BY <1>2, <1>3, <1>5, Zenon DEF m

\* Rebasing lands under the new path, can be undone, and keeps what lies under what.
LEMMA RebasedBack ==
  ASSUME NEW x \in Seq(Names), NEW p \in Seq(Names), NEW q \in Seq(Names), Under(x, p)
  PROVE  /\ Rebased(x, p, q) \in Seq(Names)
         /\ Under(Rebased(x, p, q), q)
         /\ Rebased(Rebased(x, p, q), q, p) = x
<1> DEFINE y == Rebased(x, p, q)
           z == Rebased(y, q, p)
           m == Len(x) - Len(p)
<1>1. /\ y \in Seq(Names) /\ Len(y) = Len(q) + m
      /\ \A k \in 1..Len(q) : y[k] = q[k]
      /\ \A k \in 1..m : y[Len(q) + k] = x[Len(p) + k]
  BY RebasedIs, ZenonT(60)
<1>2. Len(p) <= Len(x) /\ \A k \in 1..Len(p) : x[k] = p[k]
  BY UnderIs, Zenon
<1>m. m \in Nat /\ Len(x) = Len(p) + m
  BY <1>2
<1> HIDE DEF y, m
<1>3. Under(y, q)
  <2>1. Len(q) <= Len(y)
    BY <1>1, <1>m
  <2> QED
    BY <1>1, <2>1, UnderIs, Zenon
<1>l. Len(y) - Len(q) = m
  BY <1>1, <1>m
<1>4. /\ z \in Seq(Names) /\ Len(z) = Len(p) + m
      /\ \A k \in 1..Len(p) : z[k] = p[k]
      /\ \A k \in 1..m : z[Len(p) + k] = y[Len(q) + k]
  <2>1. /\ z \in Seq(Names) /\ Len(z) = Len(p) + (Len(y) - Len(q))
        /\ \A k \in 1..Len(p) : z[k] = p[k]
        /\ \A k \in 1..(Len(y) - Len(q)) : z[Len(p) + k] = y[Len(q) + k]
    BY <1>1, <1>3, RebasedIs, ZenonT(30)
  <2> QED
    BY <1>l, <2>1, Zenon
<1> HIDE DEF z
<1>5. ASSUME NEW k \in 1..Len(z) PROVE z[k] = x[k]
  <2>1. CASE k <= Len(p)
    BY <1>2, <1>4, <2>1
  <2>2. CASE k > Len(p)
    <3> DEFINE j == k - Len(p)
    <3>1. j \in 1..m /\ k = Len(p) + j
      BY <1>4, <1>m, <1>5, <2>2
    <3> HIDE DEF j
    <3>2. z[Len(p) + j] = y[Len(q) + j] /\ y[Len(q) + j] = x[Len(p) + j]
      BY <1>1, <1>4, <3>1, Zenon
    <3> QED
      BY <3>1, <3>2, Zenon
  <2> QED
    BY <1>4, <1>m, <2>1, <2>2
<1>6. z = x
  BY <1>4, <1>5, <1>m, SamePath, Zenon
<1> QED
  BY <1>1, <1>3, <1>6, Zenon DEF y, z

\* What lies under a path below p lies under the same path below q.
LEMMA RebasedUnder ==
  ASSUME NEW x \in Seq(Names), NEW y \in Seq(Names), NEW p \in Seq(Names), NEW q \in Seq(Names),
         Under(x, y), Under(y, p)
  PROVE  Under(Rebased(x, p, q), Rebased(y, p, q))
<1> DEFINE u == Rebased(x, p, q)
           v == Rebased(y, p, q)
           m == Len(x) - Len(p)
           n == Len(y) - Len(p)
<1>1. Under(x, p)
  BY UnderOrder, Zenon
<1>2. /\ u \in Seq(Names) /\ Len(u) = Len(q) + m
      /\ \A k \in 1..Len(q) : u[k] = q[k]
      /\ \A k \in 1..m : u[Len(q) + k] = x[Len(p) + k]
  BY <1>1, RebasedIs, ZenonT(60)
<1>3. /\ v \in Seq(Names) /\ Len(v) = Len(q) + n
      /\ \A k \in 1..Len(q) : v[k] = q[k]
      /\ \A k \in 1..n : v[Len(q) + k] = y[Len(p) + k]
  BY RebasedIs, ZenonT(30)
<1>4. /\ Len(y) <= Len(x) /\ \A k \in 1..Len(y) : x[k] = y[k]
      /\ Len(p) <= Len(y)
  BY UnderIs, Zenon
<1>5. m \in Nat /\ n \in Nat /\ n <= m /\ Len(y) = Len(p) + n
  BY <1>4
<1> HIDE DEF u, v, m, n
<1>6. ASSUME NEW k \in 1..Len(v) PROVE u[k] = v[k]
  <2>1. CASE k <= Len(q)
    BY <1>2, <1>3, <2>1
  <2>2. CASE k > Len(q)
    <3> DEFINE j == k - Len(q)
    <3>1. j \in 1..n /\ j \in 1..m /\ k = Len(q) + j /\ Len(p) + j \in 1..Len(y)
      BY <1>3, <1>5, <1>6, <2>2
    <3> HIDE DEF j
    <3>2. u[Len(q) + j] = x[Len(p) + j] /\ v[Len(q) + j] = y[Len(p) + j]
      BY <1>2, <1>3, <3>1, Zenon
    <3> QED
      BY <1>4, <3>1, <3>2, Zenon
  <2> QED
    BY <1>3, <1>5, <2>1, <2>2
<1>7. Len(v) <= Len(u)
  BY <1>2, <1>3, <1>5
<1>8. Under(u, v)
  BY <1>2, <1>3, <1>6, <1>7, UnderIs, Zenon
<1> QED
  BY <1>8, Zenon DEF u, v

\* The directory of a path.
LEMMA ParentIs ==
  ASSUME NEW p \in Paths, p # Root
  PROVE  /\ Parent(p) \in Paths /\ Under(p, Parent(p))
         /\ \A s \in Paths : Under(p, s) /\ s # p => Under(Parent(p), s)
<1> DEFINE d == Parent(p)
           m == Len(p) - 1
<1>1. p \in Seq(Names) /\ Len(p) <= Depth /\ Len(p) # 0 /\ Depth \in Nat
  BY PathFacts, ShareAssumption DEF Root
<1>2. m \in Nat /\ Len(p) = m + 1
  BY <1>1
<1>3. d \in Seq(Names) /\ Len(d) = m /\ \A k \in 1..m : d[k] = p[k]
  BY <1>1, <1>2 DEF Parent
<1> HIDE DEF d, m
<1>4. d \in Paths /\ Under(p, d)
  <2>1. Len(d) <= Depth /\ Len(d) <= Len(p)
    BY <1>1, <1>2, <1>3
  <2> QED
    BY <1>1, <1>3, <2>1, PathFacts, UnderIs, Zenon
<1>5. ASSUME NEW s \in Paths, Under(p, s), s # p PROVE Under(d, s)
  <2>1. s \in Seq(Names)
    BY PathFacts, Zenon
  <2>2. Len(s) <= Len(p) /\ \A k \in 1..Len(s) : p[k] = s[k]
    BY <1>1, <1>5, <2>1, UnderIs, Zenon
  <2>3. Len(s) # Len(p)
    BY <1>1, <1>5, <2>1, <2>2, SamePath, Zenon
  <2>4. Len(s) <= m
    BY <1>2, <2>1, <2>2, <2>3
  <2>5. \A k \in 1..Len(s) : d[k] = s[k]
    BY <1>2, <1>3, <2>1, <2>2, <2>4
  <2> QED
    BY <1>3, <2>1, <2>4, <2>5, UnderIs, Zenon
<1> QED
  BY <1>4, <1>5, Zenon DEF d

-----------------------------------------------------------------------------
(* The host directory is a tree.                                            *)

\* No file is at two paths, no file is newer than the last one made, and what is in the
\* directory has its directories in it.
TreeInv ==
  /\ \A p, q \in Paths : host[p] # 0 /\ host[p] = host[q] => p = q
  /\ \A p \in Paths : host[p] <= nfiles
  /\ \A p, q \in Paths : host[p] # 0 /\ Under(p, q) => host[q] # 0

\* Names for UnderOrder on paths.
LEMMA PathOrder ==
  ASSUME NEW p \in Paths, NEW q \in Paths, NEW r \in Paths
  PROVE  /\ Under(p, p)
         /\ Under(p, q) /\ Under(q, p) => p = q
         /\ Under(r, q) /\ Under(q, p) => Under(r, p)
         /\ Under(r, p) /\ Under(r, q) => Under(p, q) \/ Under(q, p)
<1>1. p \in Seq(Names) /\ q \in Seq(Names) /\ r \in Seq(Names)
  BY PathFacts, Zenon
<1> QED
  BY <1>1, UnderOrder, Zenon

\* A new file.
LEMMA MakeTree ==
  ASSUME HostInv, TreeInv, NEW p \in Paths, p # Root, NEW dir, HostMake(p, dir)
  PROVE  /\ TreeInv' /\ nfiles <= nfiles' /\ host[p] = 0
         /\ host' = [host EXCEPT ![p] = nfiles'] /\ nfiles' \in Files /\ nfiles < nfiles'
<1>1. /\ host[p] = 0 /\ host[Parent(p)] # 0 /\ nfiles' = nfiles + 1 /\ nfiles \in Nat /\ nfiles < scene.files
      /\ host' = [host EXCEPT ![p] = nfiles']
  BY ShareAssumption DEF HostMake, HostInv, Exists, IsDir, Files
<1>2. nfiles' \in Files /\ nfiles' # 0 /\ nfiles < nfiles' /\ nfiles <= nfiles'
  BY <1>1, SceneFacts DEF HostInv, Files
<1>3. host \in [Paths -> 0..MaxFiles] /\ \A r \in Paths : host[r] \in Nat
  BY ShareAssumption DEF HostInv
<1>4. \A r \in Paths : host'[r] = IF r = p THEN nfiles' ELSE host[r]
  BY <1>1, <1>3, Zenon
<1>5. \A r \in Paths : host[r] <= nfiles /\ host[r] # nfiles'
  BY <1>1, <1>2, <1>3 DEF TreeInv
<1>6. ASSUME NEW r \in Paths, NEW s \in Paths, host'[r] # 0, host'[r] = host'[s] PROVE r = s
  BY <1>4, <1>5, <1>6, Zenon DEF TreeInv
<1>7. ASSUME NEW r \in Paths PROVE host'[r] <= nfiles'
  BY <1>1, <1>3, <1>4, <1>5
<1>8. ASSUME NEW r \in Paths, NEW s \in Paths, host'[r] # 0, Under(r, s) PROVE host'[s] # 0
  <2>1. CASE s = p
    BY <1>2, <1>4, <2>1, Zenon
  <2>2. CASE r # p /\ s # p
    BY <1>4, <1>8, <2>2, Zenon DEF TreeInv
  <2>3. CASE r = p /\ s # p
    <3>1. Parent(p) \in Paths /\ Under(Parent(p), s)
      BY <1>8, <2>3, ParentIs, Zenon
    <3> QED
      BY <1>1, <1>4, <2>3, <3>1, Zenon DEF TreeInv
  <2> QED
    BY <2>1, <2>2, <2>3, Zenon
<1> QED
  BY <1>1, <1>2, <1>6, <1>7, <1>8, Zenon DEF TreeInv

\* A file that goes.
LEMMA RemoveTree ==
  ASSUME HostInv, TreeInv, NEW p \in Paths, HostRemove(p)
  PROVE  /\ TreeInv'
         /\ \A r \in Paths : host'[r] = IF Under(r, p) THEN 0 ELSE host[r]
<1>1. host[p] # 0 /\ Children(p) = {} /\ host' = [host EXCEPT ![p] = 0] /\ nfiles' = nfiles
  BY Zenon DEF HostRemove, Exists
<1>2. \A r \in Paths : host'[r] = IF r = p THEN 0 ELSE host[r]
  BY <1>1, Zenon DEF HostInv
<1>3. \A r \in Paths : Under(r, p) /\ r # p => host[r] = 0
  BY <1>1, Zenon DEF Children, Exists
<1>4. \A r \in Paths : host'[r] = IF Under(r, p) THEN 0 ELSE host[r]
  BY <1>2, <1>3, PathOrder, Zenon
<1>5. nfiles \in Nat
  BY ShareAssumption DEF HostInv, Files
<1>6. ASSUME NEW r \in Paths, NEW s \in Paths, host'[r] # 0, Under(r, s) PROVE host'[s] # 0
  <2>1. ~Under(r, p) /\ host[r] # 0
    BY <1>4, <1>6, Zenon
  <2>2. ~Under(s, p)
    BY <1>6, <2>1, PathOrder, Zenon
  <2> QED
    BY <1>4, <1>6, <2>1, <2>2, Zenon DEF TreeInv
<1>7. ASSUME NEW r \in Paths PROVE host'[r] <= nfiles'
  BY <1>1, <1>2, <1>5 DEF TreeInv
<1>8. ASSUME NEW r \in Paths, NEW s \in Paths, host'[r] # 0, host'[r] = host'[s] PROVE r = s
  BY <1>4, <1>8, Zenon DEF TreeInv
<1> QED
  BY <1>4, <1>6, <1>7, <1>8, Zenon DEF TreeInv

\* A rename: neither path is under the other, what was under the old one is under the new
\* one, what was under the new one is gone, and the rest is where it was.
LEMMA RenameHost ==
  ASSUME HostInv, TreeInv, NEW p \in Paths, NEW q \in Paths, p # q, HostRename(p, q)
  PROVE  /\ ~Under(p, q) /\ ~Under(q, p)
         /\ \A r \in Paths : host'[r] # 0 =>
              /\ ~Under(r, p)
              /\ Under(r, q) => Rebased(r, q, p) \in Paths /\ host'[r] = host[Rebased(r, q, p)]
              /\ ~Under(r, q) => host'[r] = host[r]
         /\ \A x \in Paths : host[x] # 0 =>
              /\ Under(x, p) => Rebased(x, p, q) \in Paths /\ host'[Rebased(x, p, q)] = host[x]
              /\ ~Under(x, p) /\ ~Under(x, q) => host'[x] = host[x]
         /\ host[Parent(q)] # 0
<1>1. /\ host[p] # 0 /\ host[Parent(q)] # 0 /\ ~Under(q, p)
      /\ host[q] # 0 => Children(q) = {}
      /\ \A r \in Children(p) : Len(Rebased(r, p, q)) <= scene.depth
  BY ShareAssumption DEF HostRename, MayRename, Exists, IsDir, HostInv, Files
<1>2. ~Under(p, q)
  <2>1. SUFFICES ASSUME Under(p, q) PROVE FALSE
    BY Zenon
  <2>2. host[q] # 0
    BY <1>1, <2>1, Zenon DEF TreeInv
  <2>3. p \in Children(q)
    BY <1>1, <2>1, Zenon DEF Children, Exists
  <2> QED
    BY <1>1, <2>2, <2>3, Zenon
<1>3. \A r \in Paths : host'[r] =
        IF Under(r, q) /\ Rebased(r, q, p) \in Paths THEN host[Rebased(r, q, p)]
        ELSE IF Under(r, p) \/ Under(r, q) THEN 0
        ELSE host[r]
  BY Zenon DEF HostRename
<1>4. ASSUME NEW r \in Paths, Under(r, p) PROVE ~Under(r, q)
  BY <1>1, <1>2, <1>4, PathOrder, Zenon
<1>5. ASSUME NEW r \in Paths, host'[r] # 0
      PROVE  /\ ~Under(r, p)
             /\ Under(r, q) => Rebased(r, q, p) \in Paths /\ host'[r] = host[Rebased(r, q, p)]
             /\ ~Under(r, q) => host'[r] = host[r]
  BY <1>3, <1>4, <1>5, Zenon
<1>6. ASSUME NEW x \in Paths, host[x] # 0, Under(x, p)
      PROVE  Rebased(x, p, q) \in Paths /\ host'[Rebased(x, p, q)] = host[x]
  <2> DEFINE y == Rebased(x, p, q)
  <2>1. x \in Seq(Names) /\ p \in Seq(Names) /\ q \in Seq(Names)
    BY PathFacts, Zenon
  <2>2. y \in Seq(Names) /\ Under(y, q) /\ Rebased(y, q, p) = x
    BY <1>6, <2>1, RebasedBack, Zenon
  <2>3. Len(y) <= Depth
    <3>1. CASE x = p
      <4>1. Len(y) = Len(q) + (Len(p) - Len(p))
        BY <1>6, <2>1, <3>1, RebasedIs
      <4>2. Len(q) <= Depth /\ Len(q) \in Nat /\ Len(p) \in Nat
        BY <2>1, PathFacts
      <4> HIDE DEF y
      <4> QED
        BY <4>1, <4>2
    <3>2. CASE x # p
      <4>1. x \in Children(p)
        BY <1>6, <3>2, Zenon DEF Children, Exists
      <4>2. Len(y) <= scene.depth
        BY <1>1, <4>1, Zenon
      <4> HIDE DEF y
      <4>3. Len(y) \in Nat
        BY <2>2
      <4> QED
        BY <4>2, <4>3, SceneFacts DEF HostInv
    <3> QED
      BY <3>1, <3>2, Zenon
  <2>4. y \in Paths
    BY <2>2, <2>3, PathFacts, Zenon
  <2> HIDE DEF y
  <2>5. host'[y] = host[x]
    BY <1>3, <2>2, <2>4, Zenon
  <2> QED
    BY <2>4, <2>5, Zenon DEF y
<1>7. ASSUME NEW x \in Paths, ~Under(x, p), ~Under(x, q) PROVE host'[x] = host[x]
  BY <1>3, <1>7, Zenon
<1> QED
  BY <1>1, <1>2, <1>5, <1>6, <1>7, Zenon

\* A rename keeps the tree.
LEMMA RenameTree ==
  ASSUME HostInv, TreeInv, NEW p \in Paths, NEW q \in Paths, p # q, q # Root, HostRename(p, q)
  PROVE  TreeInv'
<1>1. /\ ~Under(p, q) /\ ~Under(q, p)
      /\ \A r \in Paths : host'[r] # 0 =>
           /\ ~Under(r, p)
           /\ Under(r, q) => Rebased(r, q, p) \in Paths /\ host'[r] = host[Rebased(r, q, p)]
           /\ ~Under(r, q) => host'[r] = host[r]
      /\ \A x \in Paths : host[x] # 0 =>
           /\ Under(x, p) => Rebased(x, p, q) \in Paths /\ host'[Rebased(x, p, q)] = host[x]
           /\ ~Under(x, p) /\ ~Under(x, q) => host'[x] = host[x]
      /\ host[Parent(q)] # 0
  BY RenameHost, Zenon
<1>2. nfiles' = nfiles /\ nfiles \in Nat
  BY ShareAssumption DEF HostRename, HostInv, Files
<1>3. \A r \in Paths : r \in Seq(Names)
  BY PathFacts, Zenon
<1>4. ASSUME NEW r \in Paths, Under(r, q)
      PROVE  /\ Under(Rebased(r, q, p), p) /\ Rebased(Rebased(r, q, p), p, q) = r
  BY <1>3, <1>4, RebasedBack, Zenon
<1>5. ASSUME NEW r \in Paths PROVE host'[r] <= nfiles'
  <2>1. CASE host'[r] # 0
    BY <1>1, <1>2, <2>1, Zenon DEF TreeInv
  <2> QED
    BY <1>2, <2>1
<1>6. ASSUME NEW r \in Paths, NEW s \in Paths, host'[r] # 0, host'[r] = host'[s] PROVE r = s
  <2> DEFINE u == IF Under(r, q) THEN Rebased(r, q, p) ELSE r
             v == IF Under(s, q) THEN Rebased(s, q, p) ELSE s
  <2>1. u \in Paths /\ v \in Paths /\ host[u] = host'[r] /\ host[v] = host'[s] /\ ~Under(r, p) /\ ~Under(s, p)
    BY <1>1, <1>6, Zenon
  <2>2. u = v
    BY <1>6, <2>1, Zenon DEF TreeInv
  <2>3. CASE Under(r, q) /\ Under(s, q)
    BY <1>4, <2>2, <2>3, Zenon
  <2>4. CASE Under(r, q) /\ ~Under(s, q)
    BY <1>4, <2>1, <2>2, <2>4, Zenon
  <2>5. CASE ~Under(r, q) /\ Under(s, q)
    BY <1>4, <2>1, <2>2, <2>5, Zenon
  <2> QED
    BY <2>2, <2>3, <2>4, <2>5, Zenon
<1>7. ASSUME NEW r \in Paths, NEW s \in Paths, host'[r] # 0, Under(r, s) PROVE host'[s] # 0
  <2>1. CASE ~Under(r, q)
    <3>1. host[r] # 0 /\ ~Under(r, p)
      BY <1>1, <1>7, <2>1, Zenon
    <3>2. host[s] # 0
      BY <1>7, <3>1, Zenon DEF TreeInv
    <3>3. ~Under(s, p) /\ ~Under(s, q)
      BY <1>7, <2>1, <3>1, PathOrder, Zenon
    <3> QED
      BY <1>1, <3>2, <3>3, Zenon
  <2>2. CASE Under(r, q) /\ Under(s, q)
    <3> DEFINE u == Rebased(r, q, p)
               v == Rebased(s, q, p)
    <3>1. u \in Paths /\ host[u] # 0
      BY <1>1, <1>7, <2>2, Zenon
    <3>2. Under(u, v) /\ v \in Seq(Names) /\ Under(v, p) /\ Rebased(v, p, q) = s
      BY <1>3, <1>7, <2>2, RebasedUnder, RebasedBack, Zenon
    <3>3. v \in Paths
      <4>1. u \in Seq(Names) /\ Len(u) <= Depth
        BY <3>1, PathFacts, Zenon
      <4> HIDE DEF u, v
      <4>2. Len(v) <= Len(u)
        BY <3>2, <4>1, UnderIs, Zenon
      <4>3. Len(v) <= Depth
        BY <3>2, <4>1, <4>2, ShareAssumption
      <4> QED
        BY <3>2, <4>3, PathFacts, Zenon
    <3> HIDE DEF u, v
    <3>4. host[v] # 0
      BY <3>1, <3>2, <3>3, Zenon DEF TreeInv
    <3> QED
      BY <1>1, <3>2, <3>3, <3>4, Zenon
  <2>3. CASE Under(r, q) /\ ~Under(s, q)
    <3>1. Under(q, s) /\ s # q
      BY <1>7, <2>3, PathOrder, Zenon
    <3>2. Parent(q) \in Paths /\ Under(Parent(q), s)
      BY <3>1, ParentIs, Zenon
    <3>3. host[s] # 0
      BY <1>1, <3>2, Zenon DEF TreeInv
    <3>4. ~Under(s, p)
      BY <1>1, <3>1, PathOrder, Zenon
    <3> QED
      BY <1>1, <2>3, <3>3, <3>4, Zenon
  <2> QED
    BY <2>1, <2>2, <2>3, Zenon
<1> QED
  BY <1>5, <1>6, <1>7, Zenon DEF TreeInv

-----------------------------------------------------------------------------
(* The calls in progress.                                                   *)

\* An entry is made in a directory and moved into one, and a rename that has happened was
\* between paths that are not under one another.
Shape(k) ==
  /\ k.op \in Creates => k.rel # Root
  /\ k.op = "rename" => k.to # Root
  /\ k.pc = "move" => k.op = "rename"
  /\ k.pc \in {"forget", "move"} /\ k.op = "rename" => ~Under(k.rel, k.to) /\ ~Under(k.to, k.rel)

CallInv == \A c \in Conns : Shape(conn[c]) /\ conn[c].seen <= nfiles

\* The same call at another point.
Resumes(k, m) == k.op = m.op /\ k.rel = m.rel /\ k.to = m.to

\* The parts of a call.
LEMMA CallParts ==
  ASSUME ConnInv, NEW c \in Conns
  PROVE  /\ conn[c] \in Calls /\ DOMAIN conn = Conns
         /\ conn[c].rel \in Paths /\ conn[c].to \in Paths /\ conn[c].seen \in Nat
  BY ShareAssumption DEF ConnInv, Calls

\* What a call of c becomes.
Becomes(c, k) == conn' = [conn EXCEPT ![c] = k]

GotoLeft(c, pc, n) == conn' = [conn EXCEPT ![c].pc = pc, ![c].left = n]
GotoSeen(c, pc, f) == conn' = [conn EXCEPT ![c].pc = pc, ![c].seen = f]

\* A call with another point, count or file seen.
LEMMA CallMoves ==
  ASSUME ConnInv, NEW c \in Conns, NEW pc, NEW n
  PROVE  /\ Goto(c, pc) =>
              \E k : Becomes(c, k) /\ Resumes(k, conn[c]) /\ k.pc = pc /\ k.seen = conn[c].seen
         /\ GotoLeft(c, pc, n) =>
              \E k : Becomes(c, k) /\ Resumes(k, conn[c]) /\ k.pc = pc /\ k.seen = conn[c].seen
         /\ GotoSeen(c, pc, n) =>
              \E k : Becomes(c, k) /\ Resumes(k, conn[c]) /\ k.pc = pc /\ k.seen = n
<1> DEFINE k1 == [conn[c] EXCEPT !.pc = pc]
           k2 == [conn[c] EXCEPT !.pc = pc, !.left = n]
           k3 == [conn[c] EXCEPT !.pc = pc, !.seen = n]
<1>1. conn[c] \in Calls /\ DOMAIN conn = Conns
  BY CallParts, Zenon
<1>2. Goto(c, pc) => Becomes(c, k1)
  BY <1>1, Zenon DEF Becomes, Goto
<1>3. GotoLeft(c, pc, n) => Becomes(c, k2)
  BY <1>1, Zenon DEF Becomes, GotoLeft
<1>4. GotoSeen(c, pc, n) => Becomes(c, k3)
  BY <1>1, Zenon DEF Becomes, GotoSeen
<1>5. Resumes(k1, conn[c]) /\ k1.pc = pc /\ k1.seen = conn[c].seen
  BY <1>1, Zenon DEF Calls, Resumes
<1>6. Resumes(k2, conn[c]) /\ k2.pc = pc /\ k2.seen = conn[c].seen
  BY <1>1, Zenon DEF Calls, Resumes
<1>7. Resumes(k3, conn[c]) /\ k3.pc = pc /\ k3.seen = n
  BY <1>1, Zenon DEF Calls, Resumes
<1> HIDE DEF k1, k2, k3
<1> QED
  BY <1>2, <1>3, <1>4, <1>5, <1>6, <1>7, Zenon

\* Begin.
LEMMA BeginShape ==
  ASSUME ConnInv, NEW c \in Conns, Begin(c)
  PROVE  \E k : Becomes(c, k) /\ k.pc \in {"stat", "host"} /\ k.seen = 0 /\ Shape(k)
<1>1. ASSUME NEW op, NEW pc \in {"stat", "host"}, NEW rel, NEW to, NEW left, Busy(c, op, pc, rel, to, left),
             op \in Creates => rel # Root, op = "rename" => to # Root
      PROVE  \E k : Becomes(c, k) /\ k.pc \in {"stat", "host"} /\ k.seen = 0 /\ Shape(k)
  <2> DEFINE k == [pc |-> pc, op |-> op, rel |-> rel, to |-> to, seen |-> 0, left |-> left]
  <2>1. Becomes(c, k)
    BY <1>1, Zenon DEF Busy, Becomes
  <2>2. k.pc = pc /\ k.op = op /\ k.rel = rel /\ k.to = to /\ k.seen = 0
    BY Zenon
  <2> HIDE DEF k
  <2>3. Shape(k)
    BY <1>1, <2>2, Zenon DEF Shape
  <2> QED
    BY <2>1, <2>2, <2>3, Zenon
<1>2. \A p \in Entries : p # Root
  BY Zenon DEF Entries
<1>3. {"mount", "lookup", "handle", "remove", "rmdir", "rename"} \cap Creates = {}
  BY Zenon DEF Creates
<1>4. CASE Busy(c, "mount", "stat", Root, Root, 1)
  BY <1>1, <1>3, <1>4, Zenon
<1>5. ASSUME NEW h \in issued, Busy(c, "handle", "stat", mem.byID[h.id], Root, 1)
      PROVE  \E k : Becomes(c, k) /\ k.pc \in {"stat", "host"} /\ k.seen = 0 /\ Shape(k)
  BY <1>1, <1>3, <1>5, Zenon
<1>6. ASSUME NEW p \in Entries, NEW op \in {"lookup", "remove", "rmdir", "unchecked"}, Busy(c, op, "stat", p, Root, 1)
      PROVE  \E k : Becomes(c, k) /\ k.pc \in {"stat", "host"} /\ k.seen = 0 /\ Shape(k)
  BY <1>1, <1>2, <1>6, Zenon
<1>7. ASSUME NEW p \in Entries, NEW op \in {"guarded", "exclusive", "mkdir", "symlink"}, NEW n,
             Busy(c, op, "host", p, Root, n)
      PROVE  \E k : Becomes(c, k) /\ k.pc \in {"stat", "host"} /\ k.seen = 0 /\ Shape(k)
  BY <1>1, <1>2, <1>7, Zenon
<1>8. ASSUME NEW p \in Entries, NEW q \in Entries, Busy(c, "rename", "host", p, q, 0)
      PROVE  \E k : Becomes(c, k) /\ k.pc \in {"stat", "host"} /\ k.seen = 0 /\ Shape(k)
  BY <1>1, <1>2, <1>8, Zenon
<1> QED
  BY <1>4, <1>5, <1>6, <1>7, <1>8, Zenon DEF Begin, Removes

\* The rest of a call: an end or another point, by action.
LEMMA StatCall ==
  ASSUME ConnInv, NEW c \in Conns, Stat(c)
  PROVE  \/ Becomes(c, Idle)
         \/ \E k : /\ Becomes(c, k) /\ Resumes(k, conn[c])
                   /\ \/ k.pc = "number" /\ k.seen = host[conn[c].rel]
                      \/ k.pc = "host" /\ k.seen = conn[c].seen
<1>1. CASE GotoSeen(c, "number", host[conn[c].rel])
  <2>1. \E k : Becomes(c, k) /\ Resumes(k, conn[c]) /\ k.pc = "number" /\ k.seen = host[conn[c].rel]
    BY <1>1, CallMoves, SMTT(30)
  <2> QED
    BY <2>1, Zenon
<1>2. CASE GotoLeft(c, "host", 2)
  BY <1>2, CallMoves
<1>3. \/ GotoSeen(c, "number", host[conn[c].rel]) \/ GotoLeft(c, "host", 2) \/ Becomes(c, Idle)
  BY Zenon DEF Stat, Return, Becomes, GotoSeen, GotoLeft
<1> QED
  BY <1>1, <1>2, <1>3, Zenon

LEMMA NumberCall ==
  ASSUME ConnInv, NEW c \in Conns, NEW i, Numbered(c, i)
  PROVE  /\ \/ Becomes(c, Idle)
            \/ \E k : Becomes(c, k) /\ Resumes(k, conn[c]) /\ k.pc \in {"stat", "host"} /\ k.seen = conn[c].seen
         /\ issued' \in {issued, issued \cup {[id |-> i, file |-> conn[c].seen]}}
         /\ issued' # issued => Becomes(c, Idle)
<1>1. ASSUME NEW n, GotoLeft(c, "stat", n)
      PROVE  \E k : Becomes(c, k) /\ Resumes(k, conn[c]) /\ k.pc \in {"stat", "host"} /\ k.seen = conn[c].seen
  BY <1>1, CallMoves
<1>2. ASSUME Goto(c, "host")
      PROVE  \E k : Becomes(c, k) /\ Resumes(k, conn[c]) /\ k.pc \in {"stat", "host"} /\ k.seen = conn[c].seen
  BY <1>2, CallMoves
<1>3. Return(c) => Becomes(c, Idle)
  BY Zenon DEF Return, Becomes
<1>4. /\ \/ GotoLeft(c, "stat", conn[c].left - 1) \/ Goto(c, "host") \/ Return(c)
      /\ issued' \in {issued, issued \cup {[id |-> i, file |-> conn[c].seen]}}
      /\ issued' # issued => Return(c)
  BY Zenon DEF Numbered, GotoLeft
<1> QED
  BY <1>1, <1>2, <1>3, <1>4, Zenon

LEMMA MakeCall ==
  ASSUME ConnInv, NEW c \in Conns, Make(c)
  PROVE  \/ Becomes(c, Idle)
         \/ \E k : Becomes(c, k) /\ Resumes(k, conn[c]) /\ k.pc = "stat" /\ k.seen = conn[c].seen
<1>1. CASE Goto(c, "stat")
  BY <1>1, CallMoves
<1>2. CASE GotoLeft(c, "stat", 1)
  BY <1>2, CallMoves
<1>3. Goto(c, "stat") \/ GotoLeft(c, "stat", 1) \/ Becomes(c, Idle)
  BY Zenon DEF Make, Return, Becomes, GotoLeft
<1> QED
  BY <1>1, <1>2, <1>3, Zenon

LEMMA GotoCall ==
  ASSUME ConnInv, NEW c \in Conns, NEW pc \in {"forget", "move"}, Goto(c, pc)
  PROVE  \E k : Becomes(c, k) /\ Resumes(k, conn[c]) /\ k.pc = pc /\ k.seen = conn[c].seen
  BY CallMoves

\* An idle connection, and a call that goes on.
LEMMA IdleShape == Shape(Idle) /\ Idle.seen = 0 /\ Idle.pc = "idle"
  BY Zenon DEF Shape, Idle, Creates

LEMMA ResumeShape ==
  ASSUME NEW m, NEW k, Shape(m), Resumes(k, m), k.pc \notin {"forget", "move"}
  PROVE  Shape(k)
  BY Zenon DEF Shape, Resumes

LEMMA CallKeeps ==
  ASSUME HostInv, HostInv', ConnInv, CallInv, nfiles <= nfiles', NEW c \in Conns, NEW k, Becomes(c, k), Shape(k),
         k.seen \in Nat, k.seen <= nfiles'
  PROVE  CallInv'
<1>1. nfiles \in Nat /\ nfiles' \in Nat
  BY ShareAssumption DEF HostInv, Files
<1>2. ASSUME NEW d \in Conns PROVE Shape(conn'[d]) /\ conn'[d].seen <= nfiles'
  <2>1. CASE d = c
    BY <2>1, Zenon DEF Becomes, ConnInv
  <2>2. CASE d # c
    <3>1. conn'[d] = conn[d] /\ conn[d].seen \in Nat
      BY <2>2, CallParts, Zenon DEF Becomes
    <3> QED
      BY <1>1, <3>1 DEF CallInv
  <2> QED
    BY <2>1, <2>2, Zenon
<1> QED
  BY <1>2, Zenon DEF CallInv

\* The host directory stays.
LEMMA SameHost ==
  ASSUME HostInv, TreeInv, unchangedHost
  PROVE  TreeInv' /\ nfiles <= nfiles'
<1>1. nfiles \in Nat
  BY ShareAssumption DEF HostInv, Files
<1> QED
  BY <1>1 DEF TreeInv, unchangedHost

\* Every step keeps the tree and the calls.
LEMMA OrderNext ==
  ASSUME HostInv, HostInv', ConnInv, TableInv, TreeInv, CallInv, [Next]_vars
  PROVE  TreeInv' /\ CallInv' /\ nfiles <= nfiles'
<1>1. nfiles \in Nat /\ nfiles' \in Nat /\ \A p \in Paths : host[p] \in Nat /\ host[p] <= nfiles
  BY ShareAssumption DEF HostInv, Files, TreeInv
<1>2. ASSUME NEW c \in Conns, nfiles <= nfiles', Becomes(c, Idle) PROVE CallInv'
  BY <1>1, <1>2, IdleShape, CallKeeps
<1>3. ASSUME NEW c \in Conns, nfiles <= nfiles', NEW k, Becomes(c, k), Resumes(k, conn[c]),
             k.pc \notin {"forget", "move"}, k.seen \in Nat, k.seen <= nfiles
      PROVE  CallInv'
  <2>1. k.seen <= nfiles'
    BY <1>1, <1>3
  <2>2. Shape(k)
    BY <1>3, ResumeShape, Zenon DEF CallInv
  <2> QED
    BY <1>3, <2>1, <2>2, CallKeeps, Zenon
<1>4. \A c \in Conns : conn[c].seen \in Nat /\ conn[c].seen <= nfiles
  BY CallParts, Zenon DEF CallInv
<1>5. ASSUME NEW c \in Conns, Begin(c) PROVE TreeInv' /\ CallInv' /\ nfiles <= nfiles'
  <2>1. TreeInv' /\ nfiles <= nfiles'
    BY <1>5, SameHost, Zenon DEF Begin
  <2>2. PICK k : Becomes(c, k) /\ k.pc \in {"stat", "host"} /\ k.seen = 0 /\ Shape(k)
    BY <1>5, BeginShape, Zenon
  <2> QED
    BY <1>1, <2>1, <2>2, CallKeeps
<1>6. ASSUME NEW c \in Conns, Stat(c) PROVE TreeInv' /\ CallInv' /\ nfiles <= nfiles'
  <2>1. TreeInv' /\ nfiles <= nfiles'
    BY <1>6, SameHost, Zenon DEF Stat
  <2>2. host[conn[c].rel] \in Nat /\ host[conn[c].rel] <= nfiles
    BY <1>1, CallParts, Zenon
  <2>3. ASSUME NEW k, Becomes(c, k), Resumes(k, conn[c]),
               \/ k.pc = "number" /\ k.seen = host[conn[c].rel]
               \/ k.pc = "host" /\ k.seen = conn[c].seen
        PROVE  CallInv'
    <3>1. k.pc \notin {"forget", "move"} /\ k.seen \in Nat /\ k.seen <= nfiles
      BY <1>4, <2>2, <2>3, Zenon
    <3> QED
      BY <1>3, <2>1, <2>3, <3>1, Zenon
  <2> QED
    BY <1>2, <1>6, <2>1, <2>3, StatCall, Zenon
<1>7. ASSUME NEW c \in Conns, Number(c) PROVE TreeInv' /\ CallInv' /\ nfiles <= nfiles'
  <2>1. TreeInv' /\ nfiles <= nfiles'
    BY <1>7, SameHost, Zenon DEF Number
  <2>2. PICK i : Numbered(c, i)
    BY <1>7, Zenon DEF Number
  <2>3. \/ Becomes(c, Idle)
        \/ \E k : Becomes(c, k) /\ Resumes(k, conn[c]) /\ k.pc \in {"stat", "host"} /\ k.seen = conn[c].seen
    BY <2>2, NumberCall, Zenon
  <2>4. ASSUME NEW k, Becomes(c, k), Resumes(k, conn[c]), k.pc \in {"stat", "host"}, k.seen = conn[c].seen
        PROVE  CallInv'
    BY <1>3, <1>4, <2>1, <2>4, Zenon
  <2> QED
    BY <1>2, <2>1, <2>3, <2>4, Zenon
<1>8. ASSUME NEW c \in Conns, NumberFails(c) \/ Move(c) PROVE TreeInv' /\ CallInv' /\ nfiles <= nfiles'
  <2>1. TreeInv' /\ nfiles <= nfiles'
    BY <1>8, SameHost, Zenon DEF NumberFails, Move
  <2>2. Becomes(c, Idle)
    BY <1>8, Zenon DEF NumberFails, Move, Return, Becomes
  <2> QED
    BY <1>2, <2>1, <2>2, Zenon
<1>9. ASSUME NEW c \in Conns, Make(c) PROVE TreeInv' /\ CallInv' /\ nfiles <= nfiles'
  <2>1. conn[c].rel \in Paths /\ conn[c].rel # Root
    BY <1>9, CallParts, Zenon DEF Make, CallInv, Shape
  <2>2. TreeInv' /\ nfiles <= nfiles'
    <3>1. CASE HostMake(conn[c].rel, conn[c].op = "mkdir")
      BY <2>1, <3>1, MakeTree, Zenon
    <3>2. CASE unchangedHost
      BY <3>2, SameHost, Zenon
    <3> QED
      BY <1>9, <3>1, <3>2, Zenon DEF Make
  <2>3. ASSUME NEW k, Becomes(c, k), Resumes(k, conn[c]), k.pc = "stat", k.seen = conn[c].seen
        PROVE  CallInv'
    BY <1>3, <1>4, <2>2, <2>3, Zenon
  <2> QED
    BY <1>2, <1>9, <2>2, <2>3, MakeCall, Zenon
<1>10. ASSUME NEW c \in Conns, Unlink(c) PROVE TreeInv' /\ CallInv' /\ nfiles <= nfiles'
  <2>1. CASE HostRemove(conn[c].rel) /\ Goto(c, "forget")
    <3>1. TreeInv' /\ nfiles <= nfiles'
      <4>1. conn[c].rel \in Paths /\ nfiles' = nfiles
        BY <2>1, CallParts, Zenon DEF HostRemove
      <4>2. TreeInv'
        BY <2>1, <4>1, RemoveTree, Zenon
      <4> QED
        BY <1>1, <4>1, <4>2
    <3>2. PICK k : Becomes(c, k) /\ Resumes(k, conn[c]) /\ k.pc = "forget" /\ k.seen = conn[c].seen
      BY <2>1, GotoCall, Zenon
    <3>3. conn[c].op # "rename"
      BY <1>10, Zenon DEF Unlink, Removes
    <3>4. Shape(k)
      BY <3>2, <3>3, Zenon DEF CallInv, Shape, Resumes
    <3>5. k.seen \in Nat /\ k.seen <= nfiles'
      BY <1>1, <1>4, <3>1, <3>2
    <3> QED
      BY <3>1, <3>2, <3>4, <3>5, CallKeeps, Zenon
  <2>2. CASE Return(c) /\ unchangedHost
    BY <1>2, <2>2, SameHost, Zenon DEF Return, Becomes
  <2> QED
    BY <1>10, <2>1, <2>2, Zenon DEF Unlink
<1>11. ASSUME NEW c \in Conns, Rename(c) PROVE TreeInv' /\ CallInv' /\ nfiles <= nfiles'
  <2> DEFINE p == conn[c].rel
             q == conn[c].to
  <2>1. p \in Paths /\ q \in Paths /\ q # Root /\ conn[c].op = "rename"
    BY <1>11, CallParts, Zenon DEF Rename, CallInv, Shape
  <2>2. CASE HostRename(p, q) /\ p # q /\ Goto(c, "forget")
    <3>1. TreeInv' /\ ~Under(p, q) /\ ~Under(q, p)
      BY <2>1, <2>2, RenameTree, RenameHost, Zenon
    <3>2. nfiles <= nfiles'
      BY <1>1, <2>2 DEF HostRename
    <3>3. PICK k : Becomes(c, k) /\ Resumes(k, conn[c]) /\ k.pc = "forget" /\ k.seen = conn[c].seen
      BY <2>2, GotoCall, Zenon
    <3>4. Shape(k)
      BY <2>1, <3>1, <3>3, Zenon DEF Shape, Resumes, Creates
    <3>5. k.seen \in Nat /\ k.seen <= nfiles'
      BY <1>1, <1>4, <3>2, <3>3
    <3> QED
      BY <3>1, <3>2, <3>3, <3>4, <3>5, CallKeeps, Zenon
  <2>3. CASE HostRename(p, q) /\ p = q /\ Return(c)
    <3>1. unchangedHost
      BY <1>11, <2>3, Zenon DEF HostRename, unchangedHost, Rename, unchangedTable
    <3> QED
      BY <1>2, <2>3, <3>1, SameHost, Zenon DEF Return, Becomes
  <2>4. CASE Return(c) /\ unchangedHost
    BY <1>2, <2>4, SameHost, Zenon DEF Return, Becomes
  <2> QED
    BY <1>11, <2>2, <2>3, <2>4, Zenon DEF Rename
<1>12. ASSUME NEW c \in Conns, Forget(c) PROVE TreeInv' /\ CallInv' /\ nfiles <= nfiles'
  <2>1. TreeInv' /\ nfiles <= nfiles'
    BY <1>12, SameHost, Zenon DEF Forget
  <2>2. CASE conn[c].op = "rename" /\ Goto(c, "move")
    <3>1. PICK k : Becomes(c, k) /\ Resumes(k, conn[c]) /\ k.pc = "move" /\ k.seen = conn[c].seen
      BY <2>2, GotoCall, Zenon
    <3>2. conn[c].pc = "forget"
      BY <1>12, Zenon DEF Forget
    <3>3. Shape(k)
      BY <2>2, <3>1, <3>2, Zenon DEF CallInv, Shape, Resumes
    <3>4. k.seen \in Nat /\ k.seen <= nfiles'
      BY <1>1, <1>4, <2>1, <3>1
    <3> QED
      BY <2>1, <3>1, <3>3, <3>4, CallKeeps, Zenon
  <2>3. CASE Return(c)
    BY <1>2, <2>1, <2>3, Zenon DEF Return, Becomes
  <2> QED
    BY <1>12, <2>2, <2>3, Zenon DEF Forget
<1>13. CASE Crash \/ \E c \in Conns : CrashInChange(c)
  <2>1. unchangedHost /\ conn' = [c \in Conns |-> Idle]
    BY <1>13, Zenon DEF Crash, CrashInChange
  <2>2. CallInv'
    BY <1>1, <2>1, IdleShape DEF CallInv
  <2> QED
    BY <2>1, <2>2, SameHost, Zenon
<1>14. CASE Load \/ Swap \/ UNCHANGED vars
  <2>1. unchangedHost /\ conn' = conn
    BY <1>14, Zenon DEF Load, Swap, vars, unchangedHost
  <2>2. CallInv'
    BY <2>1, Zenon DEF CallInv, unchangedHost
  <2> QED
    BY <2>1, <2>2, SameHost, Zenon
<1> QED
  BY <1>5, <1>6, <1>7, <1>8, <1>9, <1>10, <1>11, <1>12, <1>13, <1>14, Zenon DEF Next, Step

-----------------------------------------------------------------------------
(* One operation at a time.                                                 *)

\* Where the call in progress will leave the entry that the table has at x.
Fate(k, x) ==
  IF x = None THEN None
  ELSE IF k.pc = "forget" /\ k.op = "rename" THEN
         IF Under(x, k.rel) THEN Rebased(x, k.rel, k.to) ELSE IF Under(x, k.to) THEN None ELSE x
  ELSE IF k.pc = "forget" THEN IF Under(x, k.rel) THEN None ELSE x
  ELSE IF k.pc = "move" THEN IF Under(x, k.rel) THEN Rebased(x, k.rel, k.to) ELSE x
  ELSE x

\* The file of every handle is where the call in progress will leave the handle's entry, and
\* nowhere if it will leave none.
Lands(files, handles, table, k) ==
  \A h \in handles, r \in Paths : files[r] = h.file <=> Fate(k, table[h.id]) = r

Plain(k) == k.pc \notin {"forget", "move"}

\* Only forget and move change entries.
LEMMA PlainFate ==
  ASSUME NEW k, Plain(k), NEW x
  PROVE  Fate(k, x) = x
  BY Zenon DEF Plain, Fate

\* Each change to the table makes the entries what they were to become.
LEMMA LandsSame ==
  ASSUME NEW H, NEW I, NEW T, NEW U, NEW m, NEW k, Lands(H, I, T, m),
         \A h \in I : Fate(k, U[h.id]) = Fate(m, T[h.id])
  PROVE  Lands(H, I, U, k)
  BY Zenon DEF Lands

LEMMA PlainLands ==
  ASSUME NEW H, NEW I, NEW T, NEW m, NEW k, Lands(H, I, T, m), Plain(m), Plain(k)
  PROVE  Lands(H, I, T, k)
  BY PlainFate DEF Lands

\* A number: the entries T become U and the handles I become J, with one for the file at p.
Gives(H, I, T, J, U, p, i) ==
  /\ p \in Paths /\ H[p] # 0 /\ U[i] = p
  /\ \A r, s \in Paths : H[r] # 0 /\ H[r] = H[s] => r = s
  /\ \A h \in I : U[h.id] = T[h.id]
  /\ J \subseteq I \cup {[id |-> i, file |-> H[p]]}

\* The handle issued is for the file that is at the path now.
LEMMA LandsNumber ==
  ASSUME NEW H, NEW I, NEW T, NEW U, NEW m, NEW k, Lands(H, I, T, m), Plain(m), Plain(k),
         NEW p, NEW i, NEW J, Gives(H, I, T, J, U, p, i)
  PROVE  Lands(H, J, U, k)
<1> DEFINE f == H[p]
<1>0. /\ p \in Paths /\ f # 0 /\ H[p] = f /\ U[i] = p
      /\ \A r, s \in Paths : H[r] # 0 /\ H[r] = H[s] => r = s
      /\ \A h \in I : U[h.id] = T[h.id]
      /\ J \subseteq I \cup {[id |-> i, file |-> f]}
  BY Zenon DEF Gives
<1> HIDE DEF f
<1>1. ASSUME NEW h \in I, NEW r \in Paths PROVE H[r] = h.file <=> Fate(k, U[h.id]) = r
  <2>1. H[r] = h.file <=> Fate(m, T[h.id]) = r
    BY <1>1, Zenon DEF Lands
  <2>2. U[h.id] = T[h.id]
    BY <1>0, <1>1, Zenon
  <2>3. Fate(m, T[h.id]) = T[h.id] /\ Fate(k, T[h.id]) = T[h.id]
    BY PlainFate, Zenon
  <2> QED
    BY <2>1, <2>2, <2>3, Zenon
<1>2. ASSUME NEW r \in Paths PROVE H[r] = f <=> Fate(k, U[i]) = r
  BY <1>0, <1>2, PlainFate, Zenon
<1>3. [id |-> i, file |-> f].id = i /\ [id |-> i, file |-> f].file = f
  BY Zenon
<1>4. ASSUME NEW h \in J, NEW r \in Paths PROVE H[r] = h.file <=> Fate(k, U[h.id]) = r
  <2>1. CASE h \in I
    BY <1>1, <2>1, Zenon
  <2>2. CASE h = [id |-> i, file |-> f]
    BY <1>2, <1>3, <2>2, Zenon
  <2> QED
    BY <1>0, <2>1, <2>2, Zenon
<1> QED
  BY <1>4, Zenon DEF Lands

\* A file that goes takes its entry with it.
LEMMA LandsRemove ==
  ASSUME NEW H, NEW I, NEW T, NEW m, NEW k, Lands(H, I, T, m), Plain(m),
         NEW p \in Paths, k.pc = "forget", k.op # "rename", k.rel = p,
         NEW G, \A r \in Paths : G[r] = IF Under(r, p) THEN 0 ELSE H[r],
         \A h \in I : h.file # 0 /\ T[h.id] \in Paths \cup {None}
  PROVE  Lands(G, I, T, k)
<1> SUFFICES ASSUME NEW h \in I, NEW r \in Paths PROVE G[r] = h.file <=> Fate(k, T[h.id]) = r
  BY Zenon DEF Lands
<1> DEFINE x == T[h.id]
<1>1. H[r] = h.file <=> x = r
  BY PlainFate DEF Lands
<1>2. Fate(k, x) = IF x = None \/ Under(x, p) THEN None ELSE x
  BY Zenon DEF Fate
<1>3. r # None /\ h.file # 0 /\ G[r] = IF Under(r, p) THEN 0 ELSE H[r]
  BY NoneFacts, Zenon
<1> HIDE DEF x
<1>4. G[r] = h.file <=> Fate(k, x) = r
  BY <1>1, <1>2, <1>3
<1> QED
  BY <1>4, Zenon DEF x

\* The host's tree G is H with what was at p at q.
Carries(H, G, p, q) ==
  /\ \A r \in Paths : G[r] # 0 =>
       /\ ~Under(r, p)
       /\ Under(r, q) => Rebased(r, q, p) \in Paths /\ G[r] = H[Rebased(r, q, p)]
       /\ ~Under(r, q) => G[r] = H[r]
  /\ \A x \in Paths : H[x] # 0 =>
       /\ Under(x, p) => Rebased(x, p, q) \in Paths /\ G[Rebased(x, p, q)] = H[x]
       /\ ~Under(x, p) /\ ~Under(x, q) => G[x] = H[x]

\* A rename takes the entries along.
LEMMA LandsRename ==
  ASSUME NEW H, NEW I, NEW T, NEW m, NEW k, Lands(H, I, T, m), Plain(m),
         NEW p \in Paths, NEW q \in Paths, k.pc = "forget", k.op = "rename", k.rel = p, k.to = q, NEW G,
         Carries(H, G, p, q), \A h \in I : h.file # 0 /\ T[h.id] \in Paths \cup {None}
  PROVE  Lands(G, I, T, k)
<1> USE DEF Carries
<1> SUFFICES ASSUME NEW h \in I, NEW r \in Paths PROVE G[r] = h.file <=> Fate(k, T[h.id]) = r
  BY Zenon DEF Lands
<1> DEFINE x == T[h.id]
<1>1. \A s \in Paths : H[s] = h.file <=> x = s
  BY PlainFate DEF Lands
<1>2. Fate(k, x) = IF x = None THEN None ELSE IF Under(x, p) THEN Rebased(x, p, q)
                   ELSE IF Under(x, q) THEN None ELSE x
  BY Zenon DEF Fate
<1>3. r # None /\ h.file # 0 /\ x \in Paths \cup {None}
  BY NoneFacts, Zenon
<1>4. r \in Seq(Names) /\ p \in Seq(Names) /\ q \in Seq(Names)
  BY PathFacts, Zenon
<1> HIDE DEF x
<1>5. ASSUME G[r] = h.file PROVE Fate(k, x) = r
  <2>1. CASE Under(r, q)
    <3>1. x = Rebased(r, q, p) /\ x \in Paths
      BY <1>1, <1>3, <1>5, <2>1
    <3>2. Under(x, p) /\ Rebased(x, p, q) = r
      BY <1>4, <2>1, <3>1, RebasedBack, Zenon
    <3>3. x # None
      BY <3>1, NoneFacts, Zenon
    <3> QED
      BY <1>2, <3>2, <3>3, Zenon
  <2>2. CASE ~Under(r, q)
    <3>1. x = r /\ ~Under(r, p)
      BY <1>1, <1>3, <1>5, <2>2, Zenon
    <3> QED
      BY <1>2, <1>3, <2>2, <3>1, Zenon
  <2> QED
    BY <2>1, <2>2, Zenon
<1>6. ASSUME Fate(k, x) = r PROVE G[r] = h.file
  <2>1. x # None /\ x \in Paths /\ H[x] = h.file
    BY <1>1, <1>2, <1>3, <1>6, Zenon
  <2>2. CASE Under(x, p)
    <3>1. r = Rebased(x, p, q)
      BY <1>2, <1>6, <2>1, <2>2, Zenon
    <3>2. H[x] # 0
      BY <1>3, <2>1, Zenon
    <3>3. G[Rebased(x, p, q)] = H[x]
      BY <2>1, <2>2, <3>2, Zenon
    <3> QED
      BY <2>1, <3>1, <3>3, Zenon
  <2>3. CASE ~Under(x, p)
    <3>1. ~Under(x, q) /\ x = r
      BY <1>2, <1>3, <1>6, <2>1, <2>3, ZenonT(60)
    <3> QED
      BY <2>1, <2>3, <3>1, ZenonT(60)
  <2> QED
    BY <2>2, <2>3, Zenon
<1>7. G[r] = h.file <=> Fate(k, x) = r
  BY <1>5, <1>6, Zenon
<1> QED
  BY <1>7, Zenon DEF x

\* The table after remove and after move.
LEMMA ForgetFate ==
  ASSUME NEW x \in Paths \cup {None}, NEW m, m.pc = "forget", m.rel \in Paths, m.to \in Paths, Shape(m),
         NEW gone, gone = IF m.op = "rename" THEN m.to ELSE m.rel,
         NEW y, y = IF x # None /\ Under(x, gone) THEN None ELSE x
  PROVE  /\ m.op # "rename" => y = Fate(m, x)
         /\ \A k : k.pc = "move" /\ Resumes(k, m) /\ m.op = "rename" => Fate(k, y) = Fate(m, x)
<1>1. ASSUME m.op # "rename" PROVE y = Fate(m, x)
  BY <1>1, Zenon DEF Fate
<1>2. ASSUME NEW k, k.pc = "move", Resumes(k, m), m.op = "rename" PROVE Fate(k, y) = Fate(m, x)
  <2>1. k.rel = m.rel /\ k.to = m.to /\ gone = m.to
    BY <1>2, Zenon DEF Resumes
  <2>2. CASE x = None
    BY <2>2, Zenon DEF Fate
  <2>3. CASE x # None
    <3>1. ~(Under(x, m.rel) /\ Under(x, m.to))
      <4>1. x \in Paths /\ ~Under(m.rel, m.to) /\ ~Under(m.to, m.rel)
        BY <1>2, <2>3, Zenon DEF Shape
      <4> QED
        BY <4>1, PathOrder, Zenon
    <3>2. Fate(m, x) = IF Under(x, m.rel) THEN Rebased(x, m.rel, m.to) ELSE IF Under(x, m.to) THEN None ELSE x
      BY <1>2, <2>3, Zenon DEF Fate
    <3>3. Fate(k, y) = IF y = None THEN None ELSE IF Under(y, m.rel) THEN Rebased(y, m.rel, m.to) ELSE y
      BY <1>2, <2>1, Zenon DEF Fate
    <3> QED
      BY <2>1, <2>3, <3>1, <3>2, <3>3, Zenon
  <2> QED
    BY <2>2, <2>3, Zenon
<1> QED
  BY <1>1, <1>2, Zenon

LEMMA MoveFate ==
  ASSUME NEW x, NEW m, m.pc = "move", NEW y, y = IF x # None /\ Under(x, m.rel) THEN Rebased(x, m.rel, m.to) ELSE x
  PROVE  y = Fate(m, x)
  BY Zenon DEF Fate

\* No handle is for a file that is not yet made, or has an id that is not yet given out.
HandleInv == \A h \in issued : h.file <= nfiles /\ h.id < Known.next

\* One connection is busy at most, the file it saw is still there, and the handles' files are
\* where their entries will be.
SerialInv ==
  OneAtATime =>
    /\ \A c, d \in Conns : conn[c].pc # "idle" /\ conn[d].pc # "idle" => c = d
    /\ \A c \in Conns : conn[c].pc = "number" => conn[c].seen = host[conn[c].rel]
    /\ \A c \in Conns : conn[c].pc # "idle" => Lands(host, issued, Known.byID, conn[c])
    /\ (\A c \in Conns : conn[c].pc = "idle") => Lands(host, issued, Known.byID, Idle)

Alone(c) == \A d \in Conns \ {c} : conn[d].pc = "idle"

\* The handle a number gives out has the id of the path.
LEMMA NumberIssues ==
  ASSUME HostInv, ConnInv, TableInv, NEW c \in Conns, Number(c)
  PROVE  \E i \in Ids :
           /\ Numbered(c, i) /\ Known'.byID[i] = conn[c].rel /\ i < Known'.next
           /\ \A j \in Ids : j < Known.next => Known'.byID[j] = Known.byID[j]
<1> DEFINE p == conn[c].rel
<1>1. phase = "up" /\ phase' = phase /\ p \in Paths /\ Known = mem /\ Known' = mem'
  BY CallParts, Zenon DEF Number, ConnInv, Known
<1>2. mem \in Tables /\ Agree(mem) /\ Fresh(mem) /\ mem.next \in Nat
  BY TableParts, Zenon DEF TableInv
<1>3. CASE mem.byPath[p] # 0
  <2> DEFINE i == mem.byPath[p]
  <2>1. Numbered(c, i) /\ mem' = mem
    BY <1>3, Zenon DEF Number
  <2>2. i \in Ids
    BY <1>1, <1>2, <1>3, TableParts, ShareAssumption DEF Ids
  <2>3. mem.byID[i] = p
    BY <1>1, <1>2, <1>3, Zenon DEF Agree
  <2>4. i < mem.next
    BY <1>1, <1>2, <2>2, <2>3, NoneFacts, Zenon DEF Fresh
  <2> HIDE DEF i
  <2> QED
    BY <1>1, <2>1, <2>2, <2>3, <2>4, Zenon
<1>4. CASE mem.byPath[p] = 0
  <2> DEFINE i == mem.next
  <2>1. Numbered(c, i) /\ mem.next <= scene.ids /\ mem' = Set(mem, i, p)
    BY <1>4, Zenon DEF Number
  <2>2. i \in Ids
    BY <1>2, <2>1, TableParts, SceneFacts DEF HostInv, Ids
  <2>3. mem.byID \in [Ids -> Paths \cup {None}]
    BY <1>2, TableParts, Zenon
  <2>4. mem'.byID = [mem.byID EXCEPT ![i] = p] /\ mem'.next = Larger(mem.next, i + 1)
    BY <2>1, Zenon DEF Set
  <2>5. i < mem'.next
    BY <1>2, <2>4 DEF Larger
  <2>6. mem'.byID[i] = p
    BY <2>2, <2>3, <2>4, Zenon
  <2>7. ASSUME NEW j \in Ids, j < mem.next PROVE mem'.byID[j] = mem.byID[j]
    <3>1. j # i
      BY <1>2, <2>7
    <3> QED
      BY <2>3, <2>4, <3>1, Zenon
  <2> HIDE DEF i
  <2> QED
    BY <1>1, <2>1, <2>2, <2>5, <2>6, <2>7, Zenon
<1> QED
  BY <1>3, <1>4, Zenon

\* Every other step issues no handle.
LEMMA NothingIssued ==
  ASSUME [Next]_vars, \A c \in Conns : ~Number(c)
  PROVE  issued' = issued
  BY Zenon DEF Next, Step, Begin, Stat, NumberFails, Make, Unlink, Rename, Forget, Move, Crash, CrashInChange,
         Load, Swap, vars

\* Handles are for files that have been made.
LEMMA HandleNext ==
  ASSUME HostInv, HostInv', ConnInv, TableInv, TableInv', CallInv, HandleInv, nfiles <= nfiles',
         Later(Known, Known'), [Next]_vars
  PROVE  HandleInv'
<1>1. /\ nfiles \in Nat /\ nfiles' \in Nat /\ Known.next \in Nat /\ Known'.next \in Nat
      /\ Known.next <= Known'.next
  <2>1. Known \in Tables
    BY KnownOK, Zenon
  <2>2. Known' \in Tables
    <3>1. log' \in Seq(Lines) /\ mem' \in Tables
      BY Zenon DEF TableInv
    <3>2. Play(Empty, log') \in Tables
      BY <3>1, EmptyOK, PlayOK, Zenon
    <3> QED
      BY <3>1, <3>2, Zenon DEF Known
  <2> QED
    BY <2>1, <2>2, TableParts, ShareAssumption DEF HostInv, Files, Later
<1>2. \A h \in issued : h.id \in Nat /\ h.file \in Nat
  BY ShareAssumption DEF ConnInv, Ids, Files
<1>3. \A h \in issued : h.file <= nfiles' /\ h.id < Known'.next
  BY <1>1, <1>2 DEF HandleInv
<1>4. ASSUME NEW c \in Conns, Number(c) PROVE HandleInv'
  <2>1. PICK i \in Ids : Numbered(c, i) /\ i < Known'.next
    BY <1>4, NumberIssues, Zenon
  <2>2. issued' \in {issued, issued \cup {[id |-> i, file |-> conn[c].seen]}}
    BY <2>1, NumberCall, Zenon
  <2>3. conn[c].seen <= nfiles'
    BY <1>1, CallParts DEF CallInv
  <2> QED
    BY <1>3, <2>1, <2>2, <2>3 DEF HandleInv
<1> QED
  BY <1>3, <1>4, NothingIssued, Zenon DEF HandleInv

\* While one operation runs at a time, a request is taken when none runs.
LEMMA FreeIdle ==
  ASSUME scene.alone, Free
  PROVE  \A c \in Conns : conn[c].pc = "idle"
  BY Zenon DEF Free

\* The busy connection is the only one.
LEMMA BusyAlone ==
  ASSUME OneAtATime, SerialInv, NEW c \in Conns, conn[c].pc # "idle"
  PROVE  Alone(c) /\ Lands(host, issued, Known.byID, conn[c])
  BY Zenon DEF SerialInv, Alone

\* A step of the only busy connection.
LEMMA SerialStep ==
  ASSUME ConnInv, OneAtATime, scene' = scene, NEW c \in Conns, Alone(c), NEW k, Becomes(c, k),
         k.pc = "number" => k.seen = host'[k.rel], Lands(host', issued', Known'.byID, k)
  PROVE  SerialInv'
<1>1. conn'[c] = k /\ \A d \in Conns : d # c => conn'[d].pc = "idle"
  BY CallParts, Zenon DEF Becomes, Alone
<1>2. ASSUME k.pc = "idle" PROVE Lands(host', issued', Known'.byID, Idle)
  BY <1>2, PlainLands, IdleShape, Zenon DEF Plain
<1> QED
  BY <1>1, <1>2, Zenon DEF SerialInv

\* Every step keeps it.
LEMMA SerialNext ==
  ASSUME HostInv, HostInv', ConnInv, TableInv, TreeInv, CallInv, HandleInv, SerialInv, [Next]_vars
  PROVE  SerialInv'
<1>1. scene' = scene
  BY Zenon DEF Next, Step, Begin, Stat, Number, NumberFails, Make, Unlink, Rename, Forget, Move, Crash, CrashInChange,
         Load, Swap, vars, unchangedHost, unchangedTable
<1>2. SUFFICES ASSUME OneAtATime PROVE SerialInv'
  BY <1>1, Zenon DEF SerialInv, OneAtATime
<1> DEFINE T == Known.byID
<1>3. /\ \A h \in issued : h.id \in Ids /\ h.file # 0 /\ h.file \in Nat /\ T[h.id] \in Paths \cup {None}
      /\ nfiles \in Nat
  <2>1. T \in [Ids -> Paths \cup {None}]
    BY KnownOK, TableParts, Zenon
  <2> QED
    BY <2>1, ShareAssumption DEF ConnInv, Files, HostInv
<1>4. ASSUME NEW c \in Conns, Begin(c) PROVE SerialInv'
  <2>1. Alone(c) /\ Lands(host, issued, T, Idle)
    BY <1>2, <1>4, FreeIdle, Zenon DEF Begin, OneAtATime, Alone, SerialInv
  <2>2. PICK k : Becomes(c, k) /\ k.pc \in {"stat", "host"}
    BY <1>4, BeginShape, Zenon
  <2>3. host' = host /\ issued' = issued /\ Known' = Known
    BY <1>4, Zenon DEF Begin, unchangedHost, unchangedTable, Known
  <2>4. Lands(host', issued', Known'.byID, k)
    BY <2>1, <2>2, <2>3, PlainLands, IdleShape, Zenon DEF Plain
  <2> QED
    BY <1>1, <1>2, <2>1, <2>2, <2>4, SerialStep, Zenon
\* A step that ends the call or goes on with it, and leaves files, handles and table.
<1>5. ASSUME NEW c \in Conns, conn[c].pc # "idle", Plain(conn[c]), NEW k, Becomes(c, k), Plain(k),
             k.pc = "number" => k.seen = host'[k.rel],
             host' = host, issued' = issued, Known' = Known
      PROVE  SerialInv'
  <2>1. Alone(c) /\ Lands(host, issued, T, conn[c])
    BY <1>2, <1>5, BusyAlone, Zenon
  <2>2. Lands(host', issued', Known'.byID, k)
    BY <1>5, <2>1, PlainLands, Zenon
  <2> QED
    BY <1>1, <1>2, <1>5, <2>1, <2>2, SerialStep, Zenon
<1>6. Plain(Idle) /\ Idle.pc # "number"
  BY IdleShape, Zenon DEF Plain
<1>7. ASSUME NEW c \in Conns, Stat(c) PROVE SerialInv'
  <2>1. host' = host /\ issued' = issued /\ Known' = Known
    BY <1>7, Zenon DEF Stat, unchangedHost, unchangedTable, Known
  <2>2. conn[c].pc # "idle" /\ Plain(conn[c])
    BY <1>7, Zenon DEF Stat, Plain
  <2>3. ASSUME NEW k, Becomes(c, k), Resumes(k, conn[c]),
               \/ k.pc = "number" /\ k.seen = host[conn[c].rel]
               \/ k.pc = "host" /\ k.seen = conn[c].seen
        PROVE  SerialInv'
    <3>1. Plain(k) /\ (k.pc = "number" => k.seen = host'[k.rel])
      BY <2>1, <2>3, Zenon DEF Plain, Resumes
    <3> QED
      BY <1>5, <2>1, <2>2, <2>3, <3>1, Zenon
  <2>4. CASE Becomes(c, Idle)
    BY <1>5, <1>6, <2>1, <2>2, <2>4, Zenon
  <2> QED
    BY <1>7, <2>3, <2>4, StatCall, Zenon
<1>8. ASSUME NEW c \in Conns, NumberFails(c) PROVE SerialInv'
  <2>1. host' = host /\ issued' = issued /\ Known' = Known
    BY <1>8, Zenon DEF NumberFails, unchangedHost, unchangedTable, Known
  <2>2. conn[c].pc # "idle" /\ Plain(conn[c]) /\ Becomes(c, Idle)
    BY <1>8, Zenon DEF NumberFails, Plain, Return, Becomes
  <2> QED
    BY <1>5, <1>6, <2>1, <2>2, Zenon
<1>9. ASSUME NEW c \in Conns, Number(c) PROVE SerialInv'
  <2> DEFINE p == conn[c].rel
             f == conn[c].seen
  <2>1. PICK i \in Ids : /\ Numbered(c, i) /\ Known'.byID[i] = p
                         /\ \A j \in Ids : j < Known.next => Known'.byID[j] = Known.byID[j]
    BY <1>9, NumberIssues, Zenon
  <2>2. conn[c].pc = "number" /\ conn[c].pc # "idle" /\ Plain(conn[c]) /\ host' = host
    BY <1>9, Zenon DEF Number, Plain, unchangedHost
  <2>3. Alone(c) /\ Lands(host, issued, T, conn[c])
    BY <1>2, <2>2, BusyAlone, Zenon
  <2>4. f # 0 /\ host[p] = f /\ p \in Paths
    BY <1>2, <2>2, CallParts, Zenon DEF ConnInv, SerialInv
  <2>5. /\ \/ Becomes(c, Idle)
           \/ \E k : Becomes(c, k) /\ k.pc \in {"stat", "host"}
        /\ issued' \subseteq issued \cup {[id |-> i, file |-> f]}
    <3>1. /\ \/ Becomes(c, Idle)
             \/ \E k : Becomes(c, k) /\ Resumes(k, conn[c]) /\ k.pc \in {"stat", "host"} /\ k.seen = f
          /\ issued' \in {issued, issued \cup {[id |-> i, file |-> f]}}
      BY <2>1, NumberCall, Zenon
    <3> HIDE DEF f
    <3> QED
      BY <3>1, Zenon
  <2>6. PICK k : Becomes(c, k) /\ Plain(k) /\ k.pc # "number"
    BY <1>6, <2>5, Zenon DEF Plain
  <2>7. \A h \in issued : Known'.byID[h.id] = T[h.id]
    BY <1>3, <2>1, Zenon DEF HandleInv
  <2>8. \A r, s \in Paths : host[r] # 0 /\ host[r] = host[s] => r = s
    BY Zenon DEF TreeInv
  <2>9. Lands(host, issued', Known'.byID, k)
    <3> DEFINE U == Known'.byID
               J == issued'
               m == conn[c]
    <3>1. Lands(host, issued, T, m) /\ Plain(m) /\ Plain(k) /\ f # 0 /\ host[p] = f /\ U[i] = p /\ p \in Paths
      BY <2>1, <2>2, <2>3, <2>4, <2>6, Zenon
    <3>2. (\A h \in issued : U[h.id] = T[h.id]) /\ J \subseteq issued \cup {[id |-> i, file |-> f]}
      BY <2>5, <2>7, Zenon
    <3>3. Gives(host, issued, T, J, U, p, i)
      BY <2>8, <3>1, <3>2, Zenon DEF Gives
    <3> HIDE DEF U, J, m, f, p, T
    <3>4. Lands(host, J, U, k)
      BY <3>1, <3>3, LandsNumber, Zenon
    <3> QED
      BY <3>4, Zenon DEF U, J
  <2> QED
    BY <1>1, <1>2, <2>2, <2>3, <2>6, <2>9, SerialStep, Zenon
<1>10. ASSUME NEW c \in Conns, Make(c) PROVE SerialInv'
  <2> DEFINE p == conn[c].rel
  <2>1. conn[c].pc # "idle" /\ Plain(conn[c]) /\ p \in Paths /\ p # Root /\ issued' = issued /\ Known' = Known
    BY <1>10, CallParts, Zenon DEF Make, Plain, CallInv, Shape, unchangedTable, Known
  <2>2. PICK k : Becomes(c, k) /\ Plain(k) /\ k.pc # "number"
    BY <1>6, <1>10, MakeCall, Zenon DEF Plain
  <2>3. Alone(c) /\ Lands(host, issued, T, conn[c])
    BY <1>2, <2>1, BusyAlone, Zenon
  <2>4. CASE HostMake(p, conn[c].op = "mkdir")
    <3>1. host[p] = 0 /\ host' = [host EXCEPT ![p] = nfiles'] /\ nfiles < nfiles' /\ nfiles' \in Nat
      BY <2>1, <2>4, MakeTree, ShareAssumption DEF Files
    <3> DEFINE n == nfiles'
               G == host'
               m == conn[c]
    <3>2. \A r \in Paths : G[r] = IF r = p THEN n ELSE host[r]
      BY <3>1, Zenon DEF HostInv
    <3>3. \A h \in issued : h.file # 0 /\ h.file # n
      BY <1>3, <3>1 DEF HandleInv
    <3>4. Lands(host, issued, T, m) /\ Plain(m) /\ Plain(k) /\ p \in Paths /\ host[p] = 0
      BY <2>1, <2>2, <2>3, <3>1, Zenon
    <3> HIDE DEF n, G, m, p, T
    <3>5. Lands(G, issued, T, k)
      <4>1. Lands(host, issued, T, k)
        BY <3>4, PlainLands, Zenon
      <4> QED
        BY <3>2, <3>3, <3>4, <4>1, Zenon DEF Lands
    <3>6. Lands(host', issued', Known'.byID, k)
      BY <2>1, <3>5, Zenon DEF G, T
    <3> QED
      BY <1>1, <1>2, <2>2, <2>3, <3>6, SerialStep, Zenon
  <2>5. CASE unchangedHost
    BY <1>5, <2>1, <2>2, <2>5, Zenon DEF unchangedHost
  <2> QED
    BY <1>10, <2>4, <2>5, Zenon DEF Make
<1>11. ASSUME NEW c \in Conns, Unlink(c) PROVE SerialInv'
  <2> DEFINE p == conn[c].rel
             m == conn[c]
  <2>1. /\ m.pc # "idle" /\ Plain(m) /\ p \in Paths /\ issued' = issued /\ Known' = Known
        /\ m.op # "rename"
    BY <1>11, CallParts, Zenon DEF Unlink, Plain, unchangedTable, Known, Removes
  <2>2. Alone(c) /\ Lands(host, issued, T, m)
    BY <1>2, <2>1, BusyAlone, Zenon
  <2>3. CASE HostRemove(p) /\ Goto(c, "forget")
    <3>1. PICK k : Becomes(c, k) /\ Resumes(k, m) /\ k.pc = "forget"
      BY <2>3, GotoCall, Zenon
    <3> DEFINE G == host'
    <3>2. \A r \in Paths : G[r] = IF Under(r, p) THEN 0 ELSE host[r]
      BY <2>1, <2>3, RemoveTree, Zenon
    <3>3. k.pc = "forget" /\ k.op # "rename" /\ k.rel = p
      BY <2>1, <3>1, Zenon DEF Resumes
    <3>4. Lands(host, issued, T, m) /\ Plain(m) /\ p \in Paths
      BY <2>1, <2>2, Zenon
    <3>5. \A h \in issued : h.file # 0 /\ T[h.id] \in Paths \cup {None}
      BY <1>3, Zenon
    <3> HIDE DEF G, m, p, T
    <3>6. Lands(G, issued, T, k)
      BY <3>2, <3>3, <3>4, <3>5, LandsRemove, Zenon
    <3>7. Lands(host', issued', Known'.byID, k)
      BY <2>1, <3>6, Zenon DEF G, T
    <3> QED
      BY <1>1, <1>2, <2>2, <3>1, <3>3, <3>7, SerialStep, Zenon
  <2>4. CASE Return(c) /\ unchangedHost
    BY <1>5, <1>6, <2>1, <2>4, Zenon DEF unchangedHost, Return, Becomes
  <2> QED
    BY <1>11, <2>3, <2>4, Zenon DEF Unlink
<1>12. ASSUME NEW c \in Conns, Rename(c) PROVE SerialInv'
  <2> DEFINE p == conn[c].rel
             q == conn[c].to
             m == conn[c]
  <2>1. /\ m.pc # "idle" /\ Plain(m) /\ p \in Paths /\ q \in Paths /\ issued' = issued /\ Known' = Known
        /\ m.op = "rename"
    BY <1>12, CallParts, Zenon DEF Rename, Plain, unchangedTable, Known
  <2>2. Alone(c) /\ Lands(host, issued, T, m)
    BY <1>2, <2>1, BusyAlone, Zenon
  <2>3. CASE HostRename(p, q) /\ p # q /\ Goto(c, "forget")
    <3>1. PICK k : Becomes(c, k) /\ Resumes(k, m) /\ k.pc = "forget"
      BY <2>3, GotoCall, Zenon
    <3> DEFINE G == host'
    <3>2. Carries(host, G, p, q)
      BY <2>1, <2>3, RenameHost, ZenonT(60) DEF Carries
    <3>3. k.pc = "forget" /\ k.op = "rename" /\ k.rel = p /\ k.to = q
      BY <2>1, <3>1, Zenon DEF Resumes
    <3>4. Lands(host, issued, T, m) /\ Plain(m) /\ p \in Paths /\ q \in Paths
      BY <2>1, <2>2, Zenon
    <3>5. \A h \in issued : h.file # 0 /\ T[h.id] \in Paths \cup {None}
      BY <1>3, Zenon
    <3> HIDE DEF G, m, p, q, T
    <3>6. Lands(G, issued, T, k)
      BY <3>2, <3>3, <3>4, <3>5, LandsRename, Zenon
    <3>7. Lands(host', issued', Known'.byID, k)
      BY <2>1, <3>6, Zenon DEF G, T
    <3> QED
      BY <1>1, <1>2, <2>2, <3>1, <3>3, <3>7, SerialStep, Zenon
  <2>4. CASE Return(c) /\ host' = host
    BY <1>5, <1>6, <2>1, <2>4, Zenon DEF Return, Becomes
  <2> QED
    BY <1>12, <2>3, <2>4, Zenon DEF Rename, HostRename, unchangedHost
<1>13. ASSUME NEW c \in Conns, Forget(c) PROVE SerialInv'
  <2> DEFINE m == conn[c]
             gone == IF m.op = "rename" THEN m.to ELSE m.rel
             U == Known'.byID
  <2>1. /\ m.pc = "forget" /\ m.pc # "idle" /\ m.rel \in Paths /\ m.to \in Paths /\ Shape(m)
        /\ host' = host /\ issued' = issued
    BY <1>13, CallParts, Zenon DEF Forget, CallInv, unchangedHost
  <2>2. Alone(c) /\ Lands(host, issued, T, m)
    BY <1>2, <2>1, BusyAlone, Zenon
  <2>3. Known = mem /\ U = [i \in Ids |-> IF i \in Below(mem, gone) THEN None ELSE T[i]]
    BY <1>13, ForgetStep, Zenon
  <2>4. \A h \in issued : U[h.id] = IF T[h.id] # None /\ Under(T[h.id], gone) THEN None ELSE T[h.id]
    BY <1>3, <2>3, Zenon DEF Below, InUse
  <2> HIDE DEF T, U, gone
  <2>5. gone = IF m.op = "rename" THEN m.to ELSE m.rel
    BY Zenon DEF gone
  <2> HIDE DEF m
  <2>6. ASSUME NEW h \in issued
        PROVE  /\ m.op # "rename" => U[h.id] = Fate(m, T[h.id])
               /\ \A k : k.pc = "move" /\ Resumes(k, m) /\ m.op = "rename" => Fate(k, U[h.id]) = Fate(m, T[h.id])
    <3>1. T[h.id] \in Paths \cup {None}
      BY <1>3, Zenon
    <3>2. U[h.id] = IF T[h.id] # None /\ Under(T[h.id], gone) THEN None ELSE T[h.id]
      BY <2>4, Zenon
    <3> QED
      BY <2>1, <2>5, <3>1, <3>2, ForgetFate, ZenonT(60)
  <2>7. CASE m.op # "rename" /\ Return(c)
    <3>1. \A h \in issued : Fate(Idle, U[h.id]) = Fate(m, T[h.id])
      BY <1>6, <2>6, <2>7, PlainFate, Zenon
    <3>2. Lands(host, issued, U, Idle)
      BY <2>2, <3>1, LandsSame, Zenon
    <3>3. Lands(host', issued', Known'.byID, Idle) /\ Becomes(c, Idle)
      BY <2>1, <2>7, <3>2, Zenon DEF U, Return, Becomes
    <3> QED
      BY <1>1, <1>2, <1>6, <2>2, <3>3, SerialStep, Zenon
  <2>8. CASE m.op = "rename" /\ Goto(c, "move")
    <3>1. PICK k : Becomes(c, k) /\ Resumes(k, m) /\ k.pc = "move"
      BY <2>8, GotoCall, Zenon DEF m
    <3>2. \A h \in issued : Fate(k, U[h.id]) = Fate(m, T[h.id])
      BY <2>6, <2>8, <3>1, Zenon
    <3>3. Lands(host, issued, U, k)
      BY <2>2, <3>2, LandsSame, Zenon
    <3>4. Lands(host', issued', Known'.byID, k)
      BY <2>1, <3>3, Zenon DEF U
    <3> QED
      BY <1>1, <1>2, <2>2, <3>1, <3>4, SerialStep, Zenon
  <2> QED
    BY <1>13, <2>7, <2>8, Zenon DEF Forget, m
<1>14. ASSUME NEW c \in Conns, Move(c) PROVE SerialInv'
  <2> DEFINE m == conn[c]
             U == Known'.byID
  <2>1. m.pc = "move" /\ m.pc # "idle" /\ host' = host /\ issued' = issued /\ Becomes(c, Idle)
    BY <1>14, Zenon DEF Move, unchangedHost, Return, Becomes
  <2>2. Alone(c) /\ Lands(host, issued, T, m)
    BY <1>2, <2>1, BusyAlone, Zenon
  <2>3. /\ Known = mem
        /\ U = [i \in Ids |-> IF i \in Below(mem, m.rel) THEN Rebased(T[i], m.rel, m.to) ELSE T[i]]
    BY <1>14, MoveStep, Zenon
  <2>4. \A h \in issued :
          U[h.id] = IF T[h.id] # None /\ Under(T[h.id], m.rel) THEN Rebased(T[h.id], m.rel, m.to) ELSE T[h.id]
    BY <1>3, <2>3, Zenon DEF Below, InUse
  <2> HIDE DEF T, U, m
  <2>5. \A h \in issued : U[h.id] = Fate(m, T[h.id])
    BY <2>1, <2>4, MoveFate, Zenon
  <2>6. \A h \in issued : Fate(Idle, U[h.id]) = Fate(m, T[h.id])
    BY <1>6, <2>5, PlainFate, Zenon
  <2>7. Lands(host, issued, U, Idle)
    BY <2>2, <2>6, LandsSame, Zenon
  <2>8. Lands(host', issued', Known'.byID, Idle)
    BY <2>1, <2>7, Zenon DEF U
  <2> QED
    BY <1>1, <1>2, <1>6, <2>1, <2>2, <2>8, SerialStep, Zenon
<1>15. CASE Crash \/ Load \/ Swap
  <2>1. \A c \in Conns : conn[c].pc = "idle"
    BY <1>2, <1>15, Zenon DEF Crash, Load, Swap, OneAtATime, ConnInv
  <2>2. \A c \in Conns : conn'[c].pc = "idle"
    BY <1>15, <2>1, IdleShape, Zenon DEF Crash, Load, Swap
  <2>3. host' = host /\ issued' = issued /\ Known'.byID = Known.byID
    <3>1. Alike(Known, Known')
      BY <1>15, LifeStep, Zenon
    <3> QED
      BY <1>15, <3>1, Zenon DEF Crash, Load, Swap, unchangedHost, Alike
  <2>4. Lands(host', issued', Known'.byID, Idle)
    BY <1>2, <2>1, <2>3, Zenon DEF SerialInv
  <2> QED
    BY <2>2, <2>4, Zenon DEF SerialInv
<1>16. ASSUME NEW c \in Conns, CrashInChange(c) PROVE FALSE
  BY <1>2, <1>16, Zenon DEF CrashInChange, OneAtATime
<1>17. CASE UNCHANGED vars
  <2>1. Known' = Known
    BY <1>17, Zenon DEF vars, Known
  <2> QED
    BY <1>17, <2>1, Zenon DEF vars, SerialInv, OneAtATime
<1> QED
  BY <1>4, <1>7, <1>8, <1>9, <1>10, <1>11, <1>12, <1>13, <1>14, <1>15, <1>16, <1>17, Zenon DEF Next, Step

\* The invariant for the handles.
WholeInv == ShareInv /\ TreeInv /\ CallInv /\ HandleInv /\ SerialInv

\* A share that has not been served yet.
LEMMA WholeInit == Init => TreeInv /\ CallInv /\ HandleInv /\ SerialInv
<1> SUFFICES ASSUME Init PROVE TreeInv /\ CallInv /\ HandleInv /\ SerialInv
  BY Zenon
<1>1. TreeInv
  <2>1. ASSUME NEW p \in Paths, Under(Root, p) PROVE p = Root
    <3>1. Under(p, Root)
      <4>1. p \in Seq(Names) /\ Root \in Seq(Names) /\ Len(Root) = 0
        BY PathFacts DEF Root
      <4>2. Len(Root) <= Len(p) /\ \A k \in 1..Len(Root) : p[k] = Root[k]
        BY <4>1
      <4> QED
        BY <4>1, <4>2, UnderIs, Zenon
    <3> QED
      BY <2>1, <3>1, RootFacts, PathOrder, Zenon
  <2> QED
    BY <2>1, RootFacts DEF Init, TreeInv
<1>2. CallInv
  BY IdleShape DEF Init, CallInv
<1>3. HandleInv /\ SerialInv
  BY IdleShape, Zenon DEF Init, HandleInv, SerialInv, Lands
<1> QED
  BY <1>1, <1>2, <1>3, Zenon

\* Every behaviour keeps it.
LEMMA WholeStays == Spec => []WholeInv
<1>1. Init => WholeInv
  BY ShareInit, WholeInit, Zenon DEF WholeInv, ShareInv
<1>2. WholeInv /\ [Next]_vars => WholeInv'
  <2> SUFFICES ASSUME WholeInv, [Next]_vars PROVE WholeInv'
    BY Zenon
  <2>1. HostInv' /\ ConnInv' /\ TableInv' /\ Later(Known, Known')
    BY HostNext, ConnNext, TableNext, Zenon DEF WholeInv, ShareInv
  <2>2. TreeInv' /\ CallInv' /\ nfiles <= nfiles'
    BY <2>1, OrderNext, Zenon DEF WholeInv, ShareInv
  <2>3. HandleInv'
    BY <2>1, <2>2, HandleNext, Zenon DEF WholeInv, ShareInv
  <2>4. SerialInv'
    BY <2>1, SerialNext, Zenon DEF WholeInv, ShareInv
  <2> QED
    BY <2>1, <2>2, <2>3, <2>4, Zenon DEF WholeInv, ShareInv
<1> QED
  BY <1>1, <1>2, PTL DEF Spec

\* What the invariant says of a handle when a request can be served.
LEMMA ServedHandle ==
  ASSUME WholeInv, OneAtATime, Serving, NEW h \in issued
  PROVE  /\ mem.byID[h.id] \in Paths \cup {None}
         /\ \A r \in Paths : host[r] = h.file <=> mem.byID[h.id] = r
<1>1. Known = mem /\ \A c \in Conns : conn[c].pc = "idle"
  BY FreeIdle, Zenon DEF Serving, OneAtATime, Known
<1>2. Lands(host, issued, mem.byID, Idle)
  BY <1>1, Zenon DEF WholeInv, SerialInv
<1>3. mem.byID \in [Ids -> Paths \cup {None}] /\ h.id \in Ids
  BY TableParts, Zenon DEF WholeInv, ShareInv, TableInv, ConnInv
<1>4. Plain(Idle)
  BY IdleShape, Zenon DEF Plain
<1> QED
  BY <1>2, <1>3, <1>4, PlainFate DEF Lands

\* A server that is asked one thing at a time and stopped between two of them never lets a
\* handle reach another file than its own, however long it runs and however often it is
\* restarted (NodeByHandle, table.go: "a handle to a removed file cannot reach a later one").
THEOREM HandlesMeanTheirFile == Spec => []HandleMeansItsFile
<1>1. WholeInv => HandleMeansItsFile
  <2> SUFFICES ASSUME WholeInv, OneAtATime, Serving, NEW h \in issued PROVE Reaches(h.id) \in {0, h.file}
    BY Zenon DEF HandleMeansItsFile, HandleNeverMisleads
  <2> QED
    BY ServedHandle, Zenon DEF Reaches
<1> QED
  BY <1>1, WholeStays, PTL

\* Such a server also keeps every handle good while its file is in the share: move and remove
\* follow the host directory exactly, and a replay gives every id its path back.
THEOREM HandlesStayGood == Spec => []HandleStaysGood
<1>1. WholeInv => HandleStaysGood
  <2> SUFFICES ASSUME WholeInv, OneAtATime, Serving, NEW h \in issued, NEW p \in Paths, host[p] = h.file
               PROVE  Reaches(h.id) = h.file
    BY Zenon DEF HandleStaysGood
  <2>1. mem.byID[h.id] = p /\ p # None
    BY ServedHandle, NoneFacts, Zenon
  <2> QED
    BY <2>1, Zenon DEF Reaches
<1> QED
  BY <1>1, WholeStays, PTL
====
