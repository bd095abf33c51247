-------------------------- MODULE NfsServerProofs ---------------------------
(***************************************************************************)
(* For every number of clients, files, shares and names, every size of the *)
(* duplicate request cache and every sequence of calls: a call that is sent*)
(* again is not run again, a call that is answered with an error changed   *)
(* nothing, a change lands on the file its handle names, and the share     *)
(* finds its files where it remembers them.                                *)
(***************************************************************************)
EXTENDS NfsServer, TLAPS

-----------------------------------------------------------------------------
(* Paths.                                                                   *)

Elems == Shares \cup Names

\* Two paths with the same names are one.
LEMMA SamePath ==
  ASSUME NEW p \in Seq(Elems), NEW q \in Seq(Elems), Len(p) = Len(q), \A k \in 1..Len(p) : p[k] = q[k]
  PROVE  p = q
OBVIOUS

\* What lies under a path begins with its names.
LEMMA UnderIs ==
  ASSUME NEW p \in Seq(Elems), NEW q \in Seq(Elems)
  PROVE  Under(q, p) <=> Len(p) <= Len(q) /\ \A k \in 1..Len(p) : q[k] = p[k]
<1>1. SubSeq(p, 1, Len(p)) = p
  OBVIOUS
<1>2. ASSUME Len(p) <= Len(q)
      PROVE  /\ SubSeq(q, 1, Len(p)) \in Seq(Elems) /\ Len(SubSeq(q, 1, Len(p))) = Len(p)
             /\ \A k \in 1..Len(p) : SubSeq(q, 1, Len(p))[k] = q[k]
  BY <1>2
<1>3. ASSUME Under(q, p) PROVE Len(p) <= Len(q) /\ \A k \in 1..Len(p) : q[k] = p[k]
  BY <1>1, <1>2, <1>3, Zenon DEF Under
<1>4. ASSUME Len(p) <= Len(q), \A k \in 1..Len(p) : q[k] = p[k] PROVE Under(q, p)
  <2>1. SubSeq(q, 1, Len(p)) = p
    BY <1>2, <1>4, SamePath, Zenon
  <2> QED
    BY <1>1, <1>4, <2>1, Zenon DEF Under
<1> QED
  BY <1>3, <1>4, Zenon

\* A rebased path, name by name.
LEMMA RebasedIs ==
  ASSUME NEW x \in Seq(Elems), NEW p \in Seq(Elems), NEW q \in Seq(Elems), Under(x, p)
  PROVE  /\ Rebased(x, p, q) \in Seq(Elems)
         /\ Len(Rebased(x, p, q)) = Len(q) + (Len(x) - Len(p))
         /\ \A k \in 1..Len(q) : Rebased(x, p, q)[k] = q[k]
         /\ \A k \in 1..(Len(x) - Len(p)) : Rebased(x, p, q)[Len(q) + k] = x[Len(p) + k]
<1> DEFINE u == SubSeq(x, Len(p) + 1, Len(x))
           m == Len(x) - Len(p)
<1>1. Len(p) <= Len(x) /\ Len(p) \in Nat /\ Len(x) \in Nat
  BY UnderIs
<1>2. u \in Seq(Elems) /\ Len(u) = m /\ \A k \in 1..m : u[k] = x[Len(p) + k]
  BY <1>1
<1>3. Rebased(x, p, q) = q \o u
  BY Zenon DEF Rebased
<1>4. m \in Nat
  BY <1>1
<1> HIDE DEF u, m
<1>5. /\ q \o u \in Seq(Elems) /\ Len(q \o u) = Len(q) + m
      /\ \A k \in 1..Len(q) : (q \o u)[k] = q[k]
      /\ \A k \in 1..m : (q \o u)[Len(q) + k] = u[k]
  <2>1. u \in Seq(Elems) /\ Len(u) = m
    BY <1>2, Zenon
  <2>2. /\ q \o u \in Seq(Elems) /\ Len(q \o u) = Len(q) + Len(u)
        /\ \A k \in 1..(Len(q) + Len(u)) : (q \o u)[k] = IF k <= Len(q) THEN q[k] ELSE u[k - Len(q)]
    BY <2>1
  <2> DEFINE w == q \o u
             n == Len(q)
  <2>3. n \in Nat
    OBVIOUS
  <2>4. \A k \in 1..(n + m) : w[k] = IF k <= n THEN q[k] ELSE u[k - n]
    BY <2>1, <2>2, Zenon
  <2> HIDE DEF w, n
  <2>5. \A k \in 1..n : w[k] = q[k]
    BY <1>4, <2>3, <2>4
  <2>6. ASSUME NEW k \in 1..m PROVE w[n + k] = u[k]
    <3>1. n + k \in 1..(n + m) /\ ~(n + k <= n) /\ (n + k) - n = k
      BY <1>4, <2>3
    <3> QED
      BY <2>4, <3>1, Zenon
  <2> QED
    BY <2>1, <2>2, <2>5, <2>6, Zenon DEF w, n
<1> QED
  BY <1>2, <1>3, <1>5, Zenon DEF m

\* Rebasing lands under the new path and can be undone.
LEMMA RebasedBack ==
  ASSUME NEW x \in Seq(Elems), NEW p \in Seq(Elems), NEW q \in Seq(Elems), Under(x, p)
  PROVE  /\ Rebased(x, p, q) \in Seq(Elems)
         /\ Under(Rebased(x, p, q), q)
         /\ Rebased(Rebased(x, p, q), q, p) = x
<1> DEFINE y == Rebased(x, p, q)
           z == Rebased(y, q, p)
           m == Len(x) - Len(p)
<1>1. /\ y \in Seq(Elems) /\ Len(y) = Len(q) + m
      /\ \A k \in 1..Len(q) : y[k] = q[k]
      /\ \A k \in 1..m : y[Len(q) + k] = x[Len(p) + k]
  BY RebasedIs, ZenonT(60)
<1>2. Len(p) <= Len(x) /\ \A k \in 1..Len(p) : x[k] = p[k]
  BY UnderIs, Zenon
<1>m. m \in Nat /\ Len(x) = Len(p) + m
  BY <1>2
<1> HIDE DEF y, m
<1>3. Under(y, q)
  <2>1. Len(q) <= Len(y)
    BY <1>1, <1>m
  <2> QED
    BY <1>1, <2>1, UnderIs, Zenon
<1>l. Len(y) - Len(q) = m
  BY <1>1, <1>m
<1>4. /\ z \in Seq(Elems) /\ Len(z) = Len(p) + m
      /\ \A k \in 1..Len(p) : z[k] = p[k]
      /\ \A k \in 1..m : z[Len(p) + k] = y[Len(q) + k]
  <2>1. /\ z \in Seq(Elems) /\ Len(z) = Len(p) + (Len(y) - Len(q))
        /\ \A k \in 1..Len(p) : z[k] = p[k]
        /\ \A k \in 1..(Len(y) - Len(q)) : z[Len(p) + k] = y[Len(q) + k]
    BY <1>1, <1>3, RebasedIs, ZenonT(60)
  <2> QED
    BY <1>l, <2>1, Zenon
<1> HIDE DEF z
<1>5. ASSUME NEW k \in 1..Len(z) PROVE z[k] = x[k]
  <2>1. CASE k <= Len(p)
    BY <1>2, <1>4, <2>1
  <2>2. CASE k > Len(p)
    <3> DEFINE j == k - Len(p)
    <3>1. j \in 1..m /\ k = Len(p) + j
      BY <1>4, <1>m, <1>5, <2>2
    <3> HIDE DEF j
    <3>2. z[Len(p) + j] = y[Len(q) + j] /\ y[Len(q) + j] = x[Len(p) + j]
      BY <1>1, <1>4, <3>1, Zenon
    <3> QED
      BY <3>1, <3>2, Zenon
  <2> QED
    BY <1>4, <1>m, <2>1, <2>2
<1>6. z = x
  BY <1>4, <1>5, <1>m, SamePath, Zenon
<1> QED
  BY <1>1, <1>3, <1>6, Zenon DEF y, z

\* A path, name by name.
LEMMA PathFacts ==
  ASSUME NEW p
  PROVE  p \in Paths <=> /\ p \in Seq(Elems) /\ Len(p) >= 1 /\ Len(p) <= Depth + 1
                         /\ p[1] \in Shares /\ \A i \in 2..Len(p) : p[i] \in Names
<1>0. Depth \in Nat
  BY NfsAssumption, Zenon
<1>1. ASSUME p \in Paths
      PROVE  /\ p \in Seq(Elems) /\ Len(p) >= 1 /\ Len(p) <= Depth + 1
             /\ p[1] \in Shares /\ \A i \in 2..Len(p) : p[i] \in Names
  <2>1. PICK s \in Shares, q \in UNION {[1..k -> Names] : k \in 0..Depth} : p = <<s>> \o q
    BY <1>1, Zenon DEF Paths
  <2>2. PICK k \in 0..Depth : q \in [1..k -> Names]
    BY Zenon
  <2>3. q \in Seq(Names) /\ Len(q) = k /\ k \in Nat /\ k <= Depth
    BY <1>0, <2>2
  <2>4. q \in Seq(Elems) /\ <<s>> \in Seq(Elems) /\ Len(<<s>>) = 1 /\ <<s>>[1] = s
    BY <2>3 DEF Elems
  <2>5. /\ p \in Seq(Elems) /\ Len(p) = 1 + k
        /\ \A i \in 1..(1 + k) : p[i] = IF i <= 1 THEN <<s>>[i] ELSE q[i - 1]
    BY <2>1, <2>3, <2>4
  <2>6. p[1] = s
    BY <2>3, <2>4, <2>5
  <2>7. ASSUME NEW i \in 2..Len(p) PROVE p[i] \in Names
    <3>1. i \in 1..(1 + k) /\ ~(i <= 1) /\ i - 1 \in 1..k
      BY <2>3, <2>5
    <3> QED
      BY <2>2, <2>5, <3>1, Zenon
  <2> QED
    BY <1>0, <2>3, <2>5, <2>6, <2>7
<1>2. ASSUME p \in Seq(Elems), Len(p) >= 1, Len(p) <= Depth + 1,
             p[1] \in Shares, \A i \in 2..Len(p) : p[i] \in Names
      PROVE  p \in Paths
  <2> DEFINE s == p[1]
             k == Len(p) - 1
             q == [i \in 1..k |-> p[i + 1]]
  <2>1. k \in 0..Depth
    BY <1>0, <1>2
  <2>2. q \in [1..k -> Names]
    <3>1. ASSUME NEW i \in 1..k PROVE p[i + 1] \in Names
      <4>1. i + 1 \in 2..Len(p)
        BY <1>2
      <4> QED
        BY <1>2, <4>1, Zenon
    <3> QED
      BY <3>1, Zenon
  <2>5. \A i \in 1..k : q[i] = p[i + 1]
    BY Zenon
  <2>k. Len(p) = 1 + k /\ k \in Nat
    BY <1>2
  <2> HIDE DEF q, k
  <2>3. q \in Seq(Names) /\ Len(q) = k
    BY <2>2, <2>k
  <2>4. q \in Seq(Elems) /\ <<s>> \in Seq(Elems) /\ Len(<<s>>) = 1 /\ <<s>>[1] = s
    BY <1>2, <2>3 DEF Elems
  <2> DEFINE w == <<s>> \o q
  <2>6. /\ w \in Seq(Elems) /\ Len(w) = 1 + k
        /\ \A i \in 1..(1 + k) : w[i] = IF i <= 1 THEN <<s>>[i] ELSE q[i - 1]
    BY <2>3, <2>4
  <2>7. w = p
    <3> HIDE DEF w
    <3>1. ASSUME NEW i \in 1..Len(w) PROVE w[i] = p[i]
      <4>1. CASE i = 1
        BY <2>1, <2>4, <2>6, <4>1
      <4>2. CASE i # 1
        <5>1. i \in 1..(1 + k) /\ ~(i <= 1) /\ i - 1 \in 1..k /\ (i - 1) + 1 = i
          BY <2>1, <2>6, <4>2
        <5>2. q[i - 1] = p[i]
          BY <2>5, <5>1, Zenon
        <5> QED
          BY <2>6, <5>1, <5>2, Zenon
      <4> QED
        BY <4>1, <4>2, Zenon
    <3> QED
      BY <1>2, <2>6, <2>k, <3>1, SamePath, Zenon
  <2>8. q \in UNION {[1..j -> Names] : j \in 0..Depth}
    BY <2>1, <2>2, Zenon
  <2> QED
    BY <1>2, <2>7, <2>8 DEF Paths
<1> QED
  BY <1>1, <1>2, Zenon

\* No path is None.
LEMMA NoneFacts == None \notin Paths
<1>1. Len(None) = 0
  BY Zenon DEF None
<1> QED
  BY <1>1, PathFacts

\* What a path begins with is a path.
LEMMA PrefixPath ==
  ASSUME NEW p \in Paths, NEW k \in 1..Len(p)
  PROVE  SubSeq(p, 1, k) \in Paths
<1>1. /\ p \in Seq(Elems) /\ Len(p) >= 1 /\ Len(p) <= Depth + 1
      /\ p[1] \in Shares /\ \A i \in 2..Len(p) : p[i] \in Names
  BY PathFacts, Zenon
<1> DEFINE q == SubSeq(p, 1, k)
<1>2. q \in Seq(Elems) /\ Len(q) = k /\ \A i \in 1..k : q[i] = p[i]
  BY <1>1
<1> HIDE DEF q
<1>3. Depth \in Nat /\ k \in Nat /\ k >= 1 /\ k <= Len(p)
  BY <1>1, NfsAssumption
<1>4. Len(q) >= 1 /\ Len(q) <= Depth + 1 /\ q[1] \in Shares /\ \A i \in 2..Len(q) : q[i] \in Names
  BY <1>1, <1>2, <1>3
<1>5. q \in Paths
  BY <1>2, <1>4, PathFacts, Zenon
<1> QED
  BY <1>5, Zenon DEF q

\* A name in a directory that is not too deep is a path.
LEMMA AppendPath ==
  ASSUME NEW p \in Paths, Len(p) <= Depth, NEW name \in Names
  PROVE  Append(p, name) \in Paths
<1>1. /\ p \in Seq(Elems) /\ Len(p) >= 1
      /\ p[1] \in Shares /\ \A i \in 2..Len(p) : p[i] \in Names
  BY PathFacts, Zenon
<1> DEFINE q == Append(p, name)
<1>2. q \in Seq(Elems) /\ Len(q) = Len(p) + 1 /\ (\A i \in 1..Len(p) : q[i] = p[i]) /\ q[Len(p) + 1] = name
  BY <1>1 DEF Elems
<1> HIDE DEF q
<1>3. Depth \in Nat /\ Len(p) \in Nat
  BY <1>1, NfsAssumption
<1>4. Len(q) >= 1 /\ Len(q) <= Depth + 1 /\ q[1] \in Shares
  BY <1>1, <1>2, <1>3
<1>5. ASSUME NEW i \in 2..Len(q) PROVE q[i] \in Names
  <2>1. CASE i = Len(p) + 1
    BY <1>2, <2>1, Zenon
  <2>2. CASE i # Len(p) + 1
    <3>1. i \in 2..Len(p) /\ i \in 1..Len(p)
      BY <1>2, <1>3, <2>2
    <3> QED
      BY <1>1, <1>2, <3>1, Zenon
  <2> QED
    BY <2>1, <2>2, Zenon
<1>6. q \in Paths
  BY <1>2, <1>4, <1>5, PathFacts, Zenon
<1> QED
  BY <1>6, Zenon DEF q

-----------------------------------------------------------------------------
(* The invariants.                                                          *)

\* A file system: every place holds a file there has been, or none, and the share
\* remembers places.
IsFs(f) ==
  /\ f = [at |-> f.at, kind |-> f.kind, ctime |-> f.ctime, verf |-> f.verf, cache |-> f.cache, n |-> f.n]
  /\ f.n \in 0..MaxFiles
  /\ f.at \in [Paths -> 0..f.n]
  /\ f.cache \in [Files -> Paths \cup {None}]

\* Every file is where the share remembers it.
Exact(f) == \A k \in Files : f.cache[k] # None => f.at[f.cache[k]] = k

\* The host has the same files in the same places.
Same(f, g) == f.at = g.at /\ f.kind = g.kind /\ f.ctime = g.ctime /\ f.verf = g.verf /\ f.n = g.n

\* From f to g nothing but what the share remembers has changed.
Remembers(f, g) == IsFs(g) /\ Same(f, g) /\ (Exact(f) => Exact(g))

JobFields == {"pc", "peer", "call", "node", "to", "res", "changed", "hit", "moved", "cached", "lost"}
IsJob(j) == j = [x \in JobFields |-> j[x]] /\ j.pc \in {"idle", "work", "reply"}

Creating == {"create", "mkdir", "symlink"}

\* A call that is about to ask the file system has resolved its handles, and the file is
\* still there unless someone moved it.
Ready(j, f) ==
  /\ dispatch(j.call) = "call" /\ j.call.form # "args"
  /\ j.call.fh \in Files /\ ~j.changed /\ ~j.cached
  /\ j.node.path \in Paths
  /\ ProcOf(j.call) = "rename" /\ j.node.kind = "dir" => j.to.path \in Paths
  /\ ~j.moved => f.at[j.node.path] = j.call.fh

\* A call that has changed something succeeded, on the file of its handle.
Landed(j) ==
  /\ dispatch(j.call) = "call" /\ j.call.form # "args"
  /\ j.call.fh \in Files /\ ~j.cached
  /\ j.res.st = "OK"
  /\ ProcOf(j.call) \in Creating => j.res.file \in Files
  /\ j.hit = j.call.fh \/ j.moved

\* The goroutine of the socket serves its clients, that of a connection its own.
GoodJob(w, j, f) ==
  /\ IsJob(j)
  /\ j.pc # "idle" => j.call \in CallType /\ j.peer \in IF w = "udp" THEN Udp ELSE {w}
  /\ j.pc = "work" => Ready(j, f)
  /\ j.pc = "reply" /\ j.changed => Landed(j)

JobInv ==
  /\ job = [w \in Workers |-> job[w]]
  /\ \A w \in Workers : GoodJob(w, job[w], fs)

NetInv ==
  /\ plan \in DOMAIN Plans
  /\ pend \in [Peers -> CallType \cup {NoCall}]
  /\ stray \in [Peers -> CallType \cup {NoCall}]

FsInv == IsFs(fs) /\ (hostDone = 0 => Exact(fs)) /\ hostDone \in Nat

ShareInv == NetInv /\ FsInv /\ JobInv

\* The duplicate request cache is a ring: how many replies were kept after the one in
\* this slot.
Slots == 0..DrcSize - 1
RingAge(n, i) == IF i < n THEN n - 1 - i ELSE n - 1 - i + DrcSize
SlotAge(i) == RingAge(drc.next, i)

\* A sequence of some values.
Listed(s) == s \in Seq({s[x] : x \in DOMAIN s})

IsSeen(e) ==
  /\ e = [runs |-> e.runs, answers |-> e.answers, age |-> e.age, excused |-> e.excused, early |-> e.early]
  /\ e.runs \in {0, 1} /\ e.age \in 0..DrcSize /\ e.excused \in BOOLEAN /\ e.early \in BOOLEAN

\* The datagram being served now is this call, and it runs.
Runs(p, x) ==
  /\ job["udp"].pc # "idle" /\ ~job["udp"].cached /\ job["udp"].peer = p
  /\ job["udp"].call.xid = x /\ nonIdempotent(job["udp"].call)

\* The calls of a client that may still reach the server, or have an answer there.
Calls(p) ==
  ({pend[p], stray[p]} \ {NoCall})
  \cup {drc.ent[i].call : i \in {k \in Slots : drc.ent[k].addr = p}}
  \cup {j.call : j \in {k \in {job["udp"]} : k.pc # "idle" /\ k.peer = p}}

\* A call of a client is known by its number.
CallsInv ==
  \A p \in Udp : \A c, d \in Calls(p) :
    c \in CallType /\ c.xid \in DOMAIN seen[p] /\ (c.xid = d.xid => c = d)

SeenInv ==
  /\ seen = [p \in Peers |-> seen[p]]
  /\ \A p \in Peers : Listed(seen[p]) /\ \A x \in DOMAIN seen[p] : IsSeen(seen[p][x])

DrcInv ==
  /\ drc = [ent |-> [i \in Slots |-> drc.ent[i]], next |-> drc.next] /\ drc.next \in Slots
  /\ \A i \in Slots : drc.ent[i].addr # "none" =>
       /\ drc.ent[i].addr \in Udp
       /\ drc.ent[i].reply.st \in seen[drc.ent[i].addr][drc.ent[i].call.xid].answers

\* A call has one answer, unless it was excused, and none before it ran.
OneAnswer(e) ==
  /\ ~e.early
  /\ ~e.excused => \E st \in e.answers \cup {"OK"} : e.answers \subseteq {st}
  /\ e.runs = 0 => e.answers = {}

Running(e) == e.runs = 1 /\ (~e.excused => e.answers = {})

\* The reply of a call that has run is in the ring D, at its age.
Held(D, p, x, e) ==
  e.runs = 1 /\ e.age < DrcSize =>
    \E i \in Slots : RingAge(D.next, i) = e.age /\ D.ent[i].addr = p /\ D.ent[i].call.xid = x

\* A call that has run is being served or its reply is in the cache.
OnceInv ==
  \A p \in Udp : \A x \in DOMAIN seen[p] :
    /\ OneAnswer(seen[p][x])
    /\ Runs(p, x) => Running(seen[p][x])
    /\ ~Runs(p, x) => Held(drc, p, x, seen[p][x])

\* A reply that is sent again is the one that was given.
AgainInv ==
  job["udp"].pc # "idle" /\ job["udp"].cached =>
    /\ job["udp"].pc = "reply" /\ ~job["udp"].changed
    /\ job["udp"].res.st \in seen[job["udp"].peer][job["udp"].call.xid].answers

RingInv == SeenInv /\ CallsInv /\ DrcInv /\ OnceInv /\ AgainInv

-----------------------------------------------------------------------------
(* The share.                                                              *)

\* What the share remembers is replaced.
LEMMA Recalls ==
  ASSUME NEW f, IsFs(f), NEW c \in [Files -> Paths \cup {None}], NEW g, g = [f EXCEPT !.cache = c]
  PROVE  IsFs(g) /\ Same(f, g) /\ g.cache = c
<1>1. g = [at |-> f.at, kind |-> f.kind, ctime |-> f.ctime, verf |-> f.verf, cache |-> c, n |-> f.n]
  BY Zenon DEF IsFs
<1> QED
  BY <1>1, Zenon DEF IsFs, Same

\* Two file systems that differ in what the share remembers: put that back.
LEMMA SameBack ==
  ASSUME NEW f, IsFs(f), NEW g, IsFs(g), Same(f, g)
  PROVE  [g EXCEPT !.cache = f.cache] = f
<1>1. [g EXCEPT !.cache = f.cache] =
        [at |-> g.at, kind |-> g.kind, ctime |-> g.ctime, verf |-> g.verf, cache |-> f.cache, n |-> g.n]
  BY DEF IsFs
<1> QED
  BY <1>1, Zenon DEF IsFs, Same

\* The share may remember any file where it is.
LEMMA RecallsExact ==
  ASSUME NEW f, IsFs(f), NEW c \in [Files -> Paths \cup {None}], NEW g, g = [f EXCEPT !.cache = c],
         \A k \in Files : c[k] \in {None, f.cache[k]} \/ f.at[c[k]] = k
  PROVE  Remembers(f, g) /\ g.cache = c
<1>1. IsFs(g) /\ Same(f, g) /\ g.cache = c
  BY Recalls, Zenon
<1>2. Exact(f) => Exact(g)
  BY <1>1 DEF Exact, Same
<1> QED
  BY <1>1, <1>2, Zenon DEF Remembers

\* describe remembers a file where it is seen.
LEMMA Describes ==
  ASSUME NEW f, IsFs(f), NEW p \in Paths, f.at[p] # 0
  PROVE  Remembers(f, describe(f, p)) /\ describe(f, p).cache[f.at[p]] = p
<1>1. f.at[p] \in Files
  BY NfsAssumption DEF IsFs, Files
<1> DEFINE k == f.at[p]
           c == [f.cache EXCEPT ![k] = p]
<1>2. describe(f, p) = [f EXCEPT !.cache = c]
  BY Zenon DEF describe
<1>3. c \in [Files -> Paths \cup {None}] /\ c[k] = p /\ \A j \in Files : j # k => c[j] = f.cache[j]
  BY <1>1, Zenon DEF IsFs
<1>4. \A j \in Files : c[j] \in {None, f.cache[j]} \/ f.at[c[j]] = j
  BY <1>3, Zenon
<1> HIDE DEF c
<1> QED
  BY <1>2, <1>3, <1>4, RecallsExact

LEMMA RemembersSelf ==
  ASSUME NEW f, IsFs(f)
  PROVE  Remembers(f, f)
BY Zenon DEF Remembers, Same

LEMMA RemembersBoth ==
  ASSUME NEW f, NEW g, NEW h, Remembers(f, g), Remembers(g, h)
  PROVE  Remembers(f, h)
BY Zenon DEF Remembers, Same

\* statNode finds the file at a path.
LEMMA Stats ==
  ASSUME NEW f, IsFs(f), NEW p \in Paths
  PROVE  LET r == statNode(f, p) IN
         /\ Remembers(f, r.fs) /\ r.file = f.at[p]
         /\ r.st = IF f.at[p] = 0 THEN "NOENT" ELSE "OK"
         /\ f.at[p] # 0 => r.fs.cache[f.at[p]] = p
<1>1. CASE f.at[p] = 0
  <2>1. statNode(f, p) = [st |-> "NOENT", fs |-> f, file |-> 0]
    BY <1>1, Zenon DEF statNode, Fail, Result
  <2> QED
    BY <1>1, <2>1, RemembersSelf
<1>2. CASE f.at[p] # 0
  <2>1. statNode(f, p) = [st |-> "OK", fs |-> describe(f, p), file |-> f.at[p]]
    BY <1>2, Zenon DEF statNode, Result
  <2> QED
    BY <1>2, <2>1, Describes
<1> QED
  BY <1>1, <1>2, Zenon

\* The search finds a file that is anywhere.
LEMMA Searches ==
  ASSUME NEW f, IsFs(f), NEW k \in Files
  PROVE  LET r == searchFor(f, k) IN
         /\ Remembers(f, r.fs)
         /\ r.st = IF search(f, k) = {} THEN "STALE" ELSE "OK"
         /\ search(f, k) # {} => r.file = k /\ r.fs.cache[k] \in Paths /\ f.at[r.fs.cache[k]] = k
<1>1. CASE search(f, k) = {}
  <2>1. searchFor(f, k) = [st |-> "STALE", fs |-> f, file |-> 0]
    BY <1>1, Zenon DEF searchFor, Fail, Result
  <2> QED
    BY <1>1, <2>1, RemembersSelf
<1>2. CASE search(f, k) # {}
  <2> DEFINE p == CHOOSE q \in search(f, k) : TRUE
  <2>1. p \in search(f, k)
    BY <1>2, Zenon
  <2>2. searchFor(f, k) = statNode(f, p)
    BY <1>2, Zenon DEF searchFor
  <2> HIDE DEF p
  <2>3. p \in Paths /\ f.at[p] = k /\ k # 0
    BY <2>1, NfsAssumption DEF search, Files
  <2> QED
    BY <1>2, <2>2, <2>3, Stats
<1> QED
  BY <1>1, <1>2, Zenon

\* A handle is good as long as its file is in the share, wherever that is and whatever the
\* share remembers; the path it is resolved to holds the file.
LEMMA ByHandle ==
  ASSUME NEW f, IsFs(f), NEW k \in Nat
  PROVE  LET r == NodeByHandle(f, k) IN
         /\ Remembers(f, r.fs)
         /\ r.st \in {"OK", "STALE", "BADHANDLE"} /\ (r.st = "BADHANDLE" => k = 0)
         /\ r.st = "OK" <=> k \in 1..f.n /\ search(f, k) # {}
         /\ r.st = "OK" => k \in Files /\ r.file = k /\ r.fs.cache[k] \in Paths /\ f.at[r.fs.cache[k]] = k
<1>0. f.n \in Nat /\ MaxFiles \in Nat /\ f.n <= MaxFiles
  BY NfsAssumption DEF IsFs
<1>1. CASE k = 0
  <2>1. NodeByHandle(f, k) = [st |-> "BADHANDLE", fs |-> f, file |-> 0]
    BY <1>1, Zenon DEF NodeByHandle, Fail, Result
  <2> QED
    BY <1>1, <2>1, RemembersSelf
<1>2. CASE k > f.n
  <2>1. NodeByHandle(f, k) = [st |-> "STALE", fs |-> f, file |-> 0]
    BY <1>0, <1>2 DEF NodeByHandle, Fail, Result
  <2>2. k \notin 1..f.n
    BY <1>0, <1>2
  <2> QED
    BY <2>1, <2>2, RemembersSelf
<1>3. CASE k # 0 /\ ~(k > f.n) /\ f.cache[k] # None /\ f.at[f.cache[k]] = k
  <2>1. k \in 1..f.n /\ k \in Files
    BY <1>0, <1>3 DEF Files
  <2>2. NodeByHandle(f, k) = statNode(f, f.cache[k])
    BY <1>3, Zenon DEF NodeByHandle
  <2>3. f.cache[k] \in Paths
    BY <1>3, <2>1, Zenon DEF IsFs
  <2>4. search(f, k) # {}
    BY <1>3, <2>3, Zenon DEF search
  <2> QED
    BY <1>3, <2>1, <2>2, <2>3, <2>4, Stats
<1>4. CASE k # 0 /\ ~(k > f.n) /\ ~(f.cache[k] # None /\ f.at[f.cache[k]] = k)
  <2>1. k \in 1..f.n /\ k \in Files
    BY <1>0, <1>4 DEF Files
  <2> DEFINE g == IF f.cache[k] = None THEN f ELSE statNode(f, f.cache[k]).fs
  <2>2. NodeByHandle(f, k) = searchFor(g, k)
    BY <1>4, Zenon DEF NodeByHandle
  <2>3. Remembers(f, g)
    <3>1. CASE f.cache[k] = None
      BY <3>1, RemembersSelf, Zenon
    <3>2. CASE f.cache[k] # None
      <4>1. f.cache[k] \in Paths
        BY <2>1, <3>2, Zenon DEF IsFs
      <4> QED
        BY <3>2, <4>1, Stats, Zenon
    <3> QED
      BY <3>1, <3>2, Zenon
  <2> HIDE DEF g
  <2>4. IsFs(g) /\ g.at = f.at /\ search(g, k) = search(f, k)
    BY <2>3, Zenon DEF Remembers, Same, search
  <2> DEFINE r == searchFor(g, k)
  <2>5. /\ Remembers(g, r.fs)
        /\ r.st = IF search(g, k) = {} THEN "STALE" ELSE "OK"
        /\ search(g, k) # {} => r.file = k /\ r.fs.cache[k] \in Paths /\ g.at[r.fs.cache[k]] = k
    BY <2>1, <2>4, Searches, Zenon
  <2>6. Remembers(f, r.fs)
    BY <2>3, <2>5, RemembersBoth, Zenon
  <2> HIDE DEF r
  <2> QED
    BY <1>4, <2>1, <2>2, <2>4, <2>5, <2>6, Zenon DEF r
<1> QED
  BY <1>1, <1>2, <1>3, <1>4, Zenon

\* An operation leaves a file system, keeps what the share remembers exact, and has
\* changed nothing on the host if it fails.
Does(f, r) == IsFs(r.fs) /\ (Exact(f) => Exact(r.fs)) /\ (r.st # "OK" => Same(f, r.fs))

\* It returns a node if it succeeds.
Gives(r) == r.st = "OK" => r.file \in Files

LEMMA Leaves ==
  ASSUME NEW f, NEW g, Remembers(f, g), NEW st, NEW k
  PROVE  Does(f, Result(st, g, k)) /\ Does(f, Fail(st, g))
BY Zenon DEF Does, Remembers, Result, Fail

LEMMA Fails ==
  ASSUME NEW f, IsFs(f), NEW st, NEW k
  PROVE  Does(f, Fail(st, f)) /\ Does(f, Result(st, f, k)) /\ (st # "OK" => Gives(Fail(st, f)))
<1>1. Does(f, Fail(st, f)) /\ Does(f, Result(st, f, k))
  BY Leaves, RemembersSelf, Zenon
<1> QED
  BY <1>1, Zenon DEF Gives, Fail, Result

LEMMA Finds ==
  ASSUME NEW f, IsFs(f), NEW p \in Paths
  PROVE  Does(f, statNode(f, p)) /\ Gives(statNode(f, p))
<1> DEFINE r == statNode(f, p)
<1>1. /\ Remembers(f, r.fs) /\ r.file = f.at[p]
      /\ r.st = IF f.at[p] = 0 THEN "NOENT" ELSE "OK"
  BY Stats, Zenon
<1> HIDE DEF r
<1>2. r.st = "OK" => f.at[p] \in Files
  BY <1>1, NfsAssumption DEF IsFs, Files
<1> QED
  BY <1>1, <1>2, Zenon DEF Does, Gives, Remembers, r

LEMMA Touches ==
  ASSUME NEW f, IsFs(f), NEW p, NEW g, g = Touch(f, p)
  PROVE  IsFs(g) /\ (Exact(f) => Exact(g))
<1>1. PICK c, v : g = [at |-> f.at, kind |-> f.kind, ctime |-> c, verf |-> v, cache |-> f.cache, n |-> f.n]
  BY Zenon DEF IsFs, Touch
<1> QED
  BY <1>1 DEF IsFs, Exact

\* Nothing is remembered where nothing is: a new file does not come in between.
LEMMA Makes ==
  ASSUME NEW f, IsFs(f), NEW p \in Paths, NEW kind, NEW v
  PROVE  Does(f, Make(f, p, kind, v)) /\ Gives(Make(f, p, kind, v))
<1>1. CASE KindAt(f, Parent(p)) # "dir" \/ f.at[p] # 0 \/ f.n = MaxFiles
  <2>1. \E st \in {"NOENT", "EXIST", "NOSPC"} : Make(f, p, kind, v) = Fail(st, f)
    BY <1>1, Zenon DEF Make
  <2> QED
    BY <2>1, Fails, Zenon
<1>2. CASE ~(KindAt(f, Parent(p)) # "dir" \/ f.at[p] # 0 \/ f.n = MaxFiles)
  <2> DEFINE g == HostMake(f, p, kind, v)
  <2>1. Make(f, p, kind, v) = statNode(g, p)
    BY <1>2, Zenon DEF Make
  <2> DEFINE d == [f.kind EXCEPT ![f.n + 1] = kind]
             w == [f.verf EXCEPT ![f.n + 1] = v]
  <2>2. g = [at |-> [f.at EXCEPT ![p] = f.n + 1], kind |-> d, ctime |-> f.ctime, verf |-> w,
             cache |-> f.cache, n |-> f.n + 1]
    <3> DEFINE n == f.n + 1
               g1 == [f EXCEPT !.n = n]
               g2 == [g1 EXCEPT !.at[p] = n]
               g3 == [g2 EXCEPT !.kind[n] = kind]
    <3>1. g1 = [at |-> f.at, kind |-> f.kind, ctime |-> f.ctime, verf |-> f.verf, cache |-> f.cache, n |-> n]
      BY DEF IsFs
    <3>2. g2 = [at |-> [f.at EXCEPT ![p] = n], kind |-> f.kind, ctime |-> f.ctime, verf |-> f.verf,
                cache |-> f.cache, n |-> n]
      <4> HIDE DEF g1
      <4> QED
        BY <3>1
    <3>3. g3 = [at |-> [f.at EXCEPT ![p] = n], kind |-> d, ctime |-> f.ctime, verf |-> f.verf,
                cache |-> f.cache, n |-> n]
      <4> HIDE DEF g2
      <4> QED
        BY <3>2
    <3>4. g = [g3 EXCEPT !.verf[n] = v]
      BY Zenon DEF HostMake
    <3> HIDE DEF g3, g
    <3> QED
      BY <3>3, <3>4, Zenon
  <2> HIDE DEF g, d, w
  <2>3. f.n + 1 \in 1..MaxFiles /\ 0..f.n \subseteq 0..f.n + 1
    BY <1>2, NfsAssumption DEF IsFs
  <2>4. /\ g.at \in [Paths -> 0..g.n] /\ g.n = f.n + 1 /\ g.cache = f.cache /\ g.at[p] = f.n + 1
        /\ \A q \in Paths : q # p => g.at[q] = f.at[q]
    BY <2>2, <2>3 DEF IsFs
  <2>5. IsFs(g)
    BY <2>2, <2>3, <2>4 DEF IsFs
  <2>6. ASSUME Exact(f), NEW k \in Files, g.cache[k] # None PROVE g.at[g.cache[k]] = k
    <3>1. f.cache[k] \in Paths /\ f.at[f.cache[k]] = k /\ k # 0
      BY <2>4, <2>6, NfsAssumption DEF IsFs, Exact, Files
    <3>2. f.cache[k] # p
      BY <1>2, <3>1, Zenon
    <3> QED
      BY <2>4, <3>1, <3>2, Zenon
  <2>7. Exact(f) => Exact(g)
    BY <2>6, Zenon DEF Exact
  <2> DEFINE r == statNode(g, p)
  <2>8. Does(g, r) /\ Gives(r) /\ r.st = "OK"
    BY <2>3, <2>4, <2>5, Finds, Stats
  <2>9. Does(f, r)
    BY <2>7, <2>8, Zenon DEF Does
  <2> QED
    BY <2>1, <2>8, <2>9, Zenon DEF g
<1> QED
  BY <1>1, <1>2, Zenon

\* newEntry gives a path of the share.
LEMMA Entries ==
  ASSUME NEW dir, dir.path \in Paths, NEW name, newEntryError(dir, name) = "OK"
  PROVE  Append(dir.path, name) \in Paths
<1>1. dir.kind = "dir" /\ name \in Names /\ ~(Len(dir.path) > Depth)
  BY Zenon DEF newEntryError, checkName
<1>2. Len(dir.path) <= Depth
  <2>1. Len(dir.path) \in Nat /\ Depth \in Nat
    BY PathFacts, NfsAssumption
  <2> QED
    BY <1>1, <2>1
<1> QED
  BY <1>1, <1>2, AppendPath, Zenon

LEMMA Creates ==
  ASSUME NEW f, IsFs(f), NEW dir, dir.path \in Paths, NEW name, NEW how, NEW v
  PROVE  Does(f, Create(f, dir, name, how, v)) /\ Gives(Create(f, dir, name, how, v))
<1> DEFINE p == Append(dir.path, name)
<1>1. CASE newEntryError(dir, name) # "OK"
  BY <1>1, Fails, Zenon DEF Create
<1>2. CASE newEntryError(dir, name) = "OK" /\ how = "unchecked" /\ f.at[p] # 0
  <2>1. p \in Paths
    BY <1>2, Entries, Zenon
  <2> DEFINE g == describe(f, p)
  <2>a. Remembers(f, g)
    BY <1>2, <2>1, Describes, Zenon
  <2>b. f.at[p] \in Files
    <3> HIDE DEF p
    <3> QED
      BY <1>2, <2>1, NfsAssumption DEF IsFs, Files
  <2>2. Remembers(f, g) /\ f.at[p] \in Files
    BY <2>a, <2>b, Zenon
  <2>3. CASE KindAt(f, p) # "reg"
    <3>1. Create(f, dir, name, how, v) = Fail("EXIST", g)
      BY <1>2, <2>3, Zenon DEF Create
    <3> QED
      BY <2>2, <3>1, Leaves DEF Gives, Fail, Result
  <2>4. CASE KindAt(f, p) = "reg"
    <3>1. Create(f, dir, name, how, v) = Result("OK", Touch(g, p), f.at[p])
      BY <1>2, <2>4, Zenon DEF Create
    <3> HIDE DEF g, p
    <3>2. IsFs(Touch(g, p)) /\ (Exact(f) => Exact(Touch(g, p)))
      BY <2>2, Touches, Zenon DEF Remembers
    <3> QED
      BY <2>2, <3>1, <3>2 DEF Gives, Does, Result
  <2> QED
    BY <2>3, <2>4, Zenon
<1>3. CASE newEntryError(dir, name) = "OK" /\ ~(how = "unchecked" /\ f.at[p] # 0) /\ how = "exclusive" /\ f.at[p] # 0
  <2>1. p \in Paths
    BY <1>3, Entries, Zenon
  <2>2. Create(f, dir, name, how, v) = retransmitted(f, p, v)
    BY <1>3, Zenon DEF Create
  <2>3. retransmitted(f, p, v) = statNode(f, p) \/ retransmitted(f, p, v) = Fail("EXIST", f)
    BY Zenon DEF retransmitted
  <2> HIDE DEF p
  <2> QED
    BY <2>1, <2>2, <2>3, Finds, Fails, Zenon
<1>4. CASE newEntryError(dir, name) = "OK" /\ ~(how = "unchecked" /\ f.at[p] # 0) /\ ~(how = "exclusive" /\ f.at[p] # 0)
  <2>1. p \in Paths
    BY <1>4, Entries, Zenon
  <2>2. PICK w : Create(f, dir, name, how, v) = Make(f, p, "reg", w)
    BY <1>4, Zenon DEF Create
  <2> HIDE DEF p
  <2> QED
    BY <2>1, <2>2, Makes, Zenon
<1> QED
  BY <1>1, <1>2, <1>3, <1>4, Zenon

LEMMA MakesOther ==
  ASSUME NEW f, IsFs(f), NEW dir, dir.path \in Paths, NEW name
  PROVE  /\ Does(f, Mkdir(f, dir, name)) /\ Gives(Mkdir(f, dir, name))
         /\ Does(f, Symlink(f, dir, name)) /\ Gives(Symlink(f, dir, name))
<1>1. CASE newEntryError(dir, name) # "OK"
  BY <1>1, Fails, Zenon DEF Mkdir, Symlink
<1>2. CASE newEntryError(dir, name) = "OK"
  <2>1. Append(dir.path, name) \in Paths
    BY <1>2, Entries, Zenon
  <2> QED
    BY <1>2, <2>1, Makes, Zenon DEF Mkdir, Symlink
<1> QED
  BY <1>1, <1>2, Zenon

\* A path lies under itself.
LEMMA UnderSelf ==
  ASSUME NEW p \in Paths
  PROVE  Under(p, p)
<1>1. p \in Seq(Elems)
  BY PathFacts, Zenon
<1> QED
  BY <1>1, UnderIs

\* forget drops what it remembers under a path.
LEMMA Forgets ==
  ASSUME NEW f, IsFs(f), NEW p \in Paths, NEW g, g = forget(f, p)
  PROVE  /\ IsFs(g) /\ Same(f, g)
         /\ \A k \in Files : g.cache[k] # None => g.cache[k] = f.cache[k] /\ ~Under(f.cache[k], p)
<1> DEFINE c == [k \in Files |-> IF f.cache[k] # None /\ Under(f.cache[k], p) THEN None ELSE f.cache[k]]
<1>1. c \in [Files -> Paths \cup {None}]
  BY Zenon DEF IsFs
<1>2. \A k \in Files : c[k] # None => c[k] = f.cache[k] /\ ~Under(f.cache[k], p)
  BY Zenon
<1>3. g = [f EXCEPT !.cache = c]
  BY Zenon DEF forget
<1> HIDE DEF c
<1>4. IsFs(g) /\ Same(f, g) /\ g.cache = c
  BY <1>1, <1>3, Recalls, Zenon
<1> QED
  BY <1>2, <1>4, Zenon

LEMMA Removes ==
  ASSUME NEW f, IsFs(f), NEW dir, dir.path \in Paths, NEW name, NEW wantDir
  PROVE  Does(f, remove(f, dir, name, wantDir))
<1> DEFINE p == Append(dir.path, name)
           r == remove(f, dir, name, wantDir)
<1>1. CASE newEntryError(dir, name) # "OK"
  BY <1>1, Fails, Zenon DEF remove
<1>2. CASE newEntryError(dir, name) = "OK"
  <2>1. p \in Paths
    BY <1>2, Entries, Zenon
  <2>2. \/ r = Fail("NOENT", f)
        \/ f.at[p] # 0 /\ \E st \in {"NOTDIR", "ISDIR", "NOTEMPTY"} : r = Fail(st, describe(f, p))
        \/ r = Fail("OK", forget(HostRemove(f, p), p))
    BY <1>2, Zenon DEF remove
  <2> HIDE DEF p, r
  <2> SUFFICES Does(f, r)
    BY Zenon DEF r
  <2>3. CASE r = Fail("NOENT", f)
    BY <2>3, Fails, Zenon
  <2>4. CASE f.at[p] # 0 /\ \E st \in {"NOTDIR", "ISDIR", "NOTEMPTY"} : r = Fail(st, describe(f, p))
    <3>1. Remembers(f, describe(f, p))
      BY <2>1, <2>4, Describes, Zenon
    <3> QED
      BY <2>4, <3>1, Leaves, Zenon
  <2>5. CASE r = Fail("OK", forget(HostRemove(f, p), p))
    <3> DEFINE g == HostRemove(f, p)
               h == forget(g, p)
    <3>1. g = [at |-> [f.at EXCEPT ![p] = 0], kind |-> f.kind, ctime |-> f.ctime, verf |-> f.verf,
               cache |-> f.cache, n |-> f.n]
      BY DEF HostRemove, IsFs
    <3> HIDE DEF g
    <3>2. /\ g.at \in [Paths -> 0..g.n] /\ g.cache = f.cache
          /\ \A q \in Paths : q # p => g.at[q] = f.at[q]
      BY <2>1, <3>1, NfsAssumption DEF IsFs
    <3>3. IsFs(g)
      BY <3>1, <3>2, Zenon DEF IsFs
    <3>4. /\ IsFs(h) /\ Same(g, h)
          /\ \A k \in Files : h.cache[k] # None => h.cache[k] = g.cache[k] /\ ~Under(g.cache[k], p)
      BY <2>1, <3>3, Forgets, Zenon
    <3>5. r = [st |-> "OK", fs |-> h, file |-> 0]
      BY <2>5, Zenon DEF Fail, Result, g
    <3> HIDE DEF h
    <3>6. ASSUME Exact(f), NEW k \in Files, h.cache[k] # None PROVE h.at[h.cache[k]] = k
      <4>1. h.cache[k] = f.cache[k] /\ ~Under(f.cache[k], p) /\ f.cache[k] \in Paths
        BY <3>2, <3>4, <3>6 DEF IsFs
      <4>2. f.at[f.cache[k]] = k
        BY <3>6, <4>1, Zenon DEF Exact
      <4>3. f.cache[k] # p
        BY <4>1, UnderSelf, Zenon
      <4> QED
        BY <3>2, <3>4, <4>1, <4>2, <4>3, Zenon DEF Same
    <3>7. Exact(f) => Exact(h)
      BY <3>6, Zenon DEF Exact
    <3> QED
      BY <3>4, <3>5, <3>7, Zenon DEF Does
  <2> QED
    BY <2>2, <2>3, <2>4, <2>5, Zenon
<1> QED
  BY <1>1, <1>2, Zenon

\* Where a rename on the host leaves the files.
LEMMA HostRenames ==
  ASSUME NEW f, IsFs(f), NEW p \in Paths, NEW q \in Paths, p # q, NEW g, g = HostRename(f, p, q)
  PROVE  /\ IsFs(g) /\ g.cache = f.cache /\ g.n = f.n
         /\ \A r \in Paths : Under(r, q) /\ Rebased(r, q, p) \in Paths => g.at[r] = f.at[Rebased(r, q, p)]
         /\ \A r \in Paths : ~Under(r, q) /\ ~Under(r, p) => g.at[r] = f.at[r]
<1> DEFINE a == [r \in Paths |->
     IF Under(r, q) /\ Rebased(r, q, p) \in Paths THEN f.at[Rebased(r, q, p)]
     ELSE IF Under(r, p) \/ Under(r, q) THEN 0
     ELSE f.at[r]]
<1>1. g = [f EXCEPT !.at = a]
  BY Zenon DEF HostRename
<1>2. a \in [Paths -> 0..f.n]
  BY NfsAssumption DEF IsFs
<1>3. /\ \A r \in Paths : Under(r, q) /\ Rebased(r, q, p) \in Paths => a[r] = f.at[Rebased(r, q, p)]
      /\ \A r \in Paths : ~Under(r, q) /\ ~Under(r, p) => a[r] = f.at[r]
  BY Zenon
<1> HIDE DEF a
<1>4. g = [at |-> a, kind |-> f.kind, ctime |-> f.ctime, verf |-> f.verf, cache |-> f.cache, n |-> f.n]
  BY <1>1, Zenon DEF IsFs
<1>5. IsFs(g) /\ g.at = a /\ g.cache = f.cache /\ g.n = f.n
  BY <1>2, <1>4 DEF IsFs
<1> QED
  BY <1>3, <1>5, Zenon

\* What is remembered under the old path moves along, and what was under the new one is
\* forgotten: the rest stays where it was.
LEMMA RenameExact ==
  ASSUME NEW f, IsFs(f), NEW p \in Paths, NEW q \in Paths, p # q,
         NEW m, m = moved(forget(HostRename(f, p, q), q), p, q)
  PROVE  IsFs(m) /\ (Exact(f) => Exact(m))
<1> DEFINE g == HostRename(f, p, q)
           h == forget(g, q)
           c == [k \in Files |->
                   IF h.cache[k] = None \/ ~Under(h.cache[k], p) THEN h.cache[k]
                   ELSE IF Rebased(h.cache[k], p, q) \in Paths THEN Rebased(h.cache[k], p, q) ELSE None]
<1>1. m = [h EXCEPT !.cache = c]
  BY Zenon DEF moved
<1>2. /\ IsFs(g) /\ g.cache = f.cache
      /\ \A r \in Paths : Under(r, q) /\ Rebased(r, q, p) \in Paths => g.at[r] = f.at[Rebased(r, q, p)]
      /\ \A r \in Paths : ~Under(r, q) /\ ~Under(r, p) => g.at[r] = f.at[r]
  BY HostRenames
<1> HIDE DEF g
<1>3. /\ IsFs(h) /\ Same(g, h)
      /\ \A k \in Files : h.cache[k] # None => h.cache[k] = f.cache[k] /\ ~Under(f.cache[k], q)
  BY <1>2, Forgets
<1> HIDE DEF h
<1>4. c \in [Files -> Paths \cup {None}]
  BY <1>3, Zenon DEF IsFs
<1>5. \A k \in Files : c[k] # None =>
        /\ h.cache[k] # None
        /\ \/ ~Under(h.cache[k], p) /\ c[k] = h.cache[k]
           \/ /\ Under(h.cache[k], p) /\ c[k] = Rebased(h.cache[k], p, q) /\ c[k] \in Paths
  BY Zenon
<1> HIDE DEF c
<1>6. IsFs(m) /\ m.at = g.at /\ m.cache = c
  BY <1>1, <1>3, <1>4, Recalls DEF Same
<1>7. ASSUME Exact(f), NEW k \in Files, c[k] # None PROVE g.at[c[k]] = k
  <2> DEFINE x == f.cache[k]
  <2>1. h.cache[k] = x /\ ~Under(x, q) /\ x # None /\ x \in Paths /\ f.at[x] = k
    BY <1>3, <1>5, <1>7, Zenon DEF IsFs, Exact
  <2> HIDE DEF x
  <2>2. CASE ~Under(x, p) /\ c[k] = x
    BY <1>2, <2>1, <2>2, Zenon
  <2>3. CASE Under(x, p) /\ c[k] = Rebased(x, p, q) /\ c[k] \in Paths
    <3>1. x \in Seq(Elems) /\ p \in Seq(Elems) /\ q \in Seq(Elems)
      BY <2>1, PathFacts, Zenon
    <3>2. Under(c[k], q) /\ Rebased(c[k], q, p) = x
      BY <2>3, <3>1, RebasedBack
    <3> QED
      BY <1>2, <2>1, <2>3, <3>2, Zenon
  <2> QED
    BY <1>5, <1>7, <2>1, <2>2, <2>3, Zenon
<1> QED
  BY <1>6, <1>7, Zenon DEF Exact

LEMMA Renames ==
  ASSUME NEW f, IsFs(f), NEW from, from.path \in Paths, NEW name, NEW to, to.path \in Paths, NEW toName
  PROVE  Does(f, Rename(f, from, name, to, toName))
<1> DEFINE p == Append(from.path, name)
           q == Append(to.path, toName)
           r == Rename(f, from, name, to, toName)
           m == moved(forget(HostRename(f, p, q), q), p, q)
<1>1. \/ \E st : r = Fail(st, f)
      \/ /\ newEntryError(from, name) = "OK" /\ newEntryError(to, toName) = "OK"
         /\ p # q /\ r = Fail("OK", m)
  BY Zenon DEF Rename
<1>2. CASE \E st : r = Fail(st, f)
  BY <1>2, Fails, Zenon
<1>3. CASE newEntryError(from, name) = "OK" /\ newEntryError(to, toName) = "OK" /\ p # q /\ r = Fail("OK", m)
  <2>1. p \in Paths /\ q \in Paths
    BY <1>3, Entries, Zenon
  <2>2. r = [st |-> "OK", fs |-> m, file |-> 0]
    BY <1>3, Zenon DEF Fail, Result
  <2> HIDE DEF p, q, r
  <2>3. IsFs(m) /\ (Exact(f) => Exact(m))
    BY <1>3, <2>1, RenameExact
  <2> HIDE DEF m
  <2>4. Does(f, r)
    BY <2>2, <2>3, Zenon DEF Does
  <2> QED
    BY <2>4, Zenon DEF r
<1> QED
  BY <1>1, <1>2, <1>3, Zenon

LEMMA Lookups ==
  ASSUME NEW f, IsFs(f), NEW dir, dir.path \in Paths, NEW name
  PROVE  Does(f, Lookup(f, dir, name))
<1> DEFINE up == IF Len(dir.path) = 1 THEN dir.path ELSE Parent(dir.path)
           r == Lookup(f, dir, name)
<1>1. \/ \E st : r = Fail(st, f)
      \/ r = statNode(f, dir.path)
      \/ r = statNode(f, up)
      \/ name \in Names /\ ~(Len(dir.path) > Depth) /\ r = statNode(f, Append(dir.path, name))
  BY Zenon DEF Lookup, checkName
<1>2. Len(dir.path) \in Nat /\ Len(dir.path) >= 1 /\ Depth \in Nat
  BY PathFacts, NfsAssumption
<1>3. up \in Paths
  <2>1. CASE Len(dir.path) = 1
    BY <2>1, Zenon
  <2>2. CASE Len(dir.path) # 1
    <3>1. Len(dir.path) - 1 \in 1..Len(dir.path)
      <4> DEFINE n == Len(dir.path)
      <4>1. n \in Nat /\ n >= 1 /\ n # 1
        BY <1>2, <2>2, Zenon
      <4> HIDE DEF n
      <4>2. n - 1 \in 1..n
        BY <4>1
      <4> QED
        BY <4>2, Zenon DEF n
    <3>2. SubSeq(dir.path, 1, Len(dir.path) - 1) \in Paths
      BY <3>1, PrefixPath, Zenon
    <3> QED
      BY <2>2, <3>2, Zenon DEF Parent
  <2> QED
    BY <2>1, <2>2, Zenon
<1>4. name \in Names /\ ~(Len(dir.path) > Depth) => Append(dir.path, name) \in Paths
  BY <1>2, AppendPath
<1> HIDE DEF up, r
<1>5. Does(f, r)
  BY <1>1, <1>3, <1>4, Fails, Finds, Zenon
<1> QED
  BY <1>5, Zenon DEF r

\* A listing and a mount remember every file they meet where they meet it.
LEMMA Lists ==
  ASSUME NEW f, IsFs(f), NEW nd
  PROVE  Does(f, readdirStart(nd, f))
<1> DEFINE S(k) == {p \in Children(f, nd.path) : f.at[p] = k /\ Parent(p) = nd.path}
           c == [k \in Files |-> IF S(k) = {} THEN f.cache[k] ELSE CHOOSE q \in S(k) : TRUE]
           r == readdirStart(nd, f)
<1>1. (\E st : r = Fail(st, f)) \/ r = Fail("OK", [f EXCEPT !.cache = c])
  BY Zenon DEF readdirStart
<1>2. ASSUME NEW k \in Files
      PROVE  c[k] \in Paths \cup {None} /\ (c[k] = f.cache[k] \/ f.at[c[k]] = k)
  <2>1. CASE S(k) = {}
    <3>1. c[k] = f.cache[k]
      BY <2>1, Zenon
    <3> QED
      BY <3>1, Zenon DEF IsFs
  <2>2. CASE S(k) # {}
    <3>1. c[k] \in S(k)
      BY <2>2, Zenon
    <3> HIDE DEF c
    <3> QED
      BY <3>1, Zenon DEF Children
  <2> QED
    BY <2>1, <2>2, Zenon
<1>3. c \in [Files -> Paths \cup {None}]
  BY <1>2, Zenon
<1> HIDE DEF c, r
<1> DEFINE g == [f EXCEPT !.cache = c]
<1>4. Remembers(f, g)
  BY <1>2, <1>3, RecallsExact
<1> HIDE DEF g
<1>5. Does(f, r)
  BY <1>1, <1>4, Fails, Leaves, Zenon DEF g
<1> QED
  BY <1>5, Zenon DEF r

LEMMA Mounts ==
  ASSUME NEW f, IsFs(f), NEW p
  PROVE  Remembers(f, MountRoot(f, p).fs)
<1> DEFINE steps == {SubSeq(p, 1, k) : k \in 1..Len(p)}
           S(k) == {q \in steps : f.at[q] = k}
           c == [k \in Files |-> IF S(k) = {} THEN f.cache[k] ELSE CHOOSE q \in S(k) : TRUE]
           g == [f EXCEPT !.cache = c]
           r == MountRoot(f, p)
<1>1. (\E st : r = Fail(st, f)) \/ (p \in Paths /\ r = Result("OK", g, f.at[p]))
  BY Zenon DEF MountRoot
<1>2. CASE \E st : r = Fail(st, f)
  BY <1>2, RemembersSelf DEF Fail, Result
<1>3. CASE p \in Paths /\ r = Result("OK", g, f.at[p])
  <2>1. steps \subseteq Paths
    BY <1>3, PrefixPath, Zenon
  <2>2. r.fs = g
    BY <1>3 DEF Result
  <2> HIDE DEF steps, r
  <2>3. ASSUME NEW k \in Files
        PROVE  c[k] \in Paths \cup {None} /\ (c[k] = f.cache[k] \/ f.at[c[k]] = k)
    <3>1. CASE S(k) = {}
      <4>1. c[k] = f.cache[k]
        BY <3>1, Zenon
      <4> QED
        BY <4>1, Zenon DEF IsFs
    <3>2. CASE S(k) # {}
      <4>1. c[k] \in S(k)
        BY <3>2, Zenon
      <4> HIDE DEF c
      <4> QED
        BY <2>1, <4>1, Zenon
    <3> QED
      BY <3>1, <3>2, Zenon
  <2>4. c \in [Files -> Paths \cup {None}]
    BY <2>3, Zenon
  <2> HIDE DEF c
  <2>5. Remembers(f, g)
    BY <2>3, <2>4, RecallsExact
  <2> HIDE DEF g
  <2> QED
    BY <2>2, <2>5, Zenon DEF r
<1> QED
  BY <1>1, <1>2, <1>3, Zenon

\* SetAttr and WriteAt.
LEMMA Writes ==
  ASSUME NEW f, IsFs(f), NEW nd, NEW size
  PROVE  Does(f, SetAttr(f, nd, size)) /\ Does(f, WriteAt(f, nd))
<1> DEFINE g == Touch(f, nd.path)
<1>1. IsFs(g) /\ (Exact(f) => Exact(g))
  BY Touches, Zenon
<1>2. Does(f, Result("OK", g, f.at[nd.path]))
  <2> HIDE DEF g
  <2> QED
    BY <1>1, Zenon DEF Does, Result
<1>3. \/ \E st : SetAttr(f, nd, size) = Fail(st, f)
      \/ SetAttr(f, nd, size) = Result("OK", f, nd.file)
      \/ SetAttr(f, nd, size) = Result("OK", g, f.at[nd.path])
  BY Zenon DEF SetAttr
<1>4. (\E st : WriteAt(f, nd) = Fail(st, f)) \/ WriteAt(f, nd) = Result("OK", g, f.at[nd.path])
  BY Zenon DEF WriteAt
<1> HIDE DEF g
<1> QED
  BY <1>2, <1>3, <1>4, Fails, Zenon

\* dirop and dirop3.
LEMMA InDir ==
  ASSUME NEW f, IsFs(f), NEW nd, NEW r, nd.kind = "dir" => Does(f, r)
  PROVE  /\ Does(f, InDirectory(nd, f, r))
         /\ Gives(r) => Gives(InDirectory(nd, f, r))
BY Fails, Zenon DEF InDirectory

LEMMA HandlerCreates ==
  ASSUME NEW f, IsFs(f), NEW p, NEW c, NEW nd, nd.path \in Paths, NEW to, ProcOf(c) \in Creating
  PROVE  Does(f, Handler(p, c, nd, to, f)) /\ Gives(Handler(p, c, nd, to, f))
<1> DEFINE r == Handler(p, c, nd, to, f)
<1>1. PICK how, v : \/ r = InDirectory(nd, f, Create(f, nd, c.name, how, v))
                    \/ r = InDirectory(nd, f, Mkdir(f, nd, c.name))
                    \/ r = InDirectory(nd, f, Symlink(f, nd, c.name))
  <2>1. CASE ProcOf(c) = "create"
    BY <2>1, Zenon DEF Handler, nfsCreate, nfs3Create
  <2>2. CASE ProcOf(c) = "mkdir"
    BY <2>2, Zenon DEF Handler, nfsCreate, nfs3Mkdir
  <2>3. CASE ProcOf(c) = "symlink"
    BY <2>3, Zenon DEF Handler, nfsSymlink, nfs3Symlink
  <2> QED
    BY <2>1, <2>2, <2>3, Zenon DEF Creating
<1> HIDE DEF r
<1>2. Does(f, r) /\ Gives(r)
  BY <1>1, Creates, MakesOther, InDir, Zenon
<1> QED
  BY <1>2, Zenon DEF r

\* Every procedure, on a path of the share.
LEMMA Handles ==
  ASSUME NEW f, IsFs(f), NEW p, NEW c, NEW nd, nd.path \in Paths, NEW to,
         ProcOf(c) = "rename" /\ nd.kind = "dir" => to.path \in Paths
  PROVE  /\ Does(f, Handler(p, c, nd, to, f))
         /\ ProcOf(c) \in Creating => Gives(Handler(p, c, nd, to, f))
<1> DEFINE r == Handler(p, c, nd, to, f)
<1>1. CASE ProcOf(c) \in Creating
  BY <1>1, HandlerCreates, Zenon
<1>2. CASE ProcOf(c) \notin Creating
  <2>1. CASE ProcOf(c) = "setattr"
    <3>1. r = SetAttr(f, nd, c.size) \/ r = Fail("NOTSYNC", f)
      BY <2>1, Zenon DEF Handler, nfsSetattr, nfs3Setattr
    <3> QED
      BY <1>2, <3>1, Writes, Fails, Zenon
  <2>2. CASE ProcOf(c) = "write"
    <3>1. r = WriteAt(f, nd) \/ \E st : r = Fail(st, f)
      BY <2>2, Zenon DEF Handler, writeTo
    <3> QED
      BY <1>2, <3>1, Writes, Fails, Zenon
  <2>3. CASE ProcOf(c) \in {"remove", "rmdir"}
    <3>1. \E wantDir : r = InDirectory(nd, f, remove(f, nd, c.name, wantDir))
      BY <2>3, Zenon DEF Handler, nfsRemove, nfs3Remove
    <3> QED
      BY <1>2, <3>1, Removes, InDir, Zenon
  <2>4. CASE ProcOf(c) = "rename"
    <3> DEFINE s == Rename(f, nd, c.name, to, c.toName)
    <3>1. r = InDirectory(nd, f, InDirectory(to, f, s))
      BY <2>4, Zenon DEF Handler, nfsRename, nfs3Rename
    <3>2. nd.kind = "dir" => Does(f, s)
      BY <2>4, Renames, Zenon
    <3> HIDE DEF s
    <3>3. nd.kind = "dir" => Does(f, InDirectory(to, f, s))
      BY <3>2, InDir, Zenon
    <3>4. Does(f, r)
      BY <3>1, <3>3, InDir, Zenon
    <3> QED
      BY <1>2, <3>4, Zenon
  <2>5. CASE ProcOf(c) = "lookup"
    <3>1. r = Lookup(f, nd, c.name) \/ r = InDirectory(nd, f, Lookup(f, nd, c.name))
      BY <2>5, Zenon DEF Handler, nfsLookup, nfs3Lookup
    <3> QED
      BY <1>2, <3>1, Lookups, InDir, Zenon
  <2>6. CASE ProcOf(c) \in {"readdir", "readdirplus"}
    <3>1. r = readdirStart(nd, f)
      BY <2>6, Zenon DEF Handler
    <3> QED
      BY <1>2, <3>1, Lists, Zenon
  <2>7. CASE ProcOf(c) = "readlink"
    <3>1. \E st : r = Fail(st, f)
      BY <2>7, Zenon DEF Handler, nfsReadlink, nfs3Readlink
    <3> QED
      BY <1>2, <3>1, Fails, Zenon
  <2>8. CASE ProcOf(c) = "read"
    <3>1. \E st : r = Fail(st, f)
      BY <2>8, Zenon DEF Handler, nfsRead, nfs3Read
    <3> QED
      BY <1>2, <3>1, Fails, Zenon
  <2>9. CASE ProcOf(c) \notin {"setattr", "write", "remove", "rmdir", "rename", "lookup", "readdir",
                               "readdirplus", "readlink", "read"}
    <3>1. \E st : r = Fail(st, f)
      BY <1>2, <2>9, Zenon DEF Handler, Creating, nfs3Access, nfs3Fsstat, nfsStatfs
    <3> QED
      BY <1>2, <3>1, Fails, Zenon
  <2> QED
    BY <2>1, <2>2, <2>3, <2>4, <2>5, <2>6, <2>7, <2>8, <2>9, Zenon
<1> QED
  BY <1>1, <1>2, Zenon

-----------------------------------------------------------------------------
(* The goroutines.                                                         *)

LEMMA IdleGood ==
  ASSUME NEW w, NEW f
  PROVE  GoodJob(w, Idle, f) /\ Idle.pc = "idle"
BY Zenon DEF GoodJob, IsJob, JobFields, Idle

\* A job as it starts.
LEMMA JobIs ==
  ASSUME NEW p, NEW c, NEW j, j = Job(p, c)
  PROVE  IsJob(j) /\ j.pc = "idle" /\ j.peer = p /\ j.call = c /\ ~j.changed /\ ~j.moved /\ ~j.cached
BY Zenon DEF IsJob, JobFields, Job, Idle

LEMMA AnswerIs ==
  ASSUME NEW i, IsJob(i), NEW st, NEW k, NEW j, j = Answer(i, st, k)
  PROVE  /\ IsJob(j) /\ j.pc = "reply" /\ j.peer = i.peer /\ j.call = i.call /\ j.res = [st |-> st, file |-> k]
         /\ (j.changed <=> i.changed) /\ (j.moved <=> i.moved) /\ (j.cached <=> i.cached)
BY Zenon DEF IsJob, JobFields, Answer

\* A job that starts with its answer has changed nothing.
LEMMA AnswerGood ==
  ASSUME NEW w, NEW f, NEW p \in IF w = "udp" THEN Udp ELSE {w}, NEW c \in CallType, NEW st, NEW k, NEW j,
         j = Answer(Job(p, c), st, k)
  PROVE  /\ GoodJob(w, j, f)
         /\ j.pc = "reply" /\ j.peer = p /\ j.call = c /\ ~j.changed /\ ~j.cached
<1> DEFINE i == Job(p, c)
<1>1. IsJob(i) /\ i.peer = p /\ i.call = c /\ ~i.changed /\ ~i.cached
  BY JobIs
<1> DEFINE h == Answer(i, st, k)
<1>2. j = h
  BY Zenon
<1> HIDE DEF i
<1>a. IsJob(i)
  BY <1>1, Zenon
<1>3. /\ IsJob(h) /\ h.pc = "reply" /\ h.peer = i.peer /\ h.call = i.call /\ h.res = [st |-> st, file |-> k]
      /\ (h.changed <=> i.changed) /\ (h.moved <=> i.moved) /\ (h.cached <=> i.cached)
  BY <1>a, AnswerIs, Zenon
<1> HIDE DEF h
<1> QED
  BY <1>1, <1>2, <1>3, Zenon DEF GoodJob

\* A reply from the cache.
LEMMA CachedGood ==
  ASSUME NEW w, NEW f, NEW p \in IF w = "udp" THEN Udp ELSE {w}, NEW c \in CallType, NEW st, NEW k, NEW j,
         j = [Answer(Job(p, c), st, k) EXCEPT !.cached = TRUE]
  PROVE  /\ GoodJob(w, j, f)
         /\ j.pc = "reply" /\ j.peer = p /\ j.call = c /\ ~j.changed /\ j.cached /\ j.res.st = st
<1> DEFINE h == Job(p, c)
           i == Answer(h, st, k)
<1>1. IsJob(h) /\ h.peer = p /\ h.call = c /\ ~h.changed
  BY JobIs
<1> HIDE DEF h
<1>2. /\ IsJob(i) /\ i.pc = "reply" /\ i.peer = p /\ i.call = c /\ i.res = [st |-> st, file |-> k]
      /\ (i.changed <=> h.changed)
  BY <1>1, AnswerIs
<1>3. j = [i EXCEPT !.cached = TRUE]
  BY Zenon DEF h
<1> HIDE DEF i
<1>4. /\ IsJob(j) /\ j.pc = "reply" /\ j.peer = p /\ j.call = c /\ j.res = i.res /\ (j.changed <=> i.changed) /\ j.cached
  BY <1>2, <1>3, Zenon DEF IsJob, JobFields
<1> QED
  BY <1>1, <1>2, <1>4 DEF GoodJob

LEMMA GoodSame ==
  ASSUME NEW w, NEW j, NEW f, NEW g, GoodJob(w, j, f), f.at = g.at
  PROVE  GoodJob(w, j, g)
BY Zenon DEF GoodJob, Ready

LEMMA GoodLost ==
  ASSUME NEW w, NEW j, NEW f, GoodJob(w, j, f), NEW b, NEW i, i = [j EXCEPT !.lost = b]
  PROVE  GoodJob(w, i, f) /\ i.pc = j.pc /\ i.peer = j.peer /\ i.call = j.call /\ (i.cached <=> j.cached)
<1>1. /\ IsJob(i) /\ i.pc = j.pc /\ i.peer = j.peer /\ i.call = j.call /\ (i.cached <=> j.cached)
      /\ i.node = j.node /\ i.to = j.to /\ i.res = j.res /\ (i.changed <=> j.changed) /\ i.hit = j.hit /\ (i.moved <=> j.moved)
  BY Zenon DEF GoodJob, IsJob, JobFields
<1> QED
  BY <1>1, Zenon DEF GoodJob, Ready, Landed

\* The file system has been asked: what failed has changed nothing, and what changed
\* something was at work on the file of the handle.
LEMMA GoodWork ==
  ASSUME NEW w, NEW j, NEW f, IsFs(f), GoodJob(w, j, f), j.pc = "work",
         NEW r, r = Handler(j.peer, j.call, j.node, j.to, f), 
         NEW i, IsJob(i), i.pc = "reply", i.peer = j.peer, i.call = j.call, i.cached <=> j.cached, i.moved <=> j.moved,
         i.res = [st |-> r.st, file |-> r.file], i.hit = f.at[j.node.path],
         i.changed => ~([r.fs EXCEPT !.cache = f.cache] = f)
  PROVE  Does(f, r) /\ GoodJob(w, i, r.fs)
<1>1. Ready(j, f) /\ IsJob(j) /\ j.call \in CallType /\ j.peer \in IF w = "udp" THEN Udp ELSE {w}
  BY Zenon DEF GoodJob
<1>2. Does(f, r) /\ (ProcOf(j.call) \in Creating => Gives(r))
  BY <1>1, Handles, Zenon DEF Ready
<1>3. i.changed => r.st = "OK"
  BY <1>2, SameBack, Zenon DEF Does
<1>4. i.changed => Landed(i)
  <2>1. i.res.st = r.st /\ i.res.file = r.file
    OBVIOUS
  <2>2. i.hit = i.call.fh \/ i.moved
    BY <1>1, Zenon DEF Ready
  <2>3. dispatch(i.call) = "call" /\ i.call.form # "args" /\ i.call.fh \in Files /\ ~i.cached
    BY <1>1, Zenon DEF Ready
  <2> QED
    BY <1>2, <1>3, <2>1, <2>2, <2>3, Zenon DEF Landed, Gives
<1> QED
  BY <1>1, <1>2, <1>4, Zenon DEF GoodJob

\* NodeOf gives the path the handle was resolved to.
LEMMA NodeIs ==
  ASSUME NEW f, IsFs(f), NEW k \in Nat, NodeByHandle(f, k).st = "OK"
  PROVE  /\ k \in Files /\ NodeOf(f, k).path \in Paths /\ f.at[NodeOf(f, k).path] = k
         /\ NodeOf(f, k).kind = f.kind[k]
<1> DEFINE r == NodeByHandle(f, k)
<1>1. k \in Files /\ r.fs.cache[k] \in Paths /\ f.at[r.fs.cache[k]] = k
  BY ByHandle, Zenon
<1>2. NodeOf(f, k) = [file |-> k, path |-> r.fs.cache[k], kind |-> f.kind[k], ctime |-> f.ctime[k]]
  BY Zenon DEF NodeOf
<1> HIDE DEF r
<1> QED
  BY <1>1, <1>2

\* The first step of a call leaves the files alone, and resolves the handles or answers.
LEMMA Decodes ==
  ASSUME NEW w, IsFs(fs), NEW p \in IF w = "udp" THEN Udp ELSE {w}, NEW c \in CallType,
         dispatch(c) = "call"
  PROVE  LET s == decode(Job(p, c), fs) IN
         /\ Remembers(fs, s.fs) /\ GoodJob(w, s.job, s.fs)
         /\ s.job.pc # "idle" /\ s.job.peer = p /\ s.job.call = c /\ ~s.job.cached
<1> DEFINE s == decode(Job(p, c), fs)
<1>0. s = decode(Job(p, c), fs)
  BY Zenon
<1> HIDE DEF s
<1> SUFFICES /\ Remembers(fs, s.fs) /\ GoodJob(w, s.job, s.fs)
             /\ s.job.pc # "idle" /\ s.job.peer = p /\ s.job.call = c /\ ~s.job.cached
  BY Zenon DEF s
<1> DEFINE j == Job(p, c)
           from == NodeByHandle(fs, c.fh)
           to == NodeByHandle(from.fs, c.toFh)
           rename == ProcOf(c) = "rename"
           i == [j EXCEPT !.pc = "work", !.node = NodeOf(fs, c.fh),
                          !.to = IF rename THEN NodeOf(fs, c.toFh) ELSE NoNode]
<1>1. c.fh \in Nat /\ c.toFh \in Nat
  BY Zenon DEF CallType
<1>2. IsJob(j) /\ j.pc = "idle" /\ j.peer = p /\ j.call = c /\ ~j.changed /\ ~j.moved /\ ~j.cached
  BY JobIs, Zenon
<1>3. Remembers(fs, from.fs)
  BY <1>1, ByHandle, Zenon
<1>4. Remembers(from.fs, to.fs)
  BY <1>1, <1>3, ByHandle, Zenon DEF Remembers
<1>5. Remembers(fs, to.fs)
  BY <1>3, <1>4, RemembersBoth, Zenon
<1>6. Remembers(fs, MountRoot(fs, c.path).fs) /\ Remembers(fs, fs)
  BY Mounts, RemembersSelf, Zenon
<1>7. \/ \E st, k, g : Remembers(fs, g) /\ s = [job |-> Answer(j, st, k), fs |-> g]
      \/ /\ c.form # "args" /\ from.st = "OK" /\ ~(rename /\ to.st # "OK" /\ fs.kind[c.fh] = "dir")
         /\ s = [job |-> i, fs |-> IF rename THEN to.fs ELSE from.fs]
  <2>1. decode(j, fs) = s /\ j.call = c
    BY <1>0, <1>2, Zenon
  <2> HIDE DEF j
  <2>2. CASE Blind(c)
    BY <1>6, <2>1, <2>2, Zenon DEF decode
  <2>3. CASE ~Blind(c) /\ undecodable(c)
    BY <1>6, <2>1, <2>3, Zenon DEF decode
  <2>4. CASE ~Blind(c) /\ ~undecodable(c) /\ ProcOf(c) = "mnt"
    BY <1>6, <2>1, <2>4, Zenon DEF decode
  <2>5. CASE ~Blind(c) /\ ~undecodable(c) /\ ProcOf(c) # "mnt" /\ from.st # "OK"
    BY <1>3, <2>1, <2>5, Zenon DEF decode
  <2>6. CASE /\ ~Blind(c) /\ ~undecodable(c) /\ ProcOf(c) # "mnt" /\ from.st = "OK"
             /\ rename /\ to.st # "OK" /\ fs.kind[c.fh] = "dir"
    BY <1>5, <2>1, <2>6, Zenon DEF decode
  <2>7. CASE /\ ~Blind(c) /\ ~undecodable(c) /\ ProcOf(c) # "mnt" /\ from.st = "OK"
             /\ ~(rename /\ to.st # "OK" /\ fs.kind[c.fh] = "dir")
    BY <2>1, <2>7, Zenon DEF decode, undecodable
  <2> QED
    BY <2>2, <2>3, <2>4, <2>5, <2>6, <2>7, Zenon
<1>8. CASE \E st, k, g : Remembers(fs, g) /\ s = [job |-> Answer(j, st, k), fs |-> g]
  <2>1. PICK st, k, g : Remembers(fs, g) /\ s = [job |-> Answer(j, st, k), fs |-> g]
    BY <1>8, Zenon
  <2> DEFINE h == Answer(Job(p, c), st, k)
  <2>2. s.job = h /\ s.fs = g
    BY <2>1, Zenon
  <2>3. GoodJob(w, h, g) /\ h.pc = "reply" /\ h.peer = p /\ h.call = c /\ ~h.changed /\ ~h.cached
    BY AnswerGood
  <2> HIDE DEF h
  <2> QED
    BY <2>1, <2>2, <2>3, Zenon
<1>9. CASE /\ c.form # "args" /\ from.st = "OK" /\ ~(rename /\ to.st # "OK" /\ fs.kind[c.fh] = "dir")
           /\ s = [job |-> i, fs |-> IF rename THEN to.fs ELSE from.fs]
  <2> DEFINE nd == NodeOf(fs, c.fh)
             g == IF rename THEN to.fs ELSE from.fs
  <2>1. c.fh \in Files /\ nd.path \in Paths /\ fs.at[nd.path] = c.fh /\ nd.kind = fs.kind[c.fh]
    BY <1>1, <1>9, NodeIs, Zenon
  <2>2. rename /\ nd.kind = "dir" => NodeOf(fs, c.toFh).path \in Paths
    <3>1. SUFFICES ASSUME rename, nd.kind = "dir" PROVE NodeOf(fs, c.toFh).path \in Paths
      BY Zenon
    <3>2. to.st = "OK"
      BY <1>9, <2>1, <3>1, Zenon
    <3>3. IsFs(from.fs) /\ from.fs.at = fs.at /\ from.fs.n = fs.n
      BY <1>3, Zenon DEF Remembers, Same
    <3>4. search(from.fs, c.toFh) = search(fs, c.toFh)
      BY <3>3, Zenon DEF search
    <3>5. c.toFh \in 1..fs.n /\ search(fs, c.toFh) # {}
      BY <1>1, <3>2, <3>3, <3>4, ByHandle, Zenon
    <3>6. NodeByHandle(fs, c.toFh).st = "OK"
      BY <1>1, <3>5, ByHandle, Zenon
    <3> QED
      BY <1>1, <3>6, NodeIs, Zenon
  <2>3. s.job = i /\ s.fs = g /\ Remembers(fs, g)
    BY <1>3, <1>5, <1>9, Zenon
  <2>4. /\ IsJob(i) /\ i.pc = "work" /\ i.peer = j.peer /\ i.call = j.call /\ i.node = nd
        /\ i.to = IF rename THEN NodeOf(fs, c.toFh) ELSE NoNode
    <3> HIDE DEF j, nd, rename
    <3> QED
      BY <1>2, Zenon DEF IsJob, JobFields, nd
  <2>5. (i.changed <=> j.changed) /\ (i.moved <=> j.moved) /\ (i.cached <=> j.cached)
    <3> HIDE DEF j, nd, rename
    <3> QED
      BY <1>2, Zenon DEF IsJob, JobFields
  <2> HIDE DEF i, g, j, nd
  <2>6. g.at = fs.at
    BY <2>3, Zenon DEF Remembers, Same
  <2>7. ~i.changed /\ ~i.moved /\ ~i.cached
    BY <1>2, <2>5, Zenon
  <2>8. Ready(i, g)
    BY <1>2, <1>9, <2>1, <2>2, <2>4, <2>6, <2>7, Zenon DEF Ready
  <2>9. GoodJob(w, i, g)
    BY <1>2, <2>4, <2>8, Zenon DEF GoodJob
  <2> QED
    BY <1>2, <2>3, <2>4, <2>7, <2>9, Zenon
<1> QED
  BY <1>7, <1>8, <1>9, Zenon

-----------------------------------------------------------------------------
(* The share and the goroutines, step by step.                             *)

\* The files of the first tree.
LEMMA ShareInit == Init => ShareInv
<1> SUFFICES ASSUME Init PROVE ShareInv
  BY Zenon
<1>1. PICK tree \in Trees :
        LET placed(p) == {i \in DOMAIN tree : tree[i].path = p} IN
        fs = [at |-> [p \in Paths |-> IF placed(p) = {} THEN 0 ELSE CHOOSE i \in placed(p) : TRUE],
              kind  |-> [k \in Files |-> IF k \in DOMAIN tree THEN tree[k].kind ELSE "none"],
              ctime |-> [k \in Files |-> 0],
              verf  |-> [k \in Files |-> None],
              cache |-> [k \in Files |-> None],
              n |-> Len(tree)]
  BY Zenon DEF Init
<1> DEFINE placed(p) == {i \in DOMAIN tree : tree[i].path = p}
           a == [p \in Paths |-> IF placed(p) = {} THEN 0 ELSE CHOOSE i \in placed(p) : TRUE]
           d == [k \in Files |-> IF k \in DOMAIN tree THEN tree[k].kind ELSE "none"]
           t == [k \in Files |-> 0]
           v == [k \in Files |-> None]
           n == Len(tree)
<1>2. fs = [at |-> a, kind |-> d, ctime |-> t, verf |-> v, cache |-> v, n |-> n]
  BY <1>1, Zenon
<1>3. n \in 0..MaxFiles /\ DOMAIN tree = 1..n
  BY NfsAssumption
<1>4. a \in [Paths -> 0..n]
  <2>1. ASSUME NEW p \in Paths PROVE a[p] \in 0..n
    <3>1. CASE placed(p) = {}
      <4>1. a[p] = 0
        BY <3>1, Zenon
      <4> QED
        BY <1>3, <4>1
    <3>2. CASE placed(p) # {}
      <4>1. a[p] \in placed(p)
        BY <3>2, Zenon
      <4>2. a[p] \in 1..n
        BY <1>3, <4>1, Zenon
      <4> HIDE DEF a, n
      <4> QED
        BY <1>3, <4>2
    <3> QED
      BY <3>1, <3>2, Zenon
  <2> HIDE DEF placed, n
  <2> QED
    BY <2>1, Zenon
<1>5. v \in [Files -> Paths \cup {None}] /\ \A k \in Files : v[k] = None
  BY Zenon
<1> HIDE DEF a, d, t, v, n
<1>6. IsFs(fs) /\ Exact(fs)
  BY <1>2, <1>3, <1>4, <1>5, Zenon DEF IsFs, Exact
<1>7. FsInv
  BY <1>6, Zenon DEF FsInv, Init
<1>8. NetInv
  BY Zenon DEF NetInv, Init
<1>9. JobInv
  <2>1. job = [w \in Workers |-> Idle]
    BY Zenon DEF Init
  <2> QED
    BY <2>1, IdleGood, Zenon DEF JobInv
<1> QED
  BY <1>7, <1>8, <1>9, Zenon DEF ShareInv

\* A call of a client.
LEMMA NewCall ==
  ASSUME NetInv, NEW p \in Peers, Call(p), seen[p] \in Seq({seen[p][x] : x \in DOMAIN seen[p]})
  PROVE  pend' = [pend EXCEPT ![p] = pend'[p]] /\ pend'[p] \in CallType /\ pend'[p].xid = Len(seen[p]) + 1
<1>1. PICK m \in Plans[plan].menu[p] : pend' = [pend EXCEPT ![p] = [m EXCEPT !.xid = Len(seen[p]) + 1]]
  BY Zenon DEF Call
<1>2. m \in CallType
  <2>1. Plans[plan].menu \in [Peers -> SUBSET CallType]
    BY NfsAssumption, Zenon DEF NetInv
  <2> HIDE DEF CallType
  <2> QED
    BY <1>1, <2>1, Zenon
<1>3. Len(seen[p]) + 1 \in Nat
  <2>1. Len(seen[p]) \in Nat
    OBVIOUS
  <2> QED
    BY <2>1
<1> DEFINE x == Len(seen[p]) + 1
           c == [m EXCEPT !.xid = x]
<1>4. c \in CallType /\ c.xid = x
  <2> HIDE DEF x
  <2> QED
    BY <1>2, <1>3, Zenon DEF CallType, x
<1>5. pend' = [pend EXCEPT ![p] = c] /\ DOMAIN pend = Peers
  BY <1>1, Zenon DEF NetInv
<1> HIDE DEF c, x
<1> QED
  BY <1>4, <1>5, Zenon DEF x

\* The clients on the socket and on the connections.
LEMMA SideFacts ==
  /\ "udp" \in Workers
  /\ \A p \in Udp : p \in Peers
  /\ \A t \in Tcp : t \in Workers /\ t \in Peers /\ t # "udp" /\ t \notin Udp
BY NfsAssumption, Zenon DEF Workers, Peers

\* The first step of a call.
LEMMA Begins ==
  ASSUME IsFs(fs), DOMAIN job = Workers, NEW w \in Workers, NEW p \in IF w = "udp" THEN Udp ELSE {w}, NEW c \in CallType,
         Begin(w, p, c)
  PROVE  /\ Remembers(fs, fs')
         /\ job' = [job EXCEPT ![w] = job'[w]] /\ GoodJob(w, job'[w], fs')
         /\ job'[w].pc # "idle" /\ job'[w].peer = p /\ job'[w].call = c /\ ~job'[w].cached
<1>1. CASE dispatch(c) = "call"
  <2> DEFINE s == decode(Job(p, c), fs)
  <2>1. job' = [job EXCEPT ![w] = s.job] /\ fs' = s.fs
    BY <1>1, Zenon DEF Begin
  <2>2. /\ Remembers(fs, s.fs) /\ GoodJob(w, s.job, s.fs)
        /\ s.job.pc # "idle" /\ s.job.peer = p /\ s.job.call = c /\ ~s.job.cached
    BY <1>1, Decodes
  <2> HIDE DEF s
  <2>3. job'[w] = s.job
    BY <2>1, Zenon
  <2> QED
    BY <2>1, <2>2, <2>3, Zenon
<1>2. CASE dispatch(c) # "call"
  <2> DEFINE h == Answer(Job(p, c), dispatch(c), 0)
  <2>1. job' = [job EXCEPT ![w] = h] /\ fs' = fs
    BY <1>2, Zenon DEF Begin
  <2>2. GoodJob(w, h, fs) /\ h.pc = "reply" /\ h.peer = p /\ h.call = c /\ ~h.changed /\ ~h.cached
    BY AnswerGood
  <2> HIDE DEF h
  <2>3. job'[w] = h
    BY <2>1, Zenon
  <2>4. Remembers(fs, fs)
    BY RemembersSelf, Zenon
  <2> QED
    BY <2>1, <2>2, <2>3, <2>4, Zenon
<1> QED
  BY <1>1, <1>2, Zenon

\* One goroutine takes a step, and the files stay where they are.
LEMMA OneJob ==
  ASSUME JobInv, fs'.at = fs.at, NEW w \in Workers, NEW x, job' = [job EXCEPT ![w] = x], GoodJob(w, x, fs')
  PROVE  JobInv'
<1>1. DOMAIN job = Workers
  BY Zenon DEF JobInv
<1>2. ASSUME NEW v \in Workers PROVE GoodJob(v, job'[v], fs')
  <2>1. CASE v = w
    BY <1>1, <2>1, Zenon
  <2>2. CASE v # w
    <3>1. job'[v] = job[v] /\ GoodJob(v, job[v], fs)
      BY <1>1, <2>2, Zenon DEF JobInv
    <3> QED
      BY <3>1, GoodSame, Zenon
  <2> QED
    BY <2>1, <2>2, Zenon
<1>3. job' = [v \in Workers |-> job'[v]]
  BY <1>1, Zenon
<1> QED
  BY <1>2, <1>3, Zenon DEF JobInv

\* The share is at most told where a file is.
LEMMA FsKept ==
  ASSUME FsInv, Remembers(fs, fs'), hostDone' = hostDone
  PROVE  FsInv' /\ fs'.at = fs.at
BY Zenon DEF FsInv, Remembers, Same

LEMMA ShareCall ==
  ASSUME ShareInv, NEW p \in Peers, Call(p), Listed(seen[p])
  PROVE  ShareInv'
<1>1. pend' = [pend EXCEPT ![p] = pend'[p]] /\ pend'[p] \in CallType
  BY NewCall, Zenon DEF ShareInv, Listed
<1>2. NetInv'
  BY <1>1, Zenon DEF ShareInv, NetInv, Call
<1> QED
  BY <1>2, Zenon DEF ShareInv, FsInv, JobInv, Call

LEMMA ShareServeUDP ==
  ASSUME ShareInv, NEW p \in Udp, NEW c \in {pend[p], stray[p]}, ServeUDP(p, c)
  PROVE  ShareInv'
<1>1. c \in CallType /\ "udp" \in Workers /\ p \in IF "udp" = "udp" THEN Udp ELSE {"udp"}
  BY SideFacts DEF ShareInv, NetInv, ServeUDP
<1>2. NetInv' /\ hostDone' = hostDone
  BY Zenon DEF ServeUDP, ShareInv, NetInv
<1>3. CASE lookup(p, c) # {}
  <2>1. PICK i \in lookup(p, c) :
          /\ job' = [job EXCEPT !["udp"] =
               [Answer(Job(p, c), drc.ent[i].reply.st, drc.ent[i].reply.fh) EXCEPT !.cached = TRUE]]
          /\ fs' = fs
    BY <1>3, Zenon DEF ServeUDP
  <2> DEFINE h == [Answer(Job(p, c), drc.ent[i].reply.st, drc.ent[i].reply.fh) EXCEPT !.cached = TRUE]
  <2>2. GoodJob("udp", h, fs')
    BY <1>1, CachedGood
  <2>3. job' = [job EXCEPT !["udp"] = h]
    BY <2>1, Zenon
  <2> HIDE DEF h
  <2>4. JobInv'
    BY <1>1, <2>1, <2>2, <2>3, OneJob, Zenon DEF ShareInv
  <2> QED
    BY <1>2, <2>1, <2>4, Zenon DEF ShareInv, FsInv
<1>4. CASE lookup(p, c) = {}
  <2>1. Begin("udp", p, c)
    BY <1>4, Zenon DEF ServeUDP
  <2>2. DOMAIN job = Workers /\ IsFs(fs)
    BY Zenon DEF ShareInv, JobInv, FsInv
  <2>3. Remembers(fs, fs') /\ job' = [job EXCEPT !["udp"] = job'["udp"]] /\ GoodJob("udp", job'["udp"], fs')
    BY <1>1, <2>1, <2>2, Begins, Zenon
  <2>4. FsInv' /\ fs'.at = fs.at
    BY <1>2, <2>3, FsKept, Zenon DEF ShareInv
  <2>5. JobInv'
    BY <1>1, <2>3, <2>4, OneJob, Zenon DEF ShareInv
  <2> QED
    BY <1>2, <2>4, <2>5, Zenon DEF ShareInv
<1> QED
  BY <1>3, <1>4, Zenon

LEMMA ShareHangup ==
  ASSUME ShareInv, NEW t \in Tcp, Hangup(t)
  PROVE  ShareInv'
<1>1. t \in Workers /\ DOMAIN job = Workers
  BY SideFacts, Zenon DEF ShareInv, JobInv
<1>2. NetInv' /\ fs' = fs /\ hostDone' = hostDone
  BY SideFacts, Zenon DEF Hangup, ShareInv, NetInv
<1> DEFINE b == job[t] # Idle
           x == [job[t] EXCEPT !.lost = b]
<1>3. job' = [job EXCEPT ![t] = x]
  BY Zenon DEF Hangup
<1>4. GoodJob(t, job[t], fs)
  BY <1>1, Zenon DEF ShareInv, JobInv
<1> HIDE DEF b
<1>5. GoodJob(t, x, fs')
  BY <1>2, <1>4, GoodLost, Zenon
<1> HIDE DEF x
<1>6. JobInv'
  BY <1>1, <1>2, <1>3, <1>5, OneJob, Zenon DEF ShareInv
<1> QED
  BY <1>2, <1>6, Zenon DEF ShareInv, FsInv

LEMMA ShareConn ==
  ASSUME ShareInv, NEW t \in Tcp, readRecord(t) \/ serveConn(t) \/ Disconnect(t)
  PROVE  ShareInv'
<1>1. CASE Hangup(t)
  BY <1>1, ShareHangup, Zenon
<1>2. CASE readRecord(t) /\ ~Hangup(t)
  BY <1>2, Zenon DEF readRecord, ShareInv, NetInv, FsInv, JobInv
<1>3. CASE serveConn(t) /\ ~Hangup(t)
  <2>1. /\ pend[t] # NoCall /\ Begin(t, t, pend[t])
        /\ UNCHANGED <<plan, hostDone, writable, drc, pend, stray, restarts, seen>>
    BY <1>3, Zenon DEF serveConn
  <2>2. t \in Workers /\ t \in (IF t = "udp" THEN Udp ELSE {t}) /\ pend[t] \in CallType
    BY <2>1, SideFacts, Zenon DEF ShareInv, NetInv
  <2>3. DOMAIN job = Workers /\ IsFs(fs)
    BY Zenon DEF ShareInv, JobInv, FsInv
  <2>4. Remembers(fs, fs') /\ job' = [job EXCEPT ![t] = job'[t]] /\ GoodJob(t, job'[t], fs')
    <3> DEFINE c == pend[t]
    <3>1. Begin(t, t, c) /\ c \in CallType
      BY <2>1, <2>2, Zenon
    <3> HIDE DEF c
    <3> QED
      BY <2>2, <2>3, <3>1, Begins, Zenon
  <2>5. FsInv' /\ fs'.at = fs.at
    BY <2>1, <2>4, FsKept, Zenon DEF ShareInv
  <2>6. JobInv'
    BY <2>2, <2>4, <2>5, OneJob, Zenon DEF ShareInv
  <2>7. NetInv'
    BY <2>1, Zenon DEF ShareInv, NetInv
  <2> QED
    BY <2>5, <2>6, <2>7, Zenon DEF ShareInv
<1> QED
  BY <1>1, <1>2, <1>3, Zenon DEF Disconnect

\* The other goroutines learn that their files were moved.
LEMMA OthersMoved ==
  ASSUME JobInv, NEW g, NEW v \in Workers, NEW i, i = [job[v] EXCEPT !.moved = @ \/ MovedBy(g, v)]
  PROVE  /\ GoodJob(v, i, g) /\ i.pc = job[v].pc /\ i.peer = job[v].peer /\ i.call = job[v].call
         /\ (i.cached <=> job[v].cached) /\ (i.changed <=> job[v].changed) /\ i.res = job[v].res
<1> DEFINE j == job[v]
<1>1. GoodJob(v, j, fs)
  BY Zenon DEF JobInv
<1>2. i = [j EXCEPT !.moved = @ \/ (j.pc = "work" /\ g.at[j.node.path] # fs.at[j.node.path])]
  BY Zenon DEF MovedBy
<1> HIDE DEF j
<1>3. /\ IsJob(i) /\ i.pc = j.pc /\ i.peer = j.peer /\ i.call = j.call /\ (i.cached <=> j.cached)
      /\ i.node = j.node /\ i.to = j.to /\ i.res = j.res /\ (i.changed <=> j.changed) /\ i.hit = j.hit
  BY <1>1, <1>2, Zenon DEF GoodJob, IsJob, JobFields
<1>4. i.moved <=> (j.moved \/ (j.pc = "work" /\ g.at[j.node.path] # fs.at[j.node.path]))
  BY <1>1, <1>2, Zenon DEF GoodJob, IsJob, JobFields
<1>5. j.pc = "work" => Ready(i, g)
  BY <1>1, <1>3, <1>4, Zenon DEF GoodJob, Ready
<1>6. j.pc = "reply" /\ j.changed => Landed(i)
  BY <1>1, <1>3, <1>4, Zenon DEF GoodJob, Landed
<1>7. GoodJob(v, i, g)
  BY <1>1, <1>3, <1>5, <1>6, Zenon DEF GoodJob
<1> QED
  BY <1>3, <1>7, Zenon DEF j

\* What asking the file system does to the goroutines.
LEMMA Works ==
  ASSUME ShareInv, NEW w \in Workers, Work(w)
  PROVE  /\ ShareInv'
         /\ \A v \in Workers :
              /\ job'[v].pc = (IF v = w THEN "reply" ELSE job[v].pc)
              /\ job'[v].peer = job[v].peer /\ job'[v].call = job[v].call
              /\ (job'[v].cached <=> job[v].cached)
              /\ v # w => (job'[v].changed <=> job[v].changed) /\ job'[v].res = job[v].res
<1> DEFINE j == job[w]
           r == Handler(j.peer, j.call, j.node, j.to, fs)
           b == ~([r.fs EXCEPT !.cache = fs.cache] = fs)
           k == fs.at[j.node.path]
           i == [Answer(j, r.st, r.file) EXCEPT !.changed = b, !.hit = k]
<1>1. /\ fs' = r.fs
      /\ job' = [v \in Workers |-> IF v = w THEN i ELSE [job[v] EXCEPT !.moved = @ \/ MovedBy(r.fs, v)]]
      /\ UNCHANGED <<plan, hostDone, writable, drc, pend, stray, record, restarts, seen>>
  BY Zenon DEF Work
<1>2. IsFs(fs) /\ GoodJob(w, j, fs) /\ j.pc = "work" /\ JobInv
  BY Zenon DEF ShareInv, JobInv, FsInv, Work
<1>3. /\ Does(fs, r) /\ GoodJob(w, i, r.fs)
      /\ i.pc = "reply" /\ i.peer = j.peer /\ i.call = j.call /\ (i.cached <=> j.cached)
  <2> DEFINE h == Answer(j, r.st, r.file)
  <2> HIDE DEF j
  <2>1. IsJob(j)
    BY <1>2, Zenon DEF GoodJob
  <2>2. /\ IsJob(h) /\ h.pc = "reply" /\ h.peer = j.peer /\ h.call = j.call /\ h.res = [st |-> r.st, file |-> r.file]
        /\ (h.changed <=> j.changed) /\ (h.moved <=> j.moved) /\ (h.cached <=> j.cached)
    BY <2>1, AnswerIs, SMTT(60)
  <2>3. i = [h EXCEPT !.changed = b, !.hit = k]
    BY Zenon
  <2> HIDE DEF h, i
  <2>4. /\ IsJob(i) /\ i.pc = "reply" /\ i.peer = j.peer /\ i.call = j.call /\ i.res = [st |-> r.st, file |-> r.file]
        /\ (i.moved <=> j.moved) /\ (i.cached <=> j.cached) /\ i.hit = fs.at[j.node.path]
    BY <2>2, <2>3, Zenon DEF IsJob, JobFields
  <2>5. i.changed => ~([r.fs EXCEPT !.cache = fs.cache] = fs)
    BY <2>2, <2>3, Zenon DEF IsJob, JobFields
  <2>6. r = Handler(j.peer, j.call, j.node, j.to, fs)
    BY Zenon
  <2> HIDE DEF r
  <2>7. Does(fs, r) /\ GoodJob(w, i, r.fs)
    BY <1>2, <2>4, <2>5, <2>6, GoodWork, Zenon
  <2> QED
    BY <2>4, <2>7, Zenon
<1> HIDE DEF r, i
<1>4. ASSUME NEW v \in Workers
      PROVE  /\ GoodJob(v, job'[v], fs')
             /\ job'[v].pc = (IF v = w THEN "reply" ELSE job[v].pc)
             /\ job'[v].peer = job[v].peer /\ job'[v].call = job[v].call
             /\ (job'[v].cached <=> job[v].cached)
             /\ v # w => (job'[v].changed <=> job[v].changed) /\ job'[v].res = job[v].res
  <2>1. CASE v = w
    BY <1>1, <1>3, <2>1, Zenon
  <2>2. CASE v # w
    <3>1. job'[v] = [job[v] EXCEPT !.moved = @ \/ MovedBy(r.fs, v)]
      BY <1>1, <2>2, Zenon
    <3> QED
      BY <1>1, <1>2, <2>2, <3>1, OthersMoved
  <2> QED
    BY <2>1, <2>2, Zenon
<1>5. FsInv'
  BY <1>1, <1>3, Zenon DEF ShareInv, FsInv, Does
<1>6. JobInv'
  BY <1>1, <1>4, Zenon DEF JobInv
<1>7. NetInv'
  BY <1>1, Zenon DEF ShareInv, NetInv
<1> QED
  BY <1>4, <1>5, <1>6, <1>7, Zenon DEF ShareInv

LEMMA ShareReply ==
  ASSUME ShareInv, NEW w \in Workers, Reply(w)
  PROVE  ShareInv'
<1>1. job' = [job EXCEPT ![w] = Idle] /\ fs' = fs /\ plan' = plan /\ hostDone' = hostDone
  BY Zenon DEF Reply
<1>2. JobInv'
  BY <1>1, IdleGood, OneJob, Zenon DEF ShareInv
<1>3. job[w].call \in CallType
  BY Zenon DEF ShareInv, JobInv, GoodJob, Reply
<1>4. /\ pend' = pend \/ pend' = [pend EXCEPT ![job[w].peer] = NoCall]
      /\ stray' = stray \/ stray' = [stray EXCEPT ![job[w].peer] = job[w].call]
  BY Zenon DEF Reply
<1> DEFINE p == job[w].peer
           c == job[w].call
<1>5. pend' \in [Peers -> CallType \cup {NoCall}] /\ stray' \in [Peers -> CallType \cup {NoCall}]
  <2>1. /\ pend \in [Peers -> CallType \cup {NoCall}] /\ stray \in [Peers -> CallType \cup {NoCall}]
        /\ c \in CallType
        /\ pend' = pend \/ pend' = [pend EXCEPT ![p] = NoCall]
        /\ stray' = stray \/ stray' = [stray EXCEPT ![p] = c]
    BY <1>3, <1>4, Zenon DEF ShareInv, NetInv
  <2> HIDE DEF p, c
  <2> QED
    BY <2>1, Zenon
<1> QED
  BY <1>1, <1>2, <1>5, Zenon DEF ShareInv, NetInv, FsInv

LEMMA ShareRestart ==
  ASSUME ShareInv, Restart
  PROVE  ShareInv'
<1> DEFINE c == [k \in Files |-> None]
<1>1. c \in [Files -> Paths \cup {None}] /\ \A k \in Files : c[k] = None
  BY Zenon
<1>2. fs' = [fs EXCEPT !.cache = c] /\ IsFs(fs)
  BY Zenon DEF Restart, ShareInv, FsInv
<1> HIDE DEF c
<1>3. IsFs(fs') /\ Exact(fs')
  BY <1>1, <1>2, Recalls DEF Exact
<1>4. FsInv'
  BY <1>3, Zenon DEF Restart, ShareInv, FsInv
<1>5. JobInv'
  <2>1. job' = [w \in Workers |-> Idle]
    BY Zenon DEF Restart
  <2>2. \A w \in Workers : GoodJob(w, job'[w], fs')
    BY <2>1, IdleGood, Zenon
  <2> QED
    BY <2>1, <2>2, Zenon DEF JobInv
<1>6. NetInv'
  BY Zenon DEF Restart, ShareInv, NetInv
<1> QED
  BY <1>4, <1>5, <1>6, Zenon DEF ShareInv

\* A change on the host leaves a file system, and the goroutines as they were.
LEMMA HostChanges ==
  ASSUME ShareInv, HostChange
  PROVE  /\ ShareInv'
         /\ \A v \in Workers :
              /\ job'[v].pc = job[v].pc /\ job'[v].peer = job[v].peer /\ job'[v].call = job[v].call
              /\ (job'[v].cached <=> job[v].cached) /\ (job'[v].changed <=> job[v].changed)
              /\ job'[v].res = job[v].res
<1>1. PICK p \in Paths, q \in Paths :
        \/ fs' = HostRemove(fs, p)
        \/ p # q /\ fs' = HostRename(fs, p, q)
  BY Zenon DEF HostChange
<1>2. IsFs(fs)
  BY Zenon DEF ShareInv, FsInv
<1>3. IsFs(fs')
  <2>1. CASE fs' = HostRemove(fs, p)
    <3> DEFINE a == [fs.at EXCEPT ![p] = 0]
    <3>1. a \in [Paths -> 0..fs.n]
      BY <1>2, NfsAssumption DEF IsFs
    <3>2. fs' = [fs EXCEPT !.at = a]
      BY <2>1, Zenon DEF HostRemove
    <3> HIDE DEF a
    <3>3. fs' = [at |-> a, kind |-> fs.kind, ctime |-> fs.ctime, verf |-> fs.verf, cache |-> fs.cache, n |-> fs.n]
      BY <1>2, <3>2, Zenon DEF IsFs
    <3> QED
      BY <1>2, <3>1, <3>3, Zenon DEF IsFs
  <2>2. CASE p # q /\ fs' = HostRename(fs, p, q)
    BY <1>2, <2>2, HostRenames, Zenon
  <2> QED
    BY <1>1, <2>1, <2>2, Zenon
<1>4. FsInv'
  <2>1. hostDone' = hostDone + 1 /\ hostDone \in Nat
    BY Zenon DEF HostChange, ShareInv, FsInv
  <2>2. hostDone' \in Nat /\ hostDone' # 0
    BY <2>1
  <2> QED
    BY <1>3, <2>2, Zenon DEF FsInv
<1>5. ASSUME NEW v \in Workers
      PROVE  /\ GoodJob(v, job'[v], fs')
             /\ job'[v].pc = job[v].pc /\ job'[v].peer = job[v].peer /\ job'[v].call = job[v].call
             /\ (job'[v].cached <=> job[v].cached) /\ (job'[v].changed <=> job[v].changed)
             /\ job'[v].res = job[v].res
  <2>1. job'[v] = [job[v] EXCEPT !.moved = @ \/ MovedBy(fs', v)] /\ JobInv
    BY Zenon DEF HostChange, ShareInv
  <2> QED
    BY <2>1, OthersMoved
<1>6. JobInv'
  BY <1>5, Zenon DEF JobInv, HostChange
<1>7. NetInv'
  BY Zenon DEF HostChange, ShareInv, NetInv
<1> QED
  BY <1>4, <1>5, <1>6, <1>7, Zenon DEF ShareInv

-----------------------------------------------------------------------------
(* The duplicate request cache.                                            *)

LEMMA ListedIs ==
  ASSUME NEW s, NEW S, s \in Seq(S)
  PROVE  Listed(s) /\ DOMAIN s = 1..Len(s) /\ Len(s) \in Nat
<1>1. DOMAIN s = 1..Len(s) /\ Len(s) \in Nat
  OBVIOUS
<1>2. s \in [1..Len(s) -> {s[x] : x \in DOMAIN s}]
  <2>1. s = [x \in 1..Len(s) |-> s[x]]
    BY <1>1
  <2> QED
    BY <1>1, <2>1, Zenon
<1> QED
  BY <1>1, <1>2 DEF Listed

\* What is written into the entries of a list leaves a list.
LEMMA ListedMap ==
  ASSUME NEW s, Listed(s), NEW t, t = [x \in DOMAIN s |-> t[x]]
  PROVE  Listed(t) /\ DOMAIN t = DOMAIN s
<1>1. DOMAIN s = 1..Len(s) /\ Len(s) \in Nat
  BY ListedIs, Zenon DEF Listed
<1>2. DOMAIN t = DOMAIN s
  BY Zenon
<1>3. t \in [1..Len(s) -> {t[x] : x \in DOMAIN t}]
  BY <1>1, <1>2, Zenon
<1>4. t \in Seq({t[x] : x \in DOMAIN t})
  BY <1>1, <1>3
<1> QED
  BY <1>2, <1>4, Zenon DEF Listed

\* No call comes in that was not there.
LEMMA CallsKept ==
  ASSUME CallsInv, \A p \in Udp : Calls(p)' \subseteq Calls(p) /\ DOMAIN seen'[p] = DOMAIN seen[p]
  PROVE  CallsInv'
<1> SUFFICES ASSUME NEW p \in Udp, NEW c \in Calls(p)', NEW d \in Calls(p)'
             PROVE  c \in CallType /\ c.xid \in DOMAIN seen'[p] /\ (c.xid = d.xid => c = d)
  BY Zenon DEF CallsInv
<1>1. c \in Calls(p) /\ d \in Calls(p) /\ DOMAIN seen'[p] = DOMAIN seen[p]
  BY Zenon
<1> QED
  BY <1>1, Zenon DEF CallsInv

\* A step that leaves the cache, and the datagram being served, alone.
LEMMA RingSame ==
  ASSUME RingInv, drc' = drc, seen' = seen,
         \A p \in Udp : {pend'[p], stray'[p]} \subseteq {pend[p], stray[p], NoCall},
         job'["udp"].pc = "idle" <=> job["udp"].pc = "idle",
         job'["udp"].peer = job["udp"].peer, job'["udp"].call = job["udp"].call,
         job'["udp"].cached <=> job["udp"].cached,
         job["udp"].pc = "reply" =>
           job'["udp"].pc = "reply" /\ (job'["udp"].changed <=> job["udp"].changed) /\ job'["udp"].res = job["udp"].res
  PROVE  RingInv'
<1>1. SeenInv' /\ DrcInv'
  BY Zenon DEF RingInv, SeenInv, DrcInv
<1>2. CallsInv'
  <2>1. ASSUME NEW p \in Udp PROVE Calls(p)' \subseteq Calls(p)
    <3>1. ASSUME NEW c \in Calls(p)' PROVE c \in Calls(p)
      <4>1. \/ c \in {pend'[p], stray'[p]} \ {NoCall}
            \/ c \in {drc.ent[i].call : i \in {k \in Slots : drc.ent[k].addr = p}}
            \/ job["udp"].pc # "idle" /\ job["udp"].peer = p /\ c = job["udp"].call
        BY <3>1, Zenon DEF Calls
      <4>2. c \in {pend'[p], stray'[p]} \ {NoCall} => c \in {pend[p], stray[p]} \ {NoCall}
        BY Zenon
      <4> QED
        BY <4>1, <4>2, Zenon DEF Calls
    <3> QED
      BY <3>1, Zenon
  <2> QED
    BY <2>1, CallsKept, Zenon DEF RingInv
<1>3. OnceInv'
  <2>1. \A p, x : Runs(p, x)' <=> Runs(p, x)
    BY Zenon DEF Runs
  <2> QED
    BY <2>1, Zenon DEF RingInv, OnceInv
<1>4. AgainInv'
  BY Zenon DEF RingInv, AgainInv
<1> QED
  BY <1>1, <1>2, <1>3, <1>4, Zenon DEF RingInv

\* An empty cache.
LEMMA EmptyIs ==
  /\ EmptyDrc = [ent |-> [i \in Slots |-> EmptyDrc.ent[i]], next |-> EmptyDrc.next] /\ EmptyDrc.next \in Slots
  /\ \A i \in Slots : EmptyDrc.ent[i].addr = "none"
<1>1. 0 \in Slots
  BY NfsAssumption DEF Slots
<1>2. \A i \in Slots : EmptyDrc.ent[i] = NoEntry
  BY Zenon DEF EmptyDrc, Slots
<1>3. EmptyDrc = [ent |-> [i \in Slots |-> EmptyDrc.ent[i]], next |-> EmptyDrc.next] /\ EmptyDrc.next = 0
  BY Zenon DEF EmptyDrc, Slots
<1> QED
  BY <1>1, <1>2, <1>3 DEF NoEntry

LEMMA RingInit == Init => RingInv
<1> SUFFICES ASSUME Init PROVE RingInv
  BY Zenon
<1>1. /\ drc = [ent |-> [i \in Slots |-> drc.ent[i]], next |-> drc.next] /\ drc.next \in Slots
      /\ \A i \in Slots : drc.ent[i].addr = "none"
      /\ job["udp"].pc = "idle"
  <2>1. drc = EmptyDrc /\ job["udp"] = Idle
    BY SideFacts, Zenon DEF Init
  <2> QED
    BY <2>1, EmptyIs DEF Idle
<1>2. seen = [p \in Peers |-> seen[p]] /\ \A p \in Peers : seen[p] = <<>>
  BY Zenon DEF Init
<1>3. ASSUME NEW p \in Peers PROVE Listed(seen[p]) /\ DOMAIN seen[p] = {}
  <2>1. seen[p] = <<>>
    BY <1>2, Zenon
  <2>2. <<>> \in Seq(Nat) /\ Len(<<>>) = 0
    OBVIOUS
  <2>3. Listed(<<>>) /\ DOMAIN <<>> = 1..Len(<<>>)
    BY <2>2, ListedIs, Zenon
  <2> QED
    BY <2>1, <2>2, <2>3
<1>4. SeenInv
  BY <1>2, <1>3, Zenon DEF SeenInv
<1>5. CallsInv
  <2>1. ASSUME NEW p \in Udp PROVE Calls(p) = {}
    <3>1. pend[p] = NoCall /\ stray[p] = NoCall
      BY SideFacts, Zenon DEF Init
    <3>2. "none" # p
      BY NfsAssumption, Zenon
    <3> QED
      BY <1>1, <3>1, <3>2, Zenon DEF Calls
  <2> QED
    BY <2>1, Zenon DEF CallsInv
<1>6. DrcInv
  BY <1>1, Zenon DEF DrcInv
<1>7. OnceInv
  BY <1>3, SideFacts, Zenon DEF OnceInv
<1>8. AgainInv
  BY <1>1, Zenon DEF AgainInv
<1> QED
  BY <1>4, <1>5, <1>6, <1>7, <1>8, Zenon DEF RingInv

LEMMA RingRestart ==
  ASSUME RingInv, ShareInv, Restart
  PROVE  RingInv'
<1>1. /\ drc' = [ent |-> [i \in Slots |-> drc'.ent[i]], next |-> drc'.next] /\ drc'.next \in Slots
      /\ \A i \in Slots : drc'.ent[i].addr = "none"
      /\ job'["udp"].pc = "idle"
  <2>1. drc' = EmptyDrc /\ job'["udp"] = Idle
    BY SideFacts, Zenon DEF Restart
  <2> QED
    BY <2>1, EmptyIs DEF Idle
<1>2. seen' = [p \in Peers |-> [x \in DOMAIN seen[p] |-> [seen[p][x] EXCEPT !.age = DrcSize]]]
  BY Zenon DEF Restart
<1>3. ASSUME NEW p \in Peers PROVE Listed(seen'[p]) /\ DOMAIN seen'[p] = DOMAIN seen[p]
  <2>1. seen'[p] = [x \in DOMAIN seen[p] |-> seen'[p][x]]
    BY <1>2, Zenon
  <2> QED
    BY <2>1, ListedMap, Zenon DEF RingInv, SeenInv
<1>4. ASSUME NEW p \in Peers, NEW x \in DOMAIN seen[p]
      PROVE  /\ IsSeen(seen'[p][x]) /\ seen'[p][x].age = DrcSize /\ seen'[p][x].runs = seen[p][x].runs
             /\ seen'[p][x].answers = seen[p][x].answers
             /\ (seen'[p][x].excused <=> seen[p][x].excused) /\ (seen'[p][x].early <=> seen[p][x].early)
  <2> DEFINE e == seen[p][x]
  <2>1. IsSeen(e) /\ seen'[p][x] = [e EXCEPT !.age = DrcSize]
    BY <1>2, Zenon DEF RingInv, SeenInv
  <2> HIDE DEF e
  <2>2. /\ IsSeen(seen'[p][x]) /\ seen'[p][x].age = DrcSize /\ seen'[p][x].runs = e.runs
        /\ seen'[p][x].answers = e.answers
        /\ (seen'[p][x].excused <=> e.excused) /\ (seen'[p][x].early <=> e.early)
    BY <2>1, NfsAssumption DEF IsSeen
  <2> QED
    BY <2>2, Zenon DEF e
<1>5. SeenInv'
  BY <1>2, <1>3, <1>4, Zenon DEF SeenInv
<1>6. CallsInv'
  <2>1. ASSUME NEW p \in Udp PROVE Calls(p)' \subseteq Calls(p)
    <3>1. pend'[p] = pend[p] /\ stray'[p] = stray[p] /\ "none" # p
      BY SideFacts, NfsAssumption, Zenon DEF Restart
    <3> QED
      BY <1>1, <3>1, Zenon DEF Calls
  <2> QED
    BY <1>3, <2>1, CallsKept, SideFacts, Zenon DEF RingInv
<1>7. DrcInv'
  BY <1>1, Zenon DEF DrcInv
<1>8. OnceInv'
  <2>1. ASSUME NEW p, NEW x PROVE ~Runs(p, x)'
    BY <1>1, Zenon DEF Runs
  <2>2. ~(DrcSize < DrcSize)
    BY NfsAssumption
  <2>3. ASSUME NEW p \in Udp, NEW x \in DOMAIN seen'[p]
        PROVE  OneAnswer(seen'[p][x]) /\ Held(drc', p, x, seen'[p][x])
    <3>1. p \in Peers /\ x \in DOMAIN seen[p] /\ OneAnswer(seen[p][x])
      BY <1>3, <2>3, SideFacts, Zenon DEF RingInv, OnceInv
    <3>2. OneAnswer(seen'[p][x])
      BY <1>4, <3>1, Zenon DEF OneAnswer
    <3>3. Held(drc', p, x, seen'[p][x])
      BY <1>4, <2>2, <3>1, Zenon DEF Held
    <3> QED
      BY <3>2, <3>3, Zenon
  <2> QED
    BY <2>1, <2>3, Zenon DEF OnceInv
<1>9. AgainInv'
  BY <1>1, Zenon DEF AgainInv
<1> QED
  BY <1>5, <1>6, <1>7, <1>8, <1>9, Zenon DEF RingInv

\* A call that comes in has a number of its own.
LEMMA RingCall ==
  ASSUME RingInv, ShareInv, NEW p \in Peers, Call(p)
  PROVE  RingInv'
<1> DEFINE n == Len(seen[p])
           c == pend'[p]
           t == Append(seen[p], Fresh)
<1>1. Listed(seen[p]) /\ seen = [q \in Peers |-> seen[q]]
  BY Zenon DEF RingInv, SeenInv
<1>2. n \in Nat /\ DOMAIN seen[p] = 1..n
  BY <1>1, ListedIs, Zenon DEF Listed
<1>3. pend' = [pend EXCEPT ![p] = c] /\ c \in CallType /\ c.xid = n + 1
  BY <1>1, NewCall, Zenon DEF Listed, ShareInv
<1>4. seen' = [seen EXCEPT ![p] = t] /\ drc' = drc /\ job' = job /\ stray' = stray
  BY Zenon DEF Call
<1>5. /\ Listed(t) /\ DOMAIN t = 1..(n + 1) /\ t[n + 1] = Fresh /\ \A x \in 1..n : t[x] = seen[p][x]
  <2> DEFINE S == {seen[p][x] : x \in DOMAIN seen[p]} \cup {Fresh}
  <2>1. seen[p] \in Seq(S)
    BY <1>1 DEF Listed
  <2>2. Fresh \in S
    BY Zenon
  <2> HIDE DEF S
  <2>3. t \in Seq(S) /\ Len(t) = n + 1 /\ t[n + 1] = Fresh /\ \A x \in 1..n : t[x] = seen[p][x]
    BY <2>1, <2>2
  <2> QED
    BY <2>3, ListedIs, Zenon
<1> HIDE DEF n, c, t
<1>6. /\ seen'[p] = t /\ seen' = [q \in Peers |-> seen'[q]]
      /\ \A q \in Peers : q # p => seen'[q] = seen[q]
  BY <1>1, <1>4, Zenon
<1>7. \A q \in Peers : \A x \in DOMAIN seen[q] : x \in DOMAIN seen'[q] /\ seen'[q][x] = seen[q][x]
  BY <1>2, <1>5, <1>6
<1>8. IsSeen(Fresh) /\ Fresh.runs = 0 /\ Fresh.answers = {} /\ ~Fresh.early
  BY NfsAssumption DEF IsSeen, Fresh
<1>9. SeenInv'
  <2>1. ASSUME NEW q \in Peers PROVE Listed(seen'[q]) /\ \A x \in DOMAIN seen'[q] : IsSeen(seen'[q][x])
    <3>1. CASE q # p
      BY <1>6, <3>1, Zenon DEF RingInv, SeenInv
    <3>2. CASE q = p
      <4>1. ASSUME NEW x \in 1..(n + 1) PROVE IsSeen(t[x])
        <5>1. x = n + 1 \/ x \in 1..n
          BY <1>2
        <5> QED
          BY <1>2, <1>5, <1>8, <5>1, Zenon DEF RingInv, SeenInv
      <4> QED
        BY <1>5, <1>6, <3>2, <4>1, Zenon
    <3> QED
      BY <3>1, <3>2, Zenon
  <2> QED
    BY <1>6, <2>1, Zenon DEF SeenInv
<1>10. ASSUME NEW q \in Udp, NEW d \in Calls(q)' PROVE d \in Calls(q) \/ (q = p /\ d = c)
  <2>1. q \in Peers
    BY SideFacts, Zenon
  <2>2. pend'[q] = pend[q] \/ (q = p /\ pend'[q] = c)
    BY <1>3, <2>1, Zenon DEF ShareInv, NetInv
  <2> QED
    BY <1>4, <1>10, <2>2, Zenon DEF Calls
<1>11. CallsInv'
  <2> SUFFICES ASSUME NEW q \in Udp, NEW d \in Calls(q)', NEW e \in Calls(q)'
               PROVE  d \in CallType /\ d.xid \in DOMAIN seen'[q] /\ (d.xid = e.xid => d = e)
    BY Zenon DEF CallsInv
  <2>1. q \in Peers
    BY SideFacts, Zenon
  <2>2. \A g \in Calls(q) : g \in CallType /\ g.xid \in DOMAIN seen[q] /\ g.xid \in DOMAIN seen'[q]
    BY <1>7, <2>1, Zenon DEF RingInv, CallsInv
  <2>3. q = p => c.xid \in DOMAIN seen'[q] /\ c.xid \notin DOMAIN seen[q]
    BY <1>2, <1>3, <1>5, <1>6
  <2>4. d \in Calls(q) /\ e \in Calls(q) => (d.xid = e.xid => d = e)
    BY Zenon DEF RingInv, CallsInv
  <2> QED
    BY <1>3, <1>10, <2>2, <2>3, <2>4, Zenon
<1>12. DrcInv'
  <2>1. ASSUME NEW i \in Slots, drc.ent[i].addr # "none"
        PROVE  /\ drc.ent[i].addr \in Udp
               /\ drc.ent[i].reply.st \in seen'[drc.ent[i].addr][drc.ent[i].call.xid].answers
    <3> DEFINE q == drc.ent[i].addr
    <3>1. q \in Udp /\ q \in Peers /\ drc.ent[i].reply.st \in seen[q][drc.ent[i].call.xid].answers
      BY <2>1, SideFacts, Zenon DEF RingInv, DrcInv
    <3>2. drc.ent[i].call \in Calls(q)
      BY Zenon DEF Calls
    <3>3. drc.ent[i].call.xid \in DOMAIN seen[q]
      BY <3>1, <3>2, Zenon DEF RingInv, CallsInv
    <3> QED
      BY <1>7, <3>1, <3>3, Zenon
  <2> QED
    BY <1>4, <2>1, Zenon DEF RingInv, DrcInv
<1>13. OnceInv'
  <2>1. \A q, x : Runs(q, x)' <=> Runs(q, x)
    BY <1>4, Zenon DEF Runs
  <2>2. p \in Udp => ~Runs(p, n + 1)
    <3> SUFFICES ASSUME p \in Udp, Runs(p, n + 1) PROVE FALSE
      BY Zenon
    <3>1. job["udp"].call \in Calls(p) /\ job["udp"].call.xid = n + 1
      BY Zenon DEF Runs, Calls
    <3>2. n + 1 \in DOMAIN seen[p]
      BY <3>1, Zenon DEF RingInv, CallsInv
    <3> QED
      BY <1>2, <3>2
  <2>3. ASSUME NEW q \in Udp, NEW x \in DOMAIN seen'[q]
        PROVE  x \in DOMAIN seen[q] \/ (q = p /\ x = n + 1)
    <3>1. q \in Peers
      BY SideFacts, Zenon
    <3> QED
      BY <1>2, <1>5, <1>6, <2>3, <3>1
  <2>4. ASSUME NEW q \in Udp, NEW x \in DOMAIN seen[q] PROVE seen'[q][x] = seen[q][x]
    BY <1>7, <2>4, SideFacts, Zenon
  <2>5. p \in Udp => seen'[p][n + 1] = Fresh /\ OneAnswer(Fresh) /\ Held(drc, p, n + 1, Fresh)
    <3>1. seen'[p][n + 1] = Fresh
      BY <1>5, <1>6, Zenon
    <3>2. OneAnswer(Fresh)
      BY <1>8, Zenon DEF OneAnswer
    <3>3. Fresh.runs # 1
      BY <1>8
    <3> QED
      BY <3>1, <3>2, <3>3, Zenon DEF Held
  <2>6. ASSUME NEW q \in Udp, NEW x \in DOMAIN seen'[q]
        PROVE  /\ OneAnswer(seen'[q][x])
               /\ Runs(q, x)' => Running(seen'[q][x])
               /\ ~Runs(q, x)' => Held(drc, q, x, seen'[q][x])
    <3>1. CASE x \in DOMAIN seen[q]
      BY <2>1, <2>4, <3>1, Zenon DEF RingInv, OnceInv
    <3>2. CASE q = p /\ x = n + 1
      BY <2>1, <2>2, <2>5, <3>2, Zenon
    <3> QED
      BY <2>3, <2>6, <3>1, <3>2, Zenon
  <2> QED
    BY <1>4, <2>6, Zenon DEF OnceInv
<1>14. AgainInv'
  <2> SUFFICES ASSUME job["udp"].pc # "idle", job["udp"].cached
               PROVE  /\ job["udp"].pc = "reply" /\ ~job["udp"].changed
                      /\ job["udp"].res.st \in seen'[job["udp"].peer][job["udp"].call.xid].answers
    BY <1>4, Zenon DEF AgainInv
  <2> DEFINE q == job["udp"].peer
             x == job["udp"].call.xid
  <2>1. q \in Udp /\ q \in Peers
    BY SideFacts, Zenon DEF ShareInv, JobInv, GoodJob
  <2>2. job["udp"].call \in Calls(q)
    BY Zenon DEF Calls
  <2>3. x \in DOMAIN seen[q]
    BY <2>1, <2>2, Zenon DEF RingInv, CallsInv
  <2>4. seen'[q][x] = seen[q][x]
    BY <1>7, <2>1, <2>3, Zenon
  <2> QED
    BY <2>4, Zenon DEF RingInv, AgainInv
<1> QED
  BY <1>9, <1>11, <1>12, <1>13, <1>14, Zenon DEF RingInv

\* A datagram is answered from the cache, or runs: not again while its reply is there.
LEMMA RingServeUDP ==
  ASSUME RingInv, ShareInv, NEW p \in Udp, NEW c \in {pend[p], stray[p]}, ServeUDP(p, c)
  PROVE  RingInv'
<1>1. /\ c \in CallType /\ "udp" \in Workers /\ p \in Peers /\ p # "none" /\ DOMAIN job = Workers /\ IsFs(fs)
      /\ p \in IF "udp" = "udp" THEN Udp ELSE {"udp"}
  BY SideFacts, NfsAssumption DEF ShareInv, NetInv, JobInv, FsInv, ServeUDP
<1>2. drc' = drc /\ pend' = pend /\ stray' = stray /\ job["udp"].pc = "idle" /\ c # NoCall
  BY DEF ServeUDP, Idle
<1> DEFINE x == c.xid
<1>3. c \in Calls(p) /\ x \in DOMAIN seen[p]
  <2>1. c \in Calls(p)
    BY <1>2, Zenon DEF Calls
  <2> QED
    BY <2>1, Zenon DEF RingInv, CallsInv
<1>4. ASSUME job'["udp"].peer = p, job'["udp"].call = c, NEW q \in Udp PROVE Calls(q)' \subseteq Calls(q)
  BY <1>2, <1>3, <1>4, Zenon DEF Calls
<1>5. \A q, y : ~Runs(q, y)
  BY <1>2, Zenon DEF Runs
<1>6. \A q \in Udp : \A y \in DOMAIN seen[q] : OneAnswer(seen[q][y]) /\ Held(drc, q, y, seen[q][y])
  BY <1>5, Zenon DEF RingInv, OnceInv
<1>7. CASE lookup(p, c) # {}
  <2>1. PICK i \in lookup(p, c) :
          /\ job' = [job EXCEPT !["udp"] =
               [Answer(Job(p, c), drc.ent[i].reply.st, drc.ent[i].reply.fh) EXCEPT !.cached = TRUE]]
          /\ seen' = seen
    BY <1>7, Zenon DEF ServeUDP
  <2> DEFINE st == drc.ent[i].reply.st
             k == drc.ent[i].reply.fh
             h == [Answer(Job(p, c), st, k) EXCEPT !.cached = TRUE]
  <2>3. job'["udp"] = h
    BY <1>1, <2>1, Zenon
  <2>a. h = [Answer(Job(p, c), st, k) EXCEPT !.cached = TRUE]
    BY Zenon
  <2> HIDE DEF h, st, k
  <2>2. h.pc = "reply" /\ h.peer = p /\ h.call = c /\ ~h.changed /\ h.cached /\ h.res.st = st
    BY <2>a, Zenon DEF Answer, Job, Idle
  <2>4. i \in Slots /\ drc.ent[i].addr = p /\ drc.ent[i].call = c
    BY <2>1 DEF lookup, RingInv, DrcInv
  <2>5. drc.ent[i].reply.st \in seen[p][x].answers
    BY <1>1, <2>4, Zenon DEF RingInv, DrcInv
  <2>6. SeenInv' /\ DrcInv'
    BY <1>2, <2>1, Zenon DEF RingInv, SeenInv, DrcInv
  <2>7. CallsInv'
    BY <1>4, <2>1, <2>2, <2>3, CallsKept, Zenon DEF RingInv
  <2>8. OnceInv'
    <3>1. \A q, y : ~Runs(q, y)'
      BY <2>2, <2>3, Zenon DEF Runs
    <3> QED
      BY <1>2, <1>6, <2>1, <3>1, Zenon DEF OnceInv
  <2>9. AgainInv'
    BY <2>1, <2>2, <2>3, <2>5, Zenon DEF AgainInv, st
  <2> QED
    BY <2>6, <2>7, <2>8, <2>9, Zenon DEF RingInv
<1>8. CASE lookup(p, c) = {}
  <2>1. Begin("udp", p, c) /\ (IF nonIdempotent(c) THEN Ran(p, c) ELSE UNCHANGED seen)
    BY <1>8, Zenon DEF ServeUDP
  <2>2. job'["udp"].pc # "idle" /\ job'["udp"].peer = p /\ job'["udp"].call = c /\ ~job'["udp"].cached
    BY <1>1, <2>1, Begins
  <2>3. AgainInv'
    BY <2>2, Zenon DEF AgainInv
  <2>4. CASE ~nonIdempotent(c)
    <3>1. seen' = seen /\ \A q, y : ~Runs(q, y)'
      BY <2>1, <2>2, <2>4, Zenon DEF Runs
    <3>2. SeenInv' /\ DrcInv'
      BY <1>2, <3>1, Zenon DEF RingInv, SeenInv, DrcInv
    <3>3. CallsInv'
      BY <1>4, <2>2, <3>1, CallsKept, Zenon DEF RingInv
    <3>4. OnceInv'
      BY <1>2, <1>6, <3>1, Zenon DEF OnceInv
    <3> QED
      BY <2>3, <3>2, <3>3, <3>4, Zenon DEF RingInv
  <2>5. CASE nonIdempotent(c)
    <3> DEFINE e == seen[p][x]
               d == seen'[p][x]
    <3>1. IsSeen(e)
      BY <1>1, <1>3, Zenon DEF RingInv, SeenInv
    <3>2. ~(e.runs = 1 /\ e.age < DrcSize)
      <4> SUFFICES ASSUME e.runs = 1, e.age < DrcSize PROVE FALSE
        BY Zenon
      <4>1. PICK i \in Slots : drc.ent[i].addr = p /\ drc.ent[i].call.xid = x
        BY <1>3, <1>6, Zenon DEF Held
      <4>2. drc.ent[i].call \in Calls(p)
        BY <4>1, Zenon DEF Calls
      <4>3. drc.ent[i].call = c
        BY <1>3, <4>1, <4>2, Zenon DEF RingInv, CallsInv
      <4>4. i \in DOMAIN drc.ent
        BY DEF RingInv, DrcInv
      <4> QED
        BY <1>8, <2>5, <4>1, <4>3, <4>4, Zenon DEF lookup
    <3> DEFINE r == [e EXCEPT !.runs = 1, !.excused = @ \/ (e.runs > 0 /\ e.age = DrcSize),
                              !.early = @ \/ (e.runs > 0 /\ e.age < DrcSize)]
    <3>3. seen' = [seen EXCEPT ![p][x] = r]
      BY <2>1, <2>5, Zenon DEF Ran
    <3> HIDE DEF e, r
    <3>4. /\ DOMAIN seen = Peers /\ seen' = [q \in Peers |-> seen'[q]]
          /\ DOMAIN seen'[p] = DOMAIN seen[p]
          /\ \A q \in Peers : q # p => seen'[q] = seen[q]
          /\ \A y \in DOMAIN seen[p] : y # x => seen'[p][y] = seen[p][y]
          /\ seen'[p] = [y \in DOMAIN seen[p] |-> seen'[p][y]]
      BY <1>1, <1>3, <3>3, Zenon DEF RingInv, SeenInv
    <3>5. d = r
      BY <1>1, <1>3, <3>3, <3>4, Zenon
    <3> HIDE DEF d
    <3>6. /\ IsSeen(d) /\ d.runs = 1 /\ d.answers = e.answers /\ d.age = e.age
          /\ (d.excused <=> (e.excused \/ (e.runs > 0 /\ e.age = DrcSize)))
          /\ (d.early <=> (e.early \/ (e.runs > 0 /\ e.age < DrcSize)))
      BY <3>1, <3>5, Zenon DEF IsSeen, r
    <3>7. ~(e.runs > 0 /\ e.age < DrcSize) /\ (e.runs = 0 \/ (e.age = DrcSize /\ e.runs > 0))
      <4>1. (e.runs = 0 \/ e.runs = 1) /\ e.age \in 0..DrcSize
        BY <3>1, Zenon DEF IsSeen
      <4>2. e.age < DrcSize \/ (e.age = DrcSize /\ ~(e.age < DrcSize))
        BY <4>1, NfsAssumption
      <4>3. ~(e.runs = 1 /\ e.age < DrcSize)
        BY <3>2, Zenon
      <4> QED
        BY <4>1, <4>2, <4>3
    <3>8. \A q \in Udp : DOMAIN seen'[q] = DOMAIN seen[q]
      BY <3>4, SideFacts, Zenon
    <3>9. SeenInv'
      <4>1. Listed(seen'[p])
        BY <1>1, <3>4, ListedMap, Zenon DEF RingInv, SeenInv
      <4> QED
        BY <3>4, <3>6, <4>1 DEF RingInv, SeenInv, d
    <3>10. CallsInv'
      BY <1>4, <2>2, <3>8, CallsKept, Zenon DEF RingInv
    <3>11. DrcInv'
      <4>1. ASSUME NEW i \in Slots, drc.ent[i].addr # "none"
            PROVE  /\ drc.ent[i].addr \in Udp
                   /\ drc.ent[i].reply.st \in seen'[drc.ent[i].addr][drc.ent[i].call.xid].answers
        <5> DEFINE q == drc.ent[i].addr
                   y == drc.ent[i].call.xid
        <5>1. q \in Udp /\ q \in Peers /\ drc.ent[i].reply.st \in seen[q][y].answers
          BY <4>1, SideFacts, Zenon DEF RingInv, DrcInv
        <5>2. drc.ent[i].call \in Calls(q)
          BY Zenon DEF Calls
        <5>3. y \in DOMAIN seen[q]
          BY <5>1, <5>2, Zenon DEF RingInv, CallsInv
        <5>4. seen'[q][y].answers = seen[q][y].answers
          <6>1. CASE q = p /\ y = x
            BY <3>6, <6>1, Zenon DEF d, e
          <6>2. CASE ~(q = p /\ y = x)
            BY <3>4, <5>1, <5>3, <6>2, Zenon
          <6> QED
            BY <6>1, <6>2, Zenon
        <5> QED
          BY <5>1, <5>4, Zenon
      <4> QED
        BY <1>2, <4>1, Zenon DEF RingInv, DrcInv
    <3>12. OnceInv'
      <4>1. \A q, y : Runs(q, y)' <=> q = p /\ y = x
        BY <2>2, <2>5, Zenon DEF Runs
      <4>2. ASSUME NEW q \in Udp, NEW y \in DOMAIN seen[q]
            PROVE  /\ OneAnswer(seen'[q][y])
                   /\ Runs(q, y)' => Running(seen'[q][y])
                   /\ ~Runs(q, y)' => Held(drc, q, y, seen'[q][y])
        <5>1. CASE q = p /\ y = x
          <6>1. OneAnswer(e)
            BY <1>3, <1>6, Zenon DEF e
          <6>2. ~d.early /\ (~d.excused => d.answers = {}) /\ d.runs = 1
            BY <3>6, <3>7, <6>1, Zenon DEF OneAnswer
          <6>3. d.runs # 0
            BY <6>2
          <6>4. OneAnswer(d) /\ Running(d)
            BY <6>2, <6>3, Zenon DEF OneAnswer, Running
          <6> QED
            BY <4>1, <5>1, <6>4, Zenon DEF d
        <5>2. CASE ~(q = p /\ y = x)
          <6>1. seen'[q][y] = seen[q][y] /\ ~Runs(q, y)'
            BY <3>4, <4>1, <4>2, <5>2, SideFacts, Zenon
          <6> QED
            BY <1>6, <4>2, <6>1, Zenon
        <5> QED
          BY <5>1, <5>2, Zenon
      <4> QED
        BY <1>2, <3>8, <4>2, Zenon DEF OnceInv
    <3> QED
      BY <2>3, <3>9, <3>10, <3>11, <3>12, Zenon DEF RingInv
  <2> QED
    BY <2>4, <2>5, Zenon
<1> QED
  BY <1>7, <1>8, Zenon

\* What a reply does to the calls.
LEMMA Replies ==
  ASSUME ShareInv, NEW w \in Workers, Reply(w)
  PROVE  /\ job' = [job EXCEPT ![w] = Idle]
         /\ job[w].peer \in IF w = "udp" THEN Udp ELSE {w}
         /\ \A q \in Peers : /\ pend'[q] = pend[q] \/ pend'[q] = NoCall
                             /\ stray'[q] = stray[q] \/ (w = "udp" /\ q = job[w].peer /\ stray'[q] = job[w].call)
<1>1. job' = [job EXCEPT ![w] = Idle]
  BY Zenon DEF Reply
<1>2. job[w].peer \in IF w = "udp" THEN Udp ELSE {w}
  BY Zenon DEF ShareInv, JobInv, GoodJob, Reply
<1>3. job[w].peer \in Udp => w = "udp"
  BY <1>2, SideFacts, Zenon DEF Workers
<1> DEFINE p == job[w].peer
           c == job[w].call
<1>4. /\ pend' = pend \/ pend' = [pend EXCEPT ![p] = NoCall]
      /\ stray' = stray \/ (p \in Udp /\ stray' = [stray EXCEPT ![p] = c])
  BY Zenon DEF Reply
<1>5. DOMAIN pend = Peers /\ DOMAIN stray = Peers
  BY Zenon DEF ShareInv, NetInv
<1> HIDE DEF p, c
<1>6. ASSUME NEW q \in Peers
      PROVE  /\ pend'[q] = pend[q] \/ pend'[q] = NoCall
             /\ stray'[q] = stray[q] \/ (p \in Udp /\ q = p /\ stray'[q] = c)
  BY <1>4, <1>5, Zenon
<1> QED
  BY <1>1, <1>2, <1>3, <1>6, Zenon DEF p, c

\* The slots after one more reply was kept.
LEMMA NextSlot ==
  ASSUME drc.next \in Slots, drc'.next = (drc.next + 1) % DrcSize
  PROVE  /\ drc'.next \in Slots
         /\ \A i \in Slots : i = drc.next => SlotAge(i)' = 0 /\ SlotAge(i) = DrcSize - 1
         /\ \A i \in Slots : i # drc.next => SlotAge(i)' = SlotAge(i) + 1
<1> DEFINE n == drc.next
           m == drc'.next
<1>1. DrcSize \in Nat /\ DrcSize > 0 /\ n \in Nat /\ n < DrcSize
  BY NfsAssumption DEF Slots
<1>2. m = (n + 1) % DrcSize
  BY Zenon
<1> HIDE DEF n, m
<1>3. m = IF n + 1 = DrcSize THEN 0 ELSE n + 1
  <2>1. CASE n + 1 = DrcSize
    <3>1. DrcSize % DrcSize = 0
      BY <1>1
    <3> QED
      BY <1>2, <2>1, <3>1, Zenon
  <2>2. CASE n + 1 # DrcSize
    <3>1. n + 1 \in 0..(DrcSize - 1)
      BY <1>1, <2>2
    <3>2. (n + 1) % DrcSize = n + 1
      BY <1>1, <3>1
    <3> QED
      BY <1>2, <2>2, <3>2, Zenon
  <2> QED
    BY <2>1, <2>2, Zenon
<1>4. m \in 0..(DrcSize - 1)
  BY <1>1, <1>3
<1>5. \A i : SlotAge(i) = IF i < n THEN n - 1 - i ELSE n - 1 - i + DrcSize
  BY Zenon DEF SlotAge, RingAge, n
<1>6. \A i : SlotAge(i)' = IF i < m THEN m - 1 - i ELSE m - 1 - i + DrcSize
  BY Zenon DEF SlotAge, RingAge, m
<1>7. ASSUME NEW i \in 0..(DrcSize - 1), i = n PROVE SlotAge(i)' = 0 /\ SlotAge(i) = DrcSize - 1
  BY <1>1, <1>3, <1>5, <1>6, <1>7
<1>8. ASSUME NEW i \in 0..(DrcSize - 1), i # n PROVE SlotAge(i)' = SlotAge(i) + 1
  BY <1>1, <1>3, <1>5, <1>6, <1>8
<1> QED
  BY <1>4, <1>7, <1>8, Zenon DEF n, m, Slots

\* A reply is kept: the oldest one gives way, and every other grows older.
LEMMA RingStore ==
  ASSUME RingInv, NEW p \in Udp, NEW c, NEW rep,
         job["udp"].pc # "idle", job["udp"].peer = p, job["udp"].call = c, ~job["udp"].cached, nonIdempotent(c),
         job'["udp"].pc = "idle", drc' = store(p, c, rep), Stored(p, c, rep.st),
         \A q \in Udp : Calls(q)' \subseteq Calls(q)
  PROVE  RingInv'
<1> DEFINE n == drc.next
           x == c.xid
           st == rep.st
<1>1. c \in Calls(p) /\ x \in DOMAIN seen[p] /\ c \in CallType /\ p \in Peers /\ p # "none"
  <2>1. c \in Calls(p)
    BY Zenon DEF Calls
  <2> QED
    BY <2>1, SideFacts, NfsAssumption DEF RingInv, CallsInv
<1>2. Runs(p, x) /\ \A q, y : Runs(q, y) => q = p /\ y = x
  BY Zenon DEF Runs
<1>3. \A q, y : ~Runs(q, y)'
  BY Zenon DEF Runs
<1>4. /\ drc = [ent |-> [i \in Slots |-> drc.ent[i]], next |-> n] /\ n \in Slots
  BY Zenon DEF RingInv, DrcInv
<1>5. /\ drc' = [ent |-> [drc.ent EXCEPT ![n] = [addr |-> p, call |-> c, reply |-> rep]], next |-> (n + 1) % DrcSize]
  BY Zenon DEF store
<1>6. /\ drc' = [ent |-> [i \in Slots |-> drc'.ent[i]], next |-> drc'.next] /\ drc'.next = (n + 1) % DrcSize
      /\ drc'.ent[n] = [addr |-> p, call |-> c, reply |-> rep]
      /\ \A i \in Slots : i # n => drc'.ent[i] = drc.ent[i]
  <2>1. drc.ent = [i \in Slots |-> drc.ent[i]]
    BY <1>4
  <2> HIDE DEF n
  <2> QED
    BY <1>4, <1>5, <2>1
<1>7. /\ drc'.next \in Slots
      /\ \A i \in Slots : i = n => SlotAge(i)' = 0 /\ SlotAge(i) = DrcSize - 1
      /\ \A i \in Slots : i # n => SlotAge(i)' = SlotAge(i) + 1
  BY <1>4, <1>6, NextSlot, Zenon
<1>8. seen' = [q \in Peers |-> [y \in DOMAIN seen[q] |->
        CASE q = p /\ y = x -> [seen[q][y] EXCEPT !.answers = @ \cup {st}, !.age = 0]
          [] OTHER -> [seen[q][y] EXCEPT !.age = IF @ < DrcSize THEN @ + 1 ELSE @]]]
  BY Zenon DEF Stored
<1> HIDE DEF n, x, st
<1>9. ASSUME NEW q \in Peers PROVE Listed(seen'[q]) /\ DOMAIN seen'[q] = DOMAIN seen[q]
  <2>1. seen'[q] = [y \in DOMAIN seen[q] |-> seen'[q][y]]
    BY <1>8, Zenon
  <2> QED
    BY <2>1, ListedMap, Zenon DEF RingInv, SeenInv
<1>10. /\ IsSeen(seen'[p][x]) /\ seen'[p][x].age = 0 /\ seen'[p][x].runs = seen[p][x].runs
       /\ seen'[p][x].answers = seen[p][x].answers \cup {st}
       /\ (seen'[p][x].excused <=> seen[p][x].excused) /\ (seen'[p][x].early <=> seen[p][x].early)
  <2> DEFINE e == seen[p][x]
             d == seen'[p][x]
  <2>1. IsSeen(e) /\ d = [e EXCEPT !.answers = @ \cup {st}, !.age = 0]
    BY <1>1, <1>8, Zenon DEF RingInv, SeenInv
  <2> HIDE DEF e, d
  <2>2. 0 \in 0..DrcSize
    BY NfsAssumption
  <2> DEFINE a == e.answers \cup {st}
  <2>3. d = [e EXCEPT !.answers = a, !.age = 0]
    BY <2>1, Zenon
  <2> HIDE DEF a
  <2>4. /\ IsSeen(d) /\ d.age = 0 /\ d.runs = e.runs /\ d.answers = a
        /\ (d.excused <=> e.excused) /\ (d.early <=> e.early)
    BY <2>1, <2>2, <2>3, Zenon DEF IsSeen
  <2> QED
    BY <2>4, Zenon DEF a, e, d
<1>11. ASSUME NEW q \in Peers, NEW y \in DOMAIN seen[q], ~(q = p /\ y = x)
       PROVE  /\ IsSeen(seen'[q][y]) /\ seen'[q][y].runs = seen[q][y].runs
              /\ seen'[q][y].age = (IF seen[q][y].age < DrcSize THEN seen[q][y].age + 1 ELSE seen[q][y].age)
              /\ seen'[q][y].answers = seen[q][y].answers
              /\ (seen'[q][y].excused <=> seen[q][y].excused) /\ (seen'[q][y].early <=> seen[q][y].early)
  <2> DEFINE e == seen[q][y]
             d == seen'[q][y]
  <2>1. IsSeen(e) /\ d = [e EXCEPT !.age = IF @ < DrcSize THEN @ + 1 ELSE @]
    BY <1>8, <1>11, Zenon DEF RingInv, SeenInv
  <2> HIDE DEF e, d
  <2>2. e.age \in 0..DrcSize /\ (IF e.age < DrcSize THEN e.age + 1 ELSE e.age) \in 0..DrcSize
    BY <2>1, NfsAssumption DEF IsSeen
  <2>3. /\ IsSeen(d) /\ d.age = (IF e.age < DrcSize THEN e.age + 1 ELSE e.age) /\ d.runs = e.runs
        /\ d.answers = e.answers /\ (d.excused <=> e.excused) /\ (d.early <=> e.early)
    BY <2>1, <2>2, Zenon DEF IsSeen
  <2> QED
    BY <2>3, Zenon DEF e, d
<1>12. SeenInv'
  <2>1. seen' = [q \in Peers |-> seen'[q]]
    BY <1>8, Zenon
  <2> QED
    BY <1>9, <1>10, <1>11, <2>1, Zenon DEF SeenInv
<1>13. CallsInv'
  BY <1>9, CallsKept, SideFacts, Zenon DEF RingInv
<1>14. DrcInv'
  <2>1. ASSUME NEW i \in Slots, drc'.ent[i].addr # "none"
        PROVE  /\ drc'.ent[i].addr \in Udp
               /\ drc'.ent[i].reply.st \in seen'[drc'.ent[i].addr][drc'.ent[i].call.xid].answers
    <3>1. CASE i = n
      <4>1. drc'.ent[i].addr = p /\ drc'.ent[i].call.xid = x /\ drc'.ent[i].reply.st = st
        BY <1>6, <3>1 DEF x, st
      <4> QED
        BY <1>10, <4>1, Zenon
    <3>2. CASE i # n
      <4> DEFINE q == drc.ent[i].addr
                 y == drc.ent[i].call.xid
      <4>1. drc'.ent[i] = drc.ent[i]
        BY <1>6, <3>2, Zenon
      <4>2. q \in Udp /\ q \in Peers /\ drc.ent[i].reply.st \in seen[q][y].answers
        BY <2>1, <4>1, SideFacts, Zenon DEF RingInv, DrcInv
      <4>3. drc.ent[i].call \in Calls(q)
        BY Zenon DEF Calls
      <4>4. y \in DOMAIN seen[q]
        <5>1. \A d \in Calls(q) : d.xid \in DOMAIN seen[q]
          BY <4>2, Zenon DEF RingInv, CallsInv
        <5> QED
          BY <4>3, <5>1, Zenon
      <4> HIDE DEF q, y
      <4>5. seen[q][y].answers \subseteq seen'[q][y].answers
        <5>1. CASE q = p /\ y = x
          BY <1>10, <5>1, Zenon
        <5>2. CASE ~(q = p /\ y = x)
          BY <1>11, <4>2, <4>4, <5>2, Zenon
        <5> QED
          BY <5>1, <5>2, Zenon
      <4> QED
        BY <4>1, <4>2, <4>5, Zenon DEF q, y
    <3> QED
      BY <3>1, <3>2, Zenon
  <2> QED
    BY <1>6, <1>7, <2>1, Zenon DEF DrcInv
<1>15. OnceInv'
  <2>1. OneAnswer(seen'[p][x]) /\ Held(drc', p, x, seen'[p][x])
    <3>1. OneAnswer(seen[p][x]) /\ Running(seen[p][x])
      BY <1>1, <1>2, Zenon DEF RingInv, OnceInv
    <3>2. ~seen'[p][x].excused => seen'[p][x].answers = {st}
      BY <1>10, <3>1, Zenon DEF Running
    <3>3. ~seen'[p][x].early /\ seen'[p][x].runs # 0
      <4>1. seen[p][x].runs # 0
        BY <3>1 DEF Running
      <4> QED
        BY <1>10, <3>1, <4>1, Zenon DEF OneAnswer
    <3>4. OneAnswer(seen'[p][x])
      BY <1>10, <3>2, <3>3, Zenon DEF OneAnswer
    <3>5. PICK i \in Slots : i = n
      BY <1>4, Zenon
    <3>6. drc'.ent[i] = [addr |-> p, call |-> c, reply |-> rep] /\ SlotAge(i)' = 0
      BY <1>6, <1>7, <3>5, Zenon
    <3>7. drc'.ent[i].addr = p /\ drc'.ent[i].call.xid = x
      BY <3>6 DEF x
    <3>8. Held(drc', p, x, seen'[p][x])
      BY <1>10, <3>6, <3>7, Zenon DEF Held, SlotAge
    <3> QED
      BY <3>4, <3>8, Zenon
  <2>2. ASSUME NEW q \in Udp, NEW y \in DOMAIN seen[q], ~(q = p /\ y = x)
        PROVE  OneAnswer(seen'[q][y]) /\ Held(drc', q, y, seen'[q][y])
    <3> DEFINE e == seen[q][y]
               d == seen'[q][y]
    <3>1. /\ d.runs = e.runs /\ d.age = (IF e.age < DrcSize THEN e.age + 1 ELSE e.age) /\ d.answers = e.answers
          /\ (d.excused <=> e.excused) /\ (d.early <=> e.early) /\ q \in Peers
      BY <1>11, <2>2, SideFacts, ZenonT(60)
    <3>2. OneAnswer(e) /\ Held(drc, q, y, e)
      BY <1>2, <2>2, Zenon DEF RingInv, OnceInv
    <3>3. e.age \in 0..DrcSize
      BY <3>1, Zenon DEF RingInv, SeenInv, IsSeen
    <3> HIDE DEF d, e
    <3>4. ASSUME d.runs = 1, d.age < DrcSize
          PROVE  \E i \in Slots : SlotAge(i)' = d.age /\ drc'.ent[i].addr = q /\ drc'.ent[i].call.xid = y
      <4>1. e.age < DrcSize /\ d.age = e.age + 1 /\ e.age # DrcSize - 1
        BY <3>1, <3>3, <3>4, NfsAssumption
      <4>2. PICK i \in Slots : SlotAge(i) = e.age /\ drc.ent[i].addr = q /\ drc.ent[i].call.xid = y
        BY <3>1, <3>2, <3>4, <4>1, Zenon DEF Held, SlotAge
      <4>3. i # n
        BY <1>7, <4>1, <4>2, Zenon
      <4>4. SlotAge(i)' = d.age /\ drc'.ent[i] = drc.ent[i]
        BY <1>6, <1>7, <4>1, <4>2, <4>3, Zenon
      <4> QED
        BY <4>2, <4>4, Zenon
    <3>5. OneAnswer(d)
      BY <3>1, <3>2, Zenon DEF OneAnswer
    <3>6. Held(drc', q, y, d)
      BY <3>4, Zenon DEF Held, SlotAge
    <3> QED
      BY <3>5, <3>6, Zenon DEF d
  <2>3. \A q \in Udp : DOMAIN seen'[q] = DOMAIN seen[q]
    BY <1>9, SideFacts, Zenon
  <2> QED
    BY <1>3, <2>1, <2>2, <2>3, Zenon DEF OnceInv
<1>16. AgainInv'
  BY Zenon DEF AgainInv
<1> QED
  BY <1>12, <1>13, <1>14, <1>15, <1>16, Zenon DEF RingInv

LEMMA RingReply ==
  ASSUME RingInv, ShareInv, NEW w \in Workers, Reply(w)
  PROVE  RingInv'
<1> DEFINE p == job[w].peer
           c == job[w].call
<1>1. /\ job' = [job EXCEPT ![w] = Idle]
      /\ p \in IF w = "udp" THEN Udp ELSE {w}
      /\ \A q \in Peers : /\ pend'[q] = pend[q] \/ pend'[q] = NoCall
                          /\ stray'[q] = stray[q] \/ (w = "udp" /\ q = p /\ stray'[q] = c)
  BY Replies, Zenon
<1>2. job[w].pc = "reply" /\ DOMAIN job = Workers /\ "udp" \in Workers /\ Idle.pc = "idle"
  BY SideFacts, Zenon DEF Reply, ShareInv, JobInv, Idle
<1>3. CASE w # "udp"
  <2>1. p \notin Udp
    BY <1>1, <1>3, SideFacts, Zenon DEF Workers
  <2>2. drc' = drc /\ seen' = seen
    BY <2>1, Zenon DEF Reply
  <2>3. job'["udp"] = job["udp"]
    BY <1>1, <1>2, <1>3, Zenon
  <2>4. \A q \in Udp : {pend'[q], stray'[q]} \subseteq {pend[q], stray[q], NoCall}
    BY <1>1, <1>3, SideFacts, Zenon
  <2> HIDE DEF p, c
  <2> QED
    BY <2>2, <2>3, <2>4, RingSame, Zenon
<1>4. CASE w = "udp"
  <2> DEFINE x == c.xid
  <2>1. /\ p \in Udp /\ p \in Peers /\ p # "none"
        /\ job["udp"].pc # "idle" /\ job["udp"].peer = p /\ job["udp"].call = c
    BY <1>1, <1>2, <1>4, SideFacts, NfsAssumption, Zenon
  <2>2. job'["udp"].pc = "idle"
    BY <1>1, <1>2, <1>4, Zenon
  <2>3. c \in Calls(p) /\ x \in DOMAIN seen[p] /\ c \in CallType
    <3>1. c \in Calls(p)
      BY <2>1, Zenon DEF Calls
    <3> QED
      BY <2>1, <3>1, Zenon DEF RingInv, CallsInv
  <2>4. ASSUME NEW q \in Udp, \A i \in Slots : drc'.ent[i] = drc.ent[i] \/ (drc'.ent[i].addr = p /\ drc'.ent[i].call = c)
        PROVE  Calls(q)' \subseteq Calls(q)
    <3> SUFFICES ASSUME NEW d \in Calls(q)' PROVE d \in Calls(q)
      BY Zenon
    <3>1. \/ d \in {pend'[q], stray'[q]} \ {NoCall}
          \/ \E i \in Slots : drc'.ent[i].addr = q /\ drc'.ent[i].call = d
      BY <2>2, Zenon DEF Calls
    <3>2. CASE d \in {pend'[q], stray'[q]} \ {NoCall}
      <4>1. d \in {pend[q], stray[q]} \ {NoCall} \/ (q = p /\ d = c)
        BY <1>1, <3>2, SideFacts, Zenon
      <4> QED
        BY <2>3, <4>1, Zenon DEF Calls
    <3>3. CASE \E i \in Slots : drc'.ent[i].addr = q /\ drc'.ent[i].call = d
      <4>1. PICK i \in Slots : drc'.ent[i].addr = q /\ drc'.ent[i].call = d
        BY <3>3, Zenon
      <4>2. (drc.ent[i].addr = q /\ drc.ent[i].call = d) \/ (q = p /\ d = c)
        BY <2>4, <4>1, Zenon
      <4> QED
        BY <2>3, <4>2, Zenon DEF Calls
    <3> QED
      BY <3>1, <3>2, <3>3, Zenon
  <2>5. CASE nonIdempotent(c) /\ ~job[w].cached
    <3> DEFINE rep == replyTo(job[w], fs)
    <3>1. drc' = store(p, c, rep) /\ Stored(p, c, rep.st)
      BY <2>1, <2>5, SMT DEF Reply
    <3> HIDE DEF rep, p, c
    <3>2. \A i \in Slots : drc'.ent[i] = drc.ent[i] \/ (drc'.ent[i].addr = p /\ drc'.ent[i].call = c)
      <4>1. drc.ent = [i \in Slots |-> drc.ent[i]]
        BY DEF RingInv, DrcInv
      <4>2. drc'.ent = [drc.ent EXCEPT ![drc.next] = [addr |-> p, call |-> c, reply |-> rep]]
        BY <2>5, <3>1, Zenon DEF store
      <4> QED
        BY <4>1, <4>2
    <3>3. \A q \in Udp : Calls(q)' \subseteq Calls(q)
      BY <2>4, <3>2, Zenon
    <3>4. ~job["udp"].cached /\ nonIdempotent(c)
      BY <1>4, <2>5, Zenon
    <3> QED
      BY <2>1, <2>2, <3>1, <3>3, <3>4, RingStore, Zenon
  <2>6. CASE ~(nonIdempotent(c) /\ ~job[w].cached)
    <3>1. drc' = drc
      BY <2>6, Zenon DEF Reply
    <3>2. seen' = seen
      <4>1. CASE ~nonIdempotent(c)
        BY <4>1, Zenon DEF Reply
      <4>2. CASE nonIdempotent(c) /\ job[w].cached
        <5> DEFINE st == job[w].res.st
        <5>1. seen' = [seen EXCEPT ![p][x].answers = @ \cup {st}]
          BY <2>1, <4>2, Zenon DEF Reply
        <5>2. st \in seen[p][x].answers
          BY <1>4, <2>1, <4>2, Zenon DEF RingInv, AgainInv
        <5>3. IsSeen(seen[p][x]) /\ seen = [q \in Peers |-> seen[q]] /\ Listed(seen[p])
          BY <2>1, <2>3, Zenon DEF RingInv, SeenInv
        <5> HIDE DEF p, x, st
        <5> DEFINE e == seen[p][x]
                   d == [e EXCEPT !.answers = @ \cup {st}]
                   t == [seen[p] EXCEPT ![x] = d]
        <5>4. d = e
          <6>1. e.answers \cup {st} = e.answers
            BY <5>2, Zenon
          <6>2. IsSeen(e)
            BY <5>3, Zenon
          <6> HIDE DEF e
          <6> QED
            BY <6>1, <6>2, Zenon DEF IsSeen
        <5>5. seen' = [seen EXCEPT ![p] = t]
          BY <5>1, Zenon
        <5>6. t = seen[p]
          <6>1. seen[p] = [y \in 1..Len(seen[p]) |-> seen[p][y]]
            <7> DEFINE l == seen[p]
                       S == {l[y] : y \in DOMAIN l}
            <7>1. l \in Seq(S)
              BY <5>3, Zenon DEF Listed
            <7> HIDE DEF l, S
            <7>2. l = [y \in 1..Len(l) |-> l[y]]
              BY <7>1
            <7> QED
              BY <7>2, Zenon DEF l
          <6> HIDE DEF d
          <6> QED
            BY <5>4, <6>1, Zenon
        <5> HIDE DEF t
        <5> QED
          BY <5>3, <5>5, <5>6, Zenon
      <4> QED
        BY <2>6, <4>1, <4>2, Zenon
    <3>3. \A q \in Udp : Calls(q)' \subseteq Calls(q)
      BY <2>4, <3>1, Zenon
    <3>4. SeenInv' /\ DrcInv'
      BY <3>1, <3>2, Zenon DEF RingInv, SeenInv, DrcInv
    <3>5. CallsInv'
      BY <3>2, <3>3, CallsKept, Zenon DEF RingInv
    <3>6. OnceInv'
      <4>1. \A q, y : ~Runs(q, y)' /\ ~Runs(q, y)
        BY <1>4, <2>2, <2>6, Zenon DEF Runs
      <4> QED
        BY <3>1, <3>2, <4>1, Zenon DEF RingInv, OnceInv
    <3>7. AgainInv'
      BY <2>2, Zenon DEF AgainInv
    <3> QED
      BY <3>4, <3>5, <3>6, <3>7, Zenon DEF RingInv
  <2> QED
    BY <2>5, <2>6, Zenon
<1> QED
  BY <1>3, <1>4, Zenon

-----------------------------------------------------------------------------
(* The invariant, and what it says.                                        *)

Inv == ShareInv /\ RingInv

LEMMA InvInit == Init => Inv
BY ShareInit, RingInit, Zenon DEF Inv

\* One step for each action.
LEMMA InvNext == Inv /\ [Next]_vars => Inv'
<1> SUFFICES ASSUME ShareInv, RingInv, [Next]_vars PROVE ShareInv' /\ RingInv'
  BY Zenon DEF Inv
<1>j. job'["udp"] = job["udp"] =>
        /\ job'["udp"].pc = "idle" <=> job["udp"].pc = "idle"
        /\ job'["udp"].cached <=> job["udp"].cached
        /\ job'["udp"].changed <=> job["udp"].changed
  BY Zenon
<1>1. ASSUME NEW p \in Peers, Call(p) PROVE ShareInv' /\ RingInv'
  <2>1. Listed(seen[p])
    BY Zenon DEF RingInv, SeenInv
  <2> QED
    BY <1>1, <2>1, ShareCall, RingCall, Zenon
<1>2. ASSUME NEW p \in Udp, NEW c \in {pend[p], stray[p]}, ServeUDP(p, c) PROVE ShareInv' /\ RingInv'
  BY <1>2, ShareServeUDP, RingServeUDP, Zenon
<1>3. ASSUME NEW t \in Tcp, readRecord(t) \/ serveConn(t) \/ Disconnect(t) PROVE ShareInv' /\ RingInv'
  <2>1. drc' = drc /\ seen' = seen /\ stray' = stray /\ (pend' = pend \/ pend' = [pend EXCEPT ![t] = NoCall])
    BY <1>3, Zenon DEF readRecord, serveConn, Disconnect, Hangup
  <2>2. t # "udp" /\ t \notin Udp /\ t \in Workers /\ "udp" \in Workers
    BY SideFacts, Zenon
  <2>3. DOMAIN job = Workers /\ DOMAIN pend = Peers
    BY Zenon DEF ShareInv, JobInv, NetInv
  <2>4. job'["udp"] = job["udp"]
    <3>1. Hangup(t) \/ job' = job \/ Begin(t, t, pend[t])
      BY <1>3, Zenon DEF readRecord, serveConn, Disconnect
    <3>2. Hangup(t) => job'["udp"] = job["udp"]
      BY <2>2, <2>3, Zenon DEF Hangup
    <3>3. Begin(t, t, pend[t]) => job'["udp"] = job["udp"]
      BY <2>2, <2>3, Zenon DEF Begin
    <3> QED
      BY <3>1, <3>2, <3>3, Zenon
  <2>5. \A p \in Udp : {pend'[p], stray'[p]} \subseteq {pend[p], stray[p], NoCall}
    BY <2>1, <2>2, <2>3, SideFacts, Zenon
  <2>6. RingInv'
    BY <1>j, <2>1, <2>4, <2>5, RingSame, Zenon
  <2> QED
    BY <1>3, <2>6, ShareConn, Zenon
<1>4. ASSUME NEW w \in Workers, Work(w) PROVE ShareInv' /\ RingInv'
  <2> DEFINE j == job["udp"]
             i == job'["udp"]
  <2>1. /\ ShareInv'
        /\ i.pc = (IF "udp" = w THEN "reply" ELSE j.pc) /\ i.peer = j.peer /\ i.call = j.call
        /\ (i.cached <=> j.cached)
        /\ "udp" # w => (i.changed <=> j.changed) /\ i.res = j.res
    BY <1>4, Works, SideFacts
  <2>2. job[w].pc = "work" /\ drc' = drc /\ seen' = seen /\ pend' = pend /\ stray' = stray
    BY <1>4, Zenon DEF Work
  <2>3. i.pc = "idle" <=> j.pc = "idle"
    BY <2>1, <2>2, Zenon
  <2>4. j.pc = "reply" => i.pc = "reply" /\ (i.changed <=> j.changed) /\ i.res = j.res
    BY <2>1, <2>2, Zenon
  <2>5. RingInv'
    BY <2>1, <2>2, <2>3, <2>4, RingSame, Zenon
  <2> QED
    BY <2>1, <2>5, Zenon
<1>5. ASSUME NEW w \in Workers, Reply(w) PROVE ShareInv' /\ RingInv'
  BY <1>5, ShareReply, RingReply, Zenon
<1>6. CASE Restart
  BY <1>6, ShareRestart, RingRestart, Zenon
<1>7. CASE HostChange
  <2> DEFINE j == job["udp"]
             i == job'["udp"]
  <2>1. /\ ShareInv' /\ i.pc = j.pc /\ i.peer = j.peer /\ i.call = j.call
        /\ (i.cached <=> j.cached) /\ (i.changed <=> j.changed) /\ i.res = j.res
    BY <1>7, HostChanges, SideFacts, Zenon
  <2>2. drc' = drc /\ seen' = seen /\ pend' = pend /\ stray' = stray
    BY <1>7, Zenon DEF HostChange
  <2>3. RingInv'
    BY <2>1, <2>2, RingSame, Zenon
  <2> QED
    BY <2>1, <2>3, Zenon
<1>8. CASE UNCHANGED vars
  BY <1>8, RingSame, Zenon DEF vars, ShareInv, NetInv, FsInv, JobInv
<1> QED
  BY <1>1, <1>2, <1>3, <1>4, <1>5, <1>6, <1>7, <1>8, Zenon DEF Next

LEMMA Invariant == Spec => []Inv
BY InvInit, InvNext, PTL DEF Spec

\* moved, forget and describe keep the inode cache of a share right: as long as only the
\* server changes the share, every file is where the share remembers it, whatever calls
\* run at the same time and wherever the server dies.
THEOREM CacheStaysExact == Spec => []CacheExact
<1>1. Inv => CacheExact
  BY Zenon DEF Inv, ShareInv, FsInv, Exact, CacheExact
<1> QED
  BY <1>1, Invariant, PTL

\* NodeByHandle compares the file it finds with the handle, so a handler that changes
\* something does it to the file of its handle; the exception is a file that was moved
\* between the lookup and the change.
THEOREM ChangesLand == Spec => []LandsOnItsFile
<1>1. Inv => LandsOnItsFile
  BY Zenon DEF Inv, ShareInv, JobInv, GoodJob, Landed, LandsOnItsFile
<1> QED
  BY <1>1, Invariant, PTL

\* A handle that is not good any more is that of a file the share does not have.
LEMMA GoneIs ==
  ASSUME NEW f, IsFs(f), NEW k \in Files
  PROVE  LET st == NodeByHandle(f, k).st IN st = "OK" \/ (st = "STALE" /\ search(f, k) = {})
<1>1. k \in Nat /\ k # 0 /\ k >= 1 /\ f.n \in Nat
  BY NfsAssumption DEF Files, IsFs
<1> DEFINE st == NodeByHandle(f, k).st
<1>2. /\ st \in {"OK", "STALE", "BADHANDLE"} /\ (st = "BADHANDLE" => k = 0)
      /\ st = "OK" <=> k \in 1..f.n /\ search(f, k) # {}
  BY <1>1, ByHandle, Zenon
<1> HIDE DEF st
<1>3. search(f, k) # {} => k \in 1..f.n
  <2> SUFFICES ASSUME NEW p \in Paths, f.at[p] = k PROVE k \in 1..f.n
    BY Zenon DEF search
  <2>1. f.at[p] \in 0..f.n
    BY Zenon DEF IsFs
  <2> QED
    BY <1>1, <2>1
<1> QED
  BY <1>1, <1>2, <1>3, Zenon DEF st

\* Every handler that fails has changed nothing, and the one reply that is an error after
\* a change is version 2's when the file is gone by then.
THEOREM ErrorsChangeNothing == Spec => []ErrorMeansNoChange
<1>1. Inv => ErrorMeansNoChange
  <2> SUFFICES ASSUME Inv, NEW w \in Workers, job[w].pc = "reply", ~job[w].cached
               PROVE
        LET rep == replyTo(job[w], fs)
            c   == job[w].call
        IN  /\ c.prog = "nfs" /\ c.vers = 2 => rep.st \notin {"BADHANDLE", "NOTSUPP"}
            /\ \/ ~job[w].changed \/ rep.st = "OK"
               \/ /\ c.vers = 2 /\ rep.st = "STALE"
                  /\ ProcOf(c) \in {"setattr", "write", "create", "mkdir"}
                  /\ search(fs, IF ProcOf(c) \in {"setattr", "write"} THEN c.fh ELSE job[w].res.file) = {}
    BY Zenon DEF ErrorMeansNoChange
  <2> DEFINE j == job[w]
             c == j.call
             r == IF dispatch(c) # "call" THEN [st |-> j.res.st, fh |-> 0]
                  ELSE IF c.form = "args" /\ ~Unread(c) THEN [st |-> "GARBAGE", fh |-> 0]
                  ELSE replyOf(c, j.res, fs)
             rep == replyTo(j, fs)
  <2>1. rep.st = Status(c, r.st)
    <3>1. rep = [r EXCEPT !.st = Status(c, r.st)]
      BY Zenon DEF replyTo
    <3>2. r = [st |-> r.st, fh |-> r.fh]
      BY Zenon DEF replyOf, made
    <3> HIDE DEF r, rep
    <3> QED
      BY <3>1, <3>2, Zenon
  <2>2. c.prog = "nfs" /\ c.vers = 2 => Status(c, r.st) \notin {"BADHANDLE", "NOTSUPP"}
    <3> HIDE DEF r, c
    <3> QED
      BY Zenon DEF Status
  <2>3. Status(c, "OK") = "OK" /\ Status(c, "STALE") = "STALE"
    <3> HIDE DEF c
    <3> QED
      BY Zenon DEF Status
  <2>4. ASSUME j.changed
        PROVE  \/ r.st = "OK"
               \/ /\ c.vers = 2 /\ r.st = "STALE"
                  /\ ProcOf(c) \in {"setattr", "write", "create", "mkdir"}
                  /\ search(fs, IF ProcOf(c) \in {"setattr", "write"} THEN c.fh ELSE j.res.file) = {}
    <3>1. Landed(j) /\ IsFs(fs)
      BY <2>4, Zenon DEF Inv, ShareInv, JobInv, FsInv, GoodJob
    <3>2. /\ dispatch(c) = "call" /\ c.form # "args" /\ c.fh \in Files /\ j.res.st = "OK"
          /\ ProcOf(c) \in Creating => j.res.file \in Files
      BY <3>1, Zenon DEF Landed
    <3>3. r = replyOf(c, j.res, fs)
      BY <3>2, Zenon
    <3> DEFINE k == j.res.file
    <3> HIDE DEF r, c
    <3>4. CASE ProcOf(c) \in Creating
      <4>1. r = made(c, j.res, fs)
        BY <3>3, <3>4, Zenon DEF replyOf, Creating
      <4>2. r.st = "OK" \/ (c.vers = 2 /\ ProcOf(c) # "symlink" /\ r.st = NodeByHandle(fs, k).st)
        BY <3>2, <4>1, Zenon DEF made
      <4>3. k \in Files
        BY <3>2, <3>4, Zenon
      <4> HIDE DEF k
      <4>4. NodeByHandle(fs, k).st = "OK" \/ (NodeByHandle(fs, k).st = "STALE" /\ search(fs, k) = {})
        BY <3>1, <4>3, GoneIs, Zenon
      <4>5. ProcOf(c) # "symlink" => ProcOf(c) \in {"create", "mkdir"}
        BY <3>4, Zenon DEF Creating
      <4> QED
        BY <4>2, <4>4, <4>5, Zenon DEF k
    <3>5. CASE c.vers = 2 /\ ProcOf(c) \in {"setattr", "write"}
      <4>1. r = [st |-> NodeByHandle(fs, c.fh).st, fh |-> 0]
        BY <3>2, <3>3, <3>5, Zenon DEF replyOf, attrstat
      <4> DEFINE h == c.fh
      <4>2. h \in Files
        BY <3>2, Zenon
      <4>3. r.st = NodeByHandle(fs, h).st
        BY <4>1, Zenon
      <4> HIDE DEF h
      <4>4. NodeByHandle(fs, h).st = "OK" \/ (NodeByHandle(fs, h).st = "STALE" /\ search(fs, h) = {})
        BY <3>1, <4>2, GoneIs, Zenon
      <4> QED
        BY <3>5, <4>3, <4>4, Zenon DEF h
    <3>6. CASE ProcOf(c) \notin Creating /\ ~(c.vers = 2 /\ ProcOf(c) \in {"setattr", "write"})
      BY <3>2, <3>3, <3>6, Zenon DEF replyOf, Creating
    <3> QED
      BY <3>4, <3>5, <3>6, Zenon
  <2> HIDE DEF r, rep
  <2>5. rep = replyTo(job[w], fs)
    BY Zenon DEF rep
  <2> QED
    BY <2>1, <2>2, <2>3, <2>4, <2>5, Zenon
<1> QED
  BY <1>1, Invariant, PTL

\* drc.lookup and drc.store make ServeUDP run a call that changes something once, however
\* often it comes in, and answer it alike each time: as long as fewer than DrcSize replies
\* were kept after its own, the ring still has it.
THEOREM ResendsAreNotRerun == Spec => []ResentNotRerun
<1>1. Inv => ResentNotRerun
  <2> SUFFICES ASSUME Inv, NEW p \in Udp, NEW x \in DOMAIN seen[p]
               PROVE  ~seen[p][x].early /\ (~seen[p][x].excused => \A a, b \in seen[p][x].answers : a = b)
    BY Zenon DEF ResentNotRerun
  <2>1. /\ ~seen[p][x].early
        /\ ~seen[p][x].excused => \E st \in seen[p][x].answers \cup {"OK"} : seen[p][x].answers \subseteq {st}
    BY Zenon DEF Inv, RingInv, OnceInv, OneAnswer
  <2> QED
    BY <2>1, Zenon
<1> QED
  BY <1>1, Invariant, PTL
====
