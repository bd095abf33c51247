------------------------- MODULE RemoteImageProofs --------------------------
(***************************************************************************)
(* For every number of readers, versions, chunk size and budget: the bytes *)
(* a read returns are all of the file the probe saw, a read keeps the      *)
(* contract of io.ReaderAt, the map, the list and the byte count of the    *)
(* cache agree, and cache and retries keep their bounds.                   *)
(***************************************************************************)
EXTENDS RemoteImage, FiniteSetTheorems, TLAPS

Pcs == {"idle", "lookup", "fetch", "backoff", "store", "done"}
Reads == [pc : Pcs, off : Nat, len : Nat, pos : Nat, n : Nat, try : Nat,
          ver : Nat, from : SUBSET Nat, err : {"nil", "eof", "failed"}]
Chunks == [idx : Nat, ver : Nat]

-----------------------------------------------------------------------------
(* The arithmetic of a read.                                               *)

\* A position lies in its chunk.
LEMMA IndexFacts ==
  ASSUME NEW p \in Nat
  PROVE  Index(p) \in Nat /\ Index(p) * Chunk <= p /\ p < (Index(p) + 1) * Chunk
<1>1. Chunk \in Nat /\ Chunk > 0
  BY ImageAssumption
<1> QED
  BY <1>1 DEF Index

\* How far a read came, at the head of the loop.
Underway(k) ==
  /\ k.pos = k.off + k.n
  /\ IF k.off < size THEN k.pos <= End(k) ELSE k.n = 0

\* A read within a chunk.
InChunk(k) == k.pos = k.off + k.n /\ k.off < size /\ k.pos < End(k)

\* A read that returns.
Finished(k) ==
  IF k.err = "failed" THEN InChunk(k)
  ELSE /\ Underway(k)
       /\ k.off < size => k.pos = End(k)
       /\ k.err = Result(k)

ReadOK(k) ==
  /\ k.pc \in {"lookup", "fetch", "backoff", "store"} => InChunk(k)
  /\ k.pc = "done" => Finished(k)

\* The loop goes on to a chunk, or returns what it has.
LEMMA ContinueOK ==
  ASSUME size \in Nat, NEW k \in Reads, k.err = "nil", Underway(k)
  PROVE  /\ Continue(k) \in Reads /\ ReadOK(Continue(k))
         /\ Continue(k).from = k.from /\ Continue(k).pc \in {"lookup", "done"}
         /\ Continue(k).pc = "lookup" => Continue(k).err = "nil"
         /\ Continue(k).try = 0
<1> USE DEF Reads, Pcs
<1>1. CASE k.off < size /\ k.pos < End(k)
  <2> DEFINE h == [k EXCEPT !.pc = "lookup", !.try = 0, !.ver = 0]
  <2>1. /\ h \in Reads /\ h.pc = "lookup" /\ h.off = k.off /\ h.len = k.len /\ h.pos = k.pos
        /\ h.n = k.n /\ h.from = k.from /\ h.err = "nil" /\ h.try = 0
    BY Zenon
  <2>2. Continue(k) = h
    BY <1>1 DEF Continue
  <2> HIDE DEF h
  <2>3. ReadOK(h)
    BY <1>1, <2>1 DEF ReadOK, InChunk, Underway, End
  <2> QED
    BY <2>1, <2>2, <2>3
<1>2. CASE ~(k.off < size /\ k.pos < End(k))
  <2> DEFINE h == [k EXCEPT !.pc = "done", !.try = 0, !.ver = 0, !.err = Result(k)]
  <2>1. Result(k) \in {"nil", "eof"}
    BY DEF Result
  <2>2. /\ h \in Reads /\ h.pc = "done" /\ h.off = k.off /\ h.len = k.len /\ h.pos = k.pos
        /\ h.n = k.n /\ h.from = k.from /\ h.err = Result(k) /\ h.try = 0
    BY <2>1, Zenon
  <2>3. Continue(k) = h
    BY <1>2 DEF Continue
  <2> HIDE DEF h
  <2>4. Finished(h)
    BY <1>2, <2>1, <2>2 DEF Finished, Underway, End, Result
  <2> QED
    BY <2>1, <2>2, <2>3, <2>4 DEF ReadOK
<1> QED
  BY <1>1, <1>2

\* Copying out of a chunk makes progress and stays within the read.
LEMMA CopiedOK ==
  ASSUME size \in Nat, NEW k \in Reads, k.err = "nil", InChunk(k), NEW v \in Nat
  PROVE  /\ Copied(k, v) \in Reads /\ ReadOK(Copied(k, v))
         /\ Copied(k, v).from = k.from \cup {v} /\ Copied(k, v).pc \in {"lookup", "done"}
         /\ Copied(k, v).pc = "lookup" => Copied(k, v).err = "nil"
         /\ Copied(k, v).try = 0
<1> DEFINE i     == Index(k.pos)
           avail == ChunkLen(i) - (k.pos - i * Chunk)
           want  == IF avail < End(k) - k.pos THEN avail ELSE End(k) - k.pos
           h     == [k EXCEPT !.n = k.n + want, !.pos = k.pos + want, !.from = k.from \cup {v}]
<1>1. k.pos \in Nat /\ k.off \in Nat /\ k.len \in Nat /\ k.n \in Nat
  BY DEF Reads
<1>2. i \in Nat /\ i * Chunk <= k.pos /\ k.pos < (i + 1) * Chunk /\ i * Chunk \in Nat /\ (i + 1) * Chunk \in Nat
  <2>1. Chunk \in Nat /\ i \in Nat /\ i * Chunk <= k.pos /\ k.pos < (i + 1) * Chunk
    BY <1>1, IndexFacts, ImageAssumption, Zenon
  <2> HIDE DEF i
  <2>2. i * Chunk \in Nat /\ (i + 1) * Chunk \in Nat
    BY <2>1
  <2> QED
    BY <2>1, <2>2
<1>3. k.pos < End(k) /\ End(k) <= size /\ End(k) \in Nat /\ End(k) <= k.off + k.len
  BY <1>1 DEF InChunk, End
<1>4. avail = IF (i + 1) * Chunk > size THEN size - k.pos ELSE (i + 1) * Chunk - k.pos
  <2>1. Chunk \in Nat /\ (i + 1) * Chunk = i * Chunk + Chunk
    BY <1>2, ImageAssumption
  <2> HIDE DEF i
  <2> QED
    BY <1>1, <1>2, <2>1 DEF ChunkLen
<1>5. avail \in Nat \ {0}
  <2> HIDE DEF i, avail
  <2> QED
    BY <1>1, <1>2, <1>3, <1>4
<1>6. want \in Nat \ {0} /\ k.pos + want <= End(k)
  <2> HIDE DEF avail
  <2> QED
    BY <1>1, <1>3, <1>5
<1> HIDE DEF i, avail, want
<1>7. /\ h \in Reads /\ h.off = k.off /\ h.len = k.len /\ h.err = "nil"
      /\ h.pos = k.pos + want /\ h.n = k.n + want /\ h.from = k.from \cup {v}
  <2> DEFINE n == k.n + want
             p == k.pos + want
             f == k.from \cup {v}
  <2>1. n \in Nat /\ p \in Nat /\ f \in SUBSET Nat
    BY <1>1, <1>6 DEF Reads
  <2>2. h = [k EXCEPT !.n = n, !.pos = p, !.from = f]
    OBVIOUS
  <2> HIDE DEF n, p, f, h
  <2>3. /\ h \in Reads /\ h.off = k.off /\ h.len = k.len /\ h.err = "nil"
        /\ h.pos = p /\ h.n = n /\ h.from = f
    BY <2>1, <2>2, Zenon DEF Reads
  <2> QED
    BY <2>3 DEF n, p, f
<1>8. Copied(k, v) = Continue(h)
  BY DEF Copied, i, avail, want
<1> HIDE DEF h
<1>9. Underway(h)
  BY <1>1, <1>3, <1>6, <1>7 DEF Underway, InChunk, End
<1> QED
  BY <1>7, <1>8, <1>9, ContinueOK

-----------------------------------------------------------------------------
(* The cache.                                                              *)

\* A nonempty set of numbers up to n has a greatest one.
LEMMA MaxFacts ==
  ASSUME NEW n \in Nat, NEW K \in SUBSET (1..n), K # {}
  PROVE  Max(K) \in K
<1> DEFINE T == {n - k : k \in K}
           R == OpToRel(<, Nat)
<1>1. T \subseteq Nat /\ T # {}
  <2>1. \A k \in K : k \in 1..n /\ n - k \in Nat
    OBVIOUS
  <2>2. T \subseteq Nat
    BY <2>1
  <2>3. T # {}
    BY Zenon
  <2> QED
    BY <2>2, <2>3
<1>2. IsWellFoundedOn(R, Nat)
  BY NatLessThanWellFounded, Zenon
<1>3. \A x, y \in Nat : x < y => <<x, y>> \in R
  BY DEF OpToRel
<1> HIDE DEF R
<1>4. PICK x \in T : \A y \in T : ~(<<y, x>> \in R)
  <2> HIDE DEF T
  <2> QED
    BY <1>1, <1>2, WFMin, Zenon
<1>5. PICK k \in K : x = n - k
  OBVIOUS
<1>6. \A j \in K : k >= j
  <2> TAKE j \in K
  <2>1. n - j \in T /\ n - j \in Nat /\ x \in Nat
    BY <1>1
  <2>2. ~(n - j < x)
    BY <1>3, <1>4, <2>1, Zenon
  <2> QED
    BY <1>5, <2>2
<1> QED
  BY <1>6, Zenon DEF Max

\* Induction over the numbers, for a set: a set with 0 and with each one's successor has all.
LEMMA NatInd ==
  ASSUME NEW S, 0 \in S, \A n \in Nat : n \in S => n + 1 \in S
  PROVE  Nat \subseteq S
<1> DEFINE T == Nat \ S
           R == OpToRel(<, Nat)
<1>1. SUFFICES ASSUME T # {} PROVE FALSE
  OBVIOUS
<1>2. IsWellFoundedOn(R, Nat)
  BY NatLessThanWellFounded, Zenon
<1>3. \A x, y \in Nat : y < x => <<y, x>> \in R
  BY DEF OpToRel
<1> HIDE DEF R
<1>4. PICK x \in T : \A y \in T : ~(<<y, x>> \in R)
  <2>1. T \subseteq Nat
    OBVIOUS
  <2> HIDE DEF T
  <2> QED
    BY <1>1, <1>2, <2>1, WFMin, Zenon
<1>5. x \in Nat /\ x \notin S /\ x - 1 \in Nat /\ x - 1 < x /\ (x - 1) + 1 = x
  <2>1. x \in Nat /\ x \notin S /\ x # 0
    OBVIOUS
  <2> QED
    BY <2>1
<1>6. x - 1 \in S
  BY <1>3, <1>4, <1>5, Zenon
<1> QED
  BY <1>5, <1>6

\* g[k] is what the first k chunks of s hold.
Sums(g, s) ==
  /\ g \in [0..Len(s) -> Int]
  /\ g[0] = 0
  /\ \A k \in 1..Len(s) : g[k] = g[k - 1] + ChunkLen(s[k].idx)

\* The length of a chunk is a number.
LEMMA ChunkLenInt ==
  ASSUME size \in Nat, NEW i \in Nat
  PROVE  ChunkLen(i) \in Int
  BY ImageAssumption DEF ChunkLen

\* There are such sums.
LEMMA SumsExist ==
  ASSUME size \in Nat, NEW s \in Seq(Chunks)
  PROVE  \E g : Sums(g, s)
<1> DEFINE w(k) == ChunkLen(s[k].idx)
           P(n) == \E g \in [0..n -> Int] : g[0] = 0 /\ \A k \in 1..n : g[k] = g[k - 1] + w(k)
           S == {n \in Nat : n <= Len(s) => P(n)}
<1>1. Len(s) \in Nat /\ \A k \in 1..Len(s) : w(k) \in Int
  <2>1. ASSUME NEW k \in 1..Len(s) PROVE s[k].idx \in Nat
    <3>1. s[k] \in Chunks
      OBVIOUS
    <3> QED
      BY <3>1 DEF Chunks
  <2> QED
    BY <2>1, ChunkLenInt
<1> HIDE DEF w
<1>2. P(0)
  <2> DEFINE g == [k \in 0..0 |-> 0]
  <2>1. g \in [0..0 -> Int] /\ g[0] = 0 /\ \A k \in 1..0 : g[k] = g[k - 1] + w(k)
    OBVIOUS
  <2> QED
    BY <2>1, Zenon
<1>3. ASSUME NEW n \in Nat, n + 1 <= Len(s), P(n) PROVE P(n + 1)
  <2>1. PICK g \in [0..n -> Int] : g[0] = 0 /\ \A k \in 1..n : g[k] = g[k - 1] + w(k)
    BY <1>3, Zenon
  <2> DEFINE h == [k \in 0..(n + 1) |-> IF k = n + 1 THEN g[n] + w(n + 1) ELSE g[k]]
  <2>2. w(n + 1) \in Int /\ g[n] \in Int
    BY <1>1, <1>3
  <2>3. h \in [0..(n + 1) -> Int]
    BY <2>1, <2>2
  <2>4. h[0] = 0
    BY <2>1
  <2>5. \A k \in 1..(n + 1) : h[k] = h[k - 1] + w(k)
    <3> TAKE k \in 1..(n + 1)
    <3>1. CASE k = n + 1
      <4>1. h[k] = g[n] + w(n + 1) /\ h[k - 1] = g[n]
        BY <3>1
      <4> QED
        BY <3>1, <4>1
    <3>2. CASE k # n + 1
      <4>1. k \in 1..n /\ k - 1 \in 0..n /\ k \in 0..(n + 1) /\ k - 1 \in 0..(n + 1) /\ k - 1 # n + 1
        BY <3>2
      <4>2. h[k] = g[k] /\ h[k - 1] = g[k - 1]
        BY <3>2, <4>1
      <4> QED
        BY <2>1, <4>1, <4>2
    <3> QED
      BY <3>1, <3>2
  <2> HIDE DEF h
  <2> QED
    BY <2>3, <2>4, <2>5, Zenon
<1> HIDE DEF P
<1>4. \A n \in Nat : n \in S => n + 1 \in S
  BY <1>1, <1>3
<1>5. Nat \subseteq S
  <2>1. 0 \in S
    BY <1>2
  <2> HIDE DEF S
  <2> QED
    BY <1>4, <2>1, NatInd
<1>6. P(Len(s))
  BY <1>1, <1>5
<1> QED
  BY <1>6 DEF P, w, Sums

\* Bytes is the last of the sums.
LEMMA BytesSum ==
  ASSUME NEW s \in Seq(Chunks), NEW g, Sums(g, s)
  PROVE  Bytes(s) = g[Len(s)] /\ Bytes(s) \in Int
<1> DEFINE n == Len(s)
           F(f) == [k \in 0..n |-> IF k = 0 THEN 0 ELSE f[k - 1] + ChunkLen(s[k].idx)]
           h == CHOOSE f : f = F(f)
<1>1. n \in Nat
  OBVIOUS
<1>2. g = F(g)
  <2>1. g = [k \in 0..n |-> g[k]]
    BY DEF Sums
  <2>2. \A k \in 0..n : g[k] = IF k = 0 THEN 0 ELSE g[k - 1] + ChunkLen(s[k].idx)
    BY <1>1 DEF Sums
  <2> QED
    BY <2>1, <2>2, Zenon
<1>3. Bytes(s) = h[n]
  BY DEF Bytes
<1>4. h = F(h)
  BY <1>2, Zenon
<1> HIDE DEF h
<1>5. \A k \in 0..n : h[k] = IF k = 0 THEN 0 ELSE h[k - 1] + ChunkLen(s[k].idx)
  BY <1>4
<1> DEFINE S == {k \in Nat : k <= n => g[k] = h[k]}
<1>6. 0 \in S
  BY <1>1, <1>5 DEF Sums
<1>7. ASSUME NEW k \in Nat, k \in S PROVE k + 1 \in S
  <2> SUFFICES ASSUME k + 1 <= n PROVE g[k + 1] = h[k + 1]
    BY <1>7
  <2>1. g[k] = h[k] /\ k + 1 \in 1..n /\ k + 1 \in 0..n /\ k + 1 # 0 /\ (k + 1) - 1 = k
    BY <1>1, <1>7
  <2>2. g[k + 1] = g[k] + ChunkLen(s[k + 1].idx)
    BY <2>1 DEF Sums
  <2>3. h[k + 1] = h[k] + ChunkLen(s[k + 1].idx)
    BY <1>5, <2>1
  <2> QED
    BY <2>1, <2>2, <2>3
<1> HIDE DEF S
<1>8. Nat \subseteq S
  BY <1>6, <1>7, NatInd
<1>9. g[n] = h[n] /\ g[n] \in Int
  BY <1>1, <1>8 DEF S, Sums
<1> QED
  BY <1>3, <1>9

\* An empty cache holds nothing, a single chunk its own length.
LEMMA BytesOne ==
  /\ Bytes(<<>>) = 0
  /\ size \in Nat => \A e \in Chunks : Bytes(<<e>>) = ChunkLen(e.idx)
<1>1. Bytes(<<>>) = 0
  <2> DEFINE s == <<>>
             g == [k \in 0..0 |-> 0]
  <2>1. s \in Seq(Chunks) /\ Len(s) = 0
    OBVIOUS
  <2>2. Sums(g, s)
    BY <2>1 DEF Sums
  <2>3. g[0] = 0
    OBVIOUS
  <2> HIDE DEF g, s
  <2>4. Bytes(s) = 0
    BY <2>1, <2>2, <2>3, BytesSum, Zenon
  <2> QED
    BY <2>4 DEF s
<1>2. ASSUME size \in Nat, NEW e \in Chunks PROVE Bytes(<<e>>) = ChunkLen(e.idx)
  <2> DEFINE s == <<e>>
             l == ChunkLen(e.idx)
             g == [k \in 0..1 |-> IF k = 0 THEN 0 ELSE l]
  <2>1. s \in Seq(Chunks) /\ Len(s) = 1 /\ s[1] = e
    OBVIOUS
  <2>2. l \in Int
    BY <1>2, ChunkLenInt DEF Chunks
  <2>3. /\ g \in [0..1 -> Int] /\ g[0] = 0 /\ g[1] = l
        /\ \A k \in 1..1 : k = 1 /\ g[k] = g[k - 1] + l
    <3> HIDE DEF l
    <3> QED
      BY <2>2
  <2> HIDE DEF g, s
  <2>4. Sums(g, s)
    BY <2>1, <2>3 DEF Sums
  <2>5. Bytes(s) = l
    BY <2>1, <2>3, <2>4, BytesSum
  <2> QED
    BY <2>5 DEF s
<1> QED
  BY <1>1, <1>2

\* What two lists hold together.
LEMMA BytesConcat ==
  ASSUME size \in Nat, NEW s \in Seq(Chunks), NEW t \in Seq(Chunks)
  PROVE  Bytes(s \o t) = Bytes(s) + Bytes(t)
<1> DEFINE u == s \o t
           m == Len(s)
           n == Len(t)
<1>1. PICK g : Sums(g, s)
  BY SumsExist
<1>2. PICK h : Sums(h, t)
  BY SumsExist
<1>3. /\ m \in Nat /\ n \in Nat /\ u \in Seq(Chunks) /\ Len(u) = m + n
      /\ \A k \in 1..m : u[k] = s[k]
      /\ \A k \in 1..n : u[m + k] = t[k]
  OBVIOUS
<1>4. /\ g \in [0..m -> Int] /\ h \in [0..n -> Int] /\ g[0] = 0 /\ h[0] = 0
      /\ g[m] \in Int /\ h[n] \in Int
  <2>1. g \in [0..m -> Int] /\ h \in [0..n -> Int] /\ g[0] = 0 /\ h[0] = 0
    BY <1>1, <1>2 DEF Sums
  <2>2. m \in 0..m /\ n \in 0..n
    BY <1>3
  <2> HIDE DEF m, n
  <2> QED
    BY <2>1, <2>2
<1> DEFINE f == [k \in 0..(m + n) |-> IF k <= m THEN g[k] ELSE g[m] + h[k - m]]
<1>5. f \in [0..(m + n) -> Int]
  <2> SUFFICES ASSUME NEW k \in 0..(m + n)
               PROVE  (IF k <= m THEN g[k] ELSE g[m] + h[k - m]) \in Int
    OBVIOUS
  <2> HIDE DEF m, n
  <2>1. CASE k <= m
    BY <1>3, <1>4, <2>1
  <2>2. CASE ~(k <= m)
    <3>1. k - m \in 0..n
      BY <1>3, <2>2
    <3>2. h[k - m] \in Int
      BY <1>4, <3>1
    <3> QED
      BY <1>4, <2>2, <3>2
  <2> QED
    BY <2>1, <2>2
<1>6. \A k \in 1..(m + n) : f[k] = f[k - 1] + ChunkLen(u[k].idx)
  <2> TAKE k \in 1..(m + n)
  <2> HIDE DEF m, n, u
  <2>1. CASE k <= m
    <3>1. k \in 1..m /\ k - 1 <= m /\ k \in 0..(m + n) /\ k - 1 \in 0..(m + n)
      BY <1>3, <2>1
    <3>2. f[k] = g[k] /\ f[k - 1] = g[k - 1] /\ u[k] = s[k]
      BY <1>3, <3>1
    <3>3. g[k] = g[k - 1] + ChunkLen(s[k].idx)
      BY <1>1, <3>1 DEF Sums, m
    <3> QED
      BY <3>2, <3>3
  <2>2. CASE ~(k <= m)
    <3> DEFINE j == k - m
    <3>1. /\ j \in 1..n /\ j - 1 \in 0..n /\ k \in 0..(m + n) /\ k - 1 \in 0..(m + n)
          /\ m + j = k /\ (k - 1) - m = j - 1 /\ (k - 1 <= m <=> j = 1)
      BY <1>3, <2>2
    <3>2. u[k] = t[j] /\ h[j] = h[j - 1] + ChunkLen(t[j].idx) /\ h[j] \in Int /\ h[j - 1] \in Int
      <4> HIDE DEF j
      <4>1. h[j] = h[j - 1] + ChunkLen(t[j].idx)
        BY <1>2, <3>1 DEF Sums, n
      <4>2. u[m + j] = t[j]
        BY <1>3, <3>1
      <4>3. j \in 0..n
        BY <1>3, <3>1
      <4> QED
        BY <1>4, <3>1, <4>1, <4>2, <4>3
    <3>3. f[k] = g[m] + h[j]
      BY <2>2, <3>1
    <3>4. f[k - 1] = g[m] + h[j - 1]
      <4>1. CASE j = 1
        <5>1. k - 1 = m /\ f[k - 1] = g[m]
          BY <1>3, <3>1, <4>1
        <5>2. h[j - 1] = 0
          BY <1>4, <4>1
        <5> QED
          BY <1>4, <5>1, <5>2
      <4>2. CASE j # 1
        BY <3>1, <4>2
      <4> QED
        BY <4>1, <4>2
    <3>5. ChunkLen(t[j].idx) \in Int
      <4>1. t[j] \in Chunks
        BY <3>1 DEF n
      <4> QED
        BY <4>1, ChunkLenInt DEF Chunks
    <3> DEFINE l == ChunkLen(t[j].idx)
               c == h[j - 1]
               d == g[m]
    <3>6. l \in Int /\ c \in Int /\ d \in Int /\ h[j] = c + l
      BY <1>4, <3>2, <3>5
    <3>7. f[k] = d + h[j] /\ f[k - 1] = d + c /\ ChunkLen(u[k].idx) = l
      BY <3>2, <3>3, <3>4
    <3> HIDE DEF l, c, d, f
    <3> QED
      BY <3>6, <3>7
  <2> QED
    BY <2>1, <2>2
<1>7. f[0] = 0
  BY <1>3, <1>4
<1>8. f[m + n] = g[m] + h[n]
  <2>1. CASE n = 0
    BY <1>3, <1>4, <2>1
  <2>2. CASE n # 0
    <3>1. m + n \in 0..(m + n) /\ ~(m + n <= m) /\ (m + n) - m = n
      BY <1>3, <2>2
    <3> QED
      BY <3>1
  <2> QED
    BY <2>1, <2>2
<1> HIDE DEF f, u
<1>9. Sums(f, u)
  BY <1>3, <1>5, <1>6, <1>7 DEF Sums
<1>10. Bytes(u) = f[m + n] /\ Bytes(s) = g[m] /\ Bytes(t) = h[n]
  BY <1>1, <1>2, <1>3, <1>9, BytesSum
<1> QED
  BY <1>8, <1>10 DEF u

\* Eviction keeps a front part, never less than the chunk being served, and more only
\* within the budget.
LEMMA KeptFacts ==
  ASSUME NEW s \in Seq(Chunks), s # <<>>, NEW total
  PROVE  /\ Kept(s, total) \in 1..Len(s)
         /\ Budget > 0 => Kept(s, total) = 1 \/ total - Behind(s, Kept(s, total)) <= Budget
<1>1. Len(s) \in Nat \ {0} /\ DOMAIN s = 1..Len(s)
  OBVIOUS
<1>2. CASE Budget <= 0
  BY <1>1, <1>2, ImageAssumption DEF Kept
<1>3. CASE ~(Budget <= 0)
  <2> DEFINE K == {1} \cup {k \in DOMAIN s : total - Behind(s, k) <= Budget}
  <2>1. K \in SUBSET (1..Len(s)) /\ K # {}
    BY <1>1
  <2>2. Kept(s, total) = Max(K)
    BY <1>3 DEF Kept
  <2> HIDE DEF K
  <2>3. Max(K) \in K
    BY <1>1, <2>1, MaxFacts, Zenon
  <2>4. Max(K) = 1 \/ total - Behind(s, Max(K)) <= Budget
    BY <2>3 DEF K
  <2> QED
    BY <2>1, <2>2, <2>3, <2>4, Zenon
<1> QED
  BY <1>2, <1>3

\* What the cache holds: chunks of the version known, which include every chunk of the map.
Holds(s, c, w) ==
  /\ s \in Seq(Chunks)
  /\ \A j \in DOMAIN s : s[j].ver = w
  /\ \A x \in c : \E j \in DOMAIN s : s[j].idx = x

\* Inserting a chunk of the version known, and evicting others, keeps that.
LEMMA InsertHolds ==
  ASSUME NEW w \in Nat, Holds(lru, cache, w), NEW i \in Nat, Insert(i, w)
  PROVE  Holds(lru', cache', w)
<1> DEFINE e == [idx |-> i, ver |-> w]
           s == <<e>> \o lru
           keep == Kept(s, resident + ChunkLen(i))
<1>1. e \in Chunks /\ e.idx = i /\ e.ver = w
  BY DEF Chunks
<1>2. lru \in Seq(Chunks) /\ Len(lru) \in Nat /\ DOMAIN lru = 1..Len(lru)
  BY DEF Holds
<1> HIDE DEF e
<1>3. /\ s \in Seq(Chunks) /\ Len(s) = Len(lru) + 1 /\ s[1] = e
      /\ \A j \in DOMAIN lru : s[j + 1] = lru[j]
      /\ \A j \in 2..Len(s) : s[j] = lru[j - 1]
  BY <1>1, <1>2
<1>5. lru' = SubSeq(s, 1, keep) /\ cache' = (cache \cup {i}) \ {s[j].idx : j \in (keep + 1)..Len(s)}
  BY DEF Insert, e
<1> HIDE DEF s
<1>4. keep \in 1..Len(s)
  <2>1. s # <<>>
    BY <1>2, <1>3
  <2> QED
    BY <1>3, <2>1, KeptFacts
<1> HIDE DEF keep
<1>6. Len(s) \in Nat /\ DOMAIN s = 1..Len(s)
  BY <1>3
<1>7. /\ lru' \in Seq(Chunks) /\ Len(lru') = keep /\ DOMAIN lru' = 1..keep
      /\ \A j \in 1..keep : lru'[j] = s[j]
  BY <1>3, <1>4, <1>5, <1>6
<1>8. \A j \in DOMAIN lru' : lru'[j].ver = w
  <2> TAKE j \in DOMAIN lru'
  <2>1. j \in 1..Len(s) /\ lru'[j] = s[j]
    BY <1>4, <1>6, <1>7
  <2>2. CASE j = 1
    BY <1>1, <1>3, <2>1, <2>2
  <2>3. CASE j # 1
    <3>1. j \in 2..Len(s) /\ j - 1 \in DOMAIN lru
      BY <1>2, <1>3, <2>1, <2>3
    <3> QED
      BY <1>3, <2>1, <3>1 DEF Holds
  <2> QED
    BY <2>2, <2>3
<1>9. \A x \in cache' : \E j \in DOMAIN lru' : lru'[j].idx = x
  <2> TAKE x \in cache'
  <2>1. x \in cache \cup {i} /\ \A j \in (keep + 1)..Len(s) : s[j].idx # x
    BY <1>5
  <2>2. PICK j \in 1..Len(s) : s[j].idx = x
    <3>1. CASE x = i
      BY <1>1, <1>2, <1>3, <3>1
    <3>2. CASE x \in cache
      <4>1. PICK m \in DOMAIN lru : lru[m].idx = x
        BY <3>2 DEF Holds
      <4>2. m + 1 \in 1..Len(s) /\ s[m + 1] = lru[m]
        BY <1>2, <1>3, <4>1
      <4> QED
        BY <4>1, <4>2
    <3> QED
      BY <2>1, <3>1, <3>2
  <2>3. j \in 1..keep
    BY <1>4, <1>6, <2>1, <2>2
  <2> QED
    BY <1>7, <2>2, <2>3
<1> QED
  BY <1>7, <1>8, <1>9 DEF Holds

\* The chunks of two lists, one after the other.
LEMMA Joined ==
  ASSUME NEW a \in Seq(Chunks), NEW b \in Seq(Chunks)
  PROVE  /\ a \o b \in Seq(Chunks) /\ Len(a \o b) = Len(a) + Len(b)
         /\ \A j \in 1..(Len(a) + Len(b)) :
              (a \o b)[j] = IF j <= Len(a) THEN a[j] ELSE b[j - Len(a)]
  OBVIOUS

\* Where the list has chunk i, and where its chunks are once i is moved to the front.
LEMMA FrontShape ==
  ASSUME NEW w \in Nat, Holds(lru, cache, w), NEW i \in cache
  PROVE  \E p \in 1..Len(lru) :
           /\ lru[p].idx = i /\ Entry(i) = lru[p] /\ Entry(i) \in Chunks
           /\ \E a, b \in Seq(Chunks) :
                lru = a \o (<<Entry(i)>> \o b) /\ MoveToFront(i) = <<Entry(i)>> \o (a \o b)
           /\ MoveToFront(i) \in Seq(Chunks) /\ Len(MoveToFront(i)) = Len(lru)
           /\ \A j \in 1..Len(lru) :
                MoveToFront(i)[j] = lru[IF j = 1 THEN p ELSE IF j <= p THEN j - 1 ELSE j]
<1> DEFINE p == Position(i)
           e == Entry(i)
           n == Len(lru)
           a == SubSeq(lru, 1, p - 1)
           b == SubSeq(lru, p + 1, n)
           m == MoveToFront(i)
<1>1. lru \in Seq(Chunks) /\ n \in Nat /\ DOMAIN lru = 1..n
  BY DEF Holds
<1>2. p \in 1..n /\ lru[p].idx = i
  BY <1>1 DEF Holds, Position
<1>3. e = lru[p] /\ e \in Chunks
  BY <1>1, <1>2 DEF Entry
<1>4. m = <<e>> \o (a \o b)
  BY DEF MoveToFront
<1> HIDE DEF p, e, m
<1>5. a \in Seq(Chunks) /\ Len(a) = p - 1 /\ \A j \in 1..(p - 1) : a[j] = lru[j]
  BY <1>1, <1>2
<1>6. b \in Seq(Chunks) /\ Len(b) = n - p /\ \A j \in 1..(n - p) : b[j] = lru[p + j]
  <2>1. \A j \in (p + 1)..n : lru[j] \in Chunks
    BY <1>1, <1>2
  <2>2. b \in Seq(Chunks) /\ Len(b) = IF p + 1 <= n THEN n - (p + 1) + 1 ELSE 0
    BY <1>1, <1>2, <2>1
  <2>3. \A j \in 1..(n - p) : b[j] = lru[p + j]
    BY <1>1, <1>2
  <2> HIDE DEF b, n
  <2> QED
    BY <1>1, <1>2, <2>2, <2>3
<1> HIDE DEF a, b, n
<1> DEFINE c == <<e>> \o b
           d == a \o b
<1>7. /\ c \in Seq(Chunks) /\ Len(c) = n - p + 1 /\ c[1] = e
      /\ \A j \in 2..(n - p + 1) : c[j] = b[j - 1]
  <2>1. <<e>> \in Seq(Chunks) /\ Len(<<e>>) = 1 /\ <<e>>[1] = e /\ b \in Seq(Chunks)
    BY <1>3, <1>6
  <2>2. /\ c \in Seq(Chunks) /\ Len(c) = Len(<<e>>) + Len(b)
        /\ \A j \in 1..Len(c) : c[j] = IF j <= Len(<<e>>) THEN <<e>>[j] ELSE b[j - Len(<<e>>)]
    BY <2>1, Joined
  <2> HIDE DEF c
  <2>3. Len(c) = n - p + 1 /\ 1 \in 1..(n - p + 1) /\ \A j \in 2..(n - p + 1) : j \in 1..(n - p + 1) /\ ~(j <= 1)
    BY <1>1, <1>2, <1>6, <2>1, <2>2
  <2> QED
    BY <2>1, <2>2, <2>3
<1>8. /\ d \in Seq(Chunks) /\ Len(d) = n - 1
      /\ \A j \in 1..(p - 1) : d[j] = a[j]
      /\ \A j \in p..(n - 1) : d[j] = b[j - (p - 1)]
  <2>0. a \in Seq(Chunks) /\ b \in Seq(Chunks)
    BY <1>5, <1>6
  <2>1. /\ d \in Seq(Chunks) /\ Len(d) = Len(a) + Len(b)
        /\ \A j \in 1..Len(d) : d[j] = IF j <= Len(a) THEN a[j] ELSE b[j - Len(a)]
    BY <2>0, Joined
  <2> HIDE DEF d
  <2>2. Len(d) = n - 1
    BY <1>1, <1>2, <1>5, <1>6, <2>1
  <2>3. \A j \in 1..(p - 1) : j \in 1..(n - 1) /\ j <= p - 1
    BY <1>1, <1>2
  <2>4. \A j \in p..(n - 1) : j \in 1..(n - 1) /\ ~(j <= p - 1)
    BY <1>1, <1>2
  <2> QED
    BY <1>5, <2>1, <2>2, <2>3, <2>4
<1> HIDE DEF c, d
<1>9. lru = a \o c
  <2> DEFINE l == a \o c
  <2>1. /\ l \in Seq(Chunks) /\ Len(l) = n
        /\ \A j \in 1..(p - 1) : l[j] = a[j]
        /\ \A j \in p..n : l[j] = c[j - (p - 1)]
    <3>1. /\ l \in Seq(Chunks) /\ Len(l) = Len(a) + Len(c)
          /\ \A j \in 1..Len(l) : l[j] = IF j <= Len(a) THEN a[j] ELSE c[j - Len(a)]
      <4>1. a \in Seq(Chunks) /\ c \in Seq(Chunks)
        BY <1>5, <1>7
      <4> QED
        BY <4>1, Joined
    <3> HIDE DEF l
    <3>2. Len(l) = n
      BY <1>1, <1>2, <1>5, <1>7, <3>1
    <3>3. \A j \in 1..(p - 1) : j \in 1..n /\ j <= p - 1
      BY <1>1, <1>2
    <3>4. \A j \in p..n : j \in 1..n /\ ~(j <= p - 1)
      BY <1>1, <1>2
    <3> QED
      BY <1>5, <3>1, <3>2, <3>3, <3>4
  <2> HIDE DEF l
  <2>2. ASSUME NEW j \in 1..n PROVE l[j] = lru[j]
    <3>1. CASE j < p
      <4>1. j \in 1..(p - 1)
        BY <1>1, <1>2, <3>1
      <4> QED
        BY <1>5, <2>1, <4>1
    <3>2. CASE j = p
      <4>1. j \in p..n /\ j - (p - 1) = 1
        BY <1>1, <1>2, <3>2
      <4> QED
        BY <1>3, <1>7, <2>1, <3>2, <4>1
    <3>3. CASE j > p
      <4>1. /\ j \in p..n /\ j - (p - 1) \in 2..(n - p + 1) /\ j - p \in 1..(n - p)
            /\ (j - (p - 1)) - 1 = j - p /\ p + (j - p) = j
        BY <1>1, <1>2, <3>3
      <4> QED
        BY <1>6, <1>7, <2>1, <4>1
    <3> QED
      BY <1>1, <1>2, <3>1, <3>2, <3>3
  <2>3. l = lru
    BY <1>1, <2>1, <2>2 DEF n
  <2> QED
    BY <2>3 DEF l
<1>10. /\ m \in Seq(Chunks) /\ Len(m) = n /\ m[1] = e
       /\ \A j \in 2..n : m[j] = d[j - 1]
  <2> DEFINE o == <<e>>
  <2>1. o \in Seq(Chunks) /\ Len(o) = 1 /\ o[1] = e
    BY <1>3
  <2>2. m = o \o d
    BY <1>4 DEF d
  <2> HIDE DEF o
  <2>3. /\ m \in Seq(Chunks) /\ Len(m) = 1 + Len(d)
        /\ \A j \in 1..Len(m) : m[j] = IF j <= 1 THEN o[j] ELSE d[j - 1]
    <3>1. d \in Seq(Chunks) /\ o \in Seq(Chunks)
      BY <1>8, <2>1
    <3>2. /\ m \in Seq(Chunks) /\ Len(m) = Len(o) + Len(d)
          /\ \A j \in 1..Len(m) : m[j] = IF j <= Len(o) THEN o[j] ELSE d[j - Len(o)]
      BY <2>2, <3>1, Joined
    <3> QED
      BY <2>1, <3>2
  <2>4. Len(m) = n
    BY <1>1, <1>8, <2>3
  <2>5. 1 \in 1..n /\ \A j \in 2..n : j \in 1..n /\ ~(j <= 1)
    BY <1>1, <1>2
  <2> QED
    BY <2>1, <2>3, <2>4, <2>5
<1>11. ASSUME NEW j \in 1..n PROVE m[j] = lru[IF j = 1 THEN p ELSE IF j <= p THEN j - 1 ELSE j]
  <2>1. CASE j = 1
    BY <1>3, <1>10, <2>1
  <2>2. CASE j # 1 /\ j <= p
    <3>1. j \in 2..n /\ j - 1 \in 1..(p - 1)
      BY <1>1, <1>2, <2>2
    <3> QED
      BY <1>5, <1>8, <1>10, <2>2, <3>1
  <2>3. CASE j # 1 /\ ~(j <= p)
    <3>1. /\ j \in 2..n /\ j - 1 \in p..(n - 1) /\ (j - 1) - (p - 1) = j - p /\ j - p \in 1..(n - p)
          /\ p + (j - p) = j
      BY <1>1, <1>2, <2>3
    <3> QED
      BY <1>6, <1>8, <1>10, <2>3, <3>1
  <2> QED
    BY <2>1, <2>2, <2>3
<1>12. \E x, y \in Seq(Chunks) : lru = x \o (<<e>> \o y) /\ m = <<e>> \o (x \o y)
  BY <1>4, <1>5, <1>6, <1>9, Zenon DEF c
<1> QED
  BY <1>2, <1>3, <1>10, <1>11, <1>12, Zenon DEF e, m, n

\* A chunk of the map is in the list, and moving it to the front loses none.
LEMMA FrontHolds ==
  ASSUME NEW w \in Nat, Holds(lru, cache, w), NEW i \in cache
  PROVE  Entry(i).ver = w /\ Holds(MoveToFront(i), cache, w)
<1> DEFINE m == MoveToFront(i)
           n == Len(lru)
<1>1. PICK p \in 1..n :
        /\ Entry(i) = lru[p] /\ m \in Seq(Chunks) /\ Len(m) = n
        /\ \A j \in 1..n : m[j] = lru[IF j = 1 THEN p ELSE IF j <= p THEN j - 1 ELSE j]
  BY FrontShape, Zenon
<1>2. n \in Nat /\ DOMAIN lru = 1..n /\ \A j \in 1..n : lru[j].ver = w
  BY DEF Holds
<1> HIDE DEF m, n
<1>3. DOMAIN m = 1..n
  BY <1>1, <1>2
<1>4. \A j \in 1..n : m[j].ver = w
  <2> TAKE j \in 1..n
  <2> DEFINE q == IF j = 1 THEN p ELSE IF j <= p THEN j - 1 ELSE j
  <2>1. q \in 1..n
    BY <1>1, <1>2
  <2> QED
    BY <1>1, <1>2, <2>1
<1>5. \A x \in cache : \E j \in DOMAIN m : m[j].idx = x
  <2> TAKE x \in cache
  <2>1. PICK q \in 1..n : lru[q].idx = x
    BY <1>2 DEF Holds
  <2> DEFINE j == IF q = p THEN 1 ELSE IF q < p THEN q + 1 ELSE q
  <2>2. j \in 1..n /\ (IF j = 1 THEN p ELSE IF j <= p THEN j - 1 ELSE j) = q
    BY <1>1, <1>2, <2>1
  <2>3. m[j] = lru[q]
    BY <1>1, <2>2
  <2> QED
    BY <1>3, <2>1, <2>2, <2>3
<1>6. Holds(m, cache, w)
  BY <1>1, <1>3, <1>4, <1>5 DEF Holds
<1> QED
  BY <1>1, <1>2, <1>6 DEF m

\* The list has each chunk of the map once; the byte count is theirs and within the budget.
Counted(s, c, n) ==
  /\ \A i, j \in DOMAIN s : s[i].idx = s[j].idx => i = j
  /\ c = {s[j].idx : j \in DOMAIN s}
  /\ n = Bytes(s)
  /\ Budget > 0 => n <= Budget \/ Len(s) = 1

\* An empty cache is counted so.
LEMMA EmptyCounted == Counted(<<>>, {}, 0)
<1>1. DOMAIN <<>> = {} /\ 0 = Bytes(<<>>) /\ (Budget > 0 => 0 <= Budget)
  BY BytesOne, ImageAssumption
<1> QED
  BY <1>1 DEF Counted

\* A list is its front part and the rest.
LEMMA Split ==
  ASSUME NEW s \in Seq(Chunks), NEW k \in 1..Len(s)
  PROVE  /\ SubSeq(s, 1, k) \in Seq(Chunks) /\ SubSeq(s, k + 1, Len(s)) \in Seq(Chunks)
         /\ s = SubSeq(s, 1, k) \o SubSeq(s, k + 1, Len(s))
<1> DEFINE n == Len(s)
           a == SubSeq(s, 1, k)
           b == SubSeq(s, k + 1, n)
           c == a \o b
<1>1. n \in Nat /\ k \in 1..n
  OBVIOUS
<1>2. a \in Seq(Chunks) /\ Len(a) = k /\ \A j \in 1..k : a[j] = s[j]
  BY <1>1
<1>3. b \in Seq(Chunks) /\ Len(b) = n - k /\ \A j \in 1..(n - k) : b[j] = s[k + j]
  <2>1. \A j \in (k + 1)..n : s[j] \in Chunks
    BY <1>1
  <2>2. b \in Seq(Chunks) /\ Len(b) = IF k + 1 <= n THEN n - (k + 1) + 1 ELSE 0
    BY <1>1, <2>1
  <2>3. \A j \in 1..(n - k) : b[j] = s[k + j]
    BY <1>1
  <2> HIDE DEF b, n
  <2> QED
    BY <1>1, <2>2, <2>3
<1> HIDE DEF a, b, n
<1>4. /\ c \in Seq(Chunks) /\ Len(c) = Len(a) + Len(b)
      /\ \A j \in 1..Len(c) : c[j] = IF j <= Len(a) THEN a[j] ELSE b[j - Len(a)]
  <2>1. a \in Seq(Chunks) /\ b \in Seq(Chunks)
    BY <1>2, <1>3
  <2> QED
    BY <2>1, Joined
<1> HIDE DEF c
<1>5. Len(c) = n
  BY <1>1, <1>2, <1>3, <1>4
<1>6. ASSUME NEW j \in 1..n PROVE c[j] = s[j]
  <2>1. CASE j <= k
    BY <1>1, <1>2, <1>4, <1>5, <2>1
  <2>2. CASE ~(j <= k)
    <3>1. j - k \in 1..(n - k) /\ k + (j - k) = j
      BY <1>1, <2>2
    <3> QED
      BY <1>2, <1>3, <1>4, <1>5, <2>2, <3>1
  <2> QED
    BY <2>1, <2>2
<1>7. s = c
  BY <1>4, <1>5, <1>6 DEF n
<1> QED
  BY <1>2, <1>3, <1>7 DEF a, b, c, n

\* Moving a chunk to the front keeps the count.
LEMMA FrontCounted ==
  ASSUME size \in Nat, NEW w \in Nat, Holds(lru, cache, w), Counted(lru, cache, resident), NEW i \in cache
  PROVE  Counted(MoveToFront(i), cache, resident)
<1> DEFINE m == MoveToFront(i)
           n == Len(lru)
           e == Entry(i)
           at(j, p) == IF j = 1 THEN p ELSE IF j <= p THEN j - 1 ELSE j
<1>1. PICK p \in 1..n :
        /\ e \in Chunks /\ m \in Seq(Chunks) /\ Len(m) = n
        /\ \A j \in 1..n : m[j] = lru[at(j, p)]
        /\ \E a, b \in Seq(Chunks) : lru = a \o (<<e>> \o b) /\ m = <<e>> \o (a \o b)
  BY FrontShape, Zenon
<1>2. n \in Nat /\ DOMAIN lru = 1..n
  BY DEF Holds
<1>3. Bytes(m) = Bytes(lru)
  <2>1. PICK a, b \in Seq(Chunks) : lru = a \o (<<e>> \o b) /\ m = <<e>> \o (a \o b)
    BY <1>1, Zenon
  <2> HIDE DEF e, m
  <2> DEFINE o == <<e>>
  <2>2. o \in Seq(Chunks) /\ o \o b \in Seq(Chunks) /\ a \o b \in Seq(Chunks)
    BY <1>1
  <2> HIDE DEF o
  <2>3. Bytes(o) \in Int /\ Bytes(a) \in Int /\ Bytes(b) \in Int
    BY <2>2, SumsExist, BytesSum
  <2>4. Bytes(lru) = Bytes(a) + (Bytes(o) + Bytes(b))
    BY <2>1, <2>2, BytesConcat, Zenon DEF o
  <2>5. Bytes(m) = Bytes(o) + (Bytes(a) + Bytes(b))
    BY <2>1, <2>2, BytesConcat, Zenon DEF o
  <2> QED
    BY <2>3, <2>4, <2>5
<1> HIDE DEF m, n, e
<1>4. DOMAIN m = 1..n
  BY <1>1, <1>2
<1>5. \A j \in 1..n : at(j, p) \in 1..n
  BY <1>1, <1>2
<1>6. \A j, k \in 1..n : at(j, p) = at(k, p) => j = k
  BY <1>1, <1>2
<1>7. \A q \in 1..n : \E j \in 1..n : at(j, p) = q
  <2> TAKE q \in 1..n
  <2> DEFINE j == IF q = p THEN 1 ELSE IF q < p THEN q + 1 ELSE q
  <2>1. j \in 1..n /\ at(j, p) = q
    BY <1>1, <1>2
  <2> QED
    BY <2>1
<1> HIDE DEF at
<1>8. \A j, k \in DOMAIN m : m[j].idx = m[k].idx => j = k
  <2> SUFFICES ASSUME NEW j \in 1..n, NEW k \in 1..n, m[j].idx = m[k].idx PROVE j = k
    BY <1>4
  <2>1. at(j, p) \in DOMAIN lru /\ at(k, p) \in DOMAIN lru
    BY <1>2, <1>5
  <2>2. lru[at(j, p)].idx = lru[at(k, p)].idx
    BY <1>1, Zenon
  <2>3. at(j, p) = at(k, p)
    BY <2>1, <2>2 DEF Counted
  <2> QED
    BY <1>6, <2>3
<1>9. cache = {m[j].idx : j \in DOMAIN m}
  <2>1. cache = {lru[q].idx : q \in 1..n}
    BY <1>2 DEF Counted
  <2>2. ASSUME NEW x \in cache PROVE x \in {m[j].idx : j \in 1..n}
    <3>1. PICK q \in 1..n : x = lru[q].idx
      BY <2>1
    <3>2. PICK j \in 1..n : at(j, p) = q
      BY <1>7
    <3> QED
      BY <1>1, <3>1, <3>2, Zenon
  <2>3. ASSUME NEW j \in 1..n PROVE m[j].idx \in cache
    BY <1>1, <1>5, <2>1, Zenon
  <2> QED
    BY <1>4, <2>2, <2>3
<1> QED
  BY <1>1, <1>3, <1>8, <1>9, Zenon DEF Counted, m, n

\* Inserting a chunk that is not there, and evicting the oldest, keeps the count.
LEMMA InsertCounted ==
  ASSUME size \in Nat, NEW w \in Nat, Holds(lru, cache, w), Counted(lru, cache, resident),
         NEW i \in Nat, i \notin cache, Insert(i, w)
  PROVE  Counted(lru', cache', resident')
<1> DEFINE e == [idx |-> i, ver |-> w]
           s == <<e>> \o lru
           total == resident + ChunkLen(i)
           keep == Kept(s, total)
           front == SubSeq(s, 1, keep)
           rest == SubSeq(s, keep + 1, Len(s))
<1>1. e \in Chunks /\ e.idx = i
  BY DEF Chunks
<1>2. lru \in Seq(Chunks) /\ Len(lru) \in Nat /\ DOMAIN lru = 1..Len(lru)
  BY DEF Holds
<1>3. /\ lru' = front /\ resident' = total - Bytes(rest)
      /\ cache' = (cache \cup {i}) \ {s[j].idx : j \in (keep + 1)..Len(s)}
  BY DEF Insert, Behind
<1> HIDE DEF e
<1>4. /\ s \in Seq(Chunks) /\ Len(s) = Len(lru) + 1 /\ s[1] = e
      /\ \A j \in 2..Len(s) : s[j] = lru[j - 1]
  BY <1>1, <1>2
<1>5. Bytes(s) = total
  <2>1. Bytes(<<e>>) = ChunkLen(i) /\ <<e>> \in Seq(Chunks)
    BY <1>1, BytesOne
  <2>2. Bytes(s) = Bytes(<<e>>) + Bytes(lru)
    BY <1>2, <2>1, BytesConcat, Zenon
  <2>3. ChunkLen(i) \in Int /\ Bytes(lru) \in Int /\ resident = Bytes(lru)
    BY <1>2, ChunkLenInt, SumsExist, BytesSum DEF Counted
  <2> QED
    BY <2>1, <2>2, <2>3
<1> HIDE DEF s, total
<1>6. keep \in 1..Len(s) /\ (Budget > 0 => keep = 1 \/ total - Bytes(rest) <= Budget)
  <2>1. s # <<>>
    BY <1>2, <1>4
  <2> QED
    BY <1>4, <2>1, KeptFacts DEF Behind
<1>7. Bytes(front) = total - Bytes(rest)
  <2>1. front \in Seq(Chunks) /\ rest \in Seq(Chunks) /\ s = front \o rest
    BY <1>4, <1>6, Split, Zenon
  <2> HIDE DEF front, rest
  <2>2. Bytes(s) = Bytes(front) + Bytes(rest)
    BY <2>1, BytesConcat
  <2>3. Bytes(front) \in Int /\ Bytes(rest) \in Int
    BY <2>1, SumsExist, BytesSum
  <2> QED
    BY <1>5, <2>2, <2>3
<1>8. /\ Len(front) = keep /\ DOMAIN front = 1..keep
      /\ \A j \in 1..keep : front[j] = s[j]
  <2> HIDE DEF keep
  <2> QED
    BY <1>4, <1>6
<1> HIDE DEF keep, front, rest
<1>9. Len(s) \in Nat
  BY <1>4
<1>10. \A j \in 2..Len(s) : s[j].idx \in cache
  <2> TAKE j \in 2..Len(s)
  <2>1. j - 1 \in DOMAIN lru /\ s[j] = lru[j - 1]
    BY <1>2, <1>4
  <2> QED
    BY <2>1 DEF Counted
<1>11. \A j, k \in 1..Len(s) : s[j].idx = s[k].idx => j = k
  <2> TAKE j, k \in 1..Len(s)
  <2>1. CASE j = 1 \/ k = 1
    <3>1. ASSUME NEW x \in 1..Len(s), x # 1 PROVE s[x].idx # i
      <4>1. x \in 2..Len(s)
        BY <1>9, <3>1
      <4> QED
        BY <1>10, <4>1
    <3> QED
      BY <1>1, <1>4, <2>1, <3>1
  <2>2. CASE j # 1 /\ k # 1
    <3>1. /\ j \in 2..Len(s) /\ k \in 2..Len(s) /\ j - 1 \in DOMAIN lru /\ k - 1 \in DOMAIN lru
          /\ (j - 1 = k - 1 => j = k)
      BY <1>2, <1>4, <2>2
    <3> QED
      BY <1>4, <3>1 DEF Counted
  <2> QED
    BY <2>1, <2>2
<1>12. \A j, k \in DOMAIN front : front[j].idx = front[k].idx => j = k
  <2>1. 1..keep \subseteq 1..Len(s)
    BY <1>6, <1>9
  <2> QED
    BY <1>8, <1>11, <2>1
<1>13. cache' = {front[j].idx : j \in DOMAIN front}
  <2>1. cache \cup {i} = {s[j].idx : j \in 1..Len(s)}
    <3>1. ASSUME NEW x \in cache PROVE x \in {s[j].idx : j \in 1..Len(s)}
      <4>1. PICK q \in DOMAIN lru : x = lru[q].idx
        BY DEF Counted
      <4>2. q + 1 \in 1..Len(s) /\ q + 1 \in 2..Len(s) /\ (q + 1) - 1 = q
        BY <1>2, <1>4
      <4>3. s[q + 1] = lru[q]
        BY <1>4, <4>2
      <4> QED
        BY <4>1, <4>2, <4>3
    <3>2. i \in {s[j].idx : j \in 1..Len(s)}
      <4>1. 1 \in 1..Len(s)
        BY <1>6
      <4> QED
        BY <1>1, <1>4, <4>1
    <3>3. ASSUME NEW j \in 1..Len(s) PROVE s[j].idx \in cache \cup {i}
      <4>1. j = 1 \/ j \in 2..Len(s)
        BY <1>9
      <4> QED
        BY <1>1, <1>4, <1>10, <4>1
    <3> QED
      BY <3>1, <3>2, <3>3
  <2>2. ASSUME NEW j \in 1..Len(s)
        PROVE  j \in 1..keep <=> s[j].idx \notin {s[k].idx : k \in (keep + 1)..Len(s)}
    <3>1. \A k \in (keep + 1)..Len(s) : k \in 1..Len(s) /\ k \notin 1..keep
      BY <1>6, <1>9
    <3>2. j \in 1..keep \/ j \in (keep + 1)..Len(s)
      BY <1>6, <1>9
    <3> QED
      BY <1>11, <3>1, <3>2
  <2>3. 1..keep \subseteq 1..Len(s)
    BY <1>6, <1>9
  <2>4. cache' = {s[j].idx : j \in 1..keep}
    BY <1>3, <2>1, <2>2, <2>3, Zenon
  <2> QED
    BY <1>8, <2>4
<1>14. resident' = Bytes(front) /\ (Budget > 0 => resident' <= Budget \/ Len(front) = 1)
  BY <1>3, <1>6, <1>7, <1>8
<1>15. Counted(front, cache', resident')
  BY <1>12, <1>13, <1>14 DEF Counted
<1> QED
  BY <1>3, <1>15

-----------------------------------------------------------------------------
(* The image.                                                              *)

\* The state of a reader: its read is as far as it says, and what it copied and fetched is
\* of the version known.
ReaderOK(k) ==
  /\ k \in Reads /\ ReadOK(k)
  /\ k.pc # "done" => k.err = "nil"
  /\ k.from \subseteq {known}
  /\ k.pc = "store" => k.ver = known

\* The inductive invariant.  Until the probe has succeeded there is nothing to be wrong;
\* from then on the version known does not change.
ImageInv ==
  /\ version \in 1..Versions
  /\ DOMAIN rd = Readers
  /\ IF open = "open"
     THEN known \in 1..Versions /\ Holds(lru, cache, known) /\ \A r \in Readers : ReaderOK(rd[r])
     ELSE lru = <<>> /\ cache = {} /\ rd = [r \in Readers |-> NoRead]

\* Nothing is read before the probe.
LEMMA ImageInit == Init => ImageInv
  BY ImageAssumption DEF Init, ImageInv

\* A reader that is not reading.
LEMMA NoReadOK == NoRead \in Reads /\ ReaderOK(NoRead)
<1>1. NoRead \in Reads
  BY DEF NoRead, Reads, Pcs
<1>2. NoRead.pc = "idle" /\ NoRead.err = "nil" /\ NoRead.from = {}
  BY DEF NoRead
<1> QED
  BY <1>1, <1>2 DEF ReaderOK, ReadOK

\* The size of the file is fixed with the version.
LEMMA SizeFixed ==
  ASSUME known \in 1..Versions
  PROVE  known \in Nat /\ size \in Nat
  BY ImageAssumption DEF size

\* A step of one reader that leaves the server alone, and the cache in order.
LEMMA ReaderStep ==
  ASSUME ImageInv, open = "open", UNCHANGED net, NEW r \in Readers, NEW k, ReaderOK(k),
         rd' = [rd EXCEPT ![r] = k], Holds(lru', cache', known)
  PROVE  ImageInv'
<1>1. \A q \in Readers : ReaderOK(rd'[q])
  BY DEF ImageInv
<1>2. UNCHANGED <<version, open, known>>
  BY DEF net
<1>3. ASSUME NEW q \in Readers PROVE ReaderOK(rd[q])'
  <2>1. ReaderOK(rd'[q])
    BY <1>1, Zenon
  <2>2. size' = size
    BY <1>2, Zenon DEF size
  <2>3. End(rd[q])' = End(rd'[q]) /\ Result(rd[q])' = Result(rd'[q])
    BY <2>2 DEF End, Result
  <2>4. (InChunk(rd[q])' <=> InChunk(rd'[q])) /\ (Underway(rd[q])' <=> Underway(rd'[q]))
    BY <2>2, <2>3, Zenon DEF InChunk, Underway
  <2>5. Finished(rd[q])' <=> Finished(rd'[q])
    BY <2>2, <2>3, <2>4, Zenon DEF Finished
  <2>6. ReadOK(rd[q])' <=> ReadOK(rd'[q])
    BY <2>4, <2>5, Zenon DEF ReadOK
  <2> QED
    BY <1>2, <2>1, <2>6, Zenon DEF ReaderOK
<1> QED
  BY <1>2, <1>3 DEF ImageInv, Holds

\* A reader that stays within its chunk, or gives up there.
LEMMA Stays ==
  ASSUME NEW k, ReaderOK(k), InChunk(k), NEW h \in Reads,
         h.off = k.off, h.len = k.len, h.pos = k.pos, h.n = k.n, h.from = k.from,
         IF h.pc = "done" THEN h.err = "failed" ELSE h.err = "nil",
         h.pc = "store" => h.ver = known
  PROVE  ReaderOK(h)
<1>1. InChunk(h)
  BY Zenon DEF InChunk, End
<1> QED
  BY <1>1 DEF ReaderOK, ReadOK, Finished

\* A failed read is short of what it was asked for.
LEMMA FailedOK ==
  ASSUME NEW k, ReaderOK(k), InChunk(k)
  PROVE  ReaderOK(Failed(k))
<1> DEFINE h == Failed(k)
<1>1. k \in Reads
  BY DEF ReaderOK
<1>2. /\ h \in Reads /\ h.off = k.off /\ h.len = k.len /\ h.pos = k.pos /\ h.n = k.n /\ h.from = k.from
      /\ h.pc = "done" /\ h.err = "failed"
  BY <1>1, Zenon DEF Failed, Reads, Pcs
<1> HIDE DEF h
<1>3. ReaderOK(h)
  BY <1>2, Stays
<1> QED
  BY <1>3 DEF h

\* Copying a chunk of the version known.
LEMMA CopyOK ==
  ASSUME known \in 1..Versions, NEW k, ReaderOK(k), k.err = "nil", InChunk(k)
  PROVE  ReaderOK(Copied(k, known))
<1>1. size \in Nat /\ known \in Nat /\ k \in Reads
  BY SizeFixed DEF ReaderOK
<1>2. /\ Copied(k, known) \in Reads /\ ReadOK(Copied(k, known))
      /\ Copied(k, known).from = k.from \cup {known} /\ Copied(k, known).pc \in {"lookup", "done"}
      /\ Copied(k, known).pc = "lookup" => Copied(k, known).err = "nil"
  BY <1>1, CopiedOK
<1> QED
  BY <1>2 DEF ReaderOK

\* The steps of a reader keep the invariant.
LEMMA WorkOK ==
  ASSUME ImageInv, NEW r \in Readers, Work(r)
  PROVE  ImageInv'
<1> DEFINE k == rd[r]
           i == Index(k.pos)
<1>1. k.pc \in {"lookup", "fetch", "backoff", "store"}
  BY DEF Work, Hit, Miss, Store, Fetched, Changed, FetchRetried, Resume, FetchFails
<1>2. open = "open"
  <2>1. open # "open" => k = NoRead
    BY DEF ImageInv
  <2> QED
    BY <1>1, <2>1 DEF NoRead
<1>3. /\ known \in 1..Versions /\ known \in Nat /\ Holds(lru, cache, known) /\ ReaderOK(k)
      /\ k \in Reads /\ InChunk(k) /\ k.err = "nil" /\ DOMAIN rd = Readers
  BY <1>1, <1>2, SizeFixed, Zenon DEF ImageInv, ReaderOK, ReadOK
<1>4. i \in Nat
  BY <1>3, IndexFacts, Zenon DEF Reads
<1> HIDE DEF i
<1>h. ASSUME UNCHANGED held PROVE Holds(lru', cache', known)
  BY <1>3, <1>h, Zenon DEF held
<1>5. CASE Hit(r)
  <2>1. i \in cache /\ lru' = MoveToFront(i) /\ cache' = cache /\ UNCHANGED net
        /\ rd' = [rd EXCEPT ![r] = Copied(k, Entry(i).ver)]
    BY <1>5 DEF Hit, i
  <2>2. Entry(i).ver = known /\ Holds(lru', cache', known)
    BY <1>3, <2>1, FrontHolds
  <2>3. ReaderOK(Copied(k, known))
    BY <1>3, CopyOK, Zenon
  <2> QED
    BY <1>2, <2>1, <2>2, <2>3, ReaderStep, Zenon
<1>6. CASE Miss(r) \/ Resume(r)
  <2> DEFINE h == [k EXCEPT !.pc = "fetch"]
  <2>1. UNCHANGED <<net, held>> /\ rd' = [rd EXCEPT ![r] = h]
    BY <1>6, <1>3 DEF Miss, Resume
  <2>2. /\ h \in Reads /\ h.off = k.off /\ h.len = k.len /\ h.pos = k.pos /\ h.n = k.n
        /\ h.from = k.from /\ h.pc = "fetch" /\ h.err = "nil"
    BY <1>3 DEF Reads, Pcs
  <2> HIDE DEF h, k
  <2>3. ReaderOK(h)
    BY <1>3, <2>2, Stays
  <2> QED
    BY <1>2, <1>h, <2>1, <2>3, ReaderStep, Zenon
<1>7. CASE Store(r)
  <2>1. CASE /\ i \in cache /\ lru' = MoveToFront(i) /\ cache' = cache /\ UNCHANGED net
             /\ rd' = [rd EXCEPT ![r] = Copied(k, Entry(i).ver)]
    <3>1. Entry(i).ver = known /\ Holds(lru', cache', known)
      BY <1>3, <2>1, FrontHolds
    <3>2. ReaderOK(Copied(k, known))
      BY <1>3, CopyOK
    <3> QED
      BY <1>2, <2>1, <3>1, <3>2, ReaderStep, Zenon
  <2>2. CASE Insert(i, k.ver) /\ UNCHANGED net /\ rd' = [rd EXCEPT ![r] = Copied(k, k.ver)]
    <3>1. k.ver = known
      BY <1>3, <1>7, Zenon DEF Store, ReaderOK
    <3>2. Holds(lru', cache', known)
      BY <1>3, <1>4, <2>2, <3>1, InsertHolds
    <3>3. ReaderOK(Copied(k, known))
      BY <1>3, CopyOK
    <3> QED
      BY <1>2, <2>2, <3>1, <3>2, <3>3, ReaderStep, Zenon
  <2> QED
    BY <1>7, <2>1, <2>2, Zenon DEF Store, i
<1>8. CASE Fetched(r)
  <2> DEFINE v == IF useStore THEN known ELSE version
             h == [k EXCEPT !.pc = "store", !.ver = v]
  <2>1. UNCHANGED <<net, held>> /\ rd' = [rd EXCEPT ![r] = h] /\ (useStore \/ Same(version))
    BY <1>3, <1>8, Zenon DEF Fetched
  <2>2. v = known
    BY <1>3, <2>1, TagsAssumption DEF ImageInv, Same
  <2> HIDE DEF v
  <2>3. /\ h \in Reads /\ h.off = k.off /\ h.len = k.len /\ h.pos = k.pos /\ h.n = k.n
        /\ h.from = k.from /\ h.pc = "store" /\ h.err = "nil" /\ h.ver = known
    BY <1>3, <2>2, Zenon DEF Reads, Pcs
  <2> HIDE DEF h, k
  <2>4. ReaderOK(h)
    BY <1>3, <2>3, Stays
  <2> QED
    BY <1>2, <1>h, <2>1, <2>4, ReaderStep, Zenon
<1>9. CASE Changed(r) \/ FetchFails(r)
  <2>1. UNCHANGED <<net, held>> /\ rd' = [rd EXCEPT ![r] = Failed(k)]
    BY <1>9 DEF Changed, FetchFails
  <2> QED
    BY <1>2, <1>3, <1>h, <2>1, FailedOK, ReaderStep, Zenon
<1>10. CASE FetchRetried(r)
  <2>1. UNCHANGED <<net, held>> /\ rd' = [rd EXCEPT ![r] = AfterFailure(k)]
    BY <1>10 DEF FetchRetried
  <2>2. ReaderOK(AfterFailure(k))
    <3>1. CASE k.try + 1 >= Attempts
      BY <1>3, <3>1, FailedOK DEF AfterFailure
    <3>2. CASE ~(k.try + 1 >= Attempts)
      <4> DEFINE t == k.try + 1
                 h == [k EXCEPT !.pc = "backoff", !.try = t]
      <4>1. AfterFailure(k) = h
        BY <3>2 DEF AfterFailure
      <4>t. t \in Nat
        BY <1>3 DEF Reads
      <4> HIDE DEF t
      <4>2. /\ h \in Reads /\ h.off = k.off /\ h.len = k.len /\ h.pos = k.pos /\ h.n = k.n
            /\ h.from = k.from /\ h.pc = "backoff" /\ h.err = "nil"
        BY <1>3, <4>t, Zenon DEF Reads, Pcs
      <4> HIDE DEF h, k
      <4> QED
        BY <1>3, <4>1, <4>2, Stays
    <3> QED
      BY <3>1, <3>2
  <2> QED
    BY <1>2, <1>h, <2>1, <2>2, ReaderStep, Zenon
<1> QED
  BY <1>5, <1>6, <1>7, <1>8, <1>9, <1>10 DEF Work

\* Every step keeps the invariant: replacing the file, probing it and reading it.
LEMMA ImageNext == ImageInv /\ [Next]_vars => ImageInv'
<1> SUFFICES ASSUME ImageInv, [Next]_vars PROVE ImageInv'
  OBVIOUS
<1>1. CASE Replace
  <2>1. version' \in 1..Versions /\ UNCHANGED <<open, known, held, rd>>
    BY <1>1, ImageAssumption DEF Replace, ImageInv
  <2>2. ASSUME NEW r \in Readers, ReaderOK(rd[r]) PROVE ReaderOK(rd[r])'
    BY <2>1, <2>2, Zenon DEF ReaderOK, ReadOK, InChunk, Finished, Underway, Result, End, size
  <2> QED
    BY <2>1, <2>2 DEF ImageInv, Holds, held
<1>2. CASE ProbeAnswered
  <2>1. open # "open" /\ open' = "open" /\ known' = version /\ UNCHANGED <<version, held, rd>>
    BY <1>2 DEF ProbeAnswered
  <2>2. lru' = <<>> /\ cache' = {} /\ rd' = [r \in Readers |-> NoRead] /\ known' \in 1..Versions
    BY <2>1 DEF ImageInv, held
  <2>3. Holds(lru, cache, known)'
    BY <2>2 DEF Holds
  <2>4. ASSUME NEW r \in Readers PROVE ReaderOK(rd[r])'
    <3>1. NoRead.pc = "idle" /\ NoRead.err = "nil" /\ NoRead.from = {} /\ rd'[r] = NoRead
      BY <2>2, Zenon DEF NoRead
    <3> QED
      BY <3>1, NoReadOK DEF ReaderOK, ReadOK
  <2> QED
    BY <2>1, <2>2, <2>3, <2>4 DEF ImageInv
<1>3. CASE ProbeRetried \/ ProbeRefused
  BY <1>3 DEF ProbeRetried, ProbeRefused, ImageInv, held
<1>4. ASSUME NEW r \in Readers, BeginRead(r) PROVE ImageInv'
  <2>1. PICK off \in Offsets, len \in Lengths :
          rd' = [rd EXCEPT ![r] = Continue([NoRead EXCEPT !.off = off, !.len = len, !.pos = off])]
    BY <1>4, Zenon DEF BeginRead
  <2>2. open = "open" /\ UNCHANGED <<net, held>> /\ known \in 1..Versions /\ size \in Nat
    BY <1>4, SizeFixed DEF BeginRead, ImageInv
  <2> DEFINE h == [NoRead EXCEPT !.off = off, !.len = len, !.pos = off]
  <2>3. off \in Nat /\ len \in Nat
    BY ImageAssumption
  <2>4. /\ h \in Reads /\ h.off = off /\ h.len = len /\ h.pos = off /\ h.n = 0
        /\ h.from = {} /\ h.err = "nil"
    BY <2>3, Zenon DEF NoRead, Reads, Pcs
  <2> HIDE DEF h
  <2>5. Underway(h)
    BY <2>2, <2>3, <2>4 DEF Underway, End
  <2>6. /\ Continue(h) \in Reads /\ ReadOK(Continue(h))
        /\ Continue(h).from = {} /\ Continue(h).pc \in {"lookup", "done"}
        /\ Continue(h).pc = "lookup" => Continue(h).err = "nil"
    BY <2>2, <2>4, <2>5, ContinueOK
  <2>7. ReaderOK(Continue(h))
    BY <2>6 DEF ReaderOK
  <2>8. Holds(lru', cache', known)
    BY <2>2 DEF ImageInv, held
  <2> QED
    BY <2>1, <2>2, <2>7, <2>8, ReaderStep, Zenon DEF h
<1>5. ASSUME NEW r \in Readers, Return(r) PROVE ImageInv'
  <2>1. rd' = [rd EXCEPT ![r] = NoRead] /\ UNCHANGED <<net, held>>
    BY <1>5 DEF Return
  <2>2. open = "open"
    BY <1>5 DEF Return, ImageInv, NoRead
  <2>3. Holds(lru', cache', known)
    BY <2>1, <2>2 DEF ImageInv, held
  <2> QED
    BY <2>1, <2>2, <2>3, NoReadOK, ReaderStep, Zenon
<1>6. CASE UNCHANGED vars
  <2>1. UNCHANGED <<version, open, known, lru, cache, rd>>
    BY <1>6 DEF vars, net, held
  <2>2. ASSUME NEW r \in Readers, ReaderOK(rd[r]) PROVE ReaderOK(rd[r])'
    BY <2>1, <2>2, Zenon DEF ReaderOK, ReadOK, InChunk, Finished, Underway, Result, End, size
  <2> QED
    BY <2>1, <2>2 DEF ImageInv, Holds
<1> QED
  BY <1>1, <1>2, <1>3, <1>4, <1>5, <1>6, WorkOK DEF Next, Probe

\* However often the file is replaced, and whatever is fetched or cached by whom, every
\* byte is of the version the probe saw (rangeReader.validate, ErrChanged).
THEOREM ImageOfOneVersion == Spec => []OneVersion
<1>1. ImageInv => OneVersion
  <2> SUFFICES ASSUME ImageInv, NEW v \in {e.ver : e \in Range(lru)} \cup UNION {rd[r].from : r \in Readers}
               PROVE  v = known
    BY DEF OneVersion
  <2>1. CASE open = "open"
    <3>1. CASE v \in {e.ver : e \in Range(lru)}
      BY <2>1, <3>1 DEF Range, ImageInv, Holds
    <3>2. CASE v \in UNION {rd[r].from : r \in Readers}
      <4>1. PICK r \in Readers : v \in rd[r].from
        BY <3>2, Zenon
      <4>2. ReaderOK(rd[r])
        BY <2>1, Zenon DEF ImageInv
      <4> QED
        BY <4>1, <4>2, Zenon DEF ReaderOK
    <3> QED
      BY <3>1, <3>2
  <2>2. CASE open # "open"
    <3>1. Range(lru) = {}
      BY <2>2 DEF ImageInv, Range
    <3>2. \A r \in Readers : rd[r].from = {}
      BY <2>2 DEF ImageInv, NoRead
    <3> QED
      BY <3>1, <3>2, Zenon
  <2> QED
    BY <2>1, <2>2
<1> QED
  BY <1>1, ImageInit, ImageNext, PTL DEF Spec

\* The bytes there are for a read.
LEMMA There ==
  ASSUME size \in Nat, NEW k \in Reads
  PROVE  Cardinality({b \in k.off..(k.off + k.len - 1) : b < size})
           = IF k.off < size THEN End(k) - k.off ELSE 0
<1>1. k.off \in Nat /\ k.len \in Nat
  BY DEF Reads
<1>2. End(k) \in Nat /\ End(k) - 1 \in Int
  BY <1>1 DEF End
<1>3. {b \in k.off..(k.off + k.len - 1) : b < size} = k.off..(End(k) - 1)
  BY <1>1 DEF End
<1> DEFINE a == k.off
           z == End(k) - 1
           count == Cardinality(a..z)
<1>4. count = IF a > z THEN 0 ELSE z - a + 1
  <2>1. a \in Int /\ z \in Int
    BY <1>1, <1>2
  <2> HIDE DEF a, z
  <2> QED
    BY <2>1, FS_Interval
<1>5. Cardinality({b \in k.off..(k.off + k.len - 1) : b < size}) = count
  BY <1>3, Zenon
<1> HIDE DEF count
<1>6. count = IF k.off < size THEN End(k) - k.off ELSE 0
  BY <1>1, <1>2, <1>4 DEF End
<1> QED
  BY <1>5, <1>6

\* Every read keeps the contract of io.ReaderAt: all the bytes there are, EOF exactly when
\* they are fewer than asked for, and a short count with an error (cachingReaderAt.ReadAt).
THEOREM ReadsKeepTheContract == Spec => []ReadContract
<1>1. ImageInv => ReadContract
  <2> SUFFICES ASSUME ImageInv, NEW r \in Readers, rd[r].pc = "done"
               PROVE  LET k == rd[r]
                          there == Cardinality({b \in k.off..(k.off + k.len - 1) : b < size})
                      IN  IF k.err = "failed" THEN k.n < there
                          ELSE /\ k.n = there
                               /\ k.err = "eof" <=> k.off >= size \/ there < k.len
    BY DEF ReadContract
  <2> DEFINE k == rd[r]
             there == Cardinality({b \in k.off..(k.off + k.len - 1) : b < size})
  <2>1. open = "open"
    BY DEF ImageInv, NoRead
  <2>2. size \in Nat /\ k \in Reads /\ Finished(k)
    BY <2>1, SizeFixed DEF ImageInv, ReaderOK, ReadOK
  <2>3. there = IF k.off < size THEN End(k) - k.off ELSE 0
    BY <2>2, There
  <2>4. k.off \in Nat /\ k.len \in Nat /\ k.n \in Nat /\ k.pos \in Nat
    BY <2>2 DEF Reads
  <2> HIDE DEF k, there
  <2>5. CASE k.err = "failed"
    <3>1. k.n < there
      BY <2>2, <2>3, <2>4, <2>5 DEF Finished, InChunk, End
    <3> QED
      BY <2>5, <3>1, Zenon DEF k, there
  <2>6. CASE k.err # "failed"
    <3>1. k.n = there /\ k.err = Result(k)
      BY <2>2, <2>3, <2>4, <2>6 DEF Finished, Underway, End
    <3>2. k.err = "eof" <=> k.off >= size \/ there < k.len
      BY <3>1 DEF Result
    <3> QED
      BY <2>6, <3>1, <3>2 DEF k, there
  <2> QED
    BY <2>5, <2>6, Zenon
<1> QED
  BY <1>1, ImageInit, ImageNext, PTL DEF Spec

-----------------------------------------------------------------------------
(* The bounds.                                                             *)

\* The cache is counted, and no request has used up its attempts.  With ImageInv this is
\* inductive.
BoundInv ==
  /\ Counted(lru, cache, resident)
  /\ tries \in Nat /\ (open # "failed" => tries < Attempts)
  /\ \A r \in Readers : rd[r].try < Attempts

\* Nothing is cached or tried at first.
LEMMA BoundInit == Init => BoundInv
<1> SUFFICES ASSUME Init PROVE BoundInv
  OBVIOUS
<1>1. Counted(lru, cache, resident)
  BY EmptyCounted DEF Init
<1>2. 0 \in Nat /\ 0 < Attempts
  BY ImageAssumption
<1> QED
  BY <1>1, <1>2 DEF Init, BoundInv, NoRead

\* What the cache holds is counted alike before and after a step that keeps the version known.
LEMMA CountedNext ==
  ASSUME known' = known, Counted(lru', cache', resident')
  PROVE  Counted(lru, cache, resident)'
  BY DEF Counted, Bytes, ChunkLen, size

\* A step of one reader that leaves the server alone, and the cache in order.
LEMMA BoundStep ==
  ASSUME BoundInv, DOMAIN rd = Readers, UNCHANGED net, NEW r \in Readers, NEW k, k.try < Attempts,
         rd' = [rd EXCEPT ![r] = k], Counted(lru', cache', resident')
  PROVE  BoundInv'
<1>1. UNCHANGED <<open, known, tries>>
  BY DEF net
<1>2. Counted(lru, cache, resident)'
  BY <1>1, CountedNext
<1>3. \A q \in Readers : rd'[q].try < Attempts
  BY DEF BoundInv
<1> QED
  BY <1>1, <1>2, <1>3 DEF BoundInv

\* The steps of a reader keep the bounds: a racing duplicate is not inserted, and the attempt
\* that would be one too many ends the read.
LEMMA WorkBound ==
  ASSUME ImageInv, BoundInv, NEW r \in Readers, Work(r)
  PROVE  BoundInv'
<1> DEFINE k == rd[r]
           i == Index(k.pos)
<1>1. k.pc \in {"lookup", "fetch", "backoff", "store"}
  BY DEF Work, Hit, Miss, Store, Fetched, Changed, FetchRetried, Resume, FetchFails
<1>2. open = "open"
  <2>1. open # "open" => k = NoRead
    BY DEF ImageInv
  <2> QED
    BY <1>1, <2>1 DEF NoRead
<1>3. /\ known \in Nat /\ size \in Nat /\ Holds(lru, cache, known) /\ ReaderOK(k)
      /\ k \in Reads /\ InChunk(k) /\ k.err = "nil" /\ DOMAIN rd = Readers
      /\ Counted(lru, cache, resident) /\ k.try < Attempts
  BY <1>1, <1>2, SizeFixed, Zenon DEF ImageInv, ReaderOK, ReadOK, BoundInv
<1>4. i \in Nat
  BY <1>3, IndexFacts, Zenon DEF Reads
<1>5. 0 < Attempts /\ k.try \in Nat
  BY <1>3, ImageAssumption DEF Reads
<1>6. ASSUME NEW v \in Nat PROVE Copied(k, v).try < Attempts
  BY <1>3, <1>5, CopiedOK, Zenon
<1>7. ASSUME UNCHANGED held PROVE Counted(lru', cache', resident')
  BY <1>3, <1>7 DEF held
<1>8. ASSUME i \in cache PROVE Entry(i).ver \in Nat
  <2>1. Entry(i).ver = known
    BY <1>3, <1>8, FrontHolds, Zenon
  <2> QED
    BY <1>3, <2>1
<1> HIDE DEF i
<1>9. CASE Hit(r)
  <2>1. i \in cache /\ lru' = MoveToFront(i) /\ cache' = cache /\ resident' = resident /\ UNCHANGED net
        /\ rd' = [rd EXCEPT ![r] = Copied(k, Entry(i).ver)]
    BY <1>9 DEF Hit, i
  <2>2. Counted(lru', cache', resident')
    BY <1>3, <2>1, FrontCounted
  <2> QED
    BY <1>3, <1>6, <1>8, <2>1, <2>2, BoundStep, Zenon
<1>10. CASE Miss(r) \/ Resume(r)
  <2> DEFINE h == [k EXCEPT !.pc = "fetch"]
  <2>1. UNCHANGED <<net, held>> /\ rd' = [rd EXCEPT ![r] = h]
    BY <1>10, <1>3 DEF Miss, Resume
  <2>2. h.try < Attempts
    BY <1>3 DEF Reads
  <2> HIDE DEF h
  <2> QED
    BY <1>3, <1>7, <2>1, <2>2, BoundStep, Zenon
<1>11. CASE Store(r)
  <2>1. CASE /\ i \in cache /\ lru' = MoveToFront(i) /\ cache' = cache /\ resident' = resident
             /\ UNCHANGED net /\ rd' = [rd EXCEPT ![r] = Copied(k, Entry(i).ver)]
    <3>1. Counted(lru', cache', resident')
      BY <1>3, <2>1, FrontCounted
    <3> QED
      BY <1>3, <1>6, <1>8, <2>1, <3>1, BoundStep, Zenon
  <2>2. CASE i \notin cache /\ Insert(i, k.ver) /\ UNCHANGED net /\ rd' = [rd EXCEPT ![r] = Copied(k, k.ver)]
    <3>1. k.ver = known
      BY <1>3, <1>11, Zenon DEF Store, ReaderOK
    <3>2. Counted(lru', cache', resident')
      BY <1>3, <1>4, <2>2, <3>1, InsertCounted
    <3> QED
      BY <1>3, <1>6, <2>2, <3>1, <3>2, BoundStep, Zenon
  <2> QED
    BY <1>11, <2>1, <2>2, Zenon DEF Store, i
<1>12. CASE Fetched(r)
  <2> DEFINE v == IF useStore THEN known ELSE version
             h == [k EXCEPT !.pc = "store", !.ver = v]
  <2>1. UNCHANGED <<net, held>> /\ rd' = [rd EXCEPT ![r] = h]
    BY <1>3, <1>12, Zenon DEF Fetched
  <2> HIDE DEF v
  <2>2. h.try < Attempts
    BY <1>3 DEF Reads
  <2> HIDE DEF h
  <2> QED
    BY <1>3, <1>7, <2>1, <2>2, BoundStep, Zenon
<1>13. Failed(k).try < Attempts
  BY <1>3, <1>5 DEF Failed, Reads
<1>14. CASE Changed(r) \/ FetchFails(r)
  <2>1. UNCHANGED <<net, held>> /\ rd' = [rd EXCEPT ![r] = Failed(k)]
    BY <1>14 DEF Changed, FetchFails
  <2> QED
    BY <1>3, <1>7, <1>13, <2>1, BoundStep, Zenon
<1>15. CASE FetchRetried(r)
  <2>1. UNCHANGED <<net, held>> /\ rd' = [rd EXCEPT ![r] = AfterFailure(k)]
    BY <1>15 DEF FetchRetried
  <2>2. AfterFailure(k).try < Attempts
    <3>1. CASE k.try + 1 >= Attempts
      BY <1>13, <3>1 DEF AfterFailure
    <3>2. CASE ~(k.try + 1 >= Attempts)
      <4>1. AfterFailure(k) = [k EXCEPT !.pc = "backoff", !.try = k.try + 1]
        BY <3>2 DEF AfterFailure
      <4>2. AfterFailure(k).try = k.try + 1
        BY <1>3, <4>1 DEF Reads
      <4> QED
        BY <1>5, <3>2, <4>2, ImageAssumption
    <3> QED
      BY <3>1, <3>2
  <2> QED
    BY <1>3, <1>7, <2>1, <2>2, BoundStep, Zenon
<1> QED
  BY <1>9, <1>10, <1>11, <1>12, <1>14, <1>15 DEF Work

\* Every step keeps the bounds.
LEMMA BoundNext == ImageInv /\ BoundInv /\ [Next]_vars => BoundInv'
<1> SUFFICES ASSUME ImageInv, BoundInv, [Next]_vars PROVE BoundInv'
  OBVIOUS
<1>1. ASSUME lru = <<>>, cache = {}, UNCHANGED held PROVE Counted(lru, cache, resident)'
  <2>1. resident = 0
    BY <1>1, BytesOne DEF BoundInv, Counted
  <2>2. Counted(<<>>, {}, 0)'
    BY EmptyCounted, PTL
  <2>3. lru' = <<>> /\ cache' = {} /\ resident' = 0
    BY <1>1, <2>1 DEF held
  <2> QED
    BY <2>2, <2>3 DEF Counted, Bytes
<1>2. ASSUME UNCHANGED <<known, held>> PROVE Counted(lru, cache, resident)'
  BY <1>2, CountedNext DEF BoundInv, held
<1>3. ASSUME open # "open" PROVE lru = <<>> /\ cache = {}
  BY <1>3 DEF ImageInv
<1>4. CASE Replace
  BY <1>2, <1>4 DEF Replace, BoundInv
<1>5. CASE ProbeAnswered
  <2>1. open # "open" /\ open # "failed" /\ UNCHANGED <<tries, held, rd>>
    BY <1>5 DEF ProbeAnswered
  <2> QED
    BY <1>1, <1>3, <2>1 DEF BoundInv
<1>6. CASE ProbeRetried
  <2>1. /\ open # "open" /\ open # "failed" /\ UNCHANGED <<held, rd>> /\ tries' = tries + 1
        /\ (tries' >= Attempts => open' = "failed")
    BY <1>6 DEF ProbeRetried
  <2>2. tries' \in Nat /\ (open' # "failed" => tries' < Attempts)
    BY <2>1, ImageAssumption DEF BoundInv
  <2> QED
    BY <1>1, <1>3, <2>1, <2>2 DEF BoundInv
<1>7. CASE ProbeRefused
  <2>1. open # "open" /\ open' = "failed" /\ UNCHANGED <<tries, held, rd>>
    BY <1>7 DEF ProbeRefused
  <2> QED
    BY <1>1, <1>3, <2>1 DEF BoundInv
<1>8. ASSUME NEW r \in Readers, BeginRead(r) PROVE BoundInv'
  <2>1. PICK off \in Offsets, len \in Lengths :
          rd' = [rd EXCEPT ![r] = Continue([NoRead EXCEPT !.off = off, !.len = len, !.pos = off])]
    BY <1>8, Zenon DEF BeginRead
  <2>2. open = "open" /\ UNCHANGED <<net, held>> /\ size \in Nat /\ DOMAIN rd = Readers
    BY <1>8, SizeFixed DEF BeginRead, ImageInv
  <2> DEFINE h == [NoRead EXCEPT !.off = off, !.len = len, !.pos = off]
  <2>3. off \in Nat /\ len \in Nat /\ 0 < Attempts
    BY ImageAssumption
  <2>4. /\ h \in Reads /\ h.off = off /\ h.len = len /\ h.pos = off /\ h.n = 0
        /\ h.from = {} /\ h.err = "nil"
    BY <2>3, Zenon DEF NoRead, Reads, Pcs
  <2> HIDE DEF h
  <2>5. Underway(h)
    BY <2>2, <2>3, <2>4 DEF Underway, End
  <2>6. Continue(h).try < Attempts
    BY <2>2, <2>3, <2>4, <2>5, ContinueOK
  <2>7. Counted(lru', cache', resident')
    BY <2>2 DEF BoundInv, held
  <2> QED
    BY <2>1, <2>2, <2>6, <2>7, BoundStep, Zenon DEF h
<1>9. ASSUME NEW r \in Readers, Return(r) PROVE BoundInv'
  <2>1. rd' = [rd EXCEPT ![r] = NoRead] /\ UNCHANGED <<net, held>> /\ DOMAIN rd = Readers
    BY <1>9 DEF Return, ImageInv
  <2>2. NoRead.try < Attempts
    BY ImageAssumption DEF NoRead
  <2>3. Counted(lru', cache', resident')
    BY <2>1 DEF BoundInv, held
  <2> QED
    BY <2>1, <2>2, <2>3, BoundStep, Zenon
<1>10. CASE UNCHANGED vars
  <2>1. UNCHANGED <<open, known, tries, held, rd>>
    BY <1>10 DEF vars, net
  <2> QED
    BY <1>2, <2>1 DEF BoundInv
<1> QED
  BY <1>4, <1>5, <1>6, <1>7, <1>8, <1>9, <1>10, WorkBound DEF Next, Probe

\* A list with each chunk once is as long as the map it indexes is large.
LEMMA CountedSize ==
  ASSUME NEW s \in Seq(Chunks), NEW c, NEW n, Counted(s, c, n)
  PROVE  c = {e.idx : e \in Range(s)} /\ Len(s) = Cardinality(c)
<1>1. Len(s) \in Nat /\ DOMAIN s = 1..Len(s)
  OBVIOUS
<1>2. c = {e.idx : e \in Range(s)}
  BY DEF Counted, Range
<1> DEFINE f == [j \in 1..Len(s) |-> s[j].idx]
<1>3. f \in Bijection(1..Len(s), c)
  <2>1. f \in Surjection(1..Len(s), c)
    BY <1>1 DEF Counted, Surjection
  <2>2. f \in Injection(1..Len(s), c)
    <3>1. f \in [1..Len(s) -> c]
      BY <1>1 DEF Counted
    <3>2. \A j, k \in 1..Len(s) : f[j] = f[k] => j = k
      BY <1>1 DEF Counted
    <3> QED
      BY <3>1, <3>2 DEF Injection, IsInjective
  <2> QED
    BY <2>1, <2>2 DEF Bijection
<1>4. ExistsBijection(1..Len(s), c)
  BY <1>3 DEF ExistsBijection
<1>5. Cardinality(c) = Len(s)
  BY <1>1, <1>4, FS_CountingElements
<1> QED
  BY <1>2, <1>5

\* The map, the list and the byte count describe one set of chunks, for every number of
\* readers that fetch with the lock released (cachingReaderAt.chunk, storeChunk, evictLocked).
THEOREM CacheStaysIndexed == Spec => []CacheIndexed
<1>1. ImageInv /\ BoundInv => CacheIndexed
  <2> SUFFICES ASSUME ImageInv, BoundInv PROVE CacheIndexed
    OBVIOUS
  <2>1. lru \in Seq(Chunks)
    <3>1. lru \in Seq(Chunks) \/ lru = <<>>
      BY DEF ImageInv, Holds
    <3>2. <<>> \in Seq(Chunks)
      OBVIOUS
    <3> QED
      BY <3>1, <3>2, Zenon
  <2>2. Counted(lru, cache, resident)
    BY DEF BoundInv
  <2>3. cache = {e.idx : e \in Range(lru)} /\ Len(lru) = Cardinality(cache)
    BY <2>1, <2>2, CountedSize
  <2>4. resident = Bytes(lru)
    BY <2>2 DEF Counted
  <2> QED
    BY <2>3, <2>4 DEF CacheIndexed
<1> QED
  BY <1>1, ImageInit, ImageNext, BoundInit, BoundNext, PTL DEF Spec

\* The cache keeps its budget, or the one chunk being served, and every request its attempts
\* (evictLocked, rangeReader's retry), whatever the chunk size, the budget and the readers.
THEOREM CacheKeepsItsBudget == Spec => []WithinBudget
<1>1. BoundInv => WithinBudget
  BY DEF BoundInv, WithinBudget, Counted
<1> QED
  BY <1>1, ImageInit, ImageNext, BoundInit, BoundNext, PTL DEF Spec
====
