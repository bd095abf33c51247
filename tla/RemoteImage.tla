---------------------------- MODULE RemoteImage ----------------------------
(***************************************************************************)
(* A disc image read over HTTP (internal/source): rangeReader probes the   *)
(* object once, remembers its identity and retries each range request;     *)
(* cachingReaderAt keeps aligned chunks in a least-recently-used cache     *)
(* that many goroutines read at once.  The file on the server may be       *)
(* replaced at any time.                                                   *)
(*                                                                         *)
(* A byte is its position and the version of the file it comes from.       *)
(***************************************************************************)
EXTENDS Integers, Sequences, FiniteSets, FiniteSetsExt

CONSTANTS
  Readers,      \* goroutines that read the image
  Versions,     \* versions of the file, in the order 1..n they replace each other
  Size,         \* Size[v], the length of version v
  Tag,          \* Tag[v], the ETag and Last-Modified of version v
  Chunk,        \* bytes in a chunk
  Budget,       \* bytes the cache may hold; 0 for no bound
  Attempts,     \* tries per range request
  Offsets, Lengths   \* what is read

ASSUME ImageAssumption ==
  /\ Chunk \in Nat \ {0} /\ Budget \in Nat /\ Attempts \in Nat \ {0}
  /\ Versions \in Nat \ {0}
  /\ Size \in [1..Versions -> Nat]
  /\ Offsets \subseteq Nat /\ Lengths \subseteq Nat

\* Two versions of the same length carry different tags: what validate relies on.
ASSUME TagsAssumption ==
  \A v, w \in 1..Versions : v # w => Size[v] # Size[w] \/ Tag[v] # Tag[w]

VARIABLES
  version,    \* the version on the server now
  open,       \* "probing", "open" or "failed": newRangeReader
  known,      \* the version whose size and tags rangeReader remembers, 0 for none
  useStore,   \* the server ignores ranges: version known is in the cacheStore
  tries,      \* attempts of the probe so far
  lru,        \* the cached chunks, most recently used first
  cache,      \* the chunk numbers in the map
  resident,   \* bytes held
  rd          \* what each reader is doing

net == <<version, open, known, useStore, tries>>
held == <<lru, cache, resident>>
vars == <<net, held, rd>>

\* off and len are the call's, pos and n its progress, try the failed attempts at
\* the current chunk, ver the version fetched, from the versions copied so far.
NoRead == [pc |-> "idle", off |-> 0, len |-> 0, pos |-> 0, n |-> 0, try |-> 0,
           ver |-> 0, from |-> {}, err |-> "nil"]

Init ==
  /\ version = 1
  /\ open = "probing" /\ known = 0 /\ useStore = FALSE /\ tries = 0
  /\ lru = <<>> /\ cache = {} /\ resident = 0
  /\ rd = [r \in Readers |-> NoRead]

\* The file on the server is replaced (external).
Replace ==
  /\ version < Versions
  /\ version' = version + 1
  /\ UNCHANGED <<open, known, useStore, tries, held, rd>>

-----------------------------------------------------------------------------
(* newRangeReader.                                                         *)

\* A 206, a 416 for an empty file, or a 200 whose whole body reaches the store.
ProbeAnswered ==
  /\ open = "probing"
  /\ open' = "open"
  /\ known' = version
  /\ useStore' \in BOOLEAN
  /\ UNCHANGED <<version, tries, held, rd>>

\* A failure worth another try: a stall, a 5xx, a body cut short.  A cut-off
\* range answer has been remembered by then; the next answer replaces it.
ProbeRetried ==
  /\ open = "probing"
  /\ tries' = tries + 1
  /\ open' = IF tries' >= Attempts THEN "failed" ELSE "probing"
  /\ known' \in {known, version}
  /\ UNCHANGED <<version, useStore, held, rd>>

\* A failure that is final, or the end of the read's time budget.
ProbeRefused ==
  /\ open = "probing"
  /\ open' = "failed"
  /\ known' \in {known, version}
  /\ UNCHANGED <<version, useStore, tries, held, rd>>

-----------------------------------------------------------------------------
(* cachingReaderAt.ReadAt.                                                 *)

size == Size[known]
End(k) == IF k.off + k.len > size THEN size ELSE k.off + k.len
Index(pos) == pos \div Chunk
ChunkLen(i) == IF (i + 1) * Chunk > size THEN size - i * Chunk ELSE Chunk

\* Mutant: a full read that ends on the last byte reports EOF.
ResultEagerEOF(k) == IF k.off + k.n >= size THEN "eof" ELSE "nil"

\* EOF past the end, or when fewer bytes came than were asked for.
Result(k) == IF k.off >= size \/ k.n < k.len THEN "eof" ELSE "nil"

\* The loop of ReadAt: on to the next chunk, or return.
Continue(k) ==
  IF k.off < size /\ k.pos < End(k)
    THEN [k EXCEPT !.pc = "lookup", !.try = 0, !.ver = 0]
    ELSE [k EXCEPT !.pc = "done", !.try = 0, !.ver = 0, !.err = Result(k)]

BeginRead(r) ==
  /\ open = "open"
  /\ rd[r].pc = "idle"
  /\ \E off \in Offsets, len \in Lengths :
       rd' = [rd EXCEPT ![r] = Continue([NoRead EXCEPT !.off = off, !.len = len, !.pos = off])]
  /\ UNCHANGED <<net, held>>

\* Copy what the read wants of chunk i of version v, and go on.
Copied(k, v) ==
  LET i     == Index(k.pos)
      avail == ChunkLen(i) - (k.pos - i * Chunk)
      want  == IF avail < End(k) - k.pos THEN avail ELSE End(k) - k.pos
  IN  Continue([k EXCEPT !.n = k.n + want, !.pos = k.pos + want, !.from = k.from \cup {v}])

Position(i) == CHOOSE k \in DOMAIN lru : lru[k].idx = i
Entry(i) == lru[Position(i)]
MoveToFront(i) ==
  <<Entry(i)>> \o
  (SubSeq(lru, 1, Position(i) - 1) \o SubSeq(lru, Position(i) + 1, Len(lru)))

Hit(r) ==
  LET i == Index(rd[r].pos) IN
    /\ rd[r].pc = "lookup"
    /\ i \in cache
    /\ lru' = MoveToFront(i)
    /\ rd' = [rd EXCEPT ![r] = Copied(rd[r], Entry(i).ver)]
    /\ UNCHANGED <<net, cache, resident>>

\* A miss is fetched without the lock.
Miss(r) ==
  /\ rd[r].pc = "lookup"
  /\ Index(rd[r].pos) \notin cache
  /\ rd' = [rd EXCEPT ![r].pc = "fetch"]
  /\ UNCHANGED <<net, held>>

\* Mutant: only the size is compared.
SameSize(v) == Size[v] = Size[known]

\* validate: the answer is of the file the probe saw.
Same(v) == Size[v] = Size[known] /\ Tag[v] = Tag[known]

Failed(k) == [k EXCEPT !.pc = "done", !.err = "failed", !.try = 0]

\* The store, or a 206 with the whole range.
Fetched(r) ==
  /\ rd[r].pc = "fetch"
  /\ useStore \/ Same(version)
  /\ rd' = [rd EXCEPT ![r].pc = "store", ![r].ver = IF useStore THEN known ELSE version]
  /\ UNCHANGED <<net, held>>

\* ErrChanged: another file answers now.
Changed(r) ==
  /\ rd[r].pc = "fetch"
  /\ ~useStore /\ ~Same(version)
  /\ rd' = [rd EXCEPT ![r] = Failed(rd[r])]
  /\ UNCHANGED <<net, held>>

\* Mutant: the attempt is not counted.
AfterFailureUncounted(k) == [k EXCEPT !.pc = "backoff"]

\* retry: count the attempt and wait, or give up.
AfterFailure(k) ==
  IF k.try + 1 >= Attempts THEN Failed(k) ELSE [k EXCEPT !.pc = "backoff", !.try = @ + 1]

\* A transient failure: a 200, 408, 429 or 5xx, a short range, a stall, a cut body.
FetchRetried(r) ==
  /\ rd[r].pc = "fetch"
  /\ ~useStore
  /\ rd' = [rd EXCEPT ![r] = AfterFailure(@)]
  /\ UNCHANGED <<net, held>>

\* The wait is over.
Resume(r) ==
  /\ rd[r].pc = "backoff"
  /\ rd' = [rd EXCEPT ![r].pc = "fetch"]
  /\ UNCHANGED <<net, held>>

\* A final failure, the end of the time budget in a request or in a wait, or a
\* short read of the store.
FetchFails(r) ==
  /\ rd[r].pc \in {"fetch", "backoff"}
  /\ rd' = [rd EXCEPT ![r] = Failed(rd[r])]
  /\ UNCHANGED <<net, held>>

Bytes(s) ==
  LET sum[k \in 0..Len(s)] == IF k = 0 THEN 0 ELSE sum[k - 1] + ChunkLen(s[k].idx)
  IN  sum[Len(s)]

Behind(s, k) == Bytes(SubSeq(s, k + 1, Len(s)))

\* Mutant: a single chunk is dropped, however much is over.
KeptDropsOne(s, total) ==
  IF Budget > 0 /\ total > Budget /\ Len(s) > 1 THEN Len(s) - 1 ELSE Len(s)

\* evictLocked: how many chunks of s, which count for total bytes, stay.  The
\* longest front part that fits, and never less than the chunk at the front.
Kept(s, total) ==
  IF Budget <= 0 THEN Len(s)
  ELSE Max({1} \cup {k \in DOMAIN s : total - Behind(s, k) <= Budget})

\* Chunk i of version v goes in front; the oldest chunks leave.
Insert(i, v) ==
  LET s     == <<[idx |-> i, ver |-> v]>> \o lru
      total == resident + ChunkLen(i)
      keep  == Kept(s, total)
  IN  /\ lru' = SubSeq(s, 1, keep)
      /\ cache' = (cache \cup {i}) \ {s[j].idx : j \in (keep + 1)..Len(s)}
      /\ resident' = total - Behind(s, keep)

\* Mutant: the racing duplicate is not looked for.
StoreTwice(r) ==
  /\ rd[r].pc = "store"
  /\ Insert(Index(rd[r].pos), rd[r].ver)
  /\ rd' = [rd EXCEPT ![r] = Copied(@, @.ver)]
  /\ UNCHANGED net

\* Under the lock again: a racing reader's chunk wins, or this one goes in.
Store(r) ==
  LET i == Index(rd[r].pos) IN
    /\ rd[r].pc = "store"
    /\ \/ /\ i \in cache
          /\ lru' = MoveToFront(i)
          /\ rd' = [rd EXCEPT ![r] = Copied(@, Entry(i).ver)]
          /\ UNCHANGED <<cache, resident>>
       \/ /\ i \notin cache
          /\ Insert(i, rd[r].ver)
          /\ rd' = [rd EXCEPT ![r] = Copied(@, @.ver)]
    /\ UNCHANGED net

Return(r) ==
  /\ rd[r].pc = "done"
  /\ rd' = [rd EXCEPT ![r] = NoRead]
  /\ UNCHANGED <<net, held>>

-----------------------------------------------------------------------------
Probe == ProbeAnswered \/ ProbeRetried \/ ProbeRefused

Work(r) ==
  \/ Hit(r) \/ Miss(r) \/ Store(r)
  \/ Fetched(r) \/ Changed(r) \/ FetchRetried(r) \/ Resume(r) \/ FetchFails(r)

Next ==
  \/ Replace \/ Probe
  \/ \E r \in Readers : BeginRead(r) \/ Work(r) \/ Return(r)

Spec == Init /\ [][Next]_vars

\* A request ends: idleWatch cuts off a silent one and the time budget the rest.
FairSpec == Spec /\ WF_vars(Probe) /\ \A r \in Readers : WF_vars(Work(r))

-----------------------------------------------------------------------------
\* The map, the list and the byte count of cachingReaderAt describe one set of
\* chunks, although a chunk is fetched with the lock released and two readers may
\* come back with the same one.
CacheIndexed ==
  /\ cache = {e.idx : e \in Range(lru)}
  /\ Len(lru) = Cardinality(cache)
  /\ resident = Bytes(lru)

\* evictLocked keeps the cache within its budget, or at the one chunk being served, and
\* retry keeps a request, and the probe, within its attempts.
WithinBudget ==
  /\ Budget > 0 => Bytes(lru) <= Budget \/ Len(lru) = 1
  /\ open # "failed" => tries < Attempts
  /\ \A r \in Readers : rd[r].try < Attempts

\* Every byte a read returns, and every chunk kept for later, is of the file the
\* probe saw, however often the server's file is replaced (ErrChanged).
OneVersion ==
  \A v \in {e.ver : e \in Range(lru)} \cup UNION {rd[r].from : r \in Readers} : v = known

\* The io.ReaderAt contract that the block reader depends on: a read that does
\* not fail returns all the bytes there are, and EOF exactly when they are fewer
\* than asked for or the offset is past the end; a failed read is a short one.
ReadContract ==
  \A r \in Readers : rd[r].pc = "done" =>
    LET k == rd[r]
        there == Cardinality({b \in k.off..(k.off + k.len - 1) : b < size})
    IN  IF k.err = "failed" THEN k.n < there
        ELSE /\ k.n = there
             /\ k.err = "eof" <=> k.off >= size \/ there < k.len

\* Every read returns, after at most Attempts requests for each chunk it spans.
ReadsReturn == \A r \in Readers : rd[r].pc = "lookup" ~> rd[r].pc = "done"
=============================================================================
