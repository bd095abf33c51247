----------------------------- MODULE NfsReaddir ------------------------------
(***************************************************************************)
(* A client lists a directory of an NFS export in several calls, each      *)
(* resuming after the cookie of the last entry it saw.  The entries of a   *)
(* share carry a hash of their name as cookie and may come and go between  *)
(* the calls; those of the installation tree are numbered by position, and *)
(* that tree does not change.  READDIR of version 2 answers with at least  *)
(* one entry, READDIR and READDIRPLUS of version 3 with TOOSMALL when none *)
(* fits.  Replies may be lost, and the call sent again.                    *)
(***************************************************************************)
EXTENDS Integers, Sequences, FiniteSets, SequencesExt, FiniteSetsExt

CONSTANTS
  Names,       \* entry names: numbers, in the order of the host's sort
  MaxCookie,   \* hash values
  Length,      \* what the entry of each name takes of a reply
  MaxCount,    \* the largest count a client sends: it has room for any one entry
  MaxChanges   \* bound: changes of the directory

ASSUME ReaddirAssumption ==
  /\ Names \subseteq Nat /\ IsFiniteSet(Names)
  /\ MaxCookie \in Nat \ {0} /\ MaxCount \in Nat /\ MaxChanges \in Nat
  /\ \A n \in Names : Length[n] \in Nat /\ Length[n] + 1 <= MaxCount

VARIABLES
  dir,        \* the names in the directory
  scheme,     \* "hash" for a share, "position" for the tree
  hash,       \* the cookie of each name
  proc,       \* "readdir2", "readdir3" or "readdirplus"
  count,      \* the client's budgets: dircount and maxcount
  cookie,     \* the cookie of the last entry the client has
  listed,     \* the names it was given so far
  reply,      \* the reply under way, if any
  steady,     \* names in the directory since the listing began
  ever,       \* names that were in it at some time
  changes,    \* changes so far
  done        \* the client saw the end

vars == <<dir, scheme, hash, proc, count, cookie, listed, reply, steady, ever, changes, done>>

NoReply == [st |-> "none", ents |-> <<>>, eof |-> FALSE]

\* FS.ReadDir: a share sorts by cookie and then by name, the tree by name.
before(a, b) == IF scheme = "hash" /\ hash[a] # hash[b] THEN hash[a] < hash[b] ELSE a < b
ReadDir == [i \in 1..Cardinality(dir) |->
              CHOOSE n \in dir : Cardinality({m \in dir : before(m, n)}) = i - 1]

\* Mutant: cookies are taken for positions, whoever gave them out.
readdirStartByPosition(ents, c) == 1 + (IF c < Len(ents) THEN c ELSE Len(ents))

\* Where to resume, counting from 1.
readdirStart(ents, c) ==
  IF Len(ents) > 0 /\ scheme = "hash"
    THEN LET later == {i \in DOMAIN ents : hash[ents[i]] > c}
         IN  IF later = {} THEN Len(ents) + 1 ELSE Min(later)
    ELSE 1 + (IF c < Len(ents) THEN c ELSE Len(ents))

entryCookie(ents, i) == IF scheme = "hash" THEN hash[ents[i]] ELSE i

\* What entries s to i take, each with extra words around its name.
Cost(ents, s, i, extra) == MapThenSumSet(LAMBDA k : Length[ents[k]] + extra, s..i)

\* Mutant: version 2 stops at the budget even before the first entry.
fitsStrictly(ents, s, i) ==
  CASE proc = "readdir2" -> Cost(ents, s, i, 0) <= count.max
    [] proc = "readdir3" -> Cost(ents, s, i, 0) <= count.max
    [] proc = "readdirplus" -> Cost(ents, s, i, 0) <= count.dir /\ Cost(ents, s, i, 1) <= count.max

\* Do entries s to i go into the reply?
fits(ents, s, i) ==
  CASE proc = "readdir2" -> i = s \/ Cost(ents, s, i, 0) <= count.max
    [] proc = "readdir3" -> Cost(ents, s, i, 0) <= count.max
    [] proc = "readdirplus" -> Cost(ents, s, i, 0) <= count.dir /\ Cost(ents, s, i, 1) <= count.max

\* readdirEntries and the loop of nfsReaddir.
readdirEntries(ents, c) ==
  LET s == readdirStart(ents, c)
      into == {i \in s..Len(ents) : \A k \in s..i : fits(ents, s, k)}
      e == IF into = {} THEN s - 1 ELSE Max(into)
  IN  IF into = {} /\ s <= Len(ents) /\ proc # "readdir2"
        THEN [NoReply EXCEPT !.st = "TOOSMALL"]
        ELSE [st |-> "OK", eof |-> e >= Len(ents),
              ents |-> [k \in 1..(e - s + 1) |->
                          [name |-> ents[s + k - 1], cookie |-> entryCookie(ents, s + k - 1)]]]

-----------------------------------------------------------------------------
\* nfsReaddir, nfs3Readdir and nfs3Readdirplus: the client's call, or the same
\* call again because the reply did not come.
Readdir ==
  /\ ~done
  /\ reply = NoReply
  /\ \E ents \in {ReadDir} : reply' = readdirEntries(ents, cookie)
  /\ UNCHANGED <<dir, scheme, hash, proc, count, cookie, listed, steady, ever, changes, done>>

Lose ==
  /\ reply # NoReply
  /\ reply' = NoReply
  /\ UNCHANGED <<dir, scheme, hash, proc, count, cookie, listed, steady, ever, changes, done>>

\* The client takes the reply.  A count that was too small becomes the largest.
Deliver ==
  /\ reply # NoReply
  /\ reply' = NoReply
  /\ IF reply.st = "TOOSMALL"
       THEN count' = [dir |-> MaxCount, max |-> MaxCount] /\ UNCHANGED <<cookie, listed, done>>
       ELSE /\ listed' = listed \o [k \in DOMAIN reply.ents |-> reply.ents[k].name]
            /\ cookie' = IF reply.ents = <<>> THEN cookie ELSE Last(reply.ents).cookie
            /\ done' = reply.eof
            /\ count' = count
  /\ UNCHANGED <<dir, scheme, hash, proc, steady, ever, changes>>

\* An entry of a share is made or removed.
Change ==
  /\ scheme = "hash" /\ changes < MaxChanges /\ ~done
  /\ \E n \in Names :
       /\ dir' = IF n \in dir THEN dir \ {n} ELSE dir \cup {n}
       /\ steady' = steady \ {n}
       /\ ever' = ever \cup {n}
  /\ changes' = changes + 1
  /\ UNCHANGED <<scheme, hash, proc, count, cookie, listed, reply, done>>

Finished == done /\ UNCHANGED vars

Init ==
  /\ dir \in SUBSET Names
  /\ scheme \in {"hash", "position"}
  /\ hash \in [Names -> 1..MaxCookie]
  /\ scheme = "position" => \A n \in Names : hash[n] = 1
  /\ proc \in {"readdir2", "readdir3", "readdirplus"}
  /\ count \in [dir : 0..MaxCount, max : 0..MaxCount]
  /\ proc # "readdirplus" => count.dir = 0
  /\ cookie = 0 /\ listed = <<>> /\ reply = NoReply
  /\ steady = dir /\ ever = dir /\ changes = 0 /\ done = FALSE

Next == Readdir \/ Lose \/ Deliver \/ Change \/ Finished

Spec == Init /\ [][Next]_vars /\ WF_vars(Readdir) /\ SF_vars(Deliver)

-----------------------------------------------------------------------------
\* nfs2.go:485: entries "resume after the last one the client saw, so a listing
\* survives entries removed before it."  No name is listed twice, however often a
\* call is resent and the directory changes, and a listing that is done has every
\* name that was there all the time, but for one that shares its hash with another
\* (the exception that the comment on cookie in sharefs.go accepts).
ListsEach ==
  /\ \A i, k \in DOMAIN listed : i # k => listed[i] # listed[k]
  /\ done => \A n \in steady :
       \/ \E i \in DOMAIN listed : listed[i] = n
       \/ scheme = "hash" /\ \E m \in ever \ {n} : hash[m] = hash[n]

\* Every listing ends, with any count, provided that not every reply is lost: each
\* reply either has an entry more, or says that the count was too small, which it
\* says once, or ends the listing.
ListingEnds == <>done
=============================================================================
