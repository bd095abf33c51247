----------------------------- MODULE ShareTable -----------------------------
(***************************************************************************)
(* A writable NFS share whose filehandles come from a path table           *)
(* (internal/sharefs, table.go): the table in memory, the file of lines it *)
(* is kept in, the host directory, and the connections whose operations    *)
(* interleave.  A lock is held only inside one table operation, so between *)
(* a change of the host directory and the change of the table that follows *)
(* it another connection may run, and the server may die.                  *)
(*                                                                         *)
(* A host file is a number that is never used twice; contents, modes and   *)
(* times are left out.  The share is changed through the server only.      *)
(***************************************************************************)
EXTENDS Integers, Sequences

CONSTANTS
  Names,        \* entry names
  Conns,        \* connections served at once
  Depth,        \* bound: names in a path
  MaxFiles,     \* bound: files ever created
  MaxId,        \* bound: ids ever handed out
  MaxLog,       \* bound: lines in the table's file
  Scenes        \* the cases considered: whether one operation runs at a time, the
                \* operations clients call, the bounds on paths, files and ids, and
                \* whether the server may die in the middle of an operation

ASSUME ShareAssumption ==
  /\ Depth \in Nat /\ MaxFiles \in Nat /\ MaxId \in Nat /\ MaxLog \in Nat
  /\ "none" \notin Names
  /\ \A s \in Scenes :
       /\ s.alone \in BOOLEAN /\ s.midCrash \in BOOLEAN
       /\ s.depth \in 0..Depth /\ s.files \in 1..MaxFiles /\ s.ids \in 1..MaxId

\* A path is the sequence of its names; the root is the empty one.
Paths == UNION {[1..k -> Names] : k \in 0..Depth}
Root  == <<>>
None  == <<"none">>
Ids   == 1..MaxId
Files == 1..MaxFiles

VARIABLES
  scene,    \* which case it is
  host,     \* the file at each path of the host directory, 0 if there is none
  dirs,     \* the files that are directories
  nfiles,   \* files created so far; the root directory is file 1
  phase,    \* the server: "down", "loaded" (table read, not rewritten) or "up"
  mem,      \* the table in memory
  log,      \* the lines of the table's file
  conn,     \* what each connection is doing
  issued    \* every handle a client ever got, with the file it was given for

vars == <<scene, host, dirs, nfiles, phase, mem, log, conn, issued>>

-----------------------------------------------------------------------------
(* The path table.                                                         *)

Empty == [byID |-> [i \in Ids |-> None], byPath |-> [p \in Paths |-> 0], next |-> 1]

Larger(a, b) == IF a > b THEN a ELSE b

\* Set(t, i, p) and Del(t, i) are pathTable.set and pathTable.del; a path of
\* None in the table means that there is no entry.
Forgotten(t, i) ==
  IF t.byID[i] = None THEN t.byPath ELSE [t.byPath EXCEPT ![t.byID[i]] = 0]

\* Mutant: the path an id had before stays in byPath.
SetKeepsOld(t, i, p) ==
  [byID   |-> [t.byID EXCEPT ![i] = p],
   byPath |-> [t.byPath EXCEPT ![p] = i],
   next   |-> Larger(t.next, i + 1)]

Set(t, i, p) ==
  [byID   |-> [t.byID EXCEPT ![i] = p],
   byPath |-> [Forgotten(t, i) EXCEPT ![p] = i],
   next   |-> Larger(t.next, i + 1)]

Del(t, i) ==
  [t EXCEPT !.byID[i] = None, !.byPath = Forgotten(t, i)]

Line(op, i, p) == [op |-> op, id |-> i, path |-> p]

\* What a line does to the table: the switch of pathTable.load.
Apply(t, l) ==
  CASE l.op = "set"  -> Set(t, l.id, l.path)
    [] l.op = "del"  -> Del(t, l.id)
    [] l.op = "next" -> [t EXCEPT !.next = Larger(t.next, l.id)]

\* The lines in turn.  (The one-element sets make TLC evaluate each line once.)
Play(t, lines) ==
  LET after[k \in 0..Len(lines)] ==
        IF k = 0 THEN t
        ELSE CHOOSE u \in {Apply(v, lines[k]) : v \in {after[k - 1]}} : TRUE
  IN  after[Len(lines)]

InUse(t) == {i \in Ids : t.byID[i] # None}

\* The orders in which a map with these keys may be ranged over.
Orders(S) ==
  {f \in UNION {[1..n -> S] : n \in 0..MaxId} :
     /\ \A j, k \in DOMAIN f : j # k => f[j] # f[k]
     /\ \A i \in S : \E k \in DOMAIN f : f[k] = i}

\* The entries of the table by id; there is one such order.
Sorted(t) ==
  {[k \in DOMAIN ids |-> Line("set", ids[k], t.byID[ids[k]])] :
     ids \in {s \in Orders(InUse(t)) : \A j, k \in DOMAIN s : j < k => s[j] < s[k]}}

\* Mutant: the compacted file does not record how far the ids have got.
CompactedWithoutNext(t) == Sorted(t)

\* The file openPathTable rewrites: the next id, then the entries.
Compacted(t) == {<<Line("next", t.next, None)>> \o sets : sets \in Sorted(t)}

\* The lines remove and move write, in the order the map is ranged over.
Under(q, p) == Len(p) <= Len(q) /\ SubSeq(q, 1, Len(p)) = p
Below(t, p) == {i \in InUse(t) : Under(t.byID[i], p)}

Rebased(q, p, to) == to \o SubSeq(q, Len(p) + 1, Len(q))

\* Bound: a stale entry is not carried deeper than the paths are.
InBounds(lines) ==
  \A k \in DOMAIN lines : lines[k].path = None \/ Len(lines[k].path) <= scene.depth

\* Mutant: the table's file is not told.
ChangeMemoryOnly(lines) == InBounds(lines) /\ mem' = Play(mem, lines) /\ log' = log

\* A change to the table: each line is appended, then the table in memory
\* follows.  The code ignores an error of these appends; here they succeed.
Change(lines) ==
  /\ InBounds(lines)
  /\ log' = log \o lines
  /\ mem' = Play(mem, lines)
  /\ Len(log') <= MaxLog

-----------------------------------------------------------------------------
(* The host directory (external).                                          *)

Exists(p) == host[p] # 0
IsDir(p)  == host[p] \in dirs
Parent(p) == SubSeq(p, 1, Len(p) - 1)
Children(p) == {q \in Paths : Exists(q) /\ q # p /\ Under(q, p)}

\* The host refuses, or makes a new file there.
HostMake(p, dir) ==
  /\ IsDir(Parent(p)) /\ ~Exists(p)
  /\ nfiles < scene.files
  /\ nfiles' = nfiles + 1
  /\ host' = [host EXCEPT ![p] = nfiles']
  /\ dirs' = IF dir THEN dirs \cup {nfiles'} ELSE dirs

HostRemove(p) ==
  /\ Exists(p) /\ Children(p) = {}
  /\ host' = [host EXCEPT ![p] = 0]
  /\ UNCHANGED <<dirs, nfiles>>

\* rename(2): a directory replaces only an empty directory, a file only a file,
\* and nothing moves into itself.
MayRename(p, q) ==
  /\ Exists(p) /\ IsDir(Parent(q))
  /\ q # p => ~Under(q, p)
  /\ Exists(q) => IsDir(p) = IsDir(q) /\ (q = p \/ Children(q) = {})
  /\ \A r \in Children(p) : Len(Rebased(r, p, q)) <= scene.depth

HostRename(p, q) ==
  /\ MayRename(p, q)
  /\ host' = IF p = q THEN host ELSE
       [r \in Paths |->
          IF Under(r, q) /\ Rebased(r, q, p) \in Paths THEN host[Rebased(r, q, p)]
          ELSE IF Under(r, p) \/ Under(r, q) THEN 0
          ELSE host[r]]
  /\ UNCHANGED <<dirs, nfiles>>

-----------------------------------------------------------------------------
(* The operations of a connection.  conn[c] holds the operation, the path  *)
(* (and a rename's target), the file statNode saw, and how many statNodes  *)
(* of the path are still to be done.                                       *)

Idle == [pc |-> "idle", op |-> "none", rel |-> Root, to |-> Root, seen |-> 0, left |-> 0]

Lookups == {"mount", "lookup", "handle"}
Creates == {"unchecked", "guarded", "exclusive", "mkdir", "symlink"}
Removes == {"remove", "rmdir"}

\* The operations whose reply carries the handle of the node they return.
Returning == {"mount", "lookup"} \cup Creates

Busy(c, op, pc, rel, to, left) ==
  /\ op \in scene.calls
  /\ conn' = [conn EXCEPT ![c] =
       [pc |-> pc, op |-> op, rel |-> rel, to |-> to, seen |-> 0, left |-> left]]
Goto(c, pc) == conn' = [conn EXCEPT ![c].pc = pc]
Return(c)   == conn' = [conn EXCEPT ![c] = Idle]

unchangedHost  == UNCHANGED <<scene, host, dirs, nfiles>>
unchangedTable == UNCHANGED <<scene, phase, mem, log>>

\* The directories a client can name: NodeByHandle finds the path of an issued
\* handle and stats it.  The path has its id already, so this numbers nothing.
Named == {p \in Paths : Exists(p) /\ IsDir(p) /\ \E h \in issued : mem.byID[h.id] = p}
Entries == {p \in Paths : p # Root /\ Len(p) <= scene.depth /\ Parent(p) \in Named}

\* Bound: a connection is free to start an operation.
Free == scene.alone => \A d \in Conns : conn[d].pc = "idle"

Begin(c) ==
  /\ phase = "up"
  /\ conn[c].pc = "idle"
  /\ Free
  /\ \/ Busy(c, "mount", "stat", Root, Root, 1)
     \/ \E h \in issued :
          /\ mem.byID[h.id] # None
          /\ Busy(c, "handle", "stat", mem.byID[h.id], Root, 1)
     \/ \E p \in Entries :
          \/ Busy(c, "lookup", "stat", p, Root, 1)
          \/ \E op \in Removes : Busy(c, op, "stat", p, Root, 1)
          \/ Busy(c, "unchecked", "stat", p, Root, 1)
          \/ \E op \in {"guarded", "exclusive", "mkdir"} : Busy(c, op, "host", p, Root, 2)
          \/ Busy(c, "symlink", "host", p, Root, 1)
          \/ \E q \in Entries : Busy(c, "rename", "host", p, q, 0)
  /\ unchangedHost /\ unchangedTable /\ UNCHANGED issued

\* statNode, first half: Lstat.  An unchecked create goes on to open a missing
\* file; every other operation returns the error.
Stat(c) ==
  /\ conn[c].pc = "stat"
  /\ LET p == conn[c].rel IN
       IF Exists(p) THEN conn' = [conn EXCEPT ![c].pc = "number", ![c].seen = host[p]]
       ELSE IF conn[c].op = "unchecked" /\ conn[c].left = 1 /\ conn[c].seen = 0
              THEN conn' = [conn EXCEPT ![c].pc = "host", ![c].left = 2]
       ELSE Return(c)
  /\ unchangedHost /\ unchangedTable /\ UNCHANGED issued

\* What follows statNode once the path has its id i: SetAttr and another
\* statNode, the removal, or the reply.  SetAttr may fail; a removal of the wrong
\* kind of file, and an unchecked create over a directory, are refused; and the
\* reply, with the handle in it, may not reach the client.
Numbered(c, i) ==
  LET k == conn[c] IN
    \/ /\ k.left > 1
       /\ \/ conn' = [conn EXCEPT ![c].pc = "stat", ![c].left = k.left - 1]
          \/ Return(c)
       /\ UNCHANGED issued
    \/ /\ k.left = 1 /\ k.op \in Removes
       /\ IF (k.op = "rmdir") = (k.seen \in dirs) THEN Goto(c, "host") ELSE Return(c)
       /\ UNCHANGED issued
    \/ /\ k.left = 1 /\ k.op \notin Removes
       /\ Return(c)
       /\ \/ UNCHANGED issued
          \/ /\ k.op \in Returning
             /\ k.op = "unchecked" => k.seen \notin dirs
             /\ issued' = issued \cup {[id |-> i, file |-> k.seen]}

\* Mutant: the id is read after next has been advanced.
NumberReadsLate(c) ==
  /\ conn[c].pc = "number"
  /\ LET p == conn[c].rel IN
       IF mem.byPath[p] # 0
         THEN /\ Numbered(c, mem.byPath[p])
              /\ UNCHANGED <<mem, log>>
         ELSE /\ mem.next <= scene.ids /\ Len(log) < MaxLog
              /\ log' = Append(log, Line("set", mem.next, p))
              /\ mem' = Set(mem, mem.next, p)
              /\ Numbered(c, mem'.next)
  /\ unchangedHost /\ UNCHANGED phase

\* statNode, second half: describe numbers the path with idFor, which writes
\* the line before it changes the table.
Number(c) ==
  /\ conn[c].pc = "number"
  /\ LET p == conn[c].rel IN
       IF mem.byPath[p] # 0
         THEN /\ Numbered(c, mem.byPath[p])
              /\ UNCHANGED <<mem, log>>
         ELSE /\ mem.next <= scene.ids /\ Len(log) < MaxLog
              /\ log' = Append(log, Line("set", mem.next, p))
              /\ mem' = Set(mem, mem.next, p)
              /\ Numbered(c, mem.next)
  /\ unchangedHost /\ UNCHANGED phase

\* The append of idFor fails: the operation returns an I/O error.
NumberFails(c) ==
  /\ conn[c].pc = "number"
  /\ mem.byPath[conn[c].rel] = 0
  /\ Return(c)
  /\ unchangedHost /\ unchangedTable /\ UNCHANGED issued

\* Create, Mkdir and Symlink make the entry.  Without O_EXCL an entry that is
\* there by now is opened, and an exclusive create of one that exists looks
\* whether it is a retransmission.
Make(c) ==
  /\ conn[c].pc = "host"
  /\ conn[c].op \in Creates
  /\ LET p == conn[c].rel IN
       \/ HostMake(p, conn[c].op = "mkdir") /\ Goto(c, "stat")
       \/ /\ conn[c].op = "unchecked" /\ Exists(p) /\ ~IsDir(p)
          /\ Goto(c, "stat") /\ unchangedHost
       \/ /\ conn[c].op = "exclusive" /\ Exists(p)
          /\ conn' = [conn EXCEPT ![c].pc = "stat", ![c].left = 1]
          /\ unchangedHost
       \/ Return(c) /\ unchangedHost
  /\ unchangedTable /\ UNCHANGED issued

\* Remove and Rmdir unlink the entry.  The host may refuse.
Unlink(c) ==
  /\ conn[c].pc = "host"
  /\ conn[c].op \in Removes
  /\ \/ HostRemove(conn[c].rel) /\ Goto(c, "forget")
     \/ Return(c) /\ unchangedHost
  /\ unchangedTable /\ UNCHANGED issued

Rename(c) ==
  /\ conn[c].pc = "host"
  /\ conn[c].op = "rename"
  /\ \/ /\ HostRename(conn[c].rel, conn[c].to)
        /\ IF conn[c].rel = conn[c].to THEN Return(c) ELSE Goto(c, "forget")
     \/ Return(c) /\ unchangedHost
  /\ unchangedTable /\ UNCHANGED issued

\* Mutant: a rename does not forget what its target named.
ForgetRemovedOnly(c) ==
  IF conn[c].op = "rename" THEN {<<>>}
  ELSE {[k \in DOMAIN ids |-> Line("del", ids[k], None)] :
          ids \in Orders(Below(mem, conn[c].rel))}

\* remove: what was removed, or replaced by a rename, loses its id.
ForgetLines(c) ==
  LET gone == IF conn[c].op = "rename" THEN conn[c].to ELSE conn[c].rel
  IN  {[k \in DOMAIN ids |-> Line("del", ids[k], None)] : ids \in Orders(Below(mem, gone))}

\* Mutant: only the renamed path itself is moved in the table.
MoveTopOnly(c) ==
  {[k \in DOMAIN ids |-> Line("set", ids[k], conn[c].to)] :
     ids \in Orders({i \in InUse(mem) : mem.byID[i] = conn[c].rel})}

\* move: what was renamed, and everything under it, keeps its id.
MoveLines(c) ==
  {[k \in DOMAIN ids |-> Line("set", ids[k], Rebased(mem.byID[ids[k]], conn[c].rel, conn[c].to))] :
     ids \in Orders(Below(mem, conn[c].rel))}

Forget(c) ==
  /\ conn[c].pc = "forget"
  /\ \E lines \in ForgetLines(c) : Change(lines)
  /\ IF conn[c].op = "rename" THEN Goto(c, "move") ELSE Return(c)
  /\ unchangedHost /\ UNCHANGED <<phase, issued>>

Move(c) ==
  /\ conn[c].pc = "move"
  /\ \E lines \in MoveLines(c) : Change(lines)
  /\ Return(c)
  /\ unchangedHost /\ UNCHANGED <<phase, issued>>

-----------------------------------------------------------------------------
(* The server's life.                                                      *)

\* The server stops or dies; what it wrote stays.
Crash ==
  /\ phase # "down"
  /\ scene.midCrash \/ \A c \in Conns : conn[c].pc = "idle"
  /\ phase' = "down"
  /\ mem' = Empty
  /\ conn' = [c \in Conns |-> Idle]
  /\ unchangedHost /\ UNCHANGED <<log, issued>>

\* It dies inside remove or move, with some of their lines written.
CrashInChange(c) ==
  /\ scene.midCrash
  /\ \E lines \in CASE conn[c].pc = "forget" -> ForgetLines(c)
                    [] conn[c].pc = "move" -> MoveLines(c)
                    [] OTHER -> {} :
       \E k \in 1..(Len(lines) - 1) :
         /\ InBounds(lines) /\ Len(log) + k <= MaxLog
         /\ log' = log \o SubSeq(lines, 1, k)
  /\ phase' = "down"
  /\ mem' = Empty
  /\ conn' = [d \in Conns |-> Idle]
  /\ unchangedHost /\ UNCHANGED issued

\* openPathTable replays the file ...
Load ==
  /\ phase = "down"
  /\ phase' = "loaded"
  /\ mem' = Play(Empty, log)
  /\ unchangedHost /\ UNCHANGED <<log, conn, issued>>

\* ... writes it anew beside the old one, and renames it into place.
Swap ==
  /\ phase = "loaded"
  /\ phase' = "up"
  /\ log' \in Compacted(mem)
  /\ unchangedHost /\ UNCHANGED <<mem, conn, issued>>

Init ==
  /\ scene \in Scenes
  /\ host = [p \in Paths |-> IF p = Root THEN 1 ELSE 0]
  /\ dirs = {1}
  /\ nfiles = 1
  /\ phase = "down"
  /\ mem = Empty
  /\ log = <<>>
  /\ conn = [c \in Conns |-> Idle]
  /\ issued = {}

Step(c) == \/ Begin(c) \/ Stat(c) \/ Number(c) \/ NumberFails(c)
           \/ Make(c) \/ Unlink(c) \/ Rename(c) \/ Forget(c) \/ Move(c)

Next == Crash \/ Load \/ Swap \/ \E c \in Conns : Step(c) \/ CrashInChange(c)

Spec == Init /\ [][Next]_vars

-----------------------------------------------------------------------------
(* Properties.                                                             *)

Tables == [byID : [Ids -> Paths \cup {None}], byPath : [Paths -> 0..MaxId], next : 1..MaxId + 1]
Ops == Lookups \cup Creates \cup Removes \cup {"rename", "none"}

\* Every variable has its type; no handle carries an id that cannot be in the table.
TypeOK ==
  /\ scene \in Scenes
  /\ host \in [Paths -> 0..MaxFiles]
  /\ dirs \subseteq Files
  /\ nfiles \in Files
  /\ phase \in {"down", "loaded", "up"}
  /\ mem \in Tables
  /\ \A k \in DOMAIN log : log[k] \in [op : {"set", "del", "next"}, id : 1..MaxId + 1,
                                       path : Paths \cup {None}]
  /\ conn \in [Conns -> [pc : {"idle", "stat", "number", "host", "forget", "move"}, op : Ops,
                         rel : Paths, to : Paths, seen : 0..MaxFiles, left : 0..2]]
  /\ issued \subseteq [id : Ids, file : Files]

\* The two maps of the table agree: the id a path is given leads back to that
\* path, so a handle just handed out names the file it was handed out for.
MapsAgree == \A p \in Paths : mem.byPath[p] # 0 => mem.byID[mem.byPath[p]] = p

\* What the table's file would be replayed to is what the running server knows,
\* whatever was set, moved, deleted and compacted before: the numbering survives
\* a stop at any moment.
LogReplays ==
  phase = "up" => LET t == Play(Empty, log) IN t.byID = mem.byID /\ t.next = mem.next

Known == IF phase = "up" THEN mem ELSE Play(Empty, log)

\* An id freed by a removal is never used again, over restarts too: once a handle
\* is stale it stays stale.
FreedStaysFree ==
  [][\A now \in {Known}, then \in {Known'} :
       /\ now.next <= then.next
       /\ \A i \in Ids : i < now.next /\ now.byID[i] = None => then.byID[i] = None]_vars

\* A request can be served at this moment.
Serving == phase = "up" /\ Free

\* What NodeByHandle finds for the id of a handle: a file, or 0 for stale.
Reaches(i) == IF mem.byID[i] = None THEN 0 ELSE host[mem.byID[i]]

\* table.go:18: "an id freed by a removal is never reused, so a handle to a
\* removed file cannot reach a later one."  A handle reaches the file it was
\* given out for, or none.
HandleNeverMisleads ==
  Serving => \A h \in issued : Reaches(h.id) \in {0, h.file}

\* One operation at a time, and the server is stopped only between two of them.
OneAtATime == scene.alone /\ ~scene.midCrash

\* A server that is asked one thing at a time and stopped between two of them keeps that.
HandleMeansItsFile == OneAtATime => HandleNeverMisleads

\* Its handles also stay good while their file is in the share, whatever is renamed,
\* replaced or removed around it and however often the server is restarted.
HandleStaysGood ==
  OneAtATime /\ Serving => \A h \in issued :
    (\E p \in Paths : host[p] = h.file) => Reaches(h.id) = h.file
=============================================================================
