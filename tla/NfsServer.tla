------------------------------ MODULE NfsServer ------------------------------
(***************************************************************************)
(* The RPC server of the nfs package over shares with inode filehandles    *)
(* (internal/sharefs): calls that arrive on UDP sockets, where they may be *)
(* lost, repeated and delayed, or on TCP connections in fragments; the     *)
(* duplicate request cache; and the portmap, MOUNT, NFSv2 and NFSv3        *)
(* procedures.  Every socket and every connection has a goroutine of its   *)
(* own, and a call takes three steps in it: the arguments are decoded and  *)
(* the handle is resolved to a path, the file system is asked, and the     *)
(* reply is made from what the handle names by then.  Calls of other       *)
(* goroutines run in between.                                              *)
(*                                                                         *)
(* One operation of the share is one step here (ShareTable takes it        *)
(* apart).  A host file is a number that is never used twice: with birth   *)
(* times, device, inode and generation name a file for good.  Of the       *)
(* attributes only the kind, the change time and an exclusive create's     *)
(* verifier are kept.                                                      *)
(***************************************************************************)
EXTENDS Integers, Sequences

CONSTANTS
  Shares,       \* the shares one server exports
  Names,        \* entry names
  Trees,        \* what the shares hold at first: the path and the kind of every file
  Depth,        \* bound: names in a path
  Udp, Tcp,     \* the clients, by transport
  Plans,        \* sequence of plans: the calls each client may make, how
                \* many, how often the server dies and the host changes a share
  DrcSize,      \* entries of the duplicate request cache
  MaxRecord,    \* fragments a record may have
  MaxFiles      \* bound: files there ever are

\* A path starts with its share; a share's root is the path of that alone.
Paths == UNION {{<<s>> \o q : q \in UNION {[1..k -> Names] : k \in 0..Depth}} : s \in Shares}
None  == <<>>
Files == 1..MaxFiles
Peers == Udp \cup Tcp

\* A call: whether it is one and can be decoded, its program, version and procedure, and
\* the arguments a procedure may have; len is its fragments.
CallType ==
  [xid : Nat, form : {"ok", "args", "cred", "rpc", "reply"}, prog : STRING, vers : Nat, proc : Nat,
   fh : Nat, name : Names \cup {".", ".."}, toFh : Nat, toName : Names \cup {".", ".."},
   how : {"guarded", "unchecked", "exclusive"}, guard : Int, size : BOOLEAN,
   path : Seq(Shares \cup Names), len : Nat]

ASSUME NfsAssumption ==
  /\ DrcSize \in Nat \ {0} /\ MaxRecord \in Nat
  /\ MaxFiles \in Nat /\ Depth \in Nat
  /\ Udp \cap Tcp = {} /\ "udp" \notin Tcp /\ "none" \notin Udp
  /\ \A tree \in Trees : Len(tree) <= MaxFiles /\ tree \in Seq([path : Paths, kind : {"dir", "reg", "lnk"}])
  /\ \A i \in DOMAIN Plans :
       Plans[i] \in [menu : [Peers -> SUBSET CallType], max : [Peers -> Nat], restarts : Nat, host : Nat]

\* The goroutines: one for the UDP socket, one for each connection.
Workers == {"udp"} \cup Tcp
WorkerOf(p) == IF p \in Udp THEN "udp" ELSE p

VARIABLES
  fs,        \* the host files and what the share remembers about them
  plan,      \* the plan the clients follow
  writable,  \* is the exported file system a WriteFS?
  drc,       \* the duplicate request cache: entries and the one to fill next
  job,       \* what each goroutine is doing
  pend,      \* the call each client waits for
  stray,     \* an earlier call of each client that the network may deliver again
  record,    \* fragments read of the record on each connection
  restarts,  \* crashes so far
  hostDone,  \* changes made behind the server's back so far
  seen       \* of each call: how often it ran, what was answered, and whether its
             \* reply was cached and has left the cache since

vars == <<fs, plan, writable, drc, job, pend, stray, record, restarts, hostDone, seen>>

-----------------------------------------------------------------------------
(* The host directory (external).  Operators take the file system as a     *)
(* value: at[p] is the file at a path, 0 if there is none.                 *)

Under(q, p)   == Len(p) <= Len(q) /\ SubSeq(q, 1, Len(p)) = p
Parent(p)     == SubSeq(p, 1, Len(p) - 1)
KindAt(f, p)  == IF f.at[p] = 0 THEN "none" ELSE f.kind[f.at[p]]
Children(f, p) == {q \in Paths : f.at[q] # 0 /\ q # p /\ Under(q, p)}
Rebased(q, p, to) == to \o SubSeq(q, Len(p) + 1, Len(q))

\* A change of a file's contents or attributes.  (Bound: the clock has three values.)
Touch(f, p) == [f EXCEPT !.ctime[f.at[p]] = (@ + 1) % 3, !.verf[f.at[p]] = None]

HostMake(f, p, k, v) ==
  LET n == f.n + 1 IN
  [f EXCEPT !.n = n, !.at[p] = n, !.kind[n] = k, !.verf[n] = v]

HostRemove(f, p) == [f EXCEPT !.at[p] = 0]

HostRename(f, p, q) ==
  IF p = q THEN f ELSE
  [f EXCEPT !.at = [r \in Paths |->
     IF Under(r, q) /\ Rebased(r, q, p) \in Paths THEN f.at[Rebased(r, q, p)]
     ELSE IF Under(r, p) \/ Under(r, q) THEN 0
     ELSE f.at[r]]]

RenameError(f, p, q) ==
  IF KindAt(f, p) = "none" \/ KindAt(f, Parent(q)) # "dir" THEN "NOENT"
  ELSE IF Under(q, p) /\ q # p THEN "INVAL"
  ELSE IF p = q THEN "OK"
  ELSE IF KindAt(f, q) = "dir" /\ KindAt(f, p) # "dir" THEN "ISDIR"
  ELSE IF KindAt(f, q) \notin {"dir", "none"} /\ KindAt(f, p) = "dir" THEN "NOTDIR"
  ELSE IF Children(f, q) # {} THEN "NOTEMPTY"
  ELSE "OK"

-----------------------------------------------------------------------------
(* A share with inode handles, and several of them behind Multi.           *)

\* The result of an operation: its error, the file system after it, and the file
\* it returns as a node.
Result(st, f, k) == [st |-> st, fs |-> f, file |-> k]
Fail(st, f)      == Result(st, f, 0)

\* describe remembers where the file was seen.
describe(f, p) == [f EXCEPT !.cache[f.at[p]] = p]

statNode(f, p) ==
  IF f.at[p] = 0 THEN Fail("NOENT", f) ELSE Result("OK", describe(f, p), f.at[p])

\* The file's place by search: the share is walked for the inode.
search(f, k) == {p \in Paths : f.at[p] = k}
searchFor(f, k) == IF search(f, k) = {} THEN Fail("STALE", f)
                   ELSE statNode(f, CHOOSE p \in search(f, k) : TRUE)

\* Mutant: the file found at the remembered path is not compared with the handle.
NodeByHandleUnchecked(f, k) ==
  IF k = 0 THEN Fail("BADHANDLE", f)
  ELSE IF k > f.n THEN Fail("STALE", f)
  ELSE IF f.cache[k] # None /\ f.at[f.cache[k]] # 0 THEN statNode(f, f.cache[k])
  ELSE searchFor(f, k)

\* The file a handle names.  Handle 0 is bytes no share issues, a number above
\* f.n a handle of a share that is not served.
NodeByHandle(f, k) ==
  IF k = 0 THEN Fail("BADHANDLE", f)
  ELSE IF k > f.n THEN Fail("STALE", f)
  ELSE IF f.cache[k] # None /\ f.at[f.cache[k]] = k THEN statNode(f, f.cache[k])
  ELSE searchFor(IF f.cache[k] = None THEN f ELSE statNode(f, f.cache[k]).fs, k)

checkName(name) == name \in Names

\* MountRoot walks from the share's root; every element but the last must be a
\* directory.  (mountMnt wants the last to be one, too.)
MountRoot(f, p) ==
  LET steps == {SubSeq(p, 1, k) : k \in 1..Len(p)} IN
  IF p \notin Paths \/ \E q \in steps : f.at[q] = 0 THEN Fail("NOENT", f)
  ELSE IF \E q \in steps : KindAt(f, q) # "dir" THEN Fail("NOTDIR", f)
  ELSE Result("OK", [f EXCEPT !.cache = [k \in Files |->
         LET ps == {q \in steps : f.at[q] = k}
         IN  IF ps = {} THEN f.cache[k] ELSE CHOOSE q \in ps : TRUE]], f.at[p])

\* Lookup; "." and ".." are answered, any other odd name is not found.
Lookup(f, dir, name) ==
  IF dir.kind # "dir" THEN Fail("NOTDIR", f)
  ELSE IF name = "." THEN statNode(f, dir.path)
  ELSE IF name = ".." THEN statNode(f, IF Len(dir.path) = 1 THEN dir.path ELSE Parent(dir.path))
  ELSE IF ~checkName(name) \/ Len(dir.path) > Depth THEN Fail("NOENT", f)
  ELSE statNode(f, Append(dir.path, name))

forget(f, p) ==
  [f EXCEPT !.cache = [k \in Files |->
     IF f.cache[k] # None /\ Under(f.cache[k], p) THEN None ELSE f.cache[k]]]

\* Mutant: only the renamed path itself is remembered at its new place.
movedTopOnly(f, p, q) ==
  [f EXCEPT !.cache = [k \in Files |-> IF f.cache[k] = p THEN q ELSE f.cache[k]]]

\* (Bound: a place below Depth, where nothing is, is forgotten.)
moved(f, p, q) ==
  [f EXCEPT !.cache = [k \in Files |->
     IF f.cache[k] = None \/ ~Under(f.cache[k], p) THEN f.cache[k]
     ELSE IF Rebased(f.cache[k], p, q) \in Paths THEN Rebased(f.cache[k], p, q) ELSE None]]

\* SetAttr works on the kind the node had and on the file at its path by now.  (A
\* link's target is not in the share.)
SetAttr(f, nd, size) ==
  IF size /\ nd.kind = "dir" THEN Fail("ISDIR", f)
  ELSE IF size /\ nd.kind = "lnk" THEN Fail("INVAL", f)
  ELSE IF nd.kind = "lnk" THEN Result("OK", f, nd.file)
  ELSE IF KindAt(f, nd.path) \in {"none", "lnk"} THEN Fail("NOENT", f)
  ELSE IF size /\ KindAt(f, nd.path) = "dir" THEN Fail("ISDIR", f)
  ELSE Result("OK", Touch(f, nd.path), f.at[nd.path])

WriteAt(f, nd) ==
  CASE KindAt(f, nd.path) \in {"none", "lnk"} -> Fail("NOENT", f)
    [] KindAt(f, nd.path) = "dir" -> Fail("ISDIR", f)
    [] OTHER -> Result("OK", Touch(f, nd.path), f.at[nd.path])

\* newEntry: the path of a new entry.  (Bound: nothing is made below Depth.)
newEntryError(dir, name) ==
  IF dir.kind # "dir" THEN "NOTDIR"
  ELSE IF ~checkName(name) THEN "INVAL"
  ELSE IF Len(dir.path) > Depth THEN "NOSPC"
  ELSE "OK"

\* The host makes an entry, if it may.
Make(f, p, kind, v) ==
  IF KindAt(f, Parent(p)) # "dir" THEN Fail("NOENT", f)
  ELSE IF f.at[p] # 0 THEN Fail("EXIST", f)
  ELSE IF f.n = MaxFiles THEN Fail("NOSPC", f)
  ELSE statNode(HostMake(f, p, kind, v), p)

\* An exclusive create of a name that exists: the same request again?
retransmitted(f, p, v) ==
  IF KindAt(f, p) = "reg" /\ f.verf[f.at[p]] = v THEN statNode(f, p) ELSE Fail("EXIST", f)

Create(f, dir, name, how, v) ==
  LET p == Append(dir.path, name) IN
  IF newEntryError(dir, name) # "OK" THEN Fail(newEntryError(dir, name), f)
  ELSE IF how = "unchecked" /\ f.at[p] # 0 THEN
         IF KindAt(f, p) # "reg" THEN Fail("EXIST", describe(f, p))
         ELSE Result("OK", Touch(describe(f, p), p), f.at[p])
  ELSE IF how = "exclusive" /\ f.at[p] # 0 THEN retransmitted(f, p, v)
  ELSE Make(f, p, "reg", IF how = "exclusive" THEN v ELSE None)

Mkdir(f, dir, name) ==
  IF newEntryError(dir, name) # "OK" THEN Fail(newEntryError(dir, name), f)
  ELSE Make(f, Append(dir.path, name), "dir", None)

Symlink(f, dir, name) ==
  IF newEntryError(dir, name) # "OK" THEN Fail(newEntryError(dir, name), f)
  ELSE Make(f, Append(dir.path, name), "lnk", None)

remove(f, dir, name, wantDir) ==
  LET p == Append(dir.path, name) IN
  IF newEntryError(dir, name) # "OK" THEN Fail(newEntryError(dir, name), f)
  ELSE IF f.at[p] = 0 THEN Fail("NOENT", f)
  ELSE IF wantDir /\ KindAt(f, p) # "dir" THEN Fail("NOTDIR", describe(f, p))
  ELSE IF ~wantDir /\ KindAt(f, p) = "dir" THEN Fail("ISDIR", describe(f, p))
  ELSE IF Children(f, p) # {} THEN Fail("NOTEMPTY", describe(f, p))
  ELSE Fail("OK", forget(HostRemove(f, p), p))

\* Multi.Rename refuses two shares; FS.Rename tells the cache what became of both.
Rename(f, from, name, to, toName) ==
  LET p == Append(from.path, name)  q == Append(to.path, toName) IN
  IF from.path[1] # to.path[1] THEN Fail("XDEV", f)
  ELSE IF newEntryError(from, name) # "OK" THEN Fail(newEntryError(from, name), f)
  ELSE IF newEntryError(to, toName) # "OK" THEN Fail(newEntryError(to, toName), f)
  ELSE IF RenameError(f, p, q) # "OK" THEN Fail(RenameError(f, p, q), f)
  ELSE IF \E r \in Children(f, p) : Rebased(r, p, q) \notin Paths THEN Fail("NOSPC", f)
  ELSE IF p = q THEN Fail("OK", f)
  ELSE Fail("OK", moved(forget(HostRename(f, p, q), q), p, q))

-----------------------------------------------------------------------------
(* The procedures.  Each takes the call, the node of its handle (and, for  *)
(* a rename, of the second one) and the file system.                       *)

\* The procedure tables, by number; number 0 is NULL everywhere.
nfs2Procs ==
  <<"getattr", "setattr", "null", "lookup", "readlink", "read", "null", "write",
    "create", "remove", "rename", "link", "symlink", "mkdir", "rmdir", "readdir", "statfs">>
nfs3Procs ==
  <<"getattr", "setattr", "lookup", "access", "readlink", "read", "write", "create",
    "mkdir", "symlink", "mknod", "remove", "rmdir", "rename", "link", "readdir",
    "readdirplus", "fsstat", "fsinfo", "pathconf", "commit">>
mountProcs   == [n \in {1, 3, 4, 5} |->
                   CASE n = 1 -> "mnt" [] n = 3 -> "umnt" [] n = 4 -> "null" [] n = 5 -> "export"]
portmapProcs == [n \in {3, 4} |-> IF n = 3 THEN "getport" ELSE "dump"]

\* rpcTable: the programs and versions served.
table(prog, vers) ==
  CASE prog = "nfs" /\ vers = 2 -> nfs2Procs
    [] prog = "nfs" /\ vers = 3 -> nfs3Procs
    [] prog = "mount" /\ vers \in {1, 3} -> mountProcs
    [] prog = "portmap" /\ vers = 2 -> portmapProcs
    [] OTHER -> <<>>
Served(prog) == prog \in {"nfs", "mount", "portmap"}

ProcOf(c) == IF c.proc = 0 THEN "null" ELSE table(c.prog, c.vers)[c.proc]

Changing == {"setattr", "write", "create", "remove", "rename", "link", "symlink", "mkdir",
             "rmdir", "mknod", "commit"}

\* The procedures that do not read their arguments, and those that use no file.
Unread(c) == \/ ProcOf(c) \in {"null", "export", "dump", "link", "mknod"}
             \/ ProcOf(c) \in Changing /\ ~writable
Blind(c)  == Unread(c) \/ ProcOf(c) \in {"umnt", "getport"}

\* nfsROFS, rofs3, nfsLink and notsupp3.
refuse(c) ==
  IF ProcOf(c) \in Changing /\ ~writable THEN "ROFS"
  ELSE IF ProcOf(c) = "link" /\ c.vers = 2 THEN "PERM"
  ELSE IF ProcOf(c) \in {"link", "mknod"} THEN "NOTSUPP"
  ELSE "OK"

\* statusFor and status2For.
Status(c, st) ==
  CASE c.prog = "nfs" /\ c.vers = 2 /\ st = "BADHANDLE" -> "STALE"
    [] c.prog = "nfs" /\ c.vers = 2 /\ st = "NOTSUPP" -> "IO"
    [] OTHER -> st

\* dirop and dirop3 refuse what is not a directory.
InDirectory(nd, f, r) == IF nd.kind # "dir" THEN Fail("NOTDIR", f) ELSE r

nfsSetattr(c, nd, f) == SetAttr(f, nd, c.size)

nfs3Setattr(c, nd, f) ==
  IF c.guard # -1 /\ c.guard # nd.ctime THEN Fail("NOTSYNC", f) ELSE SetAttr(f, nd, c.size)

\* nfsWrite and nfs3Write.
writeTo(nd, f) ==
  CASE nd.kind = "reg" -> WriteAt(f, nd)
    [] nd.kind = "dir" -> Fail("ISDIR", f)
    [] OTHER -> Fail("INVAL", f)

\* A verifier is the call's own: two calls never carry the same.
Verifier(p, c) == <<p, c.xid>>

nfsCreate(c, nd, f, mkdir) ==
  InDirectory(nd, f, IF mkdir THEN Mkdir(f, nd, c.name) ELSE Create(f, nd, c.name, "unchecked", None))
nfs3Create(p, c, nd, f) == InDirectory(nd, f, Create(f, nd, c.name, c.how, Verifier(p, c)))
nfs3Mkdir(c, nd, f)     == InDirectory(nd, f, Mkdir(f, nd, c.name))
nfsSymlink(c, nd, f)    == InDirectory(nd, f, Symlink(f, nd, c.name))
nfs3Symlink(c, nd, f)   == InDirectory(nd, f, Symlink(f, nd, c.name))
nfsRemove(c, nd, f, rmdir)  == InDirectory(nd, f, remove(f, nd, c.name, rmdir))
nfs3Remove(c, nd, f, rmdir) == InDirectory(nd, f, remove(f, nd, c.name, rmdir))
nfsRename(c, nd, to, f)  == InDirectory(nd, f, InDirectory(to, f, Rename(f, nd, c.name, to, c.toName)))
nfs3Rename(c, nd, to, f) == InDirectory(nd, f, InDirectory(to, f, Rename(f, nd, c.name, to, c.toName)))

nfsLookup(c, nd, f)  == Lookup(f, nd, c.name)
nfs3Lookup(c, nd, f) == InDirectory(nd, f, Lookup(f, nd, c.name))

\* Version 2 leaves the kind to the share, version 3 looks first.  (Reads are from
\* within the file.)
nfsReadlink(nd, f)  == IF nd.kind = "lnk" /\ f.at[nd.path] # 0 THEN Fail("OK", f)
                       ELSE Fail(IF nd.kind = "lnk" THEN "NOENT" ELSE "INVAL", f)
nfs3Readlink(nd, f) == IF nd.kind # "lnk" THEN Fail("INVAL", f) ELSE nfsReadlink(nd, f)
nfsRead(nd, f)  == IF nd.kind # "reg" THEN Fail("INVAL", f)
                   ELSE Fail(IF KindAt(f, nd.path) \in {"none", "lnk"} THEN "NOENT"
                             ELSE IF KindAt(f, nd.path) = "dir" THEN "ISDIR" ELSE "OK", f)
nfs3Read(nd, f) == IF nd.kind = "dir" THEN Fail("ISDIR", f) ELSE nfsRead(nd, f)

\* The directory is opened at its path and every entry is described.
readdirStart(nd, f) ==
  IF nd.kind # "dir" THEN Fail("NOTDIR", f)
  ELSE IF KindAt(f, nd.path) # "dir" THEN Fail(IF f.at[nd.path] = 0 THEN "NOENT" ELSE "NOTDIR", f)
  ELSE Fail("OK", [f EXCEPT !.cache = [k \in Files |->
         LET ps == {p \in Children(f, nd.path) : f.at[p] = k /\ Parent(p) = nd.path}
         IN  IF ps = {} THEN f.cache[k] ELSE CHOOSE p \in ps : TRUE]])

\* What is asked without touching a file: the attributes, the rights and the space
\* are those of the node and of the export.
nfs3Access(f) == Fail("OK", f)
nfs3Fsstat(f) == Fail("OK", f)
nfsStatfs(f)  == Fail("OK", f)

Handler(p, c, nd, to, f) ==
  LET proc == ProcOf(c)  v2 == c.vers = 2 IN
  CASE proc = "setattr" -> IF v2 THEN nfsSetattr(c, nd, f) ELSE nfs3Setattr(c, nd, f)
    [] proc = "write" -> writeTo(nd, f)
    [] proc = "create" -> IF v2 THEN nfsCreate(c, nd, f, FALSE) ELSE nfs3Create(p, c, nd, f)
    [] proc = "mkdir" -> IF v2 THEN nfsCreate(c, nd, f, TRUE) ELSE nfs3Mkdir(c, nd, f)
    [] proc = "symlink" -> IF v2 THEN nfsSymlink(c, nd, f) ELSE nfs3Symlink(c, nd, f)
    [] proc \in {"remove", "rmdir"} -> IF v2 THEN nfsRemove(c, nd, f, proc = "rmdir")
                                       ELSE nfs3Remove(c, nd, f, proc = "rmdir")
    [] proc = "rename" -> IF v2 THEN nfsRename(c, nd, to, f) ELSE nfs3Rename(c, nd, to, f)
    [] proc = "lookup" -> IF v2 THEN nfsLookup(c, nd, f) ELSE nfs3Lookup(c, nd, f)
    [] proc = "readlink" -> IF v2 THEN nfsReadlink(nd, f) ELSE nfs3Readlink(nd, f)
    [] proc = "read" -> IF v2 THEN nfsRead(nd, f) ELSE nfs3Read(nd, f)
    [] proc \in {"readdir", "readdirplus"} -> readdirStart(nd, f)
    [] proc = "access" -> nfs3Access(f)
    [] proc \in {"fsstat", "fsinfo", "pathconf"} -> nfs3Fsstat(f)
    [] proc = "statfs" -> nfsStatfs(f)
    [] OTHER -> Fail("OK", f)

\* The status of the reply, and the handle in it: most version 2 procedures read
\* the attributes of the handle anew, and so does a create of either version.

attrstat(c, f) == NodeByHandle(f, c.fh).st

made(c, r, f) ==
  LET again == NodeByHandle(f, r.file) IN
  IF r.st # "OK" THEN [st |-> r.st, fh |-> 0]
  ELSE IF c.vers = 2 /\ ProcOf(c) = "symlink" THEN [st |-> "OK", fh |-> 0]
  ELSE IF c.vers = 2 THEN [st |-> again.st, fh |-> again.file]
  ELSE [st |-> "OK", fh |-> again.file]

replyOf(c, r, f) ==
  LET proc == ProcOf(c) IN
  CASE proc \in {"create", "mkdir", "symlink"} -> made(c, r, f)
    [] c.vers = 2 /\ proc \in {"setattr", "write"} /\ r.st = "OK" ->
         [st |-> attrstat(c, f), fh |-> 0]
    [] OTHER -> [st |-> r.st, fh |-> r.file]

-----------------------------------------------------------------------------
(* The RPC layer.                                                          *)

nonIdempotent(c) ==
  /\ c.prog = "nfs"
  /\ \/ c.vers = 2 /\ (c.proc = 2 \/ c.proc \in 9..15)
     \/ c.vers = 3 /\ (c.proc = 2 \/ c.proc \in 8..15)

NoEntry == [addr |-> "none", call |-> "none", reply |-> "none"]
EmptyDrc == [ent |-> [i \in 0..DrcSize - 1 |-> NoEntry], next |-> 0]

\* drc.lookup: the entries of this address with this very call.
lookup(p, c) ==
  IF ~nonIdempotent(c) THEN {}
  ELSE {i \in DOMAIN drc.ent : drc.ent[i].addr = p /\ drc.ent[i].call = c}

\* Mutant: every reply goes into the first entry.
storeFirst(p, c, reply) ==
  IF ~nonIdempotent(c) THEN drc
  ELSE [drc EXCEPT !.ent[0] = [addr |-> p, call |-> c, reply |-> reply]]

store(p, c, reply) ==
  IF ~nonIdempotent(c) THEN drc
  ELSE [ent  |-> [drc.ent EXCEPT ![drc.next] = [addr |-> p, call |-> c, reply |-> reply]],
        next |-> (drc.next + 1) % DrcSize]

\* What dispatch finds out before it calls a handler; "call" when it does.
dispatch(c) ==
  IF c.form = "reply" THEN "nothing"
  ELSE IF c.form = "rpc" THEN "DENIED"
  ELSE IF c.form = "cred" THEN "GARBAGE"
  ELSE IF ~Served(c.prog) THEN "PROG_UNAVAIL"
  ELSE IF table(c.prog, c.vers) = <<>> THEN "PROG_MISMATCH"
  ELSE IF c.proc # 0 /\ c.proc \notin DOMAIN table(c.prog, c.vers) THEN "PROC_UNAVAIL"
  ELSE "call"

NoNode == [file |-> 0, path |-> None, kind |-> "none", ctime |-> 0]
NodeOf(f, k) ==
  LET r == NodeByHandle(f, k) IN
  IF r.st # "OK" THEN NoNode
  ELSE [file |-> k, path |-> r.fs.cache[k], kind |-> f.kind[k], ctime |-> f.ctime[k]]

NoCall == [xid |-> 0]
Idle == [pc |-> "idle", peer |-> "none", call |-> NoCall, node |-> NoNode, to |-> NoNode,
         res |-> [st |-> "none", file |-> 0], changed |-> FALSE, hit |-> 0, moved |-> FALSE,
         cached |-> FALSE, lost |-> FALSE]
Job(p, c) == [Idle EXCEPT !.peer = p, !.call = c]
Answer(j, st, k) == [j EXCEPT !.pc = "reply", !.res = [st |-> st, file |-> k]]

\* Mutant: a handler does not look whether its arguments were there.
undecodableIgnored(c) == FALSE

\* The check of r.err that every handler which changes something makes first.
undecodable(c) == c.form = "args"

\* A handler up to the point where it asks the file system.
decode(j, f) ==
  LET c == j.call
      from == NodeByHandle(f, c.fh)
      to == NodeByHandle(from.fs, c.toFh)
      rename == ProcOf(c) = "rename" IN
  IF Blind(c) THEN [job |-> Answer(j, refuse(c), 0), fs |-> f]
  ELSE IF undecodable(c) THEN [job |-> Answer(j, "GARBAGE", 0), fs |-> f]
  ELSE IF ProcOf(c) = "mnt" THEN
         LET r == MountRoot(f, c.path) IN [job |-> Answer(j, r.st, r.file), fs |-> r.fs]
  ELSE IF from.st # "OK" THEN [job |-> Answer(j, from.st, 0), fs |-> from.fs]
  ELSE IF rename /\ to.st # "OK" /\ f.kind[c.fh] = "dir" THEN [job |-> Answer(j, to.st, 0), fs |-> to.fs]
  ELSE [job |-> [j EXCEPT !.pc = "work", !.node = NodeOf(f, c.fh),
                          !.to = IF rename THEN NodeOf(f, c.toFh) ELSE NoNode],
        fs |-> IF rename THEN to.fs ELSE from.fs]

\* The first step of a call.  For a message that is not a call the reply is nil: it is
\* cached like any other, and not sent.
Begin(w, p, c) ==
  LET d == dispatch(c)
      s == decode(Job(p, c), fs) IN
  IF d = "call" THEN job' = [job EXCEPT ![w] = s.job] /\ fs' = s.fs
  ELSE job' = [job EXCEPT ![w] = Answer(Job(p, c), d, 0)] /\ fs' = fs

-----------------------------------------------------------------------------
(* Clients, sockets and connections.                                       *)

Fresh == [runs |-> 0, answers |-> {}, age |-> 0, excused |-> FALSE, early |-> FALSE]

\* A client makes a call: of the handles, any that was ever given out, one no share
\* gives out, and one of another server's share.
Call(p) ==
  /\ pend[p] = NoCall
  /\ Len(seen[p]) < Plans[plan].max[p]
  /\ \E m \in Plans[plan].menu[p] :
       /\ {m.fh, m.toFh} \subseteq 0..fs.n \cup {MaxFiles + 1}
       /\ pend' = [pend EXCEPT ![p] = [m EXCEPT !.xid = Len(seen[p]) + 1]]
  /\ seen' = [seen EXCEPT ![p] = Append(@, Fresh)]
  /\ UNCHANGED <<fs, plan, hostDone, writable, drc, job, stray, record, restarts>>

\* A call runs, for the first time or again.
Ran(p, c) ==
  LET e == seen[p][c.xid] IN
  seen' = [seen EXCEPT ![p][c.xid] =
    [e EXCEPT !.runs = 1, !.excused = @ \/ (e.runs > 0 /\ e.age = DrcSize),
                          !.early = @ \/ (e.runs > 0 /\ e.age < DrcSize)]]

\* ServeUDP takes a datagram: the call a client waits for, sent however often, or
\* a late copy of an earlier one.  A cached reply is sent again.
ServeUDP(p, c) ==
  /\ c # NoCall
  /\ job["udp"] = Idle
  /\ IF lookup(p, c) # {}
       THEN \E i \in lookup(p, c) :
              /\ job' = [job EXCEPT !["udp"] =
                   [Answer(Job(p, c), drc.ent[i].reply.st, drc.ent[i].reply.fh) EXCEPT !.cached = TRUE]]
              /\ UNCHANGED <<fs, seen>>
       ELSE Begin("udp", p, c) /\ (IF nonIdempotent(c) THEN Ran(p, c) ELSE UNCHANGED seen)
  /\ UNCHANGED <<plan, hostDone, writable, drc, pend, stray, record, restarts>>

\* The connection ends: the client closes it, or the server for a record that is
\* too large.  What was read of a record is dropped; a running call goes on.
Hangup(t) ==
  /\ record' = [record EXCEPT ![t] = 0]
  /\ pend' = [pend EXCEPT ![t] = NoCall]
  /\ job' = [job EXCEPT ![t].lost = job[t] # Idle]
  /\ UNCHANGED <<fs, plan, hostDone, writable, drc, stray, restarts, seen>>

\* readRecord takes one more fragment of a record, and not the last.
readRecord(t) ==
  /\ pend[t] # NoCall /\ job[t] = Idle
  /\ record[t] + 1 < pend[t].len
  /\ IF record[t] + 1 > MaxRecord THEN Hangup(t)
     ELSE /\ record' = [record EXCEPT ![t] = @ + 1]
          /\ UNCHANGED <<fs, plan, hostDone, writable, drc, job, pend, stray, restarts, seen>>

\* serveConn has the whole record.
serveConn(t) ==
  /\ pend[t] # NoCall /\ job[t] = Idle
  /\ record[t] + 1 = pend[t].len
  /\ IF record[t] + 1 > MaxRecord THEN Hangup(t)
     ELSE /\ record' = [record EXCEPT ![t] = 0]
          /\ Begin(t, t, pend[t])
          /\ UNCHANGED <<plan, hostDone, writable, drc, pend, stray, restarts, seen>>

Disconnect(t) ==
  /\ pend[t] # NoCall
  /\ Hangup(t)

\* The file system is asked.  The other goroutines keep the paths they resolved.
MovedBy(f, v) == job[v].pc = "work" /\ f.at[job[v].node.path] # fs.at[job[v].node.path]
Work(w) ==
  /\ job[w].pc = "work"
  /\ LET j == job[w]
         r == Handler(j.peer, j.call, j.node, j.to, fs)
         same == [r.fs EXCEPT !.cache = fs.cache] = fs
     IN  /\ fs' = r.fs
         /\ job' = [v \in Workers |->
              IF v = w THEN [Answer(j, r.st, r.file) EXCEPT !.changed = ~same,
                                                            !.hit = fs.at[j.node.path]]
              ELSE [job[v] EXCEPT !.moved = @ \/ MovedBy(r.fs, v)]]
  /\ UNCHANGED <<plan, hostDone, writable, drc, pend, stray, record, restarts, seen>>

\* The reply a job ends with.
replyTo(j, f) ==
  LET c == j.call
      r == IF dispatch(c) # "call" THEN [st |-> j.res.st, fh |-> 0]
           ELSE IF c.form = "args" /\ ~Unread(c) THEN [st |-> "GARBAGE", fh |-> 0]
           ELSE replyOf(c, j.res, f)
  IN  [r EXCEPT !.st = Status(c, r.st)]

\* The replies in the cache grow older as another one goes in.
Stored(p, c, st) ==
  seen' = [q \in Peers |-> [x \in DOMAIN seen[q] |->
    CASE q = p /\ x = c.xid -> [seen[q][x] EXCEPT !.answers = @ \cup {st}, !.age = 0]
      [] OTHER -> [seen[q][x] EXCEPT !.age = IF @ < DrcSize THEN @ + 1 ELSE @]]]

\* The reply is made, cached if it is to be, and sent; it may be lost.  Who sent what is
\* not a call does not wait for one.
Reply(w) ==
  /\ job[w].pc = "reply"
  /\ LET j == job[w]  p == j.peer  c == j.call
         rep == IF j.cached THEN [st |-> j.res.st, fh |-> j.res.file] ELSE replyTo(j, fs)
         keep == p \in Udp /\ nonIdempotent(c) /\ ~j.cached
     IN  /\ drc' = IF keep THEN store(p, c, rep) ELSE drc
         /\ IF keep THEN Stored(p, c, rep.st)
            ELSE IF p \in Udp /\ nonIdempotent(c)
              THEN seen' = [seen EXCEPT ![p][c.xid].answers = @ \cup {rep.st}]
            ELSE UNCHANGED seen
         /\ \/ /\ pend[p] = c /\ ~j.lost
               /\ pend' = [pend EXCEPT ![p] = NoCall]
               /\ \/ p \in Udp /\ stray' = [stray EXCEPT ![p] = c]
                  \/ (p \in Tcp \/ stray[p] # NoCall) /\ UNCHANGED stray
            \/ /\ p \in Udp \/ j.lost
               /\ UNCHANGED <<pend, stray>>
  /\ job' = [job EXCEPT ![w] = Idle]
  /\ UNCHANGED <<fs, plan, hostDone, writable, record, restarts>>

\* The server dies and is started again: what it kept in memory is gone.
Restart ==
  /\ restarts < Plans[plan].restarts
  /\ restarts' = restarts + 1
  /\ job' = [w \in Workers |-> Idle]
  /\ drc' = EmptyDrc
  /\ fs' = [fs EXCEPT !.cache = [k \in Files |-> None]]
  /\ pend' = [p \in Peers |-> IF p \in Udp THEN pend[p] ELSE NoCall]
  /\ record' = [t \in Tcp |-> 0]
  /\ seen' = [q \in Peers |-> [x \in DOMAIN seen[q] |-> [seen[q][x] EXCEPT !.age = DrcSize]]]
  /\ UNCHANGED <<plan, hostDone, writable, stray>>

\* Someone on the host removes a file of a share, or renames it in the share
\* (external): the server is not told.
HostChange ==
  /\ hostDone < Plans[plan].host
  /\ hostDone' = hostDone + 1
  /\ \E p \in Paths, q \in Paths :
       /\ fs.at[p] # 0 /\ Len(p) > 1
       /\ \/ p = q /\ Children(fs, p) = {} /\ fs' = HostRemove(fs, p)
          \/ /\ p # q /\ p[1] = q[1] /\ Len(q) > 1 /\ RenameError(fs, p, q) = "OK"
             /\ \A r \in Children(fs, p) : Rebased(r, p, q) \in Paths
             /\ fs' = HostRename(fs, p, q)
  /\ job' = [v \in Workers |-> [job[v] EXCEPT !.moved = @ \/ MovedBy(fs', v)]]
  /\ UNCHANGED <<plan, writable, drc, pend, stray, record, restarts, seen>>

Init ==
  /\ \E tree \in Trees :
       LET placed(p) == {i \in DOMAIN tree : tree[i].path = p} IN
       fs = [at |-> [p \in Paths |-> IF placed(p) = {} THEN 0 ELSE CHOOSE i \in placed(p) : TRUE],
             kind  |-> [k \in Files |-> IF k \in DOMAIN tree THEN tree[k].kind ELSE "none"],
             ctime |-> [k \in Files |-> 0],
             verf  |-> [k \in Files |-> None],
             cache |-> [k \in Files |-> None],
             n |-> Len(tree)]
  /\ plan \in DOMAIN Plans
  /\ writable \in BOOLEAN
  /\ drc = EmptyDrc
  /\ job = [w \in Workers |-> Idle]
  /\ pend = [p \in Peers |-> NoCall]
  /\ stray = [p \in Peers |-> NoCall]
  /\ record = [t \in Tcp |-> 0]
  /\ restarts = 0
  /\ hostDone = 0
  /\ seen = [p \in Peers |-> <<>>]

Next ==
  \/ \E p \in Peers : Call(p)
  \/ \E p \in Udp : \E c \in {pend[p], stray[p]} : ServeUDP(p, c)
  \/ \E t \in Tcp : readRecord(t) \/ serveConn(t) \/ Disconnect(t)
  \/ \E w \in Workers : Work(w) \/ Reply(w)
  \/ Restart
  \/ HostChange

Spec == Init /\ [][Next]_vars

-----------------------------------------------------------------------------
(* Properties.                                                             *)

\* rpc.go:129: "a second REMOVE or RENAME would fail although the first succeeded,
\* so the replies to those calls are kept and resent instead."  However often a
\* client resends a call that changes something, and whatever other clients do in
\* between, it runs once and is answered alike each time, until DrcSize later
\* replies have been kept or the server has been restarted.
ResentNotRerun ==
  \A p \in Udp : \A x \in DOMAIN seen[p] :
    /\ ~seen[p][x].early
    /\ ~seen[p][x].excused => \A a, b \in seen[p][x].answers : a = b

\* A call that is answered with an error has changed nothing, whatever ran in
\* between: one that could not be decoded, one of a read-only export, one with a
\* stale handle.  The exception is version 2, whose reply needs the file's
\* attributes: when another client has removed the file since, it says STALE.  Nor
\* is a client of version 2 told a status that only version 3 has.
ErrorMeansNoChange ==
  \A w \in Workers : job[w].pc = "reply" /\ ~job[w].cached =>
    LET rep == replyTo(job[w], fs)
        c   == job[w].call
    IN  /\ c.prog = "nfs" /\ c.vers = 2 => rep.st \notin {"BADHANDLE", "NOTSUPP"}
        /\ \/ ~job[w].changed \/ rep.st = "OK"
           \/ /\ c.vers = 2 /\ rep.st = "STALE"
              /\ ProcOf(c) \in {"setattr", "write", "create", "mkdir"}
              /\ search(fs, IF ProcOf(c) \in {"setattr", "write"} THEN c.fh ELSE job[w].res.file) = {}

\* A change made through a handle lands on the file, or in the directory, that the
\* handle names, unless another call moved, replaced or removed it after the
\* handle was resolved: then the path decides, and another file may be hit.
LandsOnItsFile ==
  \A w \in Workers : job[w].pc = "reply" /\ job[w].changed =>
    job[w].hit = job[w].call.fh \/ job[w].moved

\* sharefs.go:777: "moved records a rename, so handles under the old path keep
\* working without a search."  As long as only the server changes the share, a
\* file is where the share remembers it, through every create, remove and rename
\* of it or of a directory above it.
CacheExact ==
  hostDone = 0 => \A k \in Files : fs.cache[k] # None => fs.at[fs.cache[k]] = k
=============================================================================
