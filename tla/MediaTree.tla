----------------------------- MODULE MediaTree ------------------------------
(***************************************************************************)
(* The install tree of internal/vfs: Build merges the layers of each set   *)
(* into one read-only tree, generated files are added to it, and Close     *)
(* frees the sources.  A source is a small filesystem of directories,      *)
(* files, links and special files; a layer names a source and the          *)
(* directory of it that lands on the set's dist.  Contents are compared    *)
(* and nothing else; owners, modes and times are left out.                 *)
(***************************************************************************)
EXTENDS Integers, Sequences, FiniteSets

CONSTANTS
  Sources,      \* source references
  Media,        \* what a source may hold: functions from paths to entries
  Specs,        \* the configurations: sequences of sets
  Generated,    \* the paths the profile generates
  maxSymlinks   \* links followed from one entry

\* A name is its rank in lexical order, a path a sequence of names.
distDir  == 1
standDir == 2
RootIno  == 2
Escapes  == <<0>>   \* a configured directory that is no path within its source

LayerSpec == [name : STRING, source : Sources, boot : BOOLEAN, dist : Seq(Nat), stand : Seq(Nat)]

ASSUME TreeAssumption ==
  /\ maxSymlinks \in Nat
  /\ \A m \in Media : /\ DOMAIN m \subseteq Seq(Nat) /\ <<>> \in DOMAIN m
                      /\ \A p \in DOMAIN m : m[p].kind \in {"dir", "file", "link", "special"}
  /\ \A s \in Specs : Len(s) \in Nat /\ DOMAIN s = 1..Len(s)
                      /\ \A k \in DOMAIN s : s[k].name \in Nat /\ s[k].layers \in Seq(LayerSpec)
  /\ Generated \subseteq Seq(Nat) \ {<<>>}

VARIABLES
  spec,     \* the configuration
  media,    \* what each source holds
  pc,       \* where Build is; then "built", "failed" or "closed"
  at,       \* the set and the layer it is at
  todo,     \* the entries still to be walked: where they are and where they go
  tree,     \* the nodes, by path
  nextIno,  \* Tree.nextIno
  closers,  \* Tree.closers, by source
  opens,    \* how often each source was opened: its entry in resolved, if any
  closes    \* how often it was closed (a history)

vars == <<spec, media, pc, at, todo, tree, nextIno, closers, opens, closes>>
input == <<spec, media>>
sources == <<closers, opens, closes>>

-----------------------------------------------------------------------------
(* Paths.                                                                  *)

IsPrefix(p, q) == Len(p) <= Len(q) /\ p = SubSeq(q, 1, Len(p))
Prefixes(p) == {SubSeq(p, 1, k) : k \in 0..Len(p)}
Parent(p) == SubSeq(p, 1, Len(p) - 1)
Base(p) == p[Len(p)]

\* Lexical pre-order.
Before(p, q) ==
  \/ p # q /\ IsPrefix(p, q)
  \/ \E k \in 1..Len(p) :
       /\ k <= Len(q) /\ p[k] < q[k]
       /\ \A j \in 1..(k - 1) : p[j] = q[j]

-----------------------------------------------------------------------------
(* A source.                                                               *)

Kind(fs, p) == IF p \in DOMAIN fs THEN fs[p].kind ELSE "none"
Names(fs, p) == {q \in DOMAIN fs : Len(q) = Len(p) + 1 /\ IsPrefix(p, q)}

\* resolveLink: the path reached in at most maxSymlinks hops.
resolveLink(fs, p) ==
  LET hop[h \in 0..maxSymlinks] ==
        IF h = 0 THEN p
        ELSE IF Kind(fs, hop[h - 1]) = "link" THEN fs[hop[h - 1]].to ELSE hop[h - 1]
  IN  hop[maxSymlinks]

\* statFollow: a path, or what a link leads to if that is there and not another link.
Follow(fs, p) ==
  LET end == IF Kind(fs, p) = "link" THEN resolveLink(fs, p) ELSE p
  IN  [kind |-> IF Kind(fs, end) = "link" THEN "none" ELSE Kind(fs, end), path |-> end]

-----------------------------------------------------------------------------
(* The tree.                                                               *)

\* A node: its origin is a layer and a path within it, or a generator.
Dir(layer) == [dir |-> TRUE, layer |-> layer, bytes |-> "none", ino |-> 0]
File(layer, bytes) == [dir |-> FALSE, layer |-> layer, bytes |-> bytes, ino |-> 0]

Put(t, p, n) == [q \in DOMAIN t \cup {p} |-> IF q = p THEN n ELSE t[q]]

\* ensureDir: the missing directories of a path, or an error where a file is in the way.
CanEnsure(t, p) == \A q \in Prefixes(p) \cap DOMAIN t : t[q].dir
ensureDir(t, p, layer) ==
  [q \in DOMAIN t \cup Prefixes(p) |-> IF q \in DOMAIN t THEN t[q] ELSE Dir(layer)]

Unnumbered(t) == {p \in DOMAIN t : t[p].ino = 0}

\* Mutant: every node is numbered anew.
numberAll(t, next) ==
  [p \in DOMAIN t |-> [t[p] EXCEPT !.ino = RootIno + Cardinality({q \in DOMAIN t : Before(q, p)})]]

\* number: the nodes without an inode get the next ones, in pre-order.
number(t, next) ==
  [p \in DOMAIN t |->
     IF t[p].ino # 0 THEN t[p]
     ELSE [t[p] EXCEPT !.ino = next + Cardinality({q \in Unnumbered(t) : Before(q, p)})]]

-----------------------------------------------------------------------------
(* Build.                                                                  *)

set == spec[at.set]
layer == set.layers[at.layer]
fsys == media[layer.source]
Positions(name) == {i \in DOMAIN set.layers : set.layers[i].name = name}

\* Close releases what the tree holds, once.
Close ==
  /\ closes' = [s \in Sources |-> closes[s] + closers[s]]
  /\ closers' = [s \in Sources |-> 0]
  /\ UNCHANGED opens

\* Mutant: an error leaves the sources open.
FailOpen == pc' = "failed" /\ UNCHANGED <<input, at, todo, tree, nextIno, sources>>

Fail == pc' = "failed" /\ Close /\ UNCHANGED <<input, at, todo, tree, nextIno>>

Goto(next) == pc' = next /\ UNCHANGED <<input, sources, nextIno>>

\* checkReplacements: layers have names of their own, and one replaces an earlier one.
checkReplacements ==
  /\ \A i, j \in DOMAIN set.layers : set.layers[i].name = set.layers[j].name => i = j
  /\ \A from \in DOMAIN set.replacements :
       \E i \in Positions(from), j \in Positions(set.replacements[from]) : i < j

BeginSet ==
  /\ pc = "set" /\ at.set <= Len(spec)
  /\ IF <<set.name>> \notin DOMAIN tree /\ checkReplacements
     THEN Goto("layer") /\ tree' = Put(tree, <<set.name>>, Dir("none")) /\ UNCHANGED <<at, todo>>
     ELSE Fail

\* addLayer resolves its source, unless an earlier layer did; this may fail.
Resolve ==
  /\ pc = "layer" /\ at.layer <= Len(set.layers)
  /\ \/ /\ opens[layer.source] = 0
        /\ opens' = [opens EXCEPT ![layer.source] = 1]
        /\ closers' = [closers EXCEPT ![layer.source] = 1]
        /\ pc' = "dist" /\ UNCHANGED <<input, at, todo, tree, nextIno, closes>>
     \/ opens[layer.source] = 0 /\ Fail
     \/ opens[layer.source] > 0 /\ Goto("dist") /\ UNCHANGED <<at, todo, tree>>

\* mergeTree walks a directory of the source onto a path of the tree.
Entries(dir, target) == {[src |-> q, target |-> Append(target, Base(q))] : q \in Names(fsys, dir)}

mergeTree(dir, target, next) ==
  LET end == Follow(fsys, dir)
  IN  IF dir # Escapes /\ end.kind = "dir" /\ CanEnsure(tree, target)
      THEN /\ Goto(next)
           /\ tree' = ensureDir(tree, target, layer.name)
           /\ todo' = Entries(end.path, target)
           /\ UNCHANGED at
      ELSE Fail

MergeDist ==
  /\ pc = "dist"
  /\ IF layer.boot /\ layer.stand = Escapes THEN Fail
     ELSE mergeTree(layer.dist, <<set.name, distDir>>, "walk")

MergeStand ==
  /\ pc = "walk" /\ todo = {} /\ layer.boot
  /\ mergeTree(layer.stand, <<set.name, standDir>>, "stand")

\* mergeChild: a file onto what is there.  An exact winner decides, then a replacement,
\* and otherwise the contents must agree.
Winner(p) == IF p \in DOMAIN set.collisions THEN set.collisions[p] ELSE "none"
Replaces(old, new) == old \in DOMAIN set.replacements /\ set.replacements[old] = new

supersedes(old, new, p) ==
  IF Winner(p) # "none" THEN new.layer = Winner(p) ELSE Replaces(old.layer, new.layer)

mergeChild(p, new) ==
  IF p \notin DOMAIN tree THEN {new}
  ELSE IF tree[p].dir # new.dir THEN {}
  ELSE IF tree[p].dir THEN {tree[p]}
  ELSE IF supersedes(tree[p], new, p) THEN {new}
  ELSE IF Winner(p) # "none" \/ tree[p].bytes = new.bytes THEN {tree[p]}
  ELSE {}

\* The walk is in lexical order, each directory before what is in it.
IsNext(e) == \A f \in todo \ {e} : Before(e.target, f.target)

\* walkFS: one entry.  A link must lead to a file; a special file is left out.
walkEntry(e) ==
  LET end  == Follow(fsys, e.src)
      leaf == Kind(fsys, e.src) = "link"
      new  == IF end.kind = "dir" THEN Dir(layer.name) ELSE File(layer.name, fsys[end.path].bytes)
  IN  IF leaf /\ end.kind # "file" THEN Fail
      ELSE IF end.kind = "special" THEN Goto(pc) /\ todo' = todo \ {e} /\ UNCHANGED <<at, tree>>
      ELSE IF mergeChild(e.target, new) = {} THEN Fail
      ELSE /\ Goto(pc)
           /\ \E n \in mergeChild(e.target, new) : tree' = Put(tree, e.target, n)
           /\ todo' = (todo \ {e}) \cup (IF end.kind = "dir" THEN Entries(e.src, e.target) ELSE {})
           /\ UNCHANGED at

walkFS == pc \in {"walk", "stand"} /\ \E e \in todo : IsNext(e) /\ walkEntry(e)

\* Comparing the contents reads both files, which may fail.
CompareFails ==
  /\ pc \in {"walk", "stand"}
  /\ \E e \in todo :
       /\ IsNext(e)
       /\ e.target \in DOMAIN tree /\ ~tree[e.target].dir /\ Follow(fsys, e.src).kind = "file"
       /\ Winner(e.target) = "none" /\ ~Replaces(tree[e.target].layer, layer.name)
  /\ Fail

NextLayer ==
  /\ pc \in {"walk", "stand"} /\ todo = {}
  /\ pc = "walk" => ~layer.boot
  /\ Goto("layer") /\ at' = [at EXCEPT !.layer = @ + 1]
  /\ UNCHANGED <<todo, tree>>

\* Mutant: a winner is not looked for.
collisionsUnchecked == TRUE

\* checkCollisions: each winner owns its file.
checkCollisions ==
  \A p \in DOMAIN set.collisions :
    p \in DOMAIN tree /\ ~tree[p].dir /\ tree[p].layer = set.collisions[p]

EndSet ==
  /\ pc = "layer" /\ at.layer > Len(set.layers)
  /\ IF checkCollisions
     THEN Goto("set") /\ at' = [set |-> at.set + 1, layer |-> 1] /\ UNCHANGED <<todo, tree>>
     ELSE Fail

Built ==
  /\ pc = "set" /\ at.set > Len(spec)
  /\ pc' = "built"
  /\ tree' = number(tree, nextIno)
  /\ nextIno' = nextIno + Cardinality(Unnumbered(tree))
  /\ UNCHANGED <<input, at, todo, sources>>

-----------------------------------------------------------------------------
(* The life of the tree.                                                   *)

\* AddGenerated shadows a file, whose inode it keeps, or adds one with its directories; an
\* error makes buildTree close the tree.
AddGenerated(p) ==
  /\ pc = "built"
  /\ IF CanEnsure(tree, Parent(p)) /\ (p \in DOMAIN tree => ~tree[p].dir)
     THEN LET t == ensureDir(tree, Parent(p), "generated")
              n == [File("generated", "made") EXCEPT !.ino = IF p \in DOMAIN tree THEN tree[p].ino ELSE 0]
          IN  /\ tree' = number(Put(t, p, n), nextIno)
              /\ nextIno' = nextIno + Cardinality(Unnumbered(Put(t, p, n)))
              /\ UNCHANGED <<input, pc, at, todo, sources>>
     ELSE Fail

CloseTree ==
  /\ pc = "built"
  /\ pc' = "closed" /\ Close
  /\ UNCHANGED <<input, at, todo, tree, nextIno>>

Init ==
  /\ spec \in Specs
  /\ media \in [Sources -> Media]
  /\ pc = "set" /\ at = [set |-> 1, layer |-> 1] /\ todo = {}
  /\ tree = [p \in {<<>>} |-> Dir("none")]
  /\ nextIno = RootIno
  /\ closers = [s \in Sources |-> 0] /\ opens = closers /\ closes = closers

Next ==
  \/ BeginSet \/ Resolve \/ MergeDist \/ MergeStand \/ walkFS \/ CompareFails
  \/ NextLayer \/ EndSet \/ Built
  \/ \E p \in Generated : AddGenerated(p)
  \/ CloseTree

Spec == Init /\ [][Next]_vars

-----------------------------------------------------------------------------
(* Properties.                                                             *)

\* The directories of a layer that are served, and where.
Roots(l) == {<<distDir, l.dist>>} \cup (IF l.boot THEN {<<standDir, l.stand>>} ELSE {})

\* What a walk of a directory meets, read off the source.
Below(fs, root) ==
  {e \in DOMAIN fs : /\ Kind(fs, root) = "dir" /\ e # root /\ IsPrefix(root, e)
                     /\ \A d \in Prefixes(e) : d # e /\ IsPrefix(root, d) => Kind(fs, d) = "dir"}

\* Where an entry below a root lands, in a directory b of the set a.
Landing(a, b, root, e) == <<a, b>> \o SubSeq(e, Len(root) + 1, Len(e))

\* The copy of a file: where it lands, the layer it is from, and its bytes.
Copy(m, s, i, r, e) ==
  LET fs == m[s.layers[i].source]
  IN  [path |-> Landing(s.name, r[1], Follow(fs, r[2]).path, e),
       at |-> i, bytes |-> fs[Follow(fs, e).path].bytes]

FilesOf(fs, r) == {e \in Below(fs, Follow(fs, r[2]).path) : Follow(fs, e).kind = "file"}

\* The copies that the layers of a set have, without the walk.
Copies(m, s) ==
  UNION {UNION {{Copy(m, s, i, r, e) : e \in FilesOf(m[s.layers[i].source], r)} :
                   r \in Roots(s.layers[i])} : i \in DOMAIN s.layers}

ReplacedBy(s, i, j) ==
  LET from == s.layers[i].name IN from \in DOMAIN s.replacements /\ s.replacements[from] = s.layers[j].name

\* A tree that was built serves, for each file of a layer, the copy of the configured winner;
\* without one, a copy that every other layer's agrees with, except where its content was
\* replaced by a later layer that the configuration names; and no file of a layer is missing.
ServesWhatIsConfigured ==
  pc = "built" => \A k \in DOMAIN spec : \A s \in {spec[k]}, copies \in {Copies(media, spec[k])} :
    \A c \in copies :
      /\ c.path \in DOMAIN tree /\ ~tree[c.path].dir
      /\ tree[c.path].layer # "generated" =>
           \E served \in copies :
             /\ served.path = c.path /\ served.bytes = tree[c.path].bytes
             /\ s.layers[served.at].name = tree[c.path].layer
             /\ IF c.path \in DOMAIN s.collisions
                THEN tree[c.path].layer = s.collisions[c.path]
                ELSE c.bytes = served.bytes \/ \E old, new \in copies :
                       /\ old.path = c.path /\ new.path = c.path /\ old.bytes = c.bytes
                       /\ old.at <= c.at /\ c.at < new.at /\ ReplacedBy(s, old.at, new.at)

\* Each source is opened at most once, however many layers name it, and closed exactly once
\* if it was: when the build or a generated file fails, or with the tree.
SourcesOnce ==
  \A s \in Sources :
    /\ opens[s] <= 1
    /\ closes[s] = IF pc \in {"failed", "closed"} THEN opens[s] ELSE 0

\* The nodes of a built tree have inodes of their own, and a path keeps the one a client may
\* have seen, whatever is generated or shadowed later.
InodesStable ==
  /\ [](pc = "built" =>
          /\ tree[<<>>].ino = RootIno
          /\ \A p, q \in DOMAIN tree : tree[p].ino # 0 /\ (p # q => tree[p].ino # tree[q].ino))
  /\ [][\A p \in DOMAIN tree : tree[p].ino # 0 =>
          p \in DOMAIN tree' /\ tree'[p].ino = tree[p].ino]_vars

\* spec.go:50: "That later layer replaces files claimed by the earlier layer anywhere in the
\* set; an exact Collisions entry takes precedence. Other differing pairs still fail."  In a
\* tree that was built, two layers that differ at a path have a winner there, or the later
\* one, or another, replaces the earlier.
OtherPairsFail ==
  pc = "built" => \A k \in DOMAIN spec : \A s \in {spec[k]}, copies \in {Copies(media, spec[k])} :
    \A c, d \in copies :
      c.path = d.path /\ c.at < d.at /\ c.bytes # d.bytes =>
        \/ c.path \in DOMAIN s.collisions
        \/ \E e \in copies : e.path = c.path /\ ReplacedBy(s, c.at, e.at)
====
