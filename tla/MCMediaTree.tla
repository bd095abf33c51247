---------------------------- MODULE MCMediaTree -----------------------------
(* MediaTree with three sources that hold what makes the merge decide: files  *)
(* that agree and differ, a directory in the place of a file, links that      *)
(* resolve and do not, a special file, a dist that is a link or is missing.   *)
EXTENDS MediaTree, TLC

CONSTANTS s1, s2, s3

Entry(kind, bytes, to) == [kind |-> kind, bytes |-> bytes, to |-> to]
D == Entry("dir", "none", <<>>)
F(x) == Entry("file", x, <<>>)
L(to) == Entry("link", "none", to)

Plain == (<<>> :> D) @@ (<<2>> :> D) @@ (<<2, 1>> :> F("x"))
Dist == Plain @@ (<<1>> :> D)
MCMedia ==
  {Plain,
   Dist,
   Dist @@ (<<1, 1>> :> F("x")) @@ (<<1, 2>> :> Entry("special", "none", <<>>)),
   Dist @@ (<<1, 1>> :> F("y")),
   Dist @@ (<<1, 1>> :> D) @@ (<<1, 1, 1>> :> F("x")),
   Dist @@ (<<1, 1>> :> L(<<1, 2>>)) @@ (<<1, 2>> :> F("y")),
   Dist @@ (<<1, 1>> :> L(<<1, 1>>)),
   (<<>> :> D) @@ (<<1>> :> L(<<3>>)) @@ (<<3>> :> D) @@ (<<3, 1>> :> F("x"))}

Layer(name, source, boot) == [name |-> name, source |-> source, boot |-> boot, dist |-> <<distDir>>, stand |-> <<standDir>>]
Set(name, layers, collisions, replacements) ==
  [name |-> name, layers |-> layers, collisions |-> collisions, replacements |-> replacements]
Nothing == [x \in {} |-> x]

Three == <<Layer("l1", s1, FALSE), Layer("l2", s2, FALSE), Layer("l3", s3, FALSE)>>
Winners == {Nothing} \cup {(<<1, 1, 1>> :> l) : l \in {"l1", "l2", "l3"}}
Replacing == {Nothing, ("l1" :> "l2"), ("l1" :> "l3"), ("l2" :> "l3"), ("l2" :> "l1"),
              ("l1" :> "l2") @@ ("l2" :> "l3")}

\* One set of three layers; two sets, one bootable, with a source in common; and
\* configurations that are refused.
MCSpecs ==
  {<<Set(1, Three, w, r)>> : w \in Winners, r \in Replacing}
    \cup {<<Set(1, <<Three[1]>>, Nothing, Nothing),
             Set(2, <<Layer("l1", s1, TRUE), Layer("l2", s2, FALSE)>>, Nothing, Nothing)>>,
           <<Set(1, <<Three[1], Three[1]>>, Nothing, Nothing)>>,
           <<Set(1, <<Three[1]>>, Nothing, Nothing), Set(1, <<Three[2]>>, Nothing, Nothing)>>,
           <<Set(1, <<Three[1], [Three[2] EXCEPT !.dist = Escapes]>>, Nothing, Nothing)>>,
           <<Set(1, <<[Layer("l1", s1, TRUE) EXCEPT !.stand = Escapes]>>, Nothing, Nothing)>>}

\* A shadowed file, a new one, and one in a new directory.
MCGenerated == {<<1, 1, 1>>, <<1, 1, 2>>, <<1, 3, 1>>}
====
