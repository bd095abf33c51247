----------------------------- MODULE MCNfsServer -----------------------------
(* NfsServer with a menu of calls: every procedure, with arguments that     *)
(* reach its branches.                                                      *)
EXTENDS NfsServer, TLC

CONSTANTS a, b, s1, s2

Plain == [xid |-> 0, form |-> "ok", prog |-> "nfs", vers |-> 3, proc |-> 0, fh |-> 1, name |-> a,
          toFh |-> 1, toName |-> b, how |-> "guarded", guard |-> -1, size |-> FALSE,
          path |-> <<s1>>, len |-> 1]
V2(n) == [Plain EXCEPT !.vers = 2, !.proc = n]
V3(n) == [Plain EXCEPT !.proc = n]

Tree(seq) == <<[path |-> <<s1>>, kind |-> "dir"], [path |-> <<s2>>, kind |-> "dir"]>> \o seq
MCTrees == {Tree(<<>>),
            Tree(<<[path |-> <<s1, a>>, kind |-> "reg"], [path |-> <<s1, b>>, kind |-> "reg"]>>),
            Tree(<<[path |-> <<s1, a>>, kind |-> "dir"]>>),
            Tree(<<[path |-> <<s1, a>>, kind |-> "dir"], [path |-> <<s1, a, a>>, kind |-> "reg"]>>)}

\* What the UDP clients send: calls that must not run twice.
Resent == {V2(10), V3(14), [V3(8) EXCEPT !.how = "exclusive"], V2(9), [V2(9) EXCEPT !.form = "reply"]}

\* What the TCP client sends.
Reads == {V3(1), V2(4), V3(3), V3(4), V3(18), V2(17), [V3(16) EXCEPT !.fh = 3], [V2(16) EXCEPT !.fh = 3],
          [V2(5) EXCEPT !.fh = 4], [V3(5) EXCEPT !.fh = 3], [V2(6) EXCEPT !.fh = 3],
          [V3(6) EXCEPT !.fh = 3], [V3(3) EXCEPT !.fh = 3, !.name = "."],
          [V3(3) EXCEPT !.fh = 3, !.name = ".."]}
Changes == {[V3(2) EXCEPT !.fh = 3, !.guard = 0, !.size = TRUE], [V3(2) EXCEPT !.fh = 4, !.guard = 1],
            V2(15), [V2(2) EXCEPT !.fh = 3], [V2(8) EXCEPT !.fh = 3], [V3(7) EXCEPT !.fh = 4], V3(21),
            [V3(8) EXCEPT !.how = "unchecked"], V3(8), V2(14), V3(9), V2(13), V3(10), V3(12), V3(13),
            [V2(10) EXCEPT !.fh = 3], V2(11), [V3(14) EXCEPT !.toFh = 3],
            [V3(14) EXCEPT !.fh = 3, !.toName = a], [V2(11) EXCEPT !.toFh = 2], V3(11), V2(12)}
Odd == {[V3(1) EXCEPT !.fh = 0], [V2(1) EXCEPT !.fh = 0], [V3(12) EXCEPT !.fh = MaxFiles + 1],
        [V3(12) EXCEPT !.form = "args"], [V2(9) EXCEPT !.form = "args"], [V3(9) EXCEPT !.name = ".."],
        [V3(1) EXCEPT !.form = "reply"], [V3(1) EXCEPT !.form = "rpc"], [V3(1) EXCEPT !.form = "cred"],
        [Plain EXCEPT !.vers = 4], [Plain EXCEPT !.prog = "other"], V3(30), V3(0),
        [V3(12) EXCEPT !.len = 2], [V3(12) EXCEPT !.len = 4],
        [Plain EXCEPT !.prog = "mount", !.proc = 1, !.path = <<s1, a>>],
        [Plain EXCEPT !.prog = "portmap", !.vers = 2, !.proc = 3]}

CONSTANTS u1, u2, t1
Plan(mu1, n1, mu2, n2, mt1, nt1, r, h) ==
  [menu |-> (u1 :> mu1) @@ (u2 :> mu2) @@ (t1 :> mt1), max |-> (u1 :> n1) @@ (u2 :> n2) @@ (t1 :> nt1),
   restarts |-> r, host |-> h]

\* Two clients that resend their calls; one beside a client on a connection; the
\* same with a crash, and with someone at work on the host.
MCPlans == <<Plan(Resent, 2, {V2(10), V3(14)}, 1, {}, 0, 0, 0),
             Plan({V2(10), V3(14)}, 2, {}, 0, Reads \cup Changes \cup Odd, 1, 0, 0),
             Plan(Resent, 1, {}, 0, Changes, 1, 1, 0),
             Plan({V3(3), [V3(3) EXCEPT !.fh = 3], V3(14)}, 1, {}, 0, Changes, 1, 0, 1)>>
=============================================================================
