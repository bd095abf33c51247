------------------------- MODULE MCPrivateSegment ---------------------------
(* PrivateSegment for TLC: runs in which anything may fail, with a silent   *)
(* guest, and runs without faults, one for each way a guest boots.         *)
EXTENDS PrivateSegment

Run(command, shares, g, faults) ==
  [command |-> command, shares |-> shares, guest |-> g, faults |-> faults]

MCPlans ==
  {Run("share", TRUE, g, TRUE) : g \in {"off", "silent"}}
    \cup {Run("serve", s, "silent", TRUE) : s \in BOOLEAN}
    \cup {Run("serve", FALSE, g, FALSE) : g \in Guests \ {"off", "silent"}}
====
