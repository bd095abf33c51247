---------------------------- MODULE MCNfsReaddir -----------------------------
(* NfsReaddir with entries of two lengths.                                  *)
EXTENDS NfsReaddir

MCLength == [n \in Names |-> 1 + (n % 2)]
=============================================================================
