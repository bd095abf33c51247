---------------------------- MODULE FileDelivery ----------------------------
(***************************************************************************)
(* What a TFTP read request promises, whatever the network does: the       *)
(* client is handed the blocks of the file one at a time and in order, and *)
(* the outcome the server records never claims more than was delivered.    *)
(* TftpTransfer is shown to implement this specification.                  *)
(***************************************************************************)
EXTENDS Naturals

VARIABLES
  total,     \* blocks the file is cut into, the short last one included
  got,       \* blocks the client holds
  outcome    \* "running", or the result of the transfer record

vars == <<total, got, outcome>>

Failures == {"error", "notfound", "aborted", "gaveup"}

Init ==
  /\ total \in Nat \ {0}
  /\ got = 0
  /\ outcome = "running"

\* Blocks may still arrive after the server gave the transfer up.
Deliver ==
  /\ got < total
  /\ got' = got + 1
  /\ UNCHANGED <<total, outcome>>

Finish(o) ==
  /\ outcome = "running"
  /\ o = "ok" => got = total
  /\ o = "unacked_final" => got >= total - 1
  /\ outcome' = o
  /\ UNCHANGED <<total, got>>

Next == Deliver \/ \E o \in Failures \cup {"ok", "unacked_final"} : Finish(o)

Spec == Init /\ [][Next]_vars
=============================================================================
