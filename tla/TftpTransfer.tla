---------------------------- MODULE TftpTransfer ----------------------------
(***************************************************************************)
(* One request to the TFTP server (internal/tftp): the request handler,    *)
(* the lock-step transfer of serveFile and sendAndWaitAck with its retry   *)
(* budgets, the socket tracking that Shutdown cancels through, and, on the *)
(* far side of an unreliable network, the client.                          *)
(*                                                                         *)
(* Data is abstract.  A file is its size in bytes.  A datagram carries the *)
(* count n of the block it belongs to, which stands for its payload; only  *)
(* BlockNo(n), the 16-bit number on the wire, is compared by either side.  *)
(* Round 0 is the option acknowledgement (OACK), answered by ACK 0.        *)
(***************************************************************************)
EXTENDS Integers, Sequences

CONSTANTS
  Wrap,           \* block numbers before they wrap, 65536 in the code
  Life,           \* rounds a datagram survives in the network
  Sizes,          \* file sizes, in bytes
  MinBlk, DefBlk, MaxBlk,   \* blksize: least, default and greatest
  AskedBlk,       \* blksize values a client may ask for
  Retries,        \* resends of an ordinary block
  FinalRetries    \* resends of the last block

\* A datagram older than a whole lap of block numbers is not delivered: no
\* lock-step protocol with wrapping numbers works without this.
ASSUME NetworkAssumption == Wrap \in Nat /\ Life \in Nat /\ 0 < Life /\ Life < Wrap

ASSUME SizeAssumption ==
  /\ Sizes \subseteq Nat
  /\ MinBlk \in Nat /\ DefBlk \in Nat /\ MaxBlk \in Nat
  /\ 0 < MinBlk /\ MinBlk <= DefBlk /\ DefBlk <= MaxBlk
  /\ AskedBlk \subseteq Int

ASSUME RetryAssumption == Retries \in Nat /\ FinalRetries \in Nat

VARIABLES
  size, opts,     \* the file and the options of the request, fixed
  pc,             \* where the handler goroutine is
  n,              \* the current round: 0 for the OACK, else the block count
  attempt,        \* sends of the current datagram after the first
  result,         \* serveFile's result
  blocksSent, bytesSent, bytesAcked, resendTotal,   \* the transfer record
  closed,         \* Server.closed, set by Shutdown
  tracked,        \* the transfer socket is in Server.xfers
  sockClosed,     \* the transfer socket was closed by Shutdown
  net,            \* datagrams under way; never consumed, so any may repeat
  client,         \* "active", "stopped" (stopped answering) or "complete"
  rcvd            \* payloads the client took, in the order it took them

request    == <<size, opts>>
accounting == <<blocksSent, bytesSent, bytesAcked, resendTotal>>
sockets    == <<closed, tracked, sockClosed>>
clientVars == <<client, rcvd>>
vars == <<request, pc, n, attempt, result, accounting, sockets, net, clientVars>>

-----------------------------------------------------------------------------
(* Options, block numbers and sizes.                                       *)

\* opts.blksize holds the value asked for if the option was there and parsed;
\* opts.other says that a usable timeout or a tsize was asked for.
Options == [blksize : {{}} \cup {{b} : b \in AskedBlk}, other : BOOLEAN]

Clamp(b) == IF b < MinBlk THEN MinBlk ELSE IF b > MaxBlk THEN MaxBlk ELSE b

\* negotiateOptions: the block size, and whether there is an OACK to send.
Blk == IF opts.blksize = {} THEN DefBlk ELSE Clamp(CHOOSE b \in opts.blksize : TRUE)
HasOack == opts.blksize # {} \/ opts.other

\* Mutant: the block counter wraps within the lifetime of a datagram.
NarrowBlockNo(i) == i % Life

\* The block number is a uint16 that starts at 1 and wraps; the ACK of the
\* OACK carries 0.
BlockNo(i) == i % Wrap

\* The bytes of block i: the rest of the file, at most one block of it.
Want(i) ==
  LET rest == size - (i - 1) * Blk
  IN  IF rest > Blk THEN Blk ELSE IF rest < 0 THEN 0 ELSE rest

\* Mutant: a full last block ends the file, with no empty block after it.
FullBlockIsFinal(i) == i > 0 /\ size - i * Blk <= 0

IsFinal(i) == i > 0 /\ Want(i) < Blk

\* The retry budget of the current round.
Budget == IF IsFinal(n) THEN FinalRetries ELSE Retries

NBlocks == (size \div Blk) + 1

-----------------------------------------------------------------------------
(* The network (external).                                                 *)

Msg(type, i) == [type |-> type, n |-> i]
Types == {"OACK", "DATA", "ACK", "ERROR", "CLIENT_ERROR"}

\* What is still deliverable once the sender has reached round i.
Unexpired(i) == {m \in net : m.n + Life > i}

-----------------------------------------------------------------------------
(* The request handler.                                                    *)

Init ==
  /\ size \in Sizes
  /\ opts \in Options
  /\ pc = "idle"
  /\ n = 0
  /\ attempt = 0
  /\ result = "error"
  /\ blocksSent = 0 /\ bytesSent = 0 /\ bytesAcked = 0 /\ resendTotal = 0
  /\ closed = FALSE /\ tracked = FALSE /\ sockClosed = FALSE
  /\ net = {}
  /\ client = "active"
  /\ rcvd = <<>>

\* Serve hands a datagram to a handler goroutine unless Shutdown has begun.
Serve ==
  /\ pc = "idle"
  /\ ~closed
  /\ pc' = "handle"
  /\ UNCHANGED <<request, n, attempt, result, accounting, sockets, net, clientVars>>

\* A datagram that starts no transfer: too short, or a stray on the request
\* port (dropped), or denied, malformed or a write (answered with ERROR).
Refuse ==
  /\ pc = "handle"
  /\ pc' = "refused"
  /\ net' \in {net, net \cup {Msg("ERROR", 0)}}
  /\ UNCHANGED <<request, n, attempt, result, accounting, sockets, clientVars>>

\* serveFile opens the file.
OpenFile ==
  /\ pc = "handle"
  /\ pc' = "opened"
  /\ UNCHANGED <<request, n, attempt, result, accounting, sockets, net, clientVars>>

\* Open failed: the error goes out from a fresh transfer socket, and a
\* missing file is recorded as such only if that socket could be had.
OpenFails ==
  /\ pc = "handle"
  /\ pc' = "done"
  /\ \/ result' \in {"notfound", "error"} /\ net' = net \cup {Msg("ERROR", 0)}
     \/ UNCHANGED <<result, net>>
  /\ UNCHANGED <<request, n, attempt, accounting, sockets, clientVars>>

\* The transfer socket is bound and registered, and options are negotiated.
\* trackXfer does not look at closed.
ListenAndTrack ==
  /\ pc = "opened"
  /\ tracked' = TRUE
  /\ pc' = IF HasOack THEN "send" ELSE "next"
  /\ UNCHANGED <<request, n, attempt, result, accounting, closed, sockClosed,
                 net, clientVars>>

ListenFails ==
  /\ pc = "opened"
  /\ pc' = "done"
  /\ UNCHANGED <<request, n, attempt, result, accounting, sockets, net, clientVars>>

\* The handler returns with a result, untracks its socket and closes it.
Finish(r) ==
  /\ pc' = "done"
  /\ result' = r
  /\ tracked' = FALSE
  /\ UNCHANGED <<request, n, closed, sockClosed, clientVars>>

\* Mutant: the attempts of the last block count against this one's budget.
NextBlockKeepsAttempts ==
  /\ pc = "next"
  /\ pc' = "send"
  /\ n' = n + 1
  /\ blocksSent' = blocksSent + 1
  /\ bytesSent' = bytesSent + Want(n + 1)
  /\ net' = Unexpired(n + 1)
  /\ UNCHANGED <<request, attempt, result, bytesAcked, resendTotal, sockets, clientVars>>

\* The loop of serveFile reads the next block and counts it as sent.
NextBlock ==
  /\ pc = "next"
  /\ pc' = "send"
  /\ n' = n + 1
  /\ attempt' = 0
  /\ blocksSent' = blocksSent + 1
  /\ bytesSent' = bytesSent + Want(n + 1)
  /\ net' = Unexpired(n + 1)
  /\ UNCHANGED <<request, result, bytesAcked, resendTotal, sockets, clientVars>>

ReadFails ==
  /\ pc = "next"
  /\ Want(n + 1) > 0
  /\ net' = net \cup {Msg("ERROR", n)}
  /\ Finish("error")
  /\ UNCHANGED <<attempt, accounting>>

\* sendAndWaitAck puts the datagram on the wire and starts to wait.
Send ==
  /\ pc = "send"
  /\ ~sockClosed
  /\ pc' = "wait"
  /\ net' = net \cup {Msg(IF n = 0 THEN "OACK" ELSE "DATA", n)}
  /\ UNCHANGED <<request, n, attempt, result, accounting, sockets, clientVars>>

\* A send fails on a closed socket, or for a reason of the host's.
SendFails ==
  /\ pc = "send"
  /\ Finish("aborted")
  /\ resendTotal' = resendTotal + attempt
  /\ UNCHANGED <<attempt, blocksSent, bytesSent, bytesAcked, net>>

\* Mutant: any ACK ends the wait, whatever its block number.
RecvAnyAck ==
  /\ pc = "wait"
  /\ ~sockClosed
  /\ \E m \in net : m.type = "ACK"
  /\ resendTotal' = resendTotal + attempt
  /\ bytesAcked' = bytesAcked + (IF n = 0 THEN 0 ELSE Want(n))
  /\ UNCHANGED <<attempt, blocksSent, bytesSent, net>>
  /\ IF IsFinal(n)
       THEN Finish("ok")
       ELSE /\ pc' = "next"
            /\ UNCHANGED <<request, n, result, sockets, clientVars>>

\* The ACK for the awaited block number arrives.  Any other ACK, a stray and
\* an unknown opcode leave the wait, and its deadline, as they were.
RecvAck ==
  /\ pc = "wait"
  /\ ~sockClosed
  /\ \E m \in net : m.type = "ACK" /\ BlockNo(m.n) = BlockNo(n)
  /\ resendTotal' = resendTotal + attempt
  /\ bytesAcked' = bytesAcked + (IF n = 0 THEN 0 ELSE Want(n))
  /\ UNCHANGED <<attempt, blocksSent, bytesSent, net>>
  /\ IF IsFinal(n)
       THEN Finish("ok")
       ELSE /\ pc' = "next"
            /\ UNCHANGED <<request, n, result, sockets, clientVars>>

RecvError ==
  /\ pc = "wait"
  /\ ~sockClosed
  /\ \E m \in net : m.type = "CLIENT_ERROR"
  /\ Finish("aborted")
  /\ resendTotal' = resendTotal + attempt
  /\ UNCHANGED <<attempt, blocksSent, bytesSent, bytesAcked, net>>

\* Mutant: a timed-out send does not use up the budget.
ReadTimeoutUncounted ==
  /\ pc = "wait"
  /\ pc' = "send"
  /\ UNCHANGED <<request, n, attempt, result, accounting, sockets, net, clientVars>>

\* Mutant: a silent client is taken to have the block.
SilenceIsConsent ==
  /\ pc = "wait"
  /\ IF attempt < Budget
       THEN /\ pc' = "send"
            /\ attempt' = attempt + 1
            /\ UNCHANGED <<request, n, result, accounting, sockets, clientVars>>
       ELSE /\ Finish("unacked_final")
            /\ resendTotal' = resendTotal + attempt
            /\ UNCHANGED <<attempt, blocksSent, bytesSent, bytesAcked>>
  /\ UNCHANGED net

\* The read deadline passes, or the read fails on the closed socket: the code
\* does not tell these apart.
ReadTimeout ==
  /\ pc = "wait"
  /\ IF attempt < Budget
       THEN /\ pc' = "send"
            /\ attempt' = attempt + 1
            /\ UNCHANGED <<request, n, result, accounting, sockets, clientVars>>
       ELSE /\ Finish(IF IsFinal(n) THEN "unacked_final" ELSE "gaveup")
            /\ resendTotal' = resendTotal + attempt
            /\ UNCHANGED <<attempt, blocksSent, bytesSent, bytesAcked>>
  /\ UNCHANGED net

\* Shutdown stops new handlers and closes the sockets registered so far.
Shutdown ==
  /\ ~closed
  /\ closed' = TRUE
  /\ sockClosed' = tracked
  /\ UNCHANGED <<request, pc, n, attempt, result, accounting, tracked, net, clientVars>>

-----------------------------------------------------------------------------
(* The client (external): an RFC 1350 reader that acknowledges each block  *)
(* it takes, repeats the acknowledgement of the one it took last, and may  *)
(* stop answering at any time, as the PROMs do after the last block.       *)

ClientOack ==
  /\ client = "active"
  /\ rcvd = <<>>
  /\ \E m \in net : m.type = "OACK"
  /\ net' = net \cup {Msg("ACK", 0)}
  /\ UNCHANGED <<request, pc, n, attempt, result, accounting, sockets, clientVars>>

ClientTakes ==
  /\ client = "active"
  /\ \E m \in net :
       /\ m.type = "DATA"
       /\ BlockNo(m.n) = BlockNo(Len(rcvd) + 1)
       /\ rcvd' = Append(rcvd, m.n)
       /\ client' = IF IsFinal(m.n) THEN "complete" ELSE "active"
       /\ net' = net \cup {Msg("ACK", m.n)}
  /\ UNCHANGED <<request, pc, n, attempt, result, accounting, sockets>>

ClientRepeats ==
  /\ client # "stopped"
  /\ rcvd # <<>>
  /\ \E m \in net :
       /\ m.type = "DATA"
       /\ BlockNo(m.n) = BlockNo(Len(rcvd))
       /\ net' = net \cup {Msg("ACK", m.n)}
  /\ UNCHANGED <<request, pc, n, attempt, result, accounting, sockets, clientVars>>

ClientStops ==
  /\ client # "stopped"
  /\ client' = "stopped"
  /\ net' \in {net, net \cup {Msg("CLIENT_ERROR", n)}}
  /\ UNCHANGED <<request, pc, n, attempt, result, accounting, sockets, rcvd>>

-----------------------------------------------------------------------------
Handler == \/ Serve \/ Refuse \/ OpenFile \/ OpenFails \/ ListenAndTrack \/ ListenFails
           \/ NextBlock \/ ReadFails \/ Send \/ SendFails
           \/ RecvAck \/ RecvError \/ ReadTimeout

Client == ClientOack \/ ClientTakes \/ ClientRepeats \/ ClientStops

Next == Handler \/ Shutdown \/ Client

Spec == Init /\ [][Next]_vars

\* The handler goroutine runs, and the read deadline of each send passes.
FairSpec == Spec /\ WF_vars(Handler)

-----------------------------------------------------------------------------
(* Properties.                                                             *)

Results == {"error", "notfound", "aborted", "gaveup", "ok", "unacked_final"}

SocketsOK == closed \in BOOLEAN /\ tracked \in BOOLEAN /\ sockClosed \in BOOLEAN

\* Every variable has its type, and a round never outlives its own retry budget:
\* sendAndWaitAck sends a datagram at most budget + 1 times.
TypeOK ==
  /\ size \in Sizes
  /\ opts \in Options
  /\ pc \in {"idle", "handle", "refused", "opened", "next", "send", "wait", "done"}
  /\ n \in Nat
  /\ attempt \in Nat
  /\ pc \in {"send", "wait"} => attempt <= Budget
  /\ result \in Results
  /\ blocksSent \in Nat /\ bytesSent \in Nat /\ bytesAcked \in Nat /\ resendTotal \in Nat
  /\ SocketsOK
  /\ net \subseteq [type : Types, n : Nat]
  /\ client \in {"active", "stopped", "complete"}
  /\ rcvd \in Seq(Nat)

\* The client's copy never skips, repeats or reorders a block, although
\* datagrams are lost, repeated and delayed and the block numbers wrap.
InOrder == \A i \in 1..Len(rcvd) : rcvd[i] = i

\* The bytes the client holds.
Held == IF Len(rcvd) * Blk > size THEN size ELSE Len(rcvd) * Blk

\* The record's byte counts bracket the truth: what is counted as acknowledged
\* the client holds, and it holds nothing that was not counted as sent.
CountsBracketTruth == bytesAcked <= Held /\ Held <= bytesSent

\* The recorded result is true of the transfer: "ok" means the client holds the
\* whole file and acknowledged it; "unacked_final" means that all of it was sent
\* and all but the last block acknowledged; and a transfer that was given up was
\* never at its last block.
ResultIsTrue ==
  pc = "done" =>
    /\ result = "ok" => Len(rcvd) = NBlocks /\ bytesAcked = size /\ blocksSent = NBlocks
    /\ result = "unacked_final" =>
         /\ blocksSent = NBlocks /\ bytesSent = size
         /\ bytesAcked = (NBlocks - 1) * Blk
    /\ result = "gaveup" => blocksSent < NBlocks

-----------------------------------------------------------------------------
(* The inductive invariant behind the four properties above.               *)

Early == {"idle", "handle", "refused", "opened"}

\* Server and client are at most one block apart.
InStep ==
  /\ n - 1 <= Len(rcvd) /\ Len(rcvd) <= n
  /\ pc = "next" => Len(rcvd) = n
  /\ pc \in Early => n = 0 /\ attempt = 0 /\ result = "error"

\* Nothing in the network is a lap old, ahead of the server, or an ACK for what
\* the client does not hold.
NetInStep ==
  \A m \in net :
    /\ m.n + Life > n
    /\ m.type = "OACK" => m.n = 0
    /\ m.type = "DATA" => 1 <= m.n /\ m.n <= n
    /\ m.type = "ACK" => m.n <= Len(rcvd)

\* No block starts past the end of the file.
WithinFile ==
  /\ n > 0 => (n - 1) * Blk <= size
  /\ pc = "next" => n * Blk <= size

\* The record agrees with the round the server is in.
Accounts ==
  /\ blocksSent = n
  /\ bytesSent = IF n * Blk > size THEN size ELSE n * Blk
  /\ pc \in Early => bytesAcked = 0
  /\ pc = "next" => bytesAcked = n * Blk
  /\ pc \in {"send", "wait"} => bytesAcked = IF n = 0 THEN 0 ELSE (n - 1) * Blk
  /\ bytesAcked <= Len(rcvd) * Blk
  /\ bytesAcked <= size

IInv == TypeOK /\ InOrder /\ InStep /\ NetInStep /\ WithinFile /\ Accounts /\ ResultIsTrue

-----------------------------------------------------------------------------
\* The transfer implements the promise of a read request.
Promise == INSTANCE FileDelivery WITH
  total <- NBlocks,
  got <- Len(rcvd),
  outcome <- IF pc = "done" THEN result ELSE "running"

\* Every step of the transfer is a step of FileDelivery or leaves it alone.
Delivery == Promise!Spec

\* Every handled request ends: no client, however it answers or keeps silent,
\* holds a handler goroutine for ever.
Termination == pc = "handle" ~> pc \in {"done", "refused"}

\* Shutdown's comment (tftp.go:158): it "closes every in-flight transfer socket
\* so a transfer stuck in its retry budget fails its next send or read and
\* aborts at once".
ShutdownCancels == closed /\ pc \in {"send", "wait"} => sockClosed
=============================================================================
