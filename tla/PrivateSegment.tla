--------------------------- MODULE PrivateSegment ----------------------------
(***************************************************************************)
(* A machine's private network: "instigator share" and "instigator serve"  *)
(* with --network-socket or --network-tcp.  The command opens its shares,  *)
(* listens for the machine, attaches a network stack to the connection     *)
(* (two pumps move frames between them), runs the NFS server and BOOTP on  *)
(* that stack, and serves until a signal, the end of the connection or the *)
(* failure of an NFS listener; what it opened is closed by its deferred    *)
(* calls, last opened first.  The guest obtains its address by DHCP or     *)
(* BOOTP over a segment that loses, repeats and reorders datagrams.        *)
(***************************************************************************)
EXTENDS Integers, Sequences, SequencesExt

CONSTANTS
  Own, Other,    \* the address configured for the guest, and another one
  MaxExchanges,  \* bound: exchanges the guest begins
  Plans          \* the runs considered: the command, whether it has shares, the first
                 \* state of the guest, and whether the machine, or a step, may fail

Loops == {"udp", "tcp", "bootp"}
Pumps == {"reader", "writer"}
Guests == {"off", "silent", "prom", "init", "reboot", "elsewhere"}

ASSUME SegmentAssumption ==
  /\ Own # Other /\ "none" \notin {Own, Other}
  /\ MaxExchanges \in Nat \ {0}
  /\ Plans \subseteq [command : {"serve", "share"}, shares : BOOLEAN, guest : Guests, faults : BOOLEAN]

VARIABLES
  plan,     \* which run it is
  main,     \* where the command is
  result,   \* what it will return
  defers,   \* its deferred calls
  signal,   \* whether a signal waits in its channel
  acceptor, \* the goroutine of acceptNetwork
  machine,  \* the machine: "away", "on", "deaf" (takes no frames) or "off"
  net,      \* the Network; its field first is a history, the first reason to stop
  sock,     \* the sockets on the segment
  loop,     \* their serve loops
  conn,     \* the handler of an NFS connection
  errs,     \* the channel of privateShares
  files,    \* the shared file system
  guest,    \* the guest's DHCP client
  wire      \* the datagrams it sent, and those sent to it

vars == <<plan, main, result, defers, signal, acceptor, machine, net, sock, loop, conn, errs, files, guest, wire>>
services == <<sock, loop, conn, errs>>
outside  == <<signal, machine>>
dhcp     == <<guest, wire>>

-----------------------------------------------------------------------------
(* BOOTP and DHCP.                                                         *)

Msg(typ, requested, ciaddr, server, xid) ==
  [typ |-> typ, requested |-> requested, ciaddr |-> ciaddr, server |-> server, xid |-> xid]
Reply(typ, addr, dst, xid) == [typ |-> typ, addr |-> addr, dst |-> dst, xid |-> xid]

\* Mutant: a client that asks for a wrong address is left without an answer.
dhcpAnswerNoNak(m) ==
  LET want == IF m.requested = "none" THEN m.ciaddr ELSE m.requested
  IN  CASE m.typ = "DISCOVER" -> "OFFER"
        [] m.typ = "REQUEST" /\ m.server \in {"none", "us"} /\ want = Own -> "ACK"
        [] OTHER -> "none"

\* dhcpAnswer: the type of the reply, if there is one.
dhcpAnswer(m) ==
  LET want == IF m.requested = "none" THEN m.ciaddr ELSE m.requested
  IN  CASE m.typ = "DISCOVER" -> "OFFER"
        [] m.typ = "REQUEST" /\ m.server \in {"none", "us"} /\ want # "none" ->
             (IF want = Own THEN "ACK" ELSE "NAK")
        [] OTHER -> "none"

\* serveDHCP and buildDHCP: a renewing client gets its ACK at its address.
serveDHCP(m) ==
  LET typ == dhcpAnswer(m)
  IN  IF typ = "none" THEN {}
      ELSE {Reply(typ, IF typ = "NAK" THEN "none" ELSE Own,
                  IF typ = "ACK" /\ m.ciaddr # "none" THEN m.ciaddr ELSE "broadcast", m.xid)}

\* Serve, for a configured client: on a private segment a DHCP message is answered as one,
\* anything else as a BOOTP request, at the address it came from if it has one.
Serve(m) ==
  IF m.typ # "BOOTREQUEST" THEN serveDHCP(m)
  ELSE {Reply("BOOTREPLY", Own, IF m.ciaddr # "none" THEN m.ciaddr ELSE "broadcast", m.xid)}

\* The guest (external), when it asks at all: a PROM asks by BOOTP; a DHCP client
\* discovers, or asks for the address it remembers, or still answers a server it met
\* elsewhere.
Begin(st, xid) == [st |-> st, addr |-> "none", offer |-> "none", xid |-> xid]

Says(g) ==
  CASE g.st = "prom"      -> {Msg("BOOTREQUEST", "none", "none", "none", g.xid)}
    [] g.st = "init"      -> {Msg("DISCOVER", "none", "none", "none", g.xid)}
    [] g.st = "selecting" -> {Msg("REQUEST", g.offer, "none", "us", g.xid)}
    [] g.st = "reboot"    -> {Msg("REQUEST", a, "none", "none", g.xid) : a \in {g.offer}}
    [] g.st = "elsewhere" -> {Msg("REQUEST", Other, "none", "them", g.xid)}
    [] g.st = "renewing"  -> {Msg("REQUEST", "none", g.addr, "none", g.xid)}
    [] OTHER              -> {}

Hears(g, r) ==
  CASE g.st = "init" /\ r.typ = "OFFER" -> [g EXCEPT !.st = "selecting", !.offer = r.addr]
    [] g.st \in {"selecting", "reboot", "elsewhere", "renewing"} /\ r.typ = "ACK" ->
         [g EXCEPT !.st = "bound", !.addr = r.addr]
    [] g.st \in {"selecting", "reboot", "elsewhere", "renewing"} /\ r.typ = "NAK" -> Begin("init", g.xid + 1)
    [] g.st = "prom" /\ r.typ = "BOOTREPLY" -> [g EXCEPT !.st = "bound", !.addr = r.addr]
    [] OTHER -> g

GuestSends ==
  /\ machine = "on" /\ Says(guest) \ wire.out # {}
  /\ wire' = [wire EXCEPT !.out = @ \cup Says(guest)]
  /\ UNCHANGED <<plan, main, result, defers, acceptor, net, services, outside, files, guest>>

\* A datagram arrives, any number of times, and in its turn its answer; lost ones never do.
Answer ==
  /\ loop["bootp"] = "up" /\ net.reader = "run" /\ net.writer \in {"wait", "write"}
  /\ \E m \in wire.out : wire' = [wire EXCEPT !.back = @ \cup Serve(m)]
  /\ wire' # wire
  /\ UNCHANGED <<plan, main, result, defers, acceptor, net, services, outside, files, guest>>

GuestHears ==
  /\ machine = "on"
  /\ \E r \in wire.back :
       /\ r.xid = guest.xid /\ r.dst \in {"broadcast", guest.addr}
       /\ guest' = Hears(guest, r)
  /\ guest' # guest
  /\ UNCHANGED <<plan, main, result, defers, acceptor, net, services, outside, files, wire>>

\* It gives up an address or a server it does not hear of, and renews what it has.
GuestMoves ==
  /\ machine = "on" /\ guest.xid < MaxExchanges
  /\ \/ guest.st = "elsewhere" /\ guest' = Begin("init", guest.xid + 1)
     \/ guest.st = "bound" /\ guest' = [guest EXCEPT !.st = "renewing", !.xid = @ + 1]
  /\ UNCHANGED <<plan, main, result, defers, acceptor, net, services, outside, files, wire>>

-----------------------------------------------------------------------------
(* The Network.                                                            *)

NoNet == [reader |-> "none", writer |-> "none", once |-> "free", err |-> "nil", first |-> "none",
          cancelled |-> FALSE, conn |-> "none", stack |-> "none"]

done == net.reader = "done" /\ net.writer = "done"

\* readLoop: an error of the stream, a malformed frame or the end of the connection.
ReaderFails ==
  /\ net.reader = "run"
  /\ net.conn = "closed" \/ machine = "off" \/ plan.faults
  /\ net' = [net EXCEPT !.reader = "stop"]
  /\ UNCHANGED <<plan, main, result, defers, acceptor, services, outside, files, dhcp>>

\* writeLoop takes the packets that are queued, writes them, and waits for more until it
\* is cancelled.  A machine that takes no frames holds up the write.
WriterTakes ==
  /\ net.writer = "wait" /\ net.stack = "up"
  /\ net' = [net EXCEPT !.writer = "write"]
  /\ UNCHANGED <<plan, main, result, defers, acceptor, services, outside, files, dhcp>>

WriterWrites ==
  /\ net.writer = "write"
  /\ \/ net.conn = "open" /\ machine = "on" /\ net' = [net EXCEPT !.writer = "wait"]
     \/ (net.conn = "closed" \/ machine = "off") /\ net' = [net EXCEPT !.writer = "stop"]
  /\ UNCHANGED <<plan, main, result, defers, acceptor, services, outside, files, dhcp>>

WriterCancelled ==
  /\ net.writer = "wait" /\ net.cancelled
  /\ net' = [net EXCEPT !.writer = "done"]
  /\ UNCHANGED <<plan, main, result, defers, acceptor, services, outside, files, dhcp>>

\* stop: the first caller records why, cancels the writer and closes the connection; the
\* others wait for it.
Left(n, who) == IF who = "main" THEN n ELSE [n EXCEPT ![who] = "done"]

\* Mutant: every caller records its reason.
stopEach(who, why) ==
  \/ /\ net.once = "free"
     /\ net' = [net EXCEPT !.once = who, !.err = why, !.first = why]
  \/ /\ net.once = who
     /\ net' = Left([net EXCEPT !.once = "done", !.cancelled = TRUE, !.conn = "closed"], who)
  \/ /\ net.once = "done"
     /\ net' = Left([net EXCEPT !.err = why], who)

\* Mutant: the writer is cancelled, and the connection left to it.
stopCancels(who, why) ==
  \/ /\ net.once = "free"
     /\ net' = [net EXCEPT !.once = who, !.err = why, !.first = why]
  \/ /\ net.once = who
     /\ net' = Left([net EXCEPT !.once = "done", !.cancelled = TRUE], who)
  \/ /\ net.once = "done"
     /\ net' = Left(net, who)

stop(who, why) ==
  \/ /\ net.once = "free"
     /\ net' = [net EXCEPT !.once = who, !.err = why, !.first = why]
  \/ /\ net.once = who
     /\ net' = Left([net EXCEPT !.once = "done", !.cancelled = TRUE, !.conn = "closed"], who)
  \/ /\ net.once = "done"
     /\ net' = Left(net, who)

PumpStops(p) ==
  /\ net[p] = "stop"
  /\ stop(p, p)
  /\ UNCHANGED <<plan, main, result, defers, acceptor, services, outside, files, dhcp>>

-----------------------------------------------------------------------------
(* The command.                                                            *)

\* Return runs the deferred calls.
Return(r) == main' = "unwind" /\ result' = r
Push(d) == defers' = Append(defers, d)

\* openShares closes what it opened when it fails.
openShares ==
  /\ main = "open"
  /\ \/ ~plan.shares /\ main' = "listen" /\ UNCHANGED <<result, defers, files>>
     \/ plan.shares /\ main' = "listen" /\ files' = "open" /\ Push("files") /\ UNCHANGED result
     \/ plan.shares /\ plan.faults /\ Return("error") /\ UNCHANGED <<defers, files>>
  /\ UNCHANGED <<plan, acceptor, net, services, outside, dhcp>>

\* The endpoint is created, readiness reported, and the machine awaited.
Listen ==
  /\ main = "listen"
  /\ \/ main' = "notify" /\ Push("listener") /\ UNCHANGED result
     \/ plan.faults /\ Return("error") /\ UNCHANGED defers
  /\ UNCHANGED <<plan, acceptor, net, services, outside, files, dhcp>>

Notify ==
  /\ main = "notify"
  /\ \/ main' = "accept" /\ acceptor' = "waiting" /\ UNCHANGED result
     \/ plan.faults /\ Return("error") /\ UNCHANGED acceptor
  /\ UNCHANGED <<plan, defers, net, services, outside, files, dhcp>>

Listening == \E i \in DOMAIN defers : defers[i] = "listener"

\* Accept: the machine connects and New starts the pumps, or either fails.
Accept ==
  /\ acceptor = "waiting"
  /\ \/ /\ Listening /\ machine # "away"
        /\ acceptor' = "connected"
        /\ net' = [NoNet EXCEPT !.reader = "run", !.writer = "wait", !.conn = "open", !.stack = "up"]
     \/ (~Listening \/ plan.faults) /\ acceptor' = "failed" /\ UNCHANGED net
  /\ UNCHANGED <<plan, main, result, defers, services, outside, files, dhcp>>

\* acceptNetwork: a signal that comes first ends the command.
acceptNetwork ==
  /\ main = "accept"
  /\ \/ signal /\ signal' = FALSE /\ Return("ok") /\ UNCHANGED defers
     \/ /\ acceptor = "connected" /\ Push("net")
        /\ main' = IF plan.shares THEN "bind" ELSE "bootp"
        /\ UNCHANGED <<result, signal>>
     \/ acceptor = "failed" /\ Return("error") /\ UNCHANGED <<defers, signal>>
  /\ UNCHANGED <<plan, acceptor, net, services, machine, files, dhcp>>

\* serveSharesOn binds both sockets of a port, then starts their loops; one port stands for
\* the three, so a later one may still fail.
serveSharesOn ==
  /\ main = "bind"
  /\ \/ /\ sock["udp"] = "none"
        /\ sock' = [sock EXCEPT !["udp"] = "open"]
        /\ UNCHANGED <<main, result, defers, loop>>
     \/ /\ sock["udp"] = "open" /\ sock["tcp"] = "none"
        /\ sock' = [sock EXCEPT !["tcp"] = "open"]
        /\ loop' = [loop EXCEPT !["udp"] = "up", !["tcp"] = "up"]
        /\ UNCHANGED <<main, result, defers>>
     \/ /\ sock["tcp"] = "open"
        /\ main' = "bootp" /\ Push("shares")
        /\ UNCHANGED <<result, sock, loop>>
     \/ /\ plan.faults
        /\ Push("shares") /\ Return("error")
        /\ UNCHANGED <<sock, loop>>
  /\ UNCHANGED <<plan, acceptor, net, conn, errs, outside, files, dhcp>>

\* BOOTP, on its own if a client is configured, or as one of the installation services of
\* serve.Start.
NoClients == plan.command = "share" /\ plan.guest = "off"

StartBootp ==
  /\ main = "bootp"
  /\ \/ NoClients /\ main' = "serving" /\ UNCHANGED <<result, defers, sock, loop>>
     \/ /\ ~NoClients
        /\ main' = "serving" /\ Push("bootp")
        /\ sock' = [sock EXCEPT !["bootp"] = "open"]
        /\ loop' = [loop EXCEPT !["bootp"] = "up"]
        /\ UNCHANGED result
     \/ plan.faults /\ Return("error") /\ UNCHANGED <<defers, sock, loop>>
  /\ UNCHANGED <<plan, acceptor, net, conn, errs, outside, files, dhcp>>

\* The select: a signal, the end of the connection, or the first listener to fail.
Select ==
  /\ main = "serving"
  /\ \/ signal /\ signal' = FALSE /\ Return("ok") /\ UNCHANGED errs
     \/ done /\ Return("disconnected") /\ UNCHANGED <<errs, signal>>
     \/ errs = "full" /\ errs' = "empty" /\ Return("error") /\ UNCHANGED signal
  /\ UNCHANGED <<plan, defers, acceptor, net, sock, loop, conn, machine, files, dhcp>>

\* The deferred calls, last first.  Servers.Close joins the loop of BOOTP for a while,
\* the share command does not.
Deferred(d) == main = "unwind" /\ defers # <<>> /\ Last(defers) = d

CloseBootp ==
  /\ Deferred("bootp")
  /\ defers' = Front(defers)
  /\ sock' = [sock EXCEPT !["bootp"] = "closed"]
  /\ UNCHANGED <<plan, main, result, acceptor, net, loop, conn, errs, outside, files, dhcp>>

\* privateShares.Close: every socket, then a wait for every loop.
CloseShares ==
  /\ Deferred("shares")
  /\ main' = "join"
  /\ sock' = [s \in Loops |-> IF s # "bootp" /\ sock[s] = "open" THEN "closed" ELSE sock[s]]
  /\ UNCHANGED <<plan, result, defers, acceptor, net, loop, conn, errs, outside, files, dhcp>>

\* Mutant: Close does not wait.
JoinNone ==
  /\ main = "join"
  /\ main' = "unwind" /\ defers' = Front(defers)
  /\ UNCHANGED <<plan, result, acceptor, net, services, outside, files, dhcp>>

JoinShares ==
  /\ main = "join"
  /\ \A s \in {"udp", "tcp"} : loop[s] \in {"none", "done"}
  /\ main' = "unwind" /\ defers' = Front(defers)
  /\ UNCHANGED <<plan, result, acceptor, net, services, outside, files, dhcp>>

\* Network.Close: stop, wait for the pumps, and tear down the stack.
CloseNet ==
  /\ \/ /\ Deferred("net")
        /\ stop("main", "nil")
        /\ defers' = IF net'.once = "done" THEN Append(Front(defers), "wait") ELSE defers
     \/ /\ Deferred("wait") /\ done
        /\ net' = [net EXCEPT !.stack = "down"]
        /\ defers' = Front(defers)
  /\ UNCHANGED <<plan, main, result, acceptor, services, outside, files, dhcp>>

CloseRest ==
  /\ Deferred("listener") \/ Deferred("files")
  /\ defers' = Front(defers)
  /\ files' = IF Last(defers) = "files" THEN "closed" ELSE files
  /\ UNCHANGED <<plan, main, result, acceptor, net, services, outside, dhcp>>

Exit ==
  /\ main = "unwind" /\ defers = <<>>
  /\ main' = "returned"
  /\ UNCHANGED <<plan, result, defers, acceptor, net, services, outside, files, dhcp>>

-----------------------------------------------------------------------------
(* The loops of the NFS server and of BOOTP.                               *)

Serving(s) == loop[s] = "up" /\ sock[s] = "open"

\* ServeUDP works on a call inside its loop; ServeTCP hands a connection to a handler,
\* which may hold a call it read before the connection was closed.
Call ==
  /\ \/ Serving("udp") /\ loop' = [loop EXCEPT !["udp"] = "call"] /\ UNCHANGED conn
     \/ Serving("tcp") /\ conn = "none" /\ conn' = "idle" /\ UNCHANGED loop
     \/ conn = "idle" /\ conn' = "call" /\ UNCHANGED loop
  /\ UNCHANGED <<plan, main, result, defers, acceptor, net, sock, errs, outside, files, dhcp>>

\* The stack drops a UDP reply it has no room for; a TCP reply that the machine does not
\* take holds up the handler until its connection is closed.
CallEnds ==
  /\ \/ loop["udp"] = "call" /\ loop' = [loop EXCEPT !["udp"] = "up"] /\ UNCHANGED conn
     \/ /\ conn = "call" /\ (machine = "on" \/ loop["tcp"] = "draining")
        /\ conn' = (IF loop["tcp"] = "draining" THEN "gone" ELSE "idle") /\ UNCHANGED loop
  /\ UNCHANGED <<plan, main, result, defers, acceptor, net, sock, errs, outside, files, dhcp>>

\* The client hangs up, or ServeTCP, on its way out, closed the connection.
HangUp ==
  /\ conn = "idle" /\ conn' = IF loop["tcp"] = "up" THEN "none" ELSE "gone"
  /\ UNCHANGED <<plan, main, result, defers, acceptor, net, sock, loop, errs, outside, files, dhcp>>

\* report keeps the first failure and never waits.
report(s) == errs' = IF s = "bootp" /\ plan.command = "serve" THEN errs ELSE "full"

\* A loop returns when its socket is closed, or fails; ServeTCP waits for its handlers.
LoopReturns(s) ==
  /\ loop[s] = "up"
  /\ \/ sock[s] = "closed" /\ UNCHANGED errs
     \/ sock[s] = "open" /\ plan.faults /\ report(s)
  /\ loop' = [loop EXCEPT ![s] = IF s = "tcp" /\ conn \in {"idle", "call"} THEN "draining" ELSE "done"]
  /\ UNCHANGED <<plan, main, result, defers, acceptor, net, sock, conn, outside, files, dhcp>>

Drained ==
  /\ loop["tcp"] = "draining" /\ conn \notin {"idle", "call"}
  /\ loop' = [loop EXCEPT !["tcp"] = "done"]
  /\ UNCHANGED <<plan, main, result, defers, acceptor, net, sock, conn, errs, outside, files, dhcp>>

-----------------------------------------------------------------------------
(* The machine (external), the signal, and the whole.                      *)

\* QEMU connects once there is an endpoint; it may stop reading, and it ends.
MachineMoves ==
  /\ \/ machine = "away" /\ Listening /\ main # "notify" /\ machine' = "on"
     \/ machine = "on" /\ plan.faults /\ machine' \in {"deaf", "off"}
     \/ machine = "deaf" /\ machine' \in {"on", "off"}
  /\ UNCHANGED <<plan, main, result, defers, signal, acceptor, net, services, files, dhcp>>

Signal ==
  /\ main # "returned" /\ ~signal /\ signal' = TRUE
  /\ UNCHANGED <<plan, main, result, defers, acceptor, machine, net, services, files, dhcp>>

Main ==
  \/ openShares \/ Listen \/ Notify \/ acceptNetwork \/ serveSharesOn \/ StartBootp \/ Select
  \/ CloseBootp \/ CloseShares \/ JoinShares \/ CloseNet \/ CloseRest \/ Exit

Init ==
  /\ plan \in Plans
  /\ main = "open" /\ result = "none" /\ defers = <<>>
  /\ signal = FALSE /\ acceptor = "none" /\ machine = "away" /\ net = NoNet
  /\ sock = [s \in Loops |-> "none"] /\ loop = [s \in Loops |-> "none"]
  /\ conn = "none" /\ errs = "empty" /\ files = "none"
  /\ \E a \in {Own, Other} :
       guest = [Begin(plan.guest, 0) EXCEPT !.offer = IF plan.guest = "reboot" THEN a ELSE "none"]
  /\ wire = [out |-> {}, back |-> {}]

Next ==
  \/ Main \/ Accept \/ MachineMoves \/ Signal
  \/ ReaderFails \/ WriterTakes \/ WriterWrites \/ WriterCancelled
  \/ \E p \in Pumps : PumpStops(p)
  \/ Call \/ CallEnds \/ HangUp \/ Drained
  \/ \E s \in Loops : LoopReturns(s)
  \/ GuestSends \/ Answer \/ GuestHears \/ GuestMoves

\* The scheduler runs every goroutine that can run, and a closed socket or connection ends
\* what waits on it.  Of the datagrams the guest sends again until it is answered, one
\* gets through, and so does one of its answers.
Fairness ==
  /\ WF_vars(Main) /\ WF_vars(Accept)
  /\ WF_vars(ReaderFails /\ (net.conn = "closed" \/ machine = "off"))
  /\ WF_vars(WriterWrites) /\ WF_vars(WriterCancelled)
  /\ \A p \in Pumps : WF_vars(PumpStops(p))
  /\ WF_vars(CallEnds) /\ WF_vars(Drained)
  /\ WF_vars(HangUp /\ loop["tcp"] = "draining")
  /\ \A s \in Loops : WF_vars(sock[s] = "closed" /\ LoopReturns(s))
  /\ WF_vars(GuestSends) /\ WF_vars(Answer) /\ WF_vars(GuestHears)
  /\ WF_vars(guest.st = "elsewhere" /\ GuestMoves)

Spec == Init /\ [][Next]_vars
FairSpec == Spec /\ Fairness

-----------------------------------------------------------------------------
(* Properties.                                                             *)

\* The shared file system is open for as long as a call is being served: the deferred
\* calls close the listeners, and wait for their handlers, before it is closed.
ShareOutlivesCalls == (loop["udp"] = "call" \/ conn = "call") => files = "open"

\* The reason the network reports is the one that ended it, whichever of the pumps and
\* Close comes to stop it next; a command that returns "disconnected" has a reason to give.
FirstCause ==
  /\ net.once # "free" => net.err = net.first
  /\ result = "disconnected" => net.err # "nil"

\* A signal, the end of the machine or the failure of a listener brings the command to its
\* end, also when the machine takes no frames and a write to it hangs.
RunEnds == (signal \/ machine = "off" \/ errs = "full") ~> (main = "returned")

\* A guest binds no address but its own, and while it is served it does get it: whether it
\* asks by BOOTP, discovers, remembers a right or a wrong address or has to renew its own.
Served == main = "serving" /\ machine = "on" /\ loop["bootp"] = "up"

GuestGetsItsAddress ==
  /\ [](guest.st \in {"bound", "renewing"} => guest.addr = Own)
  /\ (Served /\ guest.st \notin {"off", "silent"}) ~> (guest.st = "bound" \/ ~Served)
====
