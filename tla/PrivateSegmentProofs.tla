------------------------ MODULE PrivateSegmentProofs -------------------------
(***************************************************************************)
(* For every set of plans and every bound on the guest's exchanges: the    *)
(* network reports the first reason to stop, the shared file system        *)
(* outlives the calls on it, and the guest binds no address but its own.   *)
(***************************************************************************)
EXTENDS PrivateSegment, TLAPS

-----------------------------------------------------------------------------
(* The reason.                                                             *)

NetType ==
  net \in [reader : {"none", "run", "stop", "done"},
           writer : {"none", "wait", "write", "stop", "done"},
           once : {"free", "reader", "writer", "main", "done"},
           err : {"nil", "reader", "writer"},
           first : {"none", "nil", "reader", "writer"},
           cancelled : BOOLEAN,
           conn : {"none", "open", "closed"},
           stack : {"none", "up", "down"}]

Ending == {"unwind", "join", "returned"}

\* The inductive invariant: a pump is done, or the writer cancelled, only after someone came
\* to stop the network; only a command that is ending does so without a reason; and the
\* network is not replaced once it is served.
CauseInv ==
  /\ NetType
  /\ net.reader = "done" \/ net.writer = "done" \/ net.cancelled => net.once # "free"
  /\ net.once # "free" => net.err = net.first
  /\ net.once # "free" /\ net.err = "nil" => main \in Ending
  /\ main \in {"bind", "bootp", "serving"} => acceptor = "connected"
  /\ result = "disconnected" =>
       /\ main \in Ending /\ acceptor = "connected"
       /\ net.once # "free" /\ net.err # "nil"

\* No one has stopped a network that is not there yet.
LEMMA CauseInit == Init => CauseInv
  BY DEF Init, CauseInv, NetType, NoNet

\* stop keeps the first reason, whoever calls it.
LEMMA StopKeepsCause ==
  ASSUME CauseInv, NEW who \in {"reader", "writer", "main"}, NEW why \in {"nil", "reader", "writer"},
         stop(who, why), why = "nil" => main \in Ending,
         main' = main, result' = result, acceptor' = acceptor
  PROVE  CauseInv'
<1>1. CASE net.once = "free" /\ net' = [net EXCEPT !.once = who, !.err = why, !.first = why]
  BY <1>1 DEF CauseInv, NetType
<1>2. CASE /\ net.once = who
           /\ net' = Left([net EXCEPT !.once = "done", !.cancelled = TRUE, !.conn = "closed"], who)
  <2>1. CASE who = "main"
    BY <1>2, <2>1 DEF CauseInv, NetType, Left
  <2>2. CASE who = "reader"
    BY <1>2, <2>2 DEF CauseInv, NetType, Left
  <2>3. CASE who = "writer"
    BY <1>2, <2>3 DEF CauseInv, NetType, Left
  <2> QED
    BY <2>1, <2>2, <2>3
<1>3. CASE net.once = "done" /\ net' = Left(net, who)
  <2>1. CASE who = "main"
    BY <1>3, <2>1 DEF CauseInv, NetType, Left
  <2>2. CASE who = "reader"
    BY <1>3, <2>2 DEF CauseInv, NetType, Left
  <2>3. CASE who = "writer"
    BY <1>3, <2>3 DEF CauseInv, NetType, Left
  <2> QED
    BY <2>1, <2>2, <2>3
<1> QED
  BY <1>1, <1>2, <1>3 DEF stop

\* A step that leaves the network, its acceptor and the command alone keeps the reason.
LEMMA CauseQuiet ==
  ASSUME CauseInv, UNCHANGED <<main, result, acceptor, net>>
  PROVE  CauseInv'
  BY DEF CauseInv, NetType

\* The command's own steps keep the reason.
LEMMA CauseMain == CauseInv /\ Main => CauseInv'
<1> SUFFICES ASSUME CauseInv, Main PROVE CauseInv'
  OBVIOUS
<1>1. CASE openShares
  BY <1>1 DEF openShares, Return, CauseInv, NetType, Ending
<1>2. CASE Listen
  BY <1>2 DEF Listen, Return, CauseInv, NetType, Ending
<1>3. CASE Notify
  BY <1>3 DEF Notify, Return, CauseInv, NetType, Ending
<1>4. CASE acceptNetwork
  BY <1>4 DEF acceptNetwork, Return, CauseInv, NetType, Ending
<1>5. CASE serveSharesOn
  BY <1>5 DEF serveSharesOn, Return, CauseInv, NetType, Ending
<1>6. CASE StartBootp
  BY <1>6 DEF StartBootp, Return, CauseInv, NetType, Ending
<1>7. CASE Select
  BY <1>7 DEF Select, Return, done, CauseInv, NetType, Ending
<1>8. CASE CloseBootp
  BY <1>8, CauseQuiet DEF CloseBootp
<1>9. CASE CloseShares
  BY <1>9 DEF CloseShares, Deferred, CauseInv, NetType, Ending
<1>10. CASE JoinShares
  BY <1>10 DEF JoinShares, CauseInv, NetType, Ending
<1>11. CASE CloseNet
  <2>1. CASE Deferred("net") /\ stop("main", "nil")
    <3>1. main \in Ending /\ main' = main /\ result' = result /\ acceptor' = acceptor
      BY <1>11, <2>1 DEF CloseNet, Deferred, Ending
    <3> QED
      BY <2>1, <3>1, StopKeepsCause
  <2>2. CASE net' = [net EXCEPT !.stack = "down"]
    BY <1>11, <2>2 DEF CloseNet, CauseInv, NetType
  <2> QED
    BY <1>11, <2>1, <2>2 DEF CloseNet
<1>12. CASE CloseRest
  BY <1>12, CauseQuiet DEF CloseRest
<1>13. CASE Exit
  BY <1>13 DEF Exit, CauseInv, NetType, Ending
<1> QED
  BY <1>1, <1>2, <1>3, <1>4, <1>5, <1>6, <1>7, <1>8, <1>9, <1>10, <1>11, <1>12, <1>13 DEF Main

\* Every step of every goroutine, of the machine and of the guest keeps the reason.
LEMMA CauseNext == CauseInv /\ [Next]_vars => CauseInv'
<1> SUFFICES ASSUME CauseInv, [Next]_vars PROVE CauseInv'
  OBVIOUS
<1>1. CASE Accept
  <2>1. acceptor = "waiting" /\ main' = main /\ result' = result
    BY <1>1 DEF Accept
  <2>2. main \notin {"bind", "bootp", "serving"} /\ result # "disconnected"
    BY <2>1 DEF CauseInv
  <2>3. CASE net' = [NoNet EXCEPT !.reader = "run", !.writer = "wait", !.conn = "open", !.stack = "up"]
    <3>1. net' = [reader |-> "run", writer |-> "wait", once |-> "free", err |-> "nil", first |-> "none",
                  cancelled |-> FALSE, conn |-> "open", stack |-> "up"]
      BY <2>3 DEF NoNet
    <3> QED
      BY <2>1, <2>2, <3>1 DEF CauseInv, NetType
  <2>4. CASE net' = net
    BY <2>1, <2>2, <2>4 DEF CauseInv, NetType
  <2> QED
    BY <1>1, <2>3, <2>4 DEF Accept
<1>2. CASE ReaderFails
  BY <1>2 DEF ReaderFails, CauseInv, NetType
<1>3. CASE WriterTakes
  BY <1>3 DEF WriterTakes, CauseInv, NetType
<1>4. CASE WriterWrites
  BY <1>4 DEF WriterWrites, CauseInv, NetType
<1>5. CASE WriterCancelled
  BY <1>5 DEF WriterCancelled, CauseInv, NetType
<1>6. ASSUME NEW p \in Pumps, PumpStops(p) PROVE CauseInv'
  <2>1. p \in {"reader", "writer"} /\ stop(p, p)
    BY <1>6 DEF PumpStops, Pumps
  <2>2. main' = main /\ result' = result /\ acceptor' = acceptor
    BY <1>6 DEF PumpStops
  <2> QED
    BY <2>1, <2>2, StopKeepsCause
<1>7. CASE MachineMoves \/ Signal
  BY <1>7, CauseQuiet DEF MachineMoves, Signal
<1>8. CASE Call \/ CallEnds \/ HangUp \/ Drained \/ \E s \in Loops : LoopReturns(s)
  BY <1>8, CauseQuiet DEF Call, CallEnds, HangUp, Drained, LoopReturns
<1>9. CASE GuestSends \/ Answer \/ GuestHears \/ GuestMoves
  BY <1>9, CauseQuiet DEF GuestSends, Answer, GuestHears, GuestMoves
<1>10. CASE UNCHANGED vars
  BY <1>10, CauseQuiet DEF vars
<1> QED
  BY <1>1, <1>2, <1>3, <1>4, <1>5, <1>6, <1>7, <1>8, <1>9, <1>10, CauseMain DEF Next

\* The network reports the reason of the first to stop it, and a command that returns
\* "disconnected" has one to give (Network.stop, Err, and the selects of share and serve).
THEOREM ReportsTheFirstCause == Spec => []FirstCause
<1>1. CauseInv => FirstCause
  BY DEF CauseInv, FirstCause
<1> QED
  BY <1>1, CauseInit, CauseNext, PTL DEF Spec

-----------------------------------------------------------------------------
(* The shared file system.                                                 *)

Calls == {"files", "listener", "net", "wait", "shares", "bootp"}

Has(d) == \E i \in DOMAIN defers : defers[i] = d

NfsLive == loop["udp"] \notin {"none", "done"} \/ loop["tcp"] \notin {"none", "done"}

Running == {"listen", "notify", "accept", "bind", "bootp", "serving"}

\* The file system's close is the bottom of the deferred calls while it is open.
DefersOK ==
  /\ defers \in Seq(Calls)
  /\ files = "open" => defers # <<>> /\ defers[1] = "files"
  /\ \A i \in DOMAIN defers : defers[i] = "files" => i = 1

\* The inductive invariant: a handler belongs to a loop that waits for it, and a live loop
\* has its close deferred, above the file system's, or is being started or joined.
LifeInv ==
  /\ DefersOK
  /\ loop \in [Loops -> {"none", "up", "call", "draining", "done"}]
  /\ conn \in {"idle", "call"} => loop["tcp"] \in {"up", "draining"}
  /\ main = "open" => defers = <<>>
  /\ main = "join" => defers # <<>> /\ Last(defers) = "shares"
  /\ main \in Running /\ plan.shares => files = "open"
  /\ main = "bind" => plan.shares
  /\ NfsLive => files = "open" /\ (main \in {"bind", "join"} \/ Has("shares"))

\* Nothing is open at first.
LEMMA LifeInit == Init => LifeInv
  BY DEF Init, LifeInv, DefersOK, Loops, NfsLive, Has, Running

\* Popping a deferred call leaves the others.
LEMMA PopFacts ==
  ASSUME NEW s \in Seq(Calls), s # <<>>
  PROVE  /\ Front(s) \in Seq(Calls) /\ Len(Front(s)) = Len(s) - 1
         /\ Last(s) = s[Len(s)] /\ Len(s) \in DOMAIN s
         /\ \A i \in DOMAIN s : i # Len(s) => i \in DOMAIN Front(s) /\ Front(s)[i] = s[i]
         /\ \A i \in DOMAIN Front(s) : i \in DOMAIN s /\ Front(s)[i] = s[i]
<1>1. Len(s) \in Nat \ {0} /\ DOMAIN s = 1..Len(s)
  OBVIOUS
<1>2. Front(s) \in Seq(Calls) /\ Len(Front(s)) = Len(s) - 1
  BY <1>1 DEF Front
<1>3. DOMAIN Front(s) = 1..(Len(s) - 1)
  BY <1>1, <1>2
<1>4. \A i \in 1..(Len(s) - 1) : Front(s)[i] = s[i]
  BY <1>1 DEF Front
<1> QED
  BY <1>1, <1>2, <1>3, <1>4 DEF Last

\* Deferring another one leaves those that are there.
LEMMA PushFacts ==
  ASSUME NEW D, NEW s \in Seq(D), NEW d \in D
  PROVE  /\ Append(s, d) \in Seq(D) /\ Append(s, d) # <<>>
         /\ Append(s, d)[Len(s) + 1] = d /\ Len(s) + 1 \in DOMAIN Append(s, d)
         /\ \A i \in DOMAIN s : i \in DOMAIN Append(s, d) /\ Append(s, d)[i] = s[i]
         /\ \A i \in DOMAIN Append(s, d) : i \in DOMAIN s \/ i = Len(s) + 1
<1>1. Len(s) \in Nat /\ DOMAIN s = 1..Len(s)
  OBVIOUS
<1>2. Append(s, d) \in Seq(D) /\ Len(Append(s, d)) = Len(s) + 1
  OBVIOUS
<1>3. DOMAIN Append(s, d) = 1..(Len(s) + 1)
  BY <1>1, <1>2
<1>4. Append(s, d)[Len(s) + 1] = d /\ \A i \in 1..Len(s) : Append(s, d)[i] = s[i]
  BY <1>1
<1> QED
  BY <1>1, <1>2, <1>3, <1>4

\* Deferring a call other than the file system's keeps their order.
LEMMA PushKeeps ==
  ASSUME DefersOK, NEW d \in Calls \ {"files"}, Push(d), files' = files
  PROVE  DefersOK' /\ Has(d)' /\ (Has("shares") => Has("shares")') /\ defers' # <<>>
<1>1. defers \in Seq(Calls) /\ defers' = Append(defers, d)
  BY DEF DefersOK, Push
<1> QED
  BY <1>1, PushFacts DEF DefersOK, Has

\* Running a deferred call other than the file system's keeps the order of the others.
LEMMA PopKeeps ==
  ASSUME DefersOK, defers # <<>>, Last(defers) # "files", defers' = Front(defers), files' = files
  PROVE  DefersOK' /\ (Has("shares") /\ Last(defers) # "shares" => Has("shares")')
<1>1. defers \in Seq(Calls)
  BY DEF DefersOK
<1>2. DefersOK'
  BY <1>1, PopFacts DEF DefersOK
<1>3. Has("shares") /\ Last(defers) # "shares" => Has("shares")'
  BY <1>1, PopFacts DEF Has
<1> QED
  BY <1>2, <1>3

\* The command's own steps keep the file system open for its loops.
LEMMA LifeMain == LifeInv /\ Main => LifeInv'
<1> SUFFICES ASSUME LifeInv, Main PROVE LifeInv'
  OBVIOUS
<1> USE DEF LifeInv, NfsLive, Running
<1>d. DefersOK /\ defers \in Seq(Calls)
  BY DEF DefersOK
<1>1. CASE openShares
  <2>1. main = "open" /\ defers = <<>> /\ ~NfsLive /\ plan' = plan /\ loop' = loop /\ conn' = conn
    BY <1>1 DEF openShares, services, Has
  <2>2. CASE files' = "open" /\ Push("files") /\ main' = "listen"
    <3>1. defers' = <<"files">>
      BY <2>1, <2>2 DEF Push
    <3>2. <<"files">> \in Seq(Calls) /\ <<"files">> # <<>> /\ <<"files">>[1] = "files" /\ DOMAIN <<"files">> = {1}
      BY DEF Calls
    <3>3. DefersOK'
      BY <3>1, <3>2 DEF DefersOK
    <3> QED
      BY <2>1, <2>2, <3>3
  <2>3. CASE defers' = defers /\ files' = files
    BY <1>1, <2>1, <2>3 DEF openShares, Return, DefersOK
  <2> QED
    BY <1>1, <2>2, <2>3 DEF openShares
<1>2. CASE Listen
  <2>1. main = "listen" /\ plan' = plan /\ loop' = loop /\ conn' = conn /\ files' = files
    BY <1>2 DEF Listen, services
  <2>2. CASE Push("listener") /\ main' = "notify"
    <3>1. "listener" \in Calls \ {"files"}
      BY DEF Calls
    <3>2. DefersOK' /\ Has("listener")' /\ (Has("shares") => Has("shares")') /\ defers' # <<>>
      BY <1>d, <2>1, <2>2, <3>1, PushKeeps
    <3> QED
      BY <2>1, <2>2, <3>2
  <2>3. CASE defers' = defers /\ main' = "unwind"
    BY <2>1, <2>3 DEF DefersOK, Has
  <2> QED
    BY <1>2, <2>2, <2>3 DEF Listen, Return
<1>3. CASE Notify
  BY <1>3 DEF Notify, Return, services, DefersOK, Has
<1>4. CASE acceptNetwork
  <2>1. /\ main = "accept" /\ plan' = plan /\ loop' = loop /\ conn' = conn /\ files' = files
    BY <1>4 DEF acceptNetwork, services
  <2>2. CASE Push("net") /\ main' = IF plan.shares THEN "bind" ELSE "bootp"
    <3>1. "net" \in Calls \ {"files"}
      BY DEF Calls
    <3>2. DefersOK' /\ Has("net")' /\ (Has("shares") => Has("shares")') /\ defers' # <<>>
      BY <1>d, <2>1, <2>2, <3>1, PushKeeps
    <3> QED
      BY <2>1, <2>2, <3>2
  <2>3. CASE defers' = defers /\ main' = "unwind"
    BY <2>1, <2>3 DEF DefersOK, Has
  <2> QED
    BY <1>4, <2>2, <2>3 DEF acceptNetwork, Return
<1>5. CASE serveSharesOn
  <2>1. /\ main = "bind" /\ plan' = plan /\ conn' = conn /\ files' = files /\ files = "open"
    BY <1>5 DEF serveSharesOn
  <2>2. CASE Push("shares") /\ main' \in {"bootp", "unwind"} /\ loop' = loop
    <3>1. "shares" \in Calls \ {"files"}
      BY DEF Calls
    <3>2. DefersOK' /\ Has("shares")' /\ (Has("shares") => Has("shares")') /\ defers' # <<>>
      BY <1>d, <2>1, <2>2, <3>1, PushKeeps
    <3> QED
      BY <2>1, <2>2, <3>2
  <2>3. CASE defers' = defers /\ main' = main /\ loop' = loop
    BY <2>1, <2>3 DEF DefersOK
  <2>4. CASE defers' = defers /\ main' = main /\ loop' = [loop EXCEPT !["udp"] = "up", !["tcp"] = "up"]
    BY <2>1, <2>4 DEF DefersOK, Loops
  <2> QED
    BY <1>5, <2>2, <2>3, <2>4 DEF serveSharesOn, Return
<1>6. CASE StartBootp
  <2>1. main = "bootp" /\ plan' = plan /\ conn' = conn /\ files' = files
    BY <1>6 DEF StartBootp
  <2>2. CASE Push("bootp") /\ main' = "serving" /\ loop' = [loop EXCEPT !["bootp"] = "up"]
    <3>1. "bootp" \in Calls \ {"files"}
      BY DEF Calls
    <3>2. DefersOK' /\ Has("bootp")' /\ (Has("shares") => Has("shares")') /\ defers' # <<>>
      BY <1>d, <2>1, <2>2, <3>1, PushKeeps
    <3> QED
      BY <2>1, <2>2, <3>2 DEF Loops
  <2>3. CASE defers' = defers /\ main' \in {"serving", "unwind"} /\ loop' = loop
    BY <2>1, <2>3 DEF DefersOK, Has
  <2> QED
    BY <1>6, <2>2, <2>3 DEF StartBootp, Return
<1>7. CASE Select
  BY <1>7 DEF Select, Return, DefersOK, Has
<1>8. CASE CloseBootp
  BY <1>8, <1>d, PopKeeps DEF CloseBootp, Deferred
<1>9. CASE CloseShares
  BY <1>9 DEF CloseShares, Deferred, DefersOK
<1>10. CASE JoinShares
  <2>1. /\ main = "join" /\ main' = "unwind" /\ plan' = plan /\ loop' = loop /\ conn' = conn
        /\ files' = files /\ defers' = Front(defers) /\ ~NfsLive
    BY <1>10 DEF JoinShares, services
  <2> QED
    BY <1>d, <2>1, PopKeeps
<1>11. CASE CloseNet
  <2>1. main = "unwind" /\ main' = main /\ plan' = plan /\ loop' = loop /\ conn' = conn /\ files' = files
    BY <1>11 DEF CloseNet, Deferred, services
  <2>2. CASE defers' = defers
    BY <2>1, <2>2 DEF DefersOK, Has
  <2>3. CASE Deferred("net") /\ defers' = Append(Front(defers), "wait")
    <3>1. defers # <<>> /\ Last(defers) = "net"
      BY <2>3 DEF Deferred
    <3>2. /\ defers' \in Seq(Calls) /\ defers' # <<>> /\ Len(defers) \in DOMAIN defers
          /\ \A i \in DOMAIN defers : i # Len(defers) => i \in DOMAIN defers' /\ defers'[i] = defers[i]
          /\ \A i \in DOMAIN defers' : i \in DOMAIN defers /\ (i = Len(defers) => defers'[i] = "wait")
      <4> DEFINE f == Front(defers)
      <4>1. f \in Seq(Calls) /\ Len(f) = Len(defers) - 1 /\ Len(defers) \in DOMAIN defers
        BY <1>d, <3>1, PopFacts
      <4>2. \A i \in DOMAIN defers : i # Len(defers) => i \in DOMAIN f /\ f[i] = defers[i]
        BY <1>d, <3>1, PopFacts
      <4>3. \A i \in DOMAIN f : i \in DOMAIN defers /\ f[i] = defers[i]
        BY <1>d, <3>1, PopFacts
      <4>4. /\ Append(f, "wait") \in Seq(Calls) /\ Append(f, "wait") # <<>>
            /\ Append(f, "wait")[Len(f) + 1] = "wait" /\ Len(f) + 1 \in DOMAIN Append(f, "wait")
            /\ \A i \in DOMAIN f : i \in DOMAIN Append(f, "wait") /\ Append(f, "wait")[i] = f[i]
            /\ \A i \in DOMAIN Append(f, "wait") : i \in DOMAIN f \/ i = Len(f) + 1
        <5>1. "wait" \in Calls
          BY DEF Calls
        <5> HIDE DEF f
        <5> QED
          BY <4>1, <5>1, PushFacts
      <4>5. Len(f) + 1 = Len(defers)
        BY <1>d, <4>1
      <4>6. defers' = Append(f, "wait")
        BY <2>3
      <4> HIDE DEF f
      <4> QED
        BY <4>1, <4>2, <4>3, <4>4, <4>5, <4>6
    <3>3. Last(defers) = defers[Len(defers)]
      BY DEF Last
    <3>4. DefersOK'
      BY <1>d, <2>1, <3>1, <3>2, <3>3 DEF DefersOK
    <3>5. Has("shares") => Has("shares")'
      BY <3>1, <3>2, <3>3 DEF Has
    <3> QED
      BY <2>1, <3>4, <3>5
  <2>4. CASE Deferred("wait") /\ defers' = Front(defers)
    BY <1>d, <2>1, <2>4, PopKeeps DEF Deferred
  <2> QED
    BY <1>11, <2>2, <2>3, <2>4 DEF CloseNet
<1>12. CASE CloseRest
  <2>1. main = "unwind" /\ main' = main /\ plan' = plan /\ loop' = loop /\ conn' = conn
    BY <1>12 DEF CloseRest, Deferred, services
  <2>2. CASE Deferred("listener")
    BY <1>12, <1>d, <2>1, <2>2, PopKeeps DEF CloseRest, Deferred
  <2>3. CASE Deferred("files")
    <3>1. defers # <<>> /\ Last(defers) = "files" /\ defers' = Front(defers) /\ files' = "closed"
      BY <1>12, <2>3 DEF CloseRest, Deferred
    <3>2. Len(defers) = 1 /\ defers[1] = "files"
      BY <1>d, <3>1, PopFacts DEF DefersOK
    <3>3. DOMAIN defers = {1}
      BY <1>d, <3>2
    <3>4. ~NfsLive
      BY <2>1, <3>2, <3>3 DEF Has
    <3>5. DefersOK'
      BY <1>d, <3>1, PopFacts DEF DefersOK
    <3> QED
      BY <2>1, <3>1, <3>4, <3>5
  <2> QED
    BY <1>12, <2>2, <2>3 DEF CloseRest
<1>13. CASE Exit
  BY <1>13 DEF Exit, services, DefersOK, Has
<1> QED
  BY <1>1, <1>2, <1>3, <1>4, <1>5, <1>6, <1>7, <1>8, <1>9, <1>10, <1>11, <1>12, <1>13 DEF Main

\* A step that leaves the command, its file system and its loops alone.
LEMMA LifeQuiet ==
  ASSUME LifeInv, UNCHANGED <<plan, main, defers, loop, conn, files>>
  PROVE  LifeInv'
  BY DEF LifeInv, DefersOK, NfsLive, Has

\* Every step keeps the file system open for the loops and their handlers.
LEMMA LifeNext == LifeInv /\ [Next]_vars => LifeInv'
<1> SUFFICES ASSUME LifeInv, [Next]_vars PROVE LifeInv'
  OBVIOUS
<1>1. CASE Accept \/ MachineMoves \/ Signal \/ ReaderFails \/ WriterTakes \/ WriterWrites \/ WriterCancelled
  BY <1>1, LifeQuiet
     DEF Accept, MachineMoves, Signal, ReaderFails, WriterTakes, WriterWrites, WriterCancelled, services
<1>2. CASE \E p \in Pumps : PumpStops(p)
  BY <1>2, LifeQuiet DEF PumpStops, services
<1>3. CASE GuestSends \/ Answer \/ GuestHears \/ GuestMoves \/ UNCHANGED vars
  BY <1>3, LifeQuiet DEF GuestSends, Answer, GuestHears, GuestMoves, services, vars
<1>l. ASSUME UNCHANGED <<plan, main, defers, files>>,
             loop' \in [Loops -> {"none", "up", "call", "draining", "done"}],
             conn' \in {"idle", "call"} => loop'["tcp"] \in {"up", "draining"},
             NfsLive' => NfsLive
      PROVE  LifeInv'
  BY <1>l DEF LifeInv, DefersOK, Has
<1>4. CASE Call
  BY <1>4, <1>l DEF Call, Serving, LifeInv, NfsLive, Loops
<1>5. CASE CallEnds
  BY <1>5, <1>l DEF CallEnds, LifeInv, NfsLive, Loops
<1>6. CASE HangUp
  BY <1>6, <1>l DEF HangUp, LifeInv, NfsLive
<1>7. CASE Drained
  BY <1>7, <1>l DEF Drained, LifeInv, NfsLive, Loops
<1>8. ASSUME NEW s \in Loops, LoopReturns(s) PROVE LifeInv'
  BY <1>8, <1>l DEF LoopReturns, LifeInv, NfsLive, Loops
<1> QED
  BY <1>1, <1>2, <1>3, <1>4, <1>5, <1>6, <1>7, <1>8, LifeMain DEF Next

\* A call is served on an open file system, in every order of the loops, their handlers
\* and the deferred calls (privateShares.Close, runShare, runPrivate).
THEOREM CallsAreOnOpenShares == Spec => []ShareOutlivesCalls
<1>1. LifeInv => ShareOutlivesCalls
  BY DEF LifeInv, NfsLive, ShareOutlivesCalls, Loops
<1> QED
  BY <1>1, LifeInit, LifeNext, PTL DEF Spec

-----------------------------------------------------------------------------
(* The guest's address.                                                    *)

\* A guest that has an address has the one configured for it (dhcpAnswer, buildDHCP).
BindsItsOwn == guest.st \in {"bound", "renewing"} => guest.addr = Own

IsGuest(g) == g = [st |-> g.st, addr |-> g.addr, offer |-> g.offer, xid |-> g.xid]

\* The inductive invariant: every answer that gives an address gives that one.
AddressInv ==
  /\ BindsItsOwn
  /\ IsGuest(guest) /\ wire = [out |-> wire.out, back |-> wire.back]
  /\ \A r \in wire.back : r.typ \in {"OFFER", "ACK", "BOOTREPLY"} => r.addr = Own

\* The answers of the server give the configured address.
LEMMA AnswersOwn ==
  ASSUME NEW m, NEW r \in Serve(m), r.typ \in {"OFFER", "ACK", "BOOTREPLY"}
  PROVE  r.addr = Own
  BY DEF Serve, serveDHCP, Reply

\* What the guest makes of such an answer.
LEMMA HearsOwn ==
  ASSUME NEW g, IsGuest(g), g.st \in {"bound", "renewing"} => g.addr = Own,
         NEW r, r.typ \in {"OFFER", "ACK", "BOOTREPLY"} => r.addr = Own,
         NEW h, h = Hears(g, r)
  PROVE  IsGuest(h) /\ (h.st \in {"bound", "renewing"} => h.addr = Own)
  BY DEF Hears, Begin, IsGuest

\* Every step keeps the guest to its own address.
LEMMA AddressNext == AddressInv /\ [Next]_vars => AddressInv'
<1> SUFFICES ASSUME AddressInv, [Next]_vars PROVE AddressInv'
  OBVIOUS
<1>q. ASSUME UNCHANGED dhcp PROVE AddressInv'
  BY <1>q DEF AddressInv, BindsItsOwn, IsGuest, dhcp
<1>1. CASE Main
  BY <1>1, <1>q DEF Main, openShares, Listen, Notify, acceptNetwork, serveSharesOn, StartBootp, Select,
     CloseBootp, CloseShares, JoinShares, CloseNet, CloseRest, Exit
<1>2. CASE Accept \/ MachineMoves \/ Signal \/ ReaderFails \/ WriterTakes \/ WriterWrites \/ WriterCancelled
  BY <1>2, <1>q DEF Accept, MachineMoves, Signal, ReaderFails, WriterTakes, WriterWrites, WriterCancelled
<1>3. CASE \E p \in Pumps : PumpStops(p)
  BY <1>3, <1>q DEF PumpStops
<1>4. CASE Call \/ CallEnds \/ HangUp \/ Drained \/ \E s \in Loops : LoopReturns(s)
  BY <1>4, <1>q DEF Call, CallEnds, HangUp, Drained, LoopReturns
<1>5. CASE GuestSends
  <2>1. wire' = [wire EXCEPT !.out = wire.out \cup Says(guest)] /\ guest' = guest
    BY <1>5 DEF GuestSends
  <2> QED
    BY <2>1 DEF AddressInv, BindsItsOwn, IsGuest
<1>6. CASE Answer
  <2>1. PICK m \in wire.out : wire' = [wire EXCEPT !.back = wire.back \cup Serve(m)]
    BY <1>6 DEF Answer
  <2>2. guest' = guest
    BY <1>6 DEF Answer
  <2>3. wire'.back = wire.back \cup Serve(m) /\ wire' = [out |-> wire'.out, back |-> wire'.back]
    BY <2>1 DEF AddressInv
  <2>4. \A r \in wire'.back : r.typ \in {"OFFER", "ACK", "BOOTREPLY"} => r.addr = Own
    BY <2>3, AnswersOwn DEF AddressInv
  <2> QED
    BY <2>2, <2>3, <2>4 DEF AddressInv, BindsItsOwn, IsGuest
<1>7. CASE GuestHears
  <2>1. PICK r \in wire.back : guest' = Hears(guest, r)
    BY <1>7 DEF GuestHears
  <2>2. wire' = wire
    BY <1>7 DEF GuestHears
  <2>3. IsGuest(guest') /\ (guest'.st \in {"bound", "renewing"} => guest'.addr = Own)
    BY <2>1, HearsOwn DEF AddressInv, BindsItsOwn
  <2> QED
    BY <2>2, <2>3 DEF AddressInv, BindsItsOwn, IsGuest
<1>8. CASE GuestMoves
  <2>1. wire' = wire
    BY <1>8 DEF GuestMoves
  <2>2. CASE guest' = Begin("init", guest.xid + 1)
    BY <2>1, <2>2 DEF AddressInv, BindsItsOwn, IsGuest, Begin
  <2>3. CASE guest.st = "bound" /\ guest' = [guest EXCEPT !.st = "renewing", !.xid = guest.xid + 1]
    BY <2>1, <2>3 DEF AddressInv, BindsItsOwn, IsGuest
  <2> QED
    BY <1>8, <2>2, <2>3 DEF GuestMoves
<1>9. CASE UNCHANGED vars
  BY <1>9, <1>q DEF vars, dhcp
<1> QED
  BY <1>1, <1>2, <1>3, <1>4, <1>5, <1>6, <1>7, <1>8, <1>9 DEF Next

\* Whatever datagrams are lost, repeated or reordered, and whatever address the guest
\* remembers, it binds none but the one configured for it (Serve, dhcpAnswer, buildDHCP).
THEOREM GuestBindsItsOwn == Spec => []BindsItsOwn
<1>1. Init => AddressInv
  <2> SUFFICES ASSUME Init PROVE AddressInv
    OBVIOUS
  <2>1. PICK a \in {Own, Other} :
          guest = [Begin(plan.guest, 0) EXCEPT !.offer = IF plan.guest = "reboot" THEN a ELSE "none"]
    BY DEF Init
  <2>2. plan.guest \in Guests /\ wire = [out |-> {}, back |-> {}]
    BY SegmentAssumption DEF Init
  <2> QED
    BY <2>1, <2>2 DEF AddressInv, BindsItsOwn, IsGuest, Begin, Guests
<1>2. AddressInv => BindsItsOwn
  BY DEF AddressInv
<1> QED
  BY <1>1, <1>2, AddressNext, PTL DEF Spec
====
