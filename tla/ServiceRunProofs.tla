-------------------------- MODULE ServiceRunProofs ---------------------------
(***************************************************************************)
(* For every number of connections, addresses and attempts, and whatever   *)
(* fails: a start that fails leaves nothing of a run behind, the events of *)
(* an install attempt are in order, and the summary of a run that was      *)
(* closed without an error is whole.                                       *)
(***************************************************************************)
EXTENDS ServiceRun, FiniteSetTheorems, TLAPS

-----------------------------------------------------------------------------
(* A start that fails.                                                     *)

Binding == {"bootp", "tftp", "rsh", "announce"}
Prior   == {"tree", "capture", "run"} \cup Binding
Drains  == {"join", "shutRsh", "drainRsh", "shutTftp", "drainTftp", "finish", "closeRec",
            "summary", "closeTree"}
Ends    == {"failed", "closed"}

\* Nothing has been served, and nothing written.
Untouched ==
  /\ loop = [s \in Services |-> "none"] /\ xfer = "none"
  /\ \A c \in Conns : conn[c].at = "none"
  /\ \A a \in Attempts : attempt[a].st = "none"
  /\ rec.log = EmptyLog /\ ~summary.ok /\ ~srv.started

IsRec(r) == r = [file |-> r.file, err |-> r.err, faults |-> r.faults, log |-> r.log]

Places == {"none", "accepted", "request", "rejected", "dial", "accepting", "session", "running",
           "ending", "over", "gone"}
CmdType == {"plain", "start", "back", "return"} \X (Attempts \cup {0})
ConnType == [at : Places, open : BOOLEAN, addr : Addresses \cup {""}, cmd : CmdType]
IsConns(f) == f \in [Conns -> ConnType]

\* The inductive invariant: before the loops are launched, and on the way out of a start
\* that fails, nothing has been served; and closing gives up the sockets, the events file
\* and the tree one after the other.
StartInv ==
  /\ srv = [tree |-> srv.tree, closing |-> srv.closing, started |-> srv.started,
            failing |-> srv.failing, drained |-> srv.drained, ok |-> srv.ok]
  /\ IsRec(rec)
  /\ DOMAIN sock = Services /\ IsConns(conn) /\ plan \in Plans
  /\ main \in Prior \cup Drains \cup Ends \cup {"serving", "close"}
  /\ main \in Prior \cup {"close", "failed"} => Untouched
  /\ srv.failing => Untouched /\ main \in ({"close"} \cup Drains \cup Ends) \ {"summary"}
  /\ main = "tree" => srv.tree = "none"
  /\ main \in {"tree", "capture"} => rec.file = "none" /\ \A s \in Services : sock[s] = "none"
  /\ main \in Drains \cup Ends => \A s \in Services : sock[s] # "open"
  /\ main \in {"summary", "closeTree"} \cup Ends => rec.file # "open"
  /\ main \in Ends => srv.tree # "open"

\* Start goes on with a step that binds a socket, or with the last one.
LEMMA AfterBinds ==
  ASSUME NEW step \in {"run", "bootp", "tftp", "rsh"}
  PROVE  After(step) \in Binding
<1> DEFINE i == CHOOSE k \in DOMAIN Steps : Steps[k] = step
           later == {k \in (i + 1)..Len(Steps) : Steps[k] \in Services => Steps[k] \in plan.services}
           n == CHOOSE k \in later : \A m \in later : k <= m
<1>1. /\ DOMAIN Steps = 1..7 /\ Len(Steps) = 7
      /\ Steps[1] = "tree" /\ Steps[2] = "capture" /\ Steps[3] = "run" /\ Steps[4] = "bootp"
      /\ Steps[5] = "tftp" /\ Steps[6] = "rsh" /\ Steps[7] = "announce"
  BY DEF Steps
<1>2. i \in 3..6
  BY <1>1
<1> HIDE DEF i
<1>3. later \subseteq 4..7 /\ 7 \in later
  BY <1>1, <1>2 DEF Services
<1> HIDE DEF later
<1>4. \E k \in later : \A m \in later : k <= m
  <2>1. CASE 4 \in later
    BY <1>3, <2>1
  <2>2. CASE 4 \notin later /\ 5 \in later
    BY <1>3, <2>2
  <2>3. CASE 4 \notin later /\ 5 \notin later /\ 6 \in later
    BY <1>3, <2>3
  <2>4. CASE 4 \notin later /\ 5 \notin later /\ 6 \notin later
    BY <1>3, <2>4
  <2> QED
    BY <2>1, <2>2, <2>3, <2>4, Zenon
<1>5. n \in later
  BY <1>4, Zenon
<1> HIDE DEF n
<1>6. n \in 4..7
  BY <1>3, <1>5, Zenon
<1>7. After(step) = Steps[n]
  BY Zenon DEF After, i, later, n
<1> QED
  BY <1>1, <1>6, <1>7 DEF Binding

\* Nothing was served at first.
LEMMA StartInit == Init => StartInv
<1> SUFFICES ASSUME Init PROVE StartInv
  BY Zenon
<1>1. Untouched
  <2>1. rec.log = EmptyLog /\ ~summary.ok /\ ~srv.started
    BY Zenon DEF Init
  <2> QED
    BY <2>1, Zenon DEF Init, Untouched
<1>4. IsConns(conn) /\ plan \in Plans
  BY Zenon DEF Init, IsConns, ConnType, CmdType, Places
<1>2. /\ IsRec(rec) /\ DOMAIN sock = Services /\ main = "tree" /\ srv.tree = "none" /\ ~srv.failing
      /\ rec.file = "none" /\ \A s \in Services : sock[s] = "none"
  BY Zenon DEF Init, IsRec
<1>3. srv = [tree |-> srv.tree, closing |-> srv.closing, started |-> srv.started,
             failing |-> srv.failing, drained |-> srv.drained, ok |-> srv.ok]
  BY Zenon DEF Init
<1> QED
  BY <1>1, <1>2, <1>3, <1>4, Zenon DEF StartInv, Prior, Binding, Drains, Ends

\* An event changes the log and perhaps the error, never the state of the file.
LEMMA EmitShape ==
  ASSUME NEW r, IsRec(r), NEW e, NEW q \in emit(r, e)
  PROVE  IsRec(q) /\ q.file = r.file
  BY Zenon DEF emit, IsRec

\* The steps of Start.
LEMMA StartStarting == StartInv /\ Starting => StartInv'
<1> SUFFICES ASSUME StartInv, Starting PROVE StartInv'
  BY Zenon
<1> USE DEF StartInv, IsRec, Untouched, Prior, Binding, Drains, Ends
<1>1. CASE buildTree
  BY <1>1, Zenon DEF buildTree
<1>2. CASE NewRecorder
  <2>1. After("run") \in Binding
    BY AfterBinds, Zenon
  <2> QED
    BY <1>2, <2>1, Zenon DEF NewRecorder
<1>3. CASE WriteRun
  <2>1. After("run") \in Binding
    BY AfterBinds, Zenon
  <2> QED
    BY <1>3, <2>1, Zenon DEF WriteRun
<1>4. ASSUME NEW s \in Services, bind(s) PROVE StartInv'
  <2>1. s \in {"bootp", "tftp", "rsh"} /\ After(s) \in Binding
    BY AfterBinds, Zenon DEF Services
  <2> QED
    BY <1>4, <2>1, Zenon DEF bind
<1>5. CASE Launch
  <2>1. main = "announce" /\ main' = "serving" /\ ~srv.failing
    BY <1>5, Zenon DEF Launch
  <2> QED
    BY <1>5, <2>1, EmitShape, Zenon DEF Launch
<1> QED
  BY <1>1, <1>2, <1>3, <1>4, <1>5, Zenon DEF Starting

\* CloseSockets and the steps of CloseWithReason.
LEMMA StartClosing == StartInv /\ (CloseSockets \/ Closing) => StartInv'
<1> SUFFICES ASSUME StartInv, CloseSockets \/ Closing PROVE StartInv'
  BY Zenon
<1> USE DEF StartInv, IsRec, Untouched, Prior, Binding, Drains, Ends
<1>1. CASE CloseSockets
  BY <1>1, Zenon DEF CloseSockets
<1>2. CASE JoinLoops
  BY <1>2, Zenon DEF JoinLoops, waitTimeout
<1>3. CASE ShutdownRsh
  <2>1. conn' = [c \in Conns |-> [conn[c] EXCEPT !.open = conn[c].open /\ ~Handled(c)]]
    BY <1>3, Zenon DEF ShutdownRsh
  <2>2. ASSUME NEW c \in Conns PROVE conn'[c] \in ConnType /\ conn'[c].at = conn[c].at
    <3> DEFINE b == conn[c].open /\ ~Handled(c)
    <3>1. conn'[c] = [conn[c] EXCEPT !.open = b] /\ b \in BOOLEAN /\ conn[c] \in ConnType
      BY <2>1, Zenon DEF IsConns
    <3> HIDE DEF b
    <3> QED
      BY <3>1, Zenon DEF ConnType
  <2>3. IsConns(conn')
    BY <2>1, <2>2, Zenon DEF IsConns
  <2> QED
    BY <1>3, <2>2, <2>3, Zenon DEF ShutdownRsh
<1>4. CASE DrainRsh
  BY <1>4, Zenon DEF DrainRsh, waitTimeout
<1>5. CASE ShutdownTftp
  BY <1>5, Zenon DEF ShutdownTftp
<1>6. CASE DrainTftp
  BY <1>6, Zenon DEF DrainTftp, waitTimeout
<1>7. CASE ServerStop
  <2>1. CASE srv.started
    BY <1>7, <2>1, EmitShape DEF ServerStop
  <2>2. CASE ~srv.started
    BY <1>7, <2>2, Zenon DEF ServerStop
  <2> QED
    BY <2>1, <2>2, Zenon
<1>8. CASE CloseRecorder
  BY <1>8, Zenon DEF CloseRecorder
<1>9. CASE WriteSummary
  BY <1>9, Zenon DEF WriteSummary
<1>10. CASE CloseTree
  BY <1>10, Zenon DEF CloseTree
<1> QED
  BY <1>1, <1>2, <1>3, <1>4, <1>5, <1>6, <1>7, <1>8, <1>9, <1>10, Zenon DEF Closing

\* A service acts only when something has been launched.
LEMMA ServingTouches == Serving => ~Untouched
<1> SUFFICES ASSUME Serving, Untouched PROVE FALSE
  BY Zenon
<1>1. \A s \in Services : loop[s] = "none"
  BY Zenon DEF Untouched
<1>2. \A s \in Services : ~ServeReturns(s) /\ ~runListener(s)
  BY <1>1, Zenon DEF ServeReturns, runListener
<1>3. ~BootpRequest /\ ~BootpReply /\ ~TransferStart /\ ~TransferEnd
  BY <1>1, Zenon DEF BootpRequest, BootpReply, TransferStart, TransferEnd, Untouched, Services
<1>4. \A c \in Conns : ~Accept(c) /\ ~Track(c) /\ ~Request(c) /\ ~DialStderr(c) /\ ~BeginSession(c)
  BY <1>1, Zenon DEF Accept, Track, Request, DialStderr, BeginSession, Untouched, Services
<1>5. \A c \in Conns : ~BeginCommand(c) /\ ~CommandDone(c) /\ ~EndCommand(c) /\ ~EndSession(c)
  BY Zenon DEF BeginCommand, CommandDone, EndCommand, EndSession, Untouched
<1>6. \A a \in Attempts : ~BackgroundDone(a)
  BY Zenon DEF BackgroundDone, Untouched
<1> QED
  BY <1>2, <1>3, <1>4, <1>5, <1>6, Zenon DEF Serving

\* What a service does leaves Start and CloseWithReason alone, and is done by a loop, a
\* connection, a transfer or an attempt that has begun.
LEMMA StartServing == StartInv /\ Serving => StartInv'
<1> SUFFICES ASSUME StartInv, Serving PROVE StartInv'
  BY Zenon
<1>1. UNCHANGED <<main, plan, srv, sock, summary>>
  BY Zenon DEF Serving, ServeReturns, runListener, BootpRequest, BootpReply, TransferStart, TransferEnd, Accept,
         Track, Request, DialStderr, BeginSession, BeginCommand, CommandDone, EndCommand, EndSession,
         BackgroundDone
<1>2. ~Untouched
  BY ServingTouches, Zenon
<1>3. IsRec(rec') /\ rec'.file = rec.file
  <2>0. IsRec(rec)
    BY Zenon DEF StartInv
  <2>e. ASSUME NEW e, rec' \in emit(rec, e) PROVE IsRec(rec') /\ rec'.file = rec.file
    BY <2>0, <2>e, EmitShape, Zenon
  <2>u. ASSUME rec' = rec PROVE IsRec(rec') /\ rec'.file = rec.file
    BY <2>0, <2>u, Zenon
  <2>1. ASSUME NEW s \in Services, ServeReturns(s) \/ runListener(s) PROVE IsRec(rec') /\ rec'.file = rec.file
    BY <2>1, <2>e, <2>u, Zenon DEF ServeReturns, runListener
  <2>2. CASE BootpRequest \/ BootpReply
    BY <2>2, <2>e, <2>u, Zenon DEF BootpRequest, BootpReply
  <2>3. CASE TransferStart \/ TransferEnd
    BY <2>3, <2>e, <2>u, Zenon DEF TransferStart, TransferEnd
  <2>4. ASSUME NEW c \in Conns, Accept(c) \/ Track(c) \/ DialStderr(c) PROVE IsRec(rec') /\ rec'.file = rec.file
    BY <2>4, <2>u, Zenon DEF Accept, Track, DialStderr
  <2>5. ASSUME NEW c \in Conns, Request(c) PROVE IsRec(rec') /\ rec'.file = rec.file
    <3>1. CASE rec' \in RSHRejected(rec, c)
      <4>1. PICK q \in emit(rec, Ev("session_start", c)) : rec' \in emit(q, Ev("session_end", c))
        BY <3>1, Zenon DEF RSHRejected
      <4>2. IsRec(q) /\ q.file = rec.file
        BY <2>0, <4>1, EmitShape, Zenon
      <4> QED
        BY <4>1, <4>2, EmitShape, Zenon
    <3> QED
      BY <2>5, <2>u, <3>1, Zenon DEF Request
  <2>6. ASSUME NEW c \in Conns, BeginSession(c) \/ BeginCommand(c) \/ EndCommand(c) \/ EndSession(c)
        PROVE  IsRec(rec') /\ rec'.file = rec.file
    BY <2>6, <2>e, <2>u, Zenon DEF BeginSession, BeginCommand, EndCommand, EndSession
  <2>7. ASSUME NEW c \in Conns, CommandDone(c) PROVE IsRec(rec') /\ rec'.file = rec.file
    BY <2>7, <2>e, <2>u, Zenon DEF CommandDone, InstallStarted, InstallReturned
  <2>8. ASSUME NEW a \in Attempts, BackgroundDone(a) PROVE IsRec(rec') /\ rec'.file = rec.file
    BY <2>8, <2>e, Zenon DEF BackgroundDone, InstallStarted
  <2> QED
    BY <2>1, <2>2, <2>3, <2>4, <2>5, <2>6, <2>7, <2>8, Zenon DEF Serving
<1>4. IsConns(conn')
  <2>0. IsConns(conn)
    BY Zenon DEF StartInv
  <2>t. ASSUME NEW c \in Conns, NEW k \in ConnType, conn' = [conn EXCEPT ![c] = k] PROVE IsConns(conn')
    BY <2>0, <2>t, Zenon DEF IsConns
  <2>c. \A c \in Conns : conn[c] \in ConnType
    BY <2>0, Zenon DEF IsConns
  <2>1. ASSUME NEW c \in Conns, Accept(c) PROVE IsConns(conn')
    <3>1. PICK a \in plan.from[c] :
            conn' = [conn EXCEPT ![c] = [conn[c] EXCEPT !.at = "accepted", !.open = TRUE, !.addr = a]]
      BY <2>1, Zenon DEF Accept
    <3>2. a \in Addresses
      BY RunAssumption, Zenon DEF StartInv
    <3>3. [conn[c] EXCEPT !.at = "accepted", !.open = TRUE, !.addr = a] \in ConnType
      BY <2>c, <3>2, Zenon DEF ConnType, Places
    <3> QED
      BY <2>t, <3>1, <3>3, Zenon
  <2>2. ASSUME NEW c \in Conns, Track(c) PROVE IsConns(conn')
    <3> DEFINE at == IF "rsh" \in shut THEN "gone" ELSE "request"
               b == "rsh" \notin shut
    <3>1. at \in Places /\ b \in BOOLEAN
      BY Zenon DEF Places
    <3>2. conn' = [conn EXCEPT ![c] = [conn[c] EXCEPT !.at = at, !.open = b]]
      BY <2>0, <2>2, Zenon DEF Track, IsConns
    <3> HIDE DEF at, b
    <3>3. [conn[c] EXCEPT !.at = at, !.open = b] \in ConnType
      BY <2>c, <3>1, Zenon DEF ConnType
    <3> QED
      BY <2>t, <3>2, <3>3, Zenon
  <2>3. ASSUME NEW c \in Conns, BeginCommand(c) PROVE IsConns(conn')
    <3>1. PICK k \in Kinds(c) :
            conn' = [conn EXCEPT ![c].at = IF k[1] = "back" THEN "ending" ELSE "running", ![c].cmd = k]
      BY <2>3, Zenon DEF BeginCommand
    <3>2. k \in CmdType
      BY DEF Kinds, CmdType
    <3> DEFINE at == IF k[1] = "back" THEN "ending" ELSE "running"
    <3>3. at \in Places
      BY Zenon DEF Places
    <3>4. conn' = [conn EXCEPT ![c] = [conn[c] EXCEPT !.at = at, !.cmd = k]]
      BY <2>0, <3>1, Zenon DEF IsConns
    <3> HIDE DEF at
    <3>5. [conn[c] EXCEPT !.at = at, !.cmd = k] \in ConnType
      BY <2>c, <3>2, <3>3, Zenon DEF ConnType
    <3> QED
      BY <2>t, <3>4, <3>5, Zenon
  <2>4. ASSUME NEW c \in Conns, NEW at \in Places, conn' = [conn EXCEPT ![c].at = at] PROVE IsConns(conn')
    BY <2>0, <2>4, Zenon DEF IsConns, ConnType
  <2>5. ASSUME NEW c \in Conns,
               Request(c) \/ DialStderr(c) \/ BeginSession(c) \/ CommandDone(c) \/ EndCommand(c) \/ EndSession(c)
        PROVE  IsConns(conn')
    BY <2>4, <2>5, Zenon DEF Request, DialStderr, BeginSession, CommandDone, EndCommand, EndSession, Places
  <2>6. CASE conn' = conn
    BY <2>0, <2>6, Zenon
  <2> QED
    BY <2>1, <2>2, <2>3, <2>5, <2>6, Zenon DEF Serving, ServeReturns, runListener, BootpRequest, BootpReply,
       TransferStart, TransferEnd, BackgroundDone
<1>5. main \notin Prior \cup {"close", "failed"} /\ ~srv.failing
  BY <1>2, Zenon DEF StartInv
<1> QED
  BY <1>1, <1>3, <1>4, <1>5, Zenon DEF StartInv, Prior, Binding, Drains, Ends

\* Every step keeps the invariant of a start.
LEMMA StartNext == StartInv /\ [Next]_vars => StartInv'
<1> SUFFICES ASSUME StartInv, UNCHANGED vars PROVE StartInv'
  BY StartStarting, StartClosing, StartServing, Zenon DEF Next
<1> QED
  BY Zenon DEF StartInv, Untouched, vars, IsConns, IsRec

\* A start that fails, at whatever step, leaves no socket, loop, open file, event or summary
\* behind (Start, CloseWithReason).
THEOREM FailedStartIsClean == Spec => []FailedStartLeavesNothing
<1>1. StartInv => FailedStartLeavesNothing
  BY Zenon DEF StartInv, FailedStartLeavesNothing, Untouched, Prior, Binding, Drains, Ends
<1> QED
  BY <1>1, StartInit, StartNext, PTL DEF Spec

-----------------------------------------------------------------------------
(* The events of an install attempt.                                       *)

Installs == {"install_start", "install_returned"}
Opened == <<"install_start">>
Ended == <<"install_start", "install_returned">>
States == {"none", "start", "back", "live", "returned"}

\* A recorder: a line is unfinished only after a write has failed.
LogOK(r) ==
  /\ r = [file |-> r.file, err |-> r.err, faults |-> r.faults, log |-> r.log]
  /\ r.log = [sum |-> r.log.sum, first |-> r.log.first, last |-> r.log.last,
              corrupt |-> r.log.corrupt, stop |-> r.log.stop, about |-> r.log.about]
  /\ r.log.about \in [Attempts -> Seq(Installs)]
  /\ r.log.last = "torn" => r.err

\* What the log may say about an attempt in each of its states.  A start is missing only
\* if a write failed or the recorder was closed.
Recorded(st, about, r) ==
  /\ st \in {"none", "start", "back"} => about = <<>>
  /\ st = "live" => about = Opened \/ (about = <<>> /\ (r.err \/ r.file # "open"))
  /\ st = "returned" => \/ about \in {<<>>, Opened, Ended}
                        \/ about = <<"install_returned">> /\ r.err

\* A command that reads the starting file has the attempt for itself; one that reads the
\* returning file has an attempt that started.
CommandOK(c) ==
  conn[c].at = "running" =>
    /\ conn[c].cmd[1] \in {"plain", "start", "return"}
    /\ conn[c].cmd[1] # "plain" => conn[c].cmd[2] \in Attempts
    /\ conn[c].cmd[1] = "start" =>
         /\ attempt[conn[c].cmd[2]].st = "start"
         /\ \A d \in Conns : (d # c /\ conn[d].at = "running" /\ conn[d].cmd[1] = "start")
                               => conn[d].cmd[2] # conn[c].cmd[2]
    /\ conn[c].cmd[1] = "return" => attempt[conn[c].cmd[2]].st \in {"live", "returned"}

\* The inductive invariant.
OrderInv ==
  /\ LogOK(rec)
  /\ attempt \in [Attempts -> [addr : Addresses \cup {""}, st : States]]
  /\ \A a \in Attempts : Recorded(attempt[a].st, rec.log.about[a], rec)
  /\ \A c \in Conns : CommandOK(c)

\* What emit does to the lines about attempts: it adds its line at the end of one, or, if
\* a write fails or has failed, or the recorder is closed, nothing.
Kept(r, q) == LogOK(q) /\ q.file = r.file /\ (r.err => q.err)
Lines(r, q, ev, id) ==
  \/ q.log.about = r.log.about /\ (ev \in Installs => q.err \/ r.file # "open")
  \/ /\ ev \in Installs
     /\ q.log.about = [r.log.about EXCEPT ![id] = Append(@, ev)]

\* emit keeps the recorder in order, and adds at most its own line.
LEMMA EmitOrder ==
  ASSUME NEW r, LogOK(r), NEW ev, NEW id, ev \in Installs => id \in Attempts, NEW q \in emit(r, Ev(ev, id))
  PROVE  Kept(r, q) /\ Lines(r, q, ev, id)
<1> USE DEF Kept, Lines
<1> DEFINE e == Ev(ev, id)
<1>0. e.ev = ev /\ e.id = id
  BY Zenon DEF Ev
<1> HIDE DEF e
<1>1. CASE r.file # "open"
  BY <1>1, Zenon DEF emit
<1>2. CASE r.file = "open" /\ q = [r EXCEPT !.log = Line(@, e)]
  <2>1. CASE r.log.last = "torn"
    <3> DEFINE l == Line(r.log, e)
    <3>1. l = [r.log EXCEPT !.last = "malformed"]
      BY <2>1, Zenon DEF Line
    <3>2. /\ l.about = r.log.about /\ l.last = "malformed"
          /\ l = [sum |-> l.sum, first |-> l.first, last |-> l.last, corrupt |-> l.corrupt,
                  stop |-> l.stop, about |-> l.about]
      BY <3>1, Zenon DEF LogOK
    <3> HIDE DEF l
    <3>3. q = [r EXCEPT !.log = l]
      BY <1>2, Zenon DEF l
    <3> QED
      BY <2>1, <3>2, <3>3, Zenon DEF LogOK
  <2>2. CASE r.log.last # "torn"
    <3> DEFINE l == Line(r.log, e)
    <3>1. /\ l.last = "whole"
          /\ l.about = IF e.ev \in Installs THEN [r.log.about EXCEPT ![e.id] = Append(@, e.ev)]
                       ELSE r.log.about
          /\ l = [sum |-> l.sum, first |-> l.first, last |-> l.last, corrupt |-> l.corrupt,
                  stop |-> l.stop, about |-> l.about]
      BY <2>2, Zenon DEF Line, Installs
    <3> HIDE DEF l
    <3>2. q = [r EXCEPT !.log = l]
      BY <1>2, Zenon DEF l
    <3>3. q = [file |-> r.file, err |-> r.err, faults |-> r.faults, log |-> l]
      BY <3>2, Zenon DEF LogOK
    <3>4. CASE ev \in Installs
      <4>1. l.about = [r.log.about EXCEPT ![id] = Append(@, ev)]
        BY <1>0, <3>1, <3>4, Zenon
      <4>2. id \in Attempts /\ r.log.about \in [Attempts -> Seq(Installs)]
        BY <3>4, Zenon DEF LogOK
      <4>3. Append(r.log.about[id], ev) \in Seq(Installs)
        BY <3>4, <4>2
      <4>4. l.about \in [Attempts -> Seq(Installs)]
        BY <4>1, <4>2, <4>3, Zenon
      <4> QED
        BY <3>1, <3>3, <3>4, <4>1, <4>4, Zenon DEF LogOK
    <3>5. CASE ev \notin Installs
      BY <1>0, <3>1, <3>3, <3>5, Zenon DEF LogOK
    <3> QED
      BY <3>4, <3>5, Zenon
  <2> QED
    BY <2>1, <2>2, Zenon
<1>3. ASSUME NEW l \in {r.log, PartOfLine(r.log)}, q = [r EXCEPT !.err = TRUE, !.faults = @ + 1, !.log = l]
      PROVE  LogOK(q) /\ q.file = r.file /\ q.err /\ q.log.about = r.log.about
  <2>1. /\ l.about = r.log.about
        /\ l = [sum |-> l.sum, first |-> l.first, last |-> l.last, corrupt |-> l.corrupt,
                stop |-> l.stop, about |-> l.about]
    <3>1. CASE l = r.log
      BY <3>1, Zenon DEF LogOK
    <3>2. CASE l = PartOfLine(r.log)
      <4> DEFINE f == IF r.log.first = "none" THEN "torn" ELSE r.log.first
                 k == r.log.corrupt \/ r.log.last = "malformed"
      <4>1. l = [r.log EXCEPT !.first = f, !.last = "torn", !.corrupt = k]
        BY <3>2, Zenon DEF PartOfLine
      <4> HIDE DEF f, k
      <4> QED
        BY <4>1, Zenon DEF LogOK
    <3> QED
      BY <3>1, <3>2, Zenon
  <2>2. q = [file |-> r.file, err |-> TRUE, faults |-> r.faults + 1, log |-> l]
    BY <1>3, Zenon DEF LogOK
  <2> QED
    BY <2>1, <2>2, Zenon DEF LogOK
<1> QED
  BY <1>1, <1>2, <1>3, Zenon DEF emit, e

\* A step that changes no attempt, adds no line about one and begins no command.
LEMMA OrderQuiet ==
  ASSUME OrderInv, attempt' = attempt, LogOK(rec'), rec'.log.about = rec.log.about,
         rec.err => rec'.err,
         rec'.file = "open" => rec.file = "open" \/ \A a \in Attempts : attempt[a].st = "none",
         \A c \in Conns : conn'[c].at = "running" => conn[c].at = "running" /\ conn'[c].cmd = conn[c].cmd
  PROVE  OrderInv'
<1>1. ASSUME NEW a \in Attempts PROVE Recorded(attempt[a].st, rec.log.about[a], rec')
  <2>1. Recorded(attempt[a].st, rec.log.about[a], rec)
    BY Zenon DEF OrderInv
  <2> QED
    BY <2>1, Zenon DEF Recorded
<1>2. ASSUME NEW c \in Conns PROVE CommandOK(c)'
  <2>1. CommandOK(c)
    BY Zenon DEF OrderInv
  <2> QED
    BY <2>1, Zenon DEF CommandOK
<1> QED
  BY <1>1, <1>2, Zenon DEF OrderInv

\* An event that is not about an attempt is quiet.
LEMMA QuietEmit ==
  ASSUME LogOK(rec), NEW ev \in {"server_start", "server_stop", "listener_exit", "bootp_reply",
                                 "bootp_ignored", "transfer_end", "session_start", "session_end",
                                 "command_start", "command_end"},
         NEW id, NEW q \in emit(rec, Ev(ev, id))
  PROVE  LogOK(q) /\ q.file = rec.file /\ (rec.err => q.err) /\ q.log.about = rec.log.about
<1>1. ev \notin Installs
  BY Zenon DEF Installs
<1>2. Kept(rec, q) /\ Lines(rec, q, ev, id)
  BY <1>1, EmitOrder, Zenon
<1> QED
  BY <1>1, <1>2, Zenon DEF Kept, Lines

\* No attempt has begun, no command runs and nothing is recorded at first.
LEMMA OrderInit == Init => OrderInv
<1> SUFFICES ASSUME Init PROVE OrderInv
  BY Zenon
<1>1. EmptyLog.about \in [Attempts -> Seq(Installs)]
  BY DEF EmptyLog
<1>2. LogOK(rec)
  BY <1>1, Zenon DEF Init, LogOK, EmptyLog
<1>3. \A a \in Attempts : attempt[a].st = "none" /\ rec.log.about[a] = <<>>
  BY Zenon DEF Init, EmptyLog
<1>4. attempt \in [Attempts -> [addr : Addresses \cup {""}, st : States]]
  BY Zenon DEF Init, States
<1>5. \A c \in Conns : CommandOK(c)
  BY Zenon DEF Init, CommandOK
<1> QED
  BY <1>2, <1>3, <1>4, <1>5, Zenon DEF OrderInv, Recorded

\* Start: no attempt has begun when the recorder opens its file.
LEMMA OrderStarting == StartInv /\ OrderInv /\ Starting => OrderInv'
<1> SUFFICES ASSUME StartInv, OrderInv, Starting PROVE OrderInv'
  BY Zenon
<1>0. LogOK(rec) /\ UNCHANGED <<attempt, conn>>
  BY Zenon DEF OrderInv, Starting, buildTree, NewRecorder, WriteRun, Launch, bind
<1>1. CASE rec' = rec
  BY <1>0, <1>1, OrderQuiet, Zenon
<1>2. CASE NewRecorder /\ rec' = [rec EXCEPT !.file = "open"]
  <2>1. \A a \in Attempts : attempt[a].st = "none"
    BY <1>2, Zenon DEF NewRecorder, StartInv, Untouched, Prior
  <2>2. LogOK(rec') /\ rec'.log = rec.log /\ rec'.err = rec.err
    BY <1>0, <1>2, Zenon DEF LogOK
  <2> QED
    BY <1>0, <2>1, <2>2, OrderQuiet, Zenon
<1>3. CASE Launch
  <2>1. rec' \in emit(rec, Ev("server_start", ""))
    BY <1>3, Zenon DEF Launch
  <2>2. LogOK(rec') /\ rec'.file = rec.file /\ (rec.err => rec'.err) /\ rec'.log.about = rec.log.about
    BY <1>0, <2>1, QuietEmit, Zenon
  <2> QED
    BY <1>0, <2>2, OrderQuiet, Zenon
<1> QED
  BY <1>1, <1>2, <1>3, Zenon DEF Starting, buildTree, NewRecorder, WriteRun, bind

\* CloseWithReason closes the recorder, and the connections that are tracked.
LEMMA OrderClosing == StartInv /\ OrderInv /\ (CloseSockets \/ Closing) => OrderInv'
<1> SUFFICES ASSUME StartInv, OrderInv, CloseSockets \/ Closing PROVE OrderInv'
  BY Zenon
<1>0. LogOK(rec) /\ attempt' = attempt
  BY Zenon DEF OrderInv, CloseSockets, Closing, JoinLoops, ShutdownRsh, DrainRsh, ShutdownTftp, DrainTftp,
         ServerStop, CloseRecorder, WriteSummary, CloseTree
<1>1. CASE rec' = rec /\ conn' = conn
  BY <1>0, <1>1, OrderQuiet, Zenon
<1>2. CASE ShutdownRsh
  <2>1. conn' = [c \in Conns |-> [conn[c] EXCEPT !.open = conn[c].open /\ ~Handled(c)]] /\ rec' = rec
    BY <1>2, Zenon DEF ShutdownRsh
  <2>2. ASSUME NEW c \in Conns PROVE conn'[c].at = conn[c].at /\ conn'[c].cmd = conn[c].cmd
    <3> DEFINE b == conn[c].open /\ ~Handled(c)
    <3>1. conn'[c] = [conn[c] EXCEPT !.open = b] /\ conn[c] \in ConnType
      BY <2>1, Zenon DEF StartInv, IsConns
    <3> HIDE DEF b
    <3> QED
      BY <3>1, Zenon DEF ConnType
  <2> QED
    BY <1>0, <2>1, <2>2, OrderQuiet, Zenon
<1>3. CASE ServerStop
  <2>1. CASE rec' = rec
    BY <1>0, <1>3, <2>1, OrderQuiet, Zenon DEF ServerStop
  <2>2. ASSUME NEW id, rec' \in emit(rec, Ev("server_stop", id)) PROVE OrderInv'
    <3>1. LogOK(rec') /\ rec'.file = rec.file /\ (rec.err => rec'.err) /\ rec'.log.about = rec.log.about
      BY <1>0, <2>2, QuietEmit, Zenon
    <3> QED
      BY <1>0, <1>3, <3>1, OrderQuiet, Zenon DEF ServerStop
  <2> QED
    BY <1>3, <2>1, <2>2, Zenon DEF ServerStop
<1>4. CASE CloseRecorder
  <2>1. rec' = [rec EXCEPT !.file = "closed"] /\ conn' = conn
    BY <1>4, Zenon DEF CloseRecorder
  <2>2. LogOK(rec') /\ rec'.log = rec.log /\ rec'.err = rec.err /\ rec'.file # "open"
    BY <1>0, <2>1, Zenon DEF LogOK
  <2> QED
    BY <1>0, <2>1, <2>2, OrderQuiet, Zenon
<1> QED
  BY <1>1, <1>2, <1>3, <1>4, Zenon DEF CloseSockets, Closing, JoinLoops, DrainRsh, ShutdownTftp, DrainTftp,
     WriteSummary, CloseTree

\* A session begins a command: an attempt that it starts was nobody's.
LEMMA OrderBegin ==
  ASSUME StartInv, OrderInv, NEW c \in Conns, BeginCommand(c)
  PROVE  OrderInv'
<1>1. PICK k \in Kinds(c) :
        /\ conn' = [conn EXCEPT ![c].at = IF k[1] = "back" THEN "ending" ELSE "running", ![c].cmd = k]
        /\ attempt' = IF k[1] \in {"start", "back"}
                        THEN [attempt EXCEPT ![k[2]] = [addr |-> conn[c].addr, st |-> k[1]]] ELSE attempt
  BY Zenon DEF BeginCommand
<1>2. rec' \in emit(rec, Ev("command_start", c)) /\ LogOK(rec) /\ conn[c].at = "session"
  BY Zenon DEF BeginCommand, OrderInv
<1>3. LogOK(rec') /\ rec'.file = rec.file /\ (rec.err => rec'.err) /\ rec'.log.about = rec.log.about
  BY <1>2, QuietEmit, Zenon
<1>4. IsConns(conn)
  BY Zenon DEF StartInv
<1> DEFINE at == IF k[1] = "back" THEN "ending" ELSE "running"
<1>5. conn'[c].at = at /\ conn'[c].cmd = k
  BY <1>1, <1>4, Zenon DEF IsConns, ConnType
<1>6. \A d \in Conns : d # c => conn'[d] = conn[d]
  BY <1>1, <1>4, Zenon DEF IsConns
<1>7. conn[c].addr \in Addresses \cup {""}
  BY <1>4, Zenon DEF IsConns, ConnType
<1>8. \/ k[1] = "plain"
      \/ k[1] \in {"start", "back"} /\ k[2] \in Attempts /\ attempt[k[2]].st = "none"
      \/ k[1] = "return" /\ k[2] \in Attempts /\ attempt[k[2]].st \in {"live", "returned"}
  BY DEF Kinds
<1> DEFINE kind == k[1]
           a == k[2]
<1>9. at = IF kind = "back" THEN "ending" ELSE "running"
  BY Zenon
<1> HIDE DEF at, kind, a
<1>10. /\ attempt' \in [Attempts -> [addr : Addresses \cup {""}, st : States]]
       /\ \A b \in Attempts : attempt'[b] = attempt[b] \/ (kind \in {"start", "back"} /\ b = a)
       /\ kind \in {"start", "back"} => attempt'[a].st = kind
  <2>1. attempt \in [Attempts -> [addr : Addresses \cup {""}, st : States]]
    BY Zenon DEF OrderInv
  <2>2. CASE kind \in {"start", "back"}
    <3>1. attempt' = [attempt EXCEPT ![a] = [addr |-> conn[c].addr, st |-> kind]] /\ a \in Attempts
      BY <1>1, <1>8, <2>2, Zenon DEF kind, a
    <3>2. kind \in States
      BY <2>2, Zenon DEF States
    <3> QED
      BY <1>7, <2>1, <2>2, <3>1, <3>2, Zenon
  <2>3. CASE kind \notin {"start", "back"}
    BY <1>1, <2>1, <2>3, Zenon DEF kind
  <2> QED
    BY <2>2, <2>3, Zenon
<1>11. \/ kind = "plain"
       \/ kind \in {"start", "back"} /\ a \in Attempts /\ attempt[a].st = "none"
       \/ kind = "return" /\ a \in Attempts /\ attempt[a].st \in {"live", "returned"}
  BY <1>8, Zenon DEF kind, a
<1>12. ASSUME NEW b \in Attempts PROVE Recorded(attempt'[b].st, rec'.log.about[b], rec')
  <2>1. Recorded(attempt[b].st, rec.log.about[b], rec)
    BY Zenon DEF OrderInv
  <2>2. CASE attempt'[b] = attempt[b]
    BY <1>3, <2>1, <2>2, Zenon DEF Recorded
  <2>3. CASE kind \in {"start", "back"} /\ b = a
    BY <1>3, <1>10, <1>11, <2>1, <2>3, Zenon DEF Recorded
  <2> QED
    BY <1>10, <2>2, <2>3, Zenon
<1>13. ASSUME NEW d \in Conns PROVE CommandOK(d)'
  <2>0. \A e \in Conns : CommandOK(e)
    BY Zenon DEF OrderInv
  <2>1. CASE d = c
    <3>1. conn'[c].at = at /\ conn'[c].cmd[1] = kind /\ conn'[c].cmd[2] = a
      BY <1>5, Zenon DEF kind, a
    <3>2. \A e \in Conns : (e # c /\ conn[e].at = "running" /\ conn[e].cmd[1] = "start")
                             => attempt[conn[e].cmd[2]].st = "start"
      BY <2>0, Zenon DEF CommandOK
    <3> QED
      BY <1>6, <1>9, <1>10, <1>11, <2>1, <3>1, <3>2, ZenonT(60) DEF CommandOK
  <2>2. CASE d # c
    <3>1. conn'[d] = conn[d] /\ CommandOK(d)
      BY <1>6, <2>0, <2>2, Zenon
    <3>2. conn'[c].at = at /\ conn'[c].cmd[1] = kind /\ conn'[c].cmd[2] = a
      BY <1>5, Zenon DEF kind, a
    <3> QED
      BY <1>6, <1>9, <1>10, <1>11, <2>2, <3>1, <3>2, Zenon DEF CommandOK
  <2> QED
    BY <2>1, <2>2, Zenon
<1> QED
  BY <1>3, <1>10, <1>12, <1>13, Zenon DEF OrderInv

\* The attempt starts: from the command that has it for itself, or from the background.
LEMMA OrderStarted ==
  ASSUME OrderInv, NEW a \in Attempts, attempt[a].st \in {"start", "back"}, InstallStarted(a),
         \A c \in Conns : conn'[c].at = "running" =>
           /\ conn[c].at = "running" /\ conn'[c].cmd = conn[c].cmd
           /\ conn[c].cmd[1] = "start" => conn[c].cmd[2] # a
  PROVE  OrderInv'
<1>1. /\ attempt \in [Attempts -> [addr : Addresses \cup {""}, st : States]] /\ LogOK(rec)
      /\ attempt' = [attempt EXCEPT ![a].st = "live"] /\ rec' \in emit(rec, Ev("install_start", a))
  BY Zenon DEF OrderInv, InstallStarted
<1>2. "install_start" \in Installs /\ "live" \in States
  BY Zenon DEF Installs, States
<1>3. Kept(rec, rec') /\ Lines(rec, rec', "install_start", a)
  BY <1>1, <1>2, EmitOrder, Zenon
<1>4. /\ attempt' \in [Attempts -> [addr : Addresses \cup {""}, st : States]]
      /\ attempt'[a].st = "live" /\ \A b \in Attempts : b # a => attempt'[b] = attempt[b]
  BY <1>1, <1>2, Zenon
<1>5. rec.log.about[a] = <<>> /\ rec.log.about \in [Attempts -> Seq(Installs)]
  BY <1>1, Zenon DEF OrderInv, Recorded, LogOK
<1>6. ASSUME NEW b \in Attempts PROVE Recorded(attempt'[b].st, rec'.log.about[b], rec')
  <2>1. CASE b = a
    <3>1. rec'.log.about[a] = Append(<<>>, "install_start") \/ (rec'.log.about[a] = <<>> /\ (rec'.err \/ rec'.file # "open"))
      BY <1>2, <1>3, <1>5, Zenon DEF Kept, Lines
    <3>2. Append(<<>>, "install_start") = Opened
      BY DEF Opened
    <3> QED
      BY <1>4, <2>1, <3>1, <3>2, Zenon DEF Recorded
  <2>2. CASE b # a
    <3>1. Recorded(attempt[b].st, rec.log.about[b], rec)
      BY Zenon DEF OrderInv
    <3>2. rec'.log.about[b] = rec.log.about[b]
      BY <1>3, <1>5, <2>2, Zenon DEF Lines
    <3> QED
      BY <1>3, <1>4, <2>2, <3>1, <3>2, Zenon DEF Recorded, Kept
  <2> QED
    BY <2>1, <2>2, Zenon
<1>7. ASSUME NEW c \in Conns PROVE CommandOK(c)'
  <2>1. CommandOK(c)
    BY Zenon DEF OrderInv
  <2> QED
    BY <1>4, <2>1, Zenon DEF CommandOK
<1> QED
  BY <1>3, <1>4, <1>6, <1>7, Zenon DEF OrderInv, Kept

\* The attempt returns, the first time its file is read to the end.
LEMMA OrderReturned ==
  ASSUME OrderInv, NEW a \in Attempts, attempt[a].st = "live",
         attempt' = [attempt EXCEPT ![a].st = "returned"], rec' \in emit(rec, Ev("install_returned", a)),
         \A c \in Conns : conn'[c].at = "running" => conn[c].at = "running" /\ conn'[c].cmd = conn[c].cmd
  PROVE  OrderInv'
<1>1. attempt \in [Attempts -> [addr : Addresses \cup {""}, st : States]] /\ LogOK(rec)
  BY Zenon DEF OrderInv
<1>2. "install_returned" \in Installs /\ "returned" \in States
  BY Zenon DEF Installs, States
<1>3. Kept(rec, rec') /\ Lines(rec, rec', "install_returned", a)
  BY <1>1, <1>2, EmitOrder, Zenon
<1>4. /\ attempt' \in [Attempts -> [addr : Addresses \cup {""}, st : States]]
      /\ attempt'[a].st = "returned" /\ \A b \in Attempts : b # a => attempt'[b] = attempt[b]
  BY <1>1, <1>2, Zenon
<1>5. rec.log.about \in [Attempts -> Seq(Installs)]
  BY <1>1, Zenon DEF LogOK
<1>6. rec.log.about[a] = Opened \/ (rec.log.about[a] = <<>> /\ (rec.err \/ rec.file # "open"))
  BY Zenon DEF OrderInv, Recorded
<1>7. /\ Append(Opened, "install_returned") = Ended
      /\ Append(<<>>, "install_returned") = <<"install_returned">>
  <2>1. ASSUME NEW x, NEW y PROVE Append(<<x>>, y) = <<x, y>>
    <3> DEFINE s == Append(<<x>>, y)
               t == <<x, y>>
    <3>1. s \in Seq({x, y}) /\ Len(s) = 2 /\ s[1] = x /\ s[2] = y
      <4>1. <<x>> \in Seq({x, y}) /\ y \in {x, y} /\ Len(<<x>>) = 1 /\ <<x>>[1] = x
        OBVIOUS
      <4> QED
        BY <4>1
    <3>2. t \in Seq({x, y}) /\ Len(t) = 2 /\ t[1] = x /\ t[2] = y
      OBVIOUS
    <3> HIDE DEF s, t
    <3>3. Len(s) = Len(t) /\ \A i \in 1..Len(s) : s[i] = t[i]
      BY <3>1, <3>2
    <3>4. s = t
      BY <3>1, <3>2, <3>3
    <3> QED
      BY <3>4, Zenon DEF s, t
  <2>2. Append(<<>>, "install_returned") = <<"install_returned">>
    OBVIOUS
  <2> QED
    BY <2>1, <2>2, Zenon DEF Opened, Ended
<1>8. rec.file # "open" => rec' = rec
  BY Zenon DEF emit
<1>9. ASSUME NEW b \in Attempts PROVE Recorded(attempt'[b].st, rec'.log.about[b], rec')
  <2>1. CASE b = a
    <3>1. \/ rec'.log.about[a] = rec.log.about[a]
          \/ rec'.log.about[a] = Append(rec.log.about[a], "install_returned") /\ (rec.log.about[a] = Opened \/ rec'.err)
      BY <1>3, <1>5, <1>6, <1>8, Zenon DEF Kept, Lines
    <3> QED
      BY <1>4, <1>6, <1>7, <2>1, <3>1, ZenonT(60) DEF Recorded
  <2>2. CASE b # a
    <3>1. Recorded(attempt[b].st, rec.log.about[b], rec)
      BY Zenon DEF OrderInv
    <3>2. rec'.log.about[b] = rec.log.about[b]
      BY <1>3, <1>5, <2>2, Zenon DEF Lines
    <3> QED
      BY <1>3, <1>4, <2>2, <3>1, <3>2, Zenon DEF Recorded, Kept
  <2> QED
    BY <2>1, <2>2, Zenon
<1>10. ASSUME NEW c \in Conns PROVE CommandOK(c)'
  <2>1. CommandOK(c)
    BY Zenon DEF OrderInv
  <2>2. ASSUME NEW b \in Attempts
        PROVE  /\ attempt[b].st = "start" => attempt'[b].st = "start"
               /\ attempt[b].st \in {"live", "returned"} => attempt'[b].st \in {"live", "returned"}
    BY <1>4, Zenon
  <2> QED
    BY <2>1, <2>2 DEF CommandOK
<1> QED
  BY <1>3, <1>4, <1>9, <1>10, Zenon DEF OrderInv, Kept

\* What the services do: only commands touch attempts.
LEMMA OrderServing == StartInv /\ OrderInv /\ Serving => OrderInv'
<1> SUFFICES ASSUME StartInv, OrderInv, Serving PROVE OrderInv'
  BY Zenon
<1>0. LogOK(rec) /\ IsConns(conn) /\ \A c \in Conns : CommandOK(c)
  BY Zenon DEF OrderInv, StartInv
<1> DEFINE SameCommands == \A c \in Conns : conn'[c].at = "running" =>
                             conn[c].at = "running" /\ conn'[c].cmd = conn[c].cmd
<1>u. ASSUME rec' = rec, attempt' = attempt, SameCommands PROVE OrderInv'
  BY <1>0, <1>u, OrderQuiet, Zenon
<1>e. ASSUME NEW ev \in {"server_start", "server_stop", "listener_exit", "bootp_reply", "bootp_ignored",
                         "transfer_end", "session_start", "session_end", "command_start", "command_end"},
             NEW id, rec' \in emit(rec, Ev(ev, id)), attempt' = attempt, SameCommands
      PROVE  OrderInv'
  <2>1. LogOK(rec') /\ rec'.file = rec.file /\ (rec.err => rec'.err) /\ rec'.log.about = rec.log.about
    BY <1>0, <1>e, QuietEmit, Zenon
  <2> QED
    BY <1>e, <2>1, OrderQuiet, Zenon
<1>s. ASSUME NEW c \in Conns, NEW at \in Places \ {"running"}, conn' = [conn EXCEPT ![c].at = at]
      PROVE  /\ SameCommands /\ conn'[c].at # "running"
             /\ \A d \in Conns : d # c => conn'[d] = conn[d]
  BY <1>0, <1>s, Zenon DEF IsConns, ConnType
<1>1. ASSUME NEW s \in Services, ServeReturns(s) \/ runListener(s) PROVE OrderInv'
  <2>1. attempt' = attempt /\ SameCommands
    BY <1>1, Zenon DEF ServeReturns, runListener
  <2> QED
    BY <1>1, <1>u, <1>e, <2>1, Zenon DEF ServeReturns, runListener
<1>2. CASE BootpRequest \/ BootpReply \/ TransferStart \/ TransferEnd
  <2>1. attempt' = attempt /\ SameCommands
    BY <1>2, Zenon DEF BootpRequest, BootpReply, TransferStart, TransferEnd
  <2> QED
    BY <1>2, <1>u, <1>e, <2>1, Zenon DEF BootpRequest, BootpReply, TransferStart, TransferEnd
<1>3. ASSUME NEW c \in Conns, Accept(c) PROVE OrderInv'
  <2>1. PICK a \in plan.from[c] :
          conn' = [conn EXCEPT ![c] = [conn[c] EXCEPT !.at = "accepted", !.open = TRUE, !.addr = a]]
    BY <1>3, Zenon DEF Accept
  <2>2. SameCommands
    BY <1>0, <2>1, Zenon DEF IsConns, ConnType
  <2> QED
    BY <1>3, <1>u, <2>2, Zenon DEF Accept
<1>4. ASSUME NEW c \in Conns, Track(c) PROVE OrderInv'
  <2> DEFINE at == IF "rsh" \in shut THEN "gone" ELSE "request"
             b == "rsh" \notin shut
  <2>1. at # "running" /\ conn' = [conn EXCEPT ![c] = [conn[c] EXCEPT !.at = at, !.open = b]]
    BY <1>0, <1>4, Zenon DEF Track, IsConns
  <2> HIDE DEF at, b
  <2>2. SameCommands
    BY <1>0, <2>1, Zenon DEF IsConns, ConnType
  <2> QED
    BY <1>4, <1>u, <2>2, Zenon DEF Track
<1>5. ASSUME NEW c \in Conns, Request(c) PROVE OrderInv'
  <2>1. SameCommands /\ attempt' = attempt
    BY <1>5, <1>s, Zenon DEF Request, Places
  <2>2. CASE rec' = rec
    BY <1>u, <2>1, <2>2, Zenon
  <2>3. CASE rec' \in RSHRejected(rec, c)
    <3>1. PICK q \in emit(rec, Ev("session_start", c)) : rec' \in emit(q, Ev("session_end", c))
      BY <2>3, Zenon DEF RSHRejected
    <3>2. "session_start" \notin Installs /\ "session_end" \notin Installs
      BY Zenon DEF Installs
    <3>3. Kept(rec, q) /\ Lines(rec, q, "session_start", c)
      BY <1>0, <3>1, <3>2, EmitOrder, Zenon
    <3>4. Kept(q, rec') /\ Lines(q, rec', "session_end", c)
      BY <3>1, <3>2, <3>3, EmitOrder, Zenon DEF Kept
    <3>5. LogOK(rec') /\ rec'.file = rec.file /\ (rec.err => rec'.err) /\ rec'.log.about = rec.log.about
      BY <3>2, <3>3, <3>4, Zenon DEF Kept, Lines
    <3> QED
      BY <2>1, <3>5, OrderQuiet, Zenon
  <2> QED
    BY <1>5, <2>2, <2>3, Zenon DEF Request
<1>6. ASSUME NEW c \in Conns, DialStderr(c) \/ BeginSession(c) \/ EndCommand(c) \/ EndSession(c) PROVE OrderInv'
  <2>1. attempt' = attempt /\ SameCommands
    BY <1>6, <1>s, Zenon DEF DialStderr, BeginSession, EndCommand, EndSession, Places
  <2> QED
    BY <1>6, <1>u, <1>e, <2>1, Zenon DEF DialStderr, BeginSession, EndCommand, EndSession
<1>7. ASSUME NEW c \in Conns, BeginCommand(c) PROVE OrderInv'
  BY <1>7, OrderBegin, Zenon
<1>8. ASSUME NEW c \in Conns, CommandDone(c) PROVE OrderInv'
  <2>1. /\ SameCommands /\ conn'[c].at # "running" /\ \A d \in Conns : d # c => conn'[d] = conn[d]
        /\ conn[c].at = "running"
    BY <1>8, <1>s, Zenon DEF CommandDone, Places
  <2> DEFINE a == conn[c].cmd[2]
  <2>2. CASE attempt' = attempt /\ rec' = rec
    BY <1>u, <2>1, <2>2, Zenon
  <2>3. CASE conn[c].cmd[1] = "start" /\ InstallStarted(a)
    <3>1. a \in Attempts /\ attempt[a].st = "start"
      BY <1>0, <2>1, <2>3, Zenon DEF CommandOK
    <3>2. \A d \in Conns : conn'[d].at = "running" => (conn[d].cmd[1] = "start" => conn[d].cmd[2] # a)
      BY <1>0, <2>1, <2>3, Zenon DEF CommandOK
    <3> HIDE DEF a
    <3> QED
      BY <2>1, <2>3, <3>1, <3>2, OrderStarted, Zenon
  <2>4. CASE conn[c].cmd[1] = "return" /\ InstallReturned(a)
    <3>1. a \in Attempts /\ attempt[a].st \in {"live", "returned"}
      BY <1>0, <2>1, <2>4, Zenon DEF CommandOK
    <3> HIDE DEF a
    <3> QED
      BY <1>u, <2>1, <2>4, <3>1, OrderReturned, Zenon DEF InstallReturned
  <2> QED
    BY <1>8, <2>2, <2>3, <2>4, Zenon DEF CommandDone
<1>9. ASSUME NEW a \in Attempts, BackgroundDone(a) PROVE OrderInv'
  <2>1. attempt[a].st = "back" /\ InstallStarted(a) /\ conn' = conn
    BY <1>9, Zenon DEF BackgroundDone
  <2>2. \A c \in Conns : conn[c].at = "running" => (conn[c].cmd[1] = "start" => conn[c].cmd[2] # a)
    BY <1>0, <2>1, Zenon DEF CommandOK
  <2> QED
    BY <2>1, <2>2, OrderStarted, Zenon
<1> QED
  BY <1>1, <1>2, <1>3, <1>4, <1>5, <1>6, <1>7, <1>8, <1>9, Zenon DEF Serving

\* Every step keeps the invariant of the attempts.
LEMMA OrderNext == StartInv /\ OrderInv /\ [Next]_vars => OrderInv'
<1> SUFFICES ASSUME OrderInv, UNCHANGED vars PROVE OrderInv'
  BY OrderStarting, OrderClosing, OrderServing, Zenon DEF Next
<1> QED
  BY OrderQuiet, Zenon DEF OrderInv, vars

\* However many sessions read the files of an attempt at the same time, and whatever write
\* fails: it is recorded to start at most once and to return at most once, in that order
\* unless a write has failed (installScripts.open).
THEOREM InstallsAreInOrder == Spec => []InstallOrder
<1>1. OrderInv => InstallOrder
  <2> SUFFICES ASSUME OrderInv, NEW a \in Attempts
               PROVE  \/ rec.log.about[a] \in {<<>>, Opened, Ended}
                      \/ rec.err /\ rec.log.about[a] = <<"install_returned">>
    BY Zenon DEF InstallOrder, Opened, Ended
  <2>1. Recorded(attempt[a].st, rec.log.about[a], rec) /\ attempt[a].st \in States
    BY Zenon DEF OrderInv
  <2> QED
    BY <2>1, Zenon DEF Recorded, States
<1> QED
  BY <1>1, StartInit, StartNext, OrderInit, OrderNext, PTL DEF Spec

-----------------------------------------------------------------------------
(* The commands of all sessions together.                                   *)

\* Induction over the numbers, for a set: a set with 0 and with each one's successor has all.
LEMMA NatInd ==
  ASSUME NEW S, 0 \in S, \A n \in Nat : n \in S => n + 1 \in S
  PROVE  Nat \subseteq S
<1> DEFINE T == Nat \ S
           R == OpToRel(<, Nat)
<1>1. SUFFICES ASSUME T # {} PROVE FALSE
  BY Zenon
<1>2. IsWellFoundedOn(R, Nat)
  BY NatLessThanWellFounded, Zenon
<1>3. \A x, y \in Nat : y < x => <<y, x>> \in R
  BY Zenon DEF OpToRel
<1> HIDE DEF R
<1>4. PICK x \in T : \A y \in T : ~(<<y, x>> \in R)
  <2>1. T \subseteq Nat
    BY Zenon
  <2> HIDE DEF T
  <2> QED
    BY <1>1, <1>2, <2>1, WFMin, Zenon
<1>5. x \in Nat /\ x \notin S /\ x - 1 \in Nat /\ x - 1 < x /\ (x - 1) + 1 = x
  <2>1. x \in Nat /\ x \notin S /\ x # 0
    BY Zenon
  <2> QED
    BY <2>1
<1>6. x - 1 \in S
  BY <1>3, <1>4, <1>5, Zenon
<1> QED
  BY <1>5, <1>6, Zenon

Total(f) == FoldFunction(+, 0, f)

\* One step of the fold, and what the fold computes for every set of connections.
Pick(s) == CHOOSE x \in s : TRUE
Adding(f, g, s) == IF s = {} THEN 0 ELSE f[Pick(s)] + g[s \ {Pick(s)}]
Adds(f, g) == g = [s \in SUBSET Conns |-> Adding(f, g, s)]

Sized(n) == {s \in SUBSET Conns : Cardinality(s) <= n}

\* What is picked from a set leaves a smaller one.
LEMMA PickFacts ==
  ASSUME NEW n \in Nat, NEW s \in Sized(n + 1), s # {}
  PROVE  Pick(s) \in Conns /\ Pick(s) \in s /\ s \ {Pick(s)} \in Sized(n)
<1>1. Pick(s) \in s /\ s \subseteq Conns
  BY Zenon DEF Pick, Sized
<1>2. IsFiniteSet(s)
  BY <1>1, RunAssumption, FS_Subset, Zenon
<1>3. Cardinality(s \ {Pick(s)}) = Cardinality(s) - 1 /\ Cardinality(s) \in Nat
  BY <1>1, <1>2, FS_RemoveElement, FS_CardinalityType, Zenon
<1>4. Cardinality(s) <= n + 1
  BY Zenon DEF Sized
<1> QED
  BY <1>1, <1>3, <1>4 DEF Sized

\* The sets of no more than no connections, and of no more than all.
LEMMA SizedEnds ==
  /\ \A s \in Sized(0) : s = {}
  /\ Cardinality(Conns) \in Nat /\ SUBSET Conns = Sized(Cardinality(Conns))
  /\ \A n \in Nat : Sized(n) \subseteq Sized(n + 1)
<1>1. \A s \in SUBSET Conns : IsFiniteSet(s) /\ Cardinality(s) \in Nat /\ Cardinality(s) <= Cardinality(Conns)
  BY RunAssumption, FS_Subset, FS_CardinalityType, Zenon
<1>2. ASSUME NEW s \in Sized(0) PROVE s = {}
  <2>1. Cardinality(s) = 0 /\ IsFiniteSet(s)
    BY <1>1 DEF Sized
  <2> QED
    BY <2>1, FS_EmptySet, Zenon
<1>3. Cardinality(Conns) \in Nat
  BY RunAssumption, FS_CardinalityType, Zenon
<1> QED
  BY <1>1, <1>2, <1>3 DEF Sized

\* There is such a fold.
LEMMA AddsExist ==
  ASSUME NEW f \in [Conns -> Nat]
  PROVE  \E g : Adds(f, g)
<1> DEFINE Good(g, n) == /\ DOMAIN g = SUBSET Conns /\ g = [s \in DOMAIN g |-> g[s]]
                         /\ \A s \in Sized(n) : g[s] = Adding(f, g, s)
           N == {n \in Nat : \E g : Good(g, n)}
<1>1. 0 \in N
  <2> DEFINE g == [s \in SUBSET Conns |-> 0]
  <2>1. \A s \in Sized(0) : g[s] = 0 /\ Adding(f, g, s) = 0
    BY SizedEnds, Zenon DEF Adding
  <2>2. DOMAIN g = SUBSET Conns /\ g = [s \in DOMAIN g |-> g[s]]
    BY Zenon
  <2> HIDE DEF g
  <2>3. Good(g, 0)
    BY <2>1, <2>2, Zenon
  <2> HIDE DEF Good
  <2> QED
    BY <2>3, Zenon
<1>2. ASSUME NEW n \in Nat, n \in N PROVE n + 1 \in N
  <2>1. PICK g : Good(g, n)
    BY <1>2, Zenon
  <2> DEFINE h == [s \in SUBSET Conns |-> IF s \in Sized(n) THEN g[s] ELSE Adding(f, g, s)]
  <2>2. DOMAIN h = SUBSET Conns /\ h = [s \in DOMAIN h |-> h[s]]
    BY Zenon
  <2>3. \A s \in Sized(n) : h[s] = g[s]
    BY Zenon DEF Sized
  <2>4. \A s \in SUBSET Conns : s \notin Sized(n) => h[s] = Adding(f, g, s)
    BY Zenon
  <2> HIDE DEF h
  <2>5. ASSUME NEW s \in Sized(n + 1) PROVE h[s] = Adding(f, h, s)
    <3>1. Adding(f, h, s) = Adding(f, g, s)
      <4>1. CASE s = {}
        BY <4>1, Zenon DEF Adding
      <4>2. CASE s # {}
        <5>1. h[s \ {Pick(s)}] = g[s \ {Pick(s)}]
          BY <2>3, <4>2, PickFacts, Zenon
        <5> QED
          BY <4>2, <5>1, Zenon DEF Adding
      <4> QED
        BY <4>1, <4>2, Zenon
    <3>2. h[s] = Adding(f, g, s)
      <4>1. s \in SUBSET Conns
        BY Zenon DEF Sized
      <4> QED
        BY <2>1, <2>3, <2>4, <4>1, Zenon
    <3> QED
      BY <3>1, <3>2, Zenon
  <2>6. Good(h, n + 1)
    BY <2>2, <2>5, Zenon
  <2> HIDE DEF Good
  <2> QED
    BY <2>6
<1> HIDE DEF Good
<1>3. Nat \subseteq N
  <2> HIDE DEF N
  <2> QED
    BY <1>1, <1>2, NatInd, Zenon
<1>4. PICK g : Good(g, Cardinality(Conns))
  BY <1>3, SizedEnds, Zenon
<1>5. g = [s \in SUBSET Conns |-> Adding(f, g, s)]
  BY <1>4, SizedEnds, Zenon DEF Good
<1> QED
  BY <1>5, Zenon DEF Adds

\* The total is what such a fold says of all connections.
LEMMA TotalIs ==
  ASSUME NEW f \in [Conns -> Nat]
  PROVE  \E g : Adds(f, g) /\ Total(f) = g[Conns] /\ \A s \in SUBSET Conns : g[s] \in Nat
<1> DEFINE g == CHOOSE h : Adds(f, h)
<1>1. Total(f) = g[Conns]
  BY Zenon DEF Total, Adds, Adding, Pick, FoldFunction, FoldFunctionOnSet, MapThenFoldSet
<1>2. Adds(f, g)
  BY AddsExist, Zenon
<1> HIDE DEF g
<1> DEFINE N == {n \in Nat : \A s \in Sized(n) : g[s] \in Nat}
<1>3. \A s \in SUBSET Conns : g[s] = Adding(f, g, s)
  BY <1>2, Zenon DEF Adds
<1>4. 0 \in N
  <2>1. ASSUME NEW s \in Sized(0) PROVE g[s] \in Nat
    <3>1. s = {} /\ s \in SUBSET Conns
      BY SizedEnds, Zenon DEF Sized
    <3> QED
      BY <1>3, <3>1 DEF Adding
  <2> QED
    BY <2>1, Zenon
<1>5. ASSUME NEW n \in Nat, n \in N PROVE n + 1 \in N
  <2>1. ASSUME NEW s \in Sized(n + 1) PROVE g[s] \in Nat
    <3>1. g[s] = Adding(f, g, s)
      BY <1>3, Zenon DEF Sized
    <3>2. CASE s # {}
      <4>1. Pick(s) \in Conns /\ s \ {Pick(s)} \in Sized(n)
        BY <3>2, PickFacts, Zenon
      <4>2. f[Pick(s)] \in Nat /\ g[s \ {Pick(s)}] \in Nat
        BY <1>5, <4>1, Zenon
      <4> QED
        BY <3>1, <3>2, <4>2 DEF Adding
    <3> QED
      BY <3>1, <3>2 DEF Adding
  <2> QED
    BY <2>1
<1>6. Nat \subseteq N
  <2> HIDE DEF N
  <2> QED
    BY <1>4, <1>5, NatInd, Zenon
<1>7. \A s \in SUBSET Conns : g[s] \in Nat
  BY <1>6, SizedEnds, Zenon
<1> QED
  BY <1>1, <1>2, <1>7, Zenon

\* No commands add up to none.
LEMMA TotalZero ==
  ASSUME NEW f \in [Conns -> Nat], \A c \in Conns : f[c] = 0
  PROVE  Total(f) = 0
<1>1. PICK g : Adds(f, g) /\ Total(f) = g[Conns]
  BY TotalIs, Zenon
<1> DEFINE N == {n \in Nat : \A s \in Sized(n) : g[s] = 0}
<1>2. \A s \in SUBSET Conns : g[s] = Adding(f, g, s)
  BY <1>1, Zenon DEF Adds
<1>3. 0 \in N
  <2>1. ASSUME NEW s \in Sized(0) PROVE g[s] = 0
    <3>1. s = {} /\ s \in SUBSET Conns
      BY SizedEnds, Zenon DEF Sized
    <3> QED
      BY <1>2, <3>1, Zenon DEF Adding
  <2> QED
    BY <2>1, Zenon
<1>4. ASSUME NEW n \in Nat, n \in N PROVE n + 1 \in N
  <2>1. ASSUME NEW s \in Sized(n + 1) PROVE g[s] = 0
    <3>1. g[s] = Adding(f, g, s)
      BY <1>2, Zenon DEF Sized
    <3>2. CASE s # {}
      <4>1. f[Pick(s)] = 0 /\ g[s \ {Pick(s)}] = 0
        BY <1>4, <3>2, PickFacts, Zenon
      <4> QED
        BY <3>1, <3>2, <4>1 DEF Adding
    <3> QED
      BY <3>1, <3>2, Zenon DEF Adding
  <2> QED
    BY <2>1
<1>5. Nat \subseteq N
  <2> HIDE DEF N
  <2> QED
    BY <1>3, <1>4, NatInd, Zenon
<1> QED
  BY <1>1, <1>5, SizedEnds, Zenon

\* One command more is one more in all.
LEMMA TotalInc ==
  ASSUME NEW f \in [Conns -> Nat], NEW c \in Conns, NEW e \in [Conns -> Nat],
         \A d \in Conns : e[d] = IF d = c THEN f[d] + 1 ELSE f[d]
  PROVE  Total(e) = Total(f) + 1
<1>1. PICK g : Adds(f, g) /\ Total(f) = g[Conns] /\ \A s \in SUBSET Conns : g[s] \in Nat
  BY TotalIs, Zenon
<1>2. PICK h : Adds(e, h) /\ Total(e) = h[Conns]
  BY TotalIs, Zenon
<1> DEFINE N == {n \in Nat : \A s \in Sized(n) : h[s] = g[s] + IF c \in s THEN 1 ELSE 0}
<1>3. \A s \in SUBSET Conns : g[s] = Adding(f, g, s) /\ h[s] = Adding(e, h, s)
  BY <1>1, <1>2, Zenon DEF Adds
<1>4. 0 \in N
  <2>1. ASSUME NEW s \in Sized(0) PROVE h[s] = g[s] + IF c \in s THEN 1 ELSE 0
    <3>1. s = {} /\ s \in SUBSET Conns
      BY SizedEnds, Zenon DEF Sized
    <3>2. Adding(f, g, s) = 0 /\ Adding(e, h, s) = 0
      BY <3>1, Zenon DEF Adding
    <3>3. g[s] = 0 /\ h[s] = 0 /\ c \notin s
      BY <1>3, <3>1, <3>2, Zenon
    <3> QED
      BY <3>3
  <2> QED
    BY <2>1, Zenon
<1>5. ASSUME NEW n \in Nat, n \in N PROVE n + 1 \in N
  <2>1. ASSUME NEW s \in Sized(n + 1) PROVE h[s] = g[s] + IF c \in s THEN 1 ELSE 0
    <3>1. g[s] = Adding(f, g, s) /\ h[s] = Adding(e, h, s)
      BY <1>3, Zenon DEF Sized
    <3>2. CASE s = {}
      BY <3>1, <3>2 DEF Adding
    <3>3. CASE s # {}
      <4> DEFINE x == Pick(s)
                 r == s \ {x}
      <4>1. x \in Conns /\ x \in s /\ r \in Sized(n)
        BY <3>3, PickFacts, Zenon
      <4>2. h[r] = g[r] + IF c \in r THEN 1 ELSE 0
        BY <1>5, <4>1, Zenon
      <4>3. g[s] = f[x] + g[r] /\ h[s] = e[x] + h[r]
        BY <3>1, <3>3, Zenon DEF Adding
      <4>4. g[r] \in Nat /\ f[x] \in Nat
        BY <1>1, <4>1, Zenon DEF Sized
      <4>5. c \in r <=> c \in s /\ c # x
        BY Zenon
      <4>6. e[x] = IF x = c THEN f[x] + 1 ELSE f[x]
        BY <4>1, Zenon
      <4> HIDE DEF r, x
      <4> QED
        BY <4>1, <4>2, <4>3, <4>4, <4>5, <4>6
    <3> QED
      BY <3>2, <3>3, Zenon
  <2> QED
    BY <2>1
<1>6. Nat \subseteq N
  <2> HIDE DEF N
  <2> QED
    BY <1>4, <1>5, NatInd, Zenon
<1>7. h[Conns] = g[Conns] + 1
  BY <1>6, SizedEnds, Zenon
<1> QED
  BY <1>1, <1>2, <1>7, Zenon

-----------------------------------------------------------------------------
(* What one event adds to the summary.                                      *)

IsSum(s) ==
  /\ s = [sessions |-> s.sessions, commands |-> s.commands, transfers |-> s.transfers,
          installs |-> s.installs, bootp |-> s.bootp, exits |-> s.exits]
  /\ s.sessions = [c \in Conns |-> s.sessions[c]]
  /\ s.installs = [a \in Attempts |-> s.installs[a]]

\* s with the line added is q.
Added(s, q, ev, id) ==
  /\ \A c \in Conns :
       q.sessions[c] = IF c = id /\ ev = "session_end" THEN "ended" ELSE
                       IF c = id /\ ev = "session_start" /\ s.sessions[c] = "none" THEN "open" ELSE s.sessions[c]
  /\ q.commands = IF ev = "command_end" THEN s.commands + 1 ELSE s.commands
  /\ q.transfers = IF ev = "transfer_end" THEN s.transfers + 1 ELSE s.transfers
  /\ q.bootp = IF ev = "bootp_reply" THEN s.bootp + 1 ELSE s.bootp
  /\ q.exits = IF ev = "listener_exit" THEN s.exits + 1 ELSE s.exits
  /\ \A a \in Attempts :
       q.installs[a] = IF a = id /\ ev = "install_start" /\ s.installs[a] = "none" THEN "incomplete" ELSE
                       IF a = id /\ ev = "install_returned" /\ s.installs[a] # "none" THEN "returned" ELSE
                       s.installs[a]

About(ev, id) ==
  /\ ev \in {"session_start", "session_end"} => id \in Conns
  /\ ev \in Installs => id \in Attempts

\* Summarize takes one line at a time.
LEMMA SumAdds ==
  ASSUME NEW s, IsSum(s), NEW ev, NEW id, About(ev, id)
  PROVE  IsSum(SumLine(s, Ev(ev, id))) /\ Added(s, SumLine(s, Ev(ev, id)), ev, id)
<1> DEFINE e == Ev(ev, id)
           q == SumLine(s, e)
<1>0. e.ev = ev /\ e.id = id
  BY Zenon DEF Ev
<1> HIDE DEF e
<1>1. CASE ev = "install_start"
  <2>0. id \in Attempts
    BY <1>1, Zenon DEF About, Installs
  <2>1. q = IF s.installs[id] # "none" THEN s ELSE [s EXCEPT !.installs[id] = "incomplete"]
    BY <1>0, <1>1, Zenon DEF SumLine
  <2> HIDE DEF q
  <2>2. IsSum(q) /\ Added(s, q, ev, id)
    BY <1>1, <2>0, <2>1, Zenon DEF IsSum, Added
  <2> QED
    BY <2>2, Zenon DEF q, e
<1>2. CASE ev = "install_returned"
  <2>0. id \in Attempts
    BY <1>2, Zenon DEF About, Installs
  <2>1. q = IF s.installs[id] = "none" THEN s ELSE [s EXCEPT !.installs[id] = "returned"]
    BY <1>0, <1>2, Zenon DEF SumLine
  <2> HIDE DEF q
  <2>2. IsSum(q) /\ Added(s, q, ev, id)
    BY <1>2, <2>0, <2>1, Zenon DEF IsSum, Added
  <2> QED
    BY <2>2, Zenon DEF q, e
<1>3. CASE ev = "session_start"
  <2>0. id \in Conns
    BY <1>3, Zenon DEF About
  <2>1. q = [s EXCEPT !.sessions[id] = IF @ = "none" THEN "open" ELSE @]
    BY <1>0, <1>3, Zenon DEF SumLine
  <2> HIDE DEF q
  <2>2. IsSum(q) /\ Added(s, q, ev, id)
    BY <1>3, <2>0, <2>1, Zenon DEF IsSum, Added
  <2> QED
    BY <2>2, Zenon DEF q, e
<1>4. CASE ev = "session_end"
  <2>0. id \in Conns
    BY <1>4, Zenon DEF About
  <2>1. q = [s EXCEPT !.sessions[id] = "ended"]
    BY <1>0, <1>4, Zenon DEF SumLine
  <2> HIDE DEF q
  <2>2. IsSum(q) /\ Added(s, q, ev, id)
    BY <1>4, <2>0, <2>1, Zenon DEF IsSum, Added
  <2> QED
    BY <2>2, Zenon DEF q, e
<1>5. CASE ev \in {"command_end", "transfer_end", "bootp_reply", "listener_exit"}
  <2>1. q = CASE ev = "command_end" -> [s EXCEPT !.commands = @ + 1]
              [] ev = "transfer_end" -> [s EXCEPT !.transfers = @ + 1]
              [] ev = "bootp_reply" -> [s EXCEPT !.bootp = @ + 1]
              [] OTHER -> [s EXCEPT !.exits = @ + 1]
    BY <1>0, <1>5, Zenon DEF SumLine
  <2> HIDE DEF q
  <2>2. IsSum(q) /\ Added(s, q, ev, id)
    BY <1>5, <2>1, Zenon DEF IsSum, Added
  <2> QED
    BY <2>2, Zenon DEF q, e
<1>6. CASE ev \notin {"install_start", "install_returned", "session_start", "session_end",
                      "command_end", "transfer_end", "bootp_reply", "listener_exit"}
  <2>1. q = s
    BY <1>0, <1>6, Zenon DEF SumLine
  <2> HIDE DEF q
  <2>2. IsSum(q) /\ Added(s, q, ev, id)
    BY <1>6, <2>1, Zenon DEF Added
  <2> QED
    BY <2>2, Zenon DEF q, e
<1> QED
  BY <1>1, <1>2, <1>3, <1>4, <1>5, <1>6, Zenon

\* A log that Summarize reads in full.
Fine(log) == log.last = "whole" /\ ~log.corrupt /\ IsSum(log.sum)

\* One event in an open file, without an error.
Written(r, q, ev, id) ==
  /\ q.file = "open" /\ ~r.err
  /\ Fine(q.log) /\ Added(r.log.sum, q.log.sum, ev, id)
  /\ q.log.first = IF r.log.first = "none" THEN ev ELSE r.log.first
  /\ q.log.stop = IF ev = "server_stop" THEN id ELSE r.log.stop

\* A write that does not fail is a line of its own.
LEMMA EmitWrites ==
  ASSUME NEW r, IsRec(r), r.file = "open", Fine(r.log), NEW ev, NEW id, About(ev, id),
         NEW q \in emit(r, Ev(ev, id)), ~q.err
  PROVE  Written(r, q, ev, id)
<1> DEFINE e == Ev(ev, id)
           l == Line(r.log, e)
<1>0. e.ev = ev /\ e.id = id
  BY Zenon DEF Ev
<1>1. q = [r EXCEPT !.log = l]
  BY Zenon DEF emit, IsRec
<1>2. IsSum(SumLine(r.log.sum, e)) /\ Added(r.log.sum, SumLine(r.log.sum, e), ev, id)
  BY SumAdds, Zenon DEF Fine
<1> HIDE DEF e
<1>3. /\ l.sum = SumLine(r.log.sum, e) /\ l.last = "whole" /\ l.corrupt = (r.log.corrupt \/ r.log.last = "malformed")
      /\ l.first = IF r.log.first = "none" THEN e.ev ELSE r.log.first
      /\ l.stop = IF e.ev = "server_stop" THEN e.id ELSE r.log.stop
  BY Zenon DEF Line, Fine
<1> HIDE DEF l
<1>4. q.file = "open" /\ q.err = r.err /\ q.log = l
  BY <1>1, Zenon DEF IsRec
<1> QED
  BY <1>0, <1>2, <1>3, <1>4, Zenon DEF Written, Fine

-----------------------------------------------------------------------------
(* Who is done when CloseWithReason has waited.                             *)

\* The step after a step, spelled out.
LEMMA AfterIs ==
  /\ After("rsh") = "announce"
  /\ After("tftp") = IF "rsh" \in plan.services THEN "rsh" ELSE "announce"
  /\ After("bootp") = IF "tftp" \in plan.services THEN "tftp" ELSE
                      IF "rsh" \in plan.services THEN "rsh" ELSE "announce"
  /\ After("run") = IF "bootp" \in plan.services THEN "bootp" ELSE
                    IF "tftp" \in plan.services THEN "tftp" ELSE
                    IF "rsh" \in plan.services THEN "rsh" ELSE "announce"
<1>1. /\ DOMAIN Steps = 1..7 /\ Len(Steps) = 7
      /\ Steps[1] = "tree" /\ Steps[2] = "capture" /\ Steps[3] = "run" /\ Steps[4] = "bootp"
      /\ Steps[5] = "tftp" /\ Steps[6] = "rsh" /\ Steps[7] = "announce"
  BY DEF Steps
<1>2. ASSUME NEW i \in 3..6, NEW step, step = Steps[i], NEW n \in (i + 1)..7,
             Steps[n] \in Services => Steps[n] \in plan.services,
             \A k \in (i + 1)..(n - 1) : Steps[k] \in Services /\ Steps[k] \notin plan.services
      PROVE  After(step) = Steps[n]
  <2> DEFINE j == CHOOSE k \in DOMAIN Steps : Steps[k] = step
             later == {k \in (j + 1)..Len(Steps) : Steps[k] \in Services => Steps[k] \in plan.services}
             m == CHOOSE k \in later : \A l \in later : k <= l
  <2>0. After(step) = Steps[m]
    BY Zenon DEF After
  <2>1. j = i
    BY <1>1, <1>2
  <2> HIDE DEF j
  <2>2. n \in later /\ later \subseteq Int /\ \A k \in later : n <= k
    BY <1>1, <1>2, <2>1
  <2> HIDE DEF later
  <2>3. m \in later /\ \A l \in later : m <= l
    BY <2>2, Zenon
  <2> HIDE DEF m
  <2>4. m = n
    BY <2>2, <2>3
  <2> QED
    BY <2>0, <2>4, Zenon
<1>3. After("rsh") = "announce"
  <2>1. Steps[7] \notin Services
    BY <1>1, Zenon DEF Services
  <2> QED
    BY <1>1, <1>2, <2>1
<1>4. After("tftp") = IF "rsh" \in plan.services THEN "rsh" ELSE "announce"
  <2>1. Steps[7] \notin Services /\ Steps[6] \in Services
    BY <1>1, Zenon DEF Services
  <2>2. CASE "rsh" \in plan.services
    <3>1. After("tftp") = Steps[6]
      BY <1>1, <1>2, <2>2
    <3> QED
      BY <1>1, <2>2, <3>1, Zenon
  <2>3. CASE "rsh" \notin plan.services
    <3>1. After("tftp") = Steps[7]
      BY <1>1, <1>2, <2>1, <2>3
    <3> QED
      BY <1>1, <2>3, <3>1, Zenon
  <2> QED
    BY <2>2, <2>3, Zenon
<1>5. After("bootp") = IF "tftp" \in plan.services THEN "tftp" ELSE
                      IF "rsh" \in plan.services THEN "rsh" ELSE "announce"
  <2>1. Steps[7] \notin Services /\ Steps[6] \in Services /\ Steps[5] \in Services
    BY <1>1, Zenon DEF Services
  <2>2. CASE "tftp" \in plan.services
    <3>1. After("bootp") = Steps[5]
      BY <1>1, <1>2, <2>2
    <3> QED
      BY <1>1, <2>2, <3>1, Zenon
  <2>3. CASE "tftp" \notin plan.services /\ "rsh" \in plan.services
    <3>1. After("bootp") = Steps[6]
      BY <1>1, <1>2, <2>1, <2>3
    <3> QED
      BY <1>1, <2>3, <3>1, Zenon
  <2>4. CASE "tftp" \notin plan.services /\ "rsh" \notin plan.services
    <3>1. After("bootp") = Steps[7]
      BY <1>1, <1>2, <2>1, <2>4
    <3> QED
      BY <1>1, <2>4, <3>1, Zenon
  <2> QED
    BY <2>2, <2>3, <2>4, Zenon
<1>6. After("run") = IF "bootp" \in plan.services THEN "bootp" ELSE
                    IF "tftp" \in plan.services THEN "tftp" ELSE
                    IF "rsh" \in plan.services THEN "rsh" ELSE "announce"
  <2>1. Steps[7] \notin Services /\ Steps[6] \in Services /\ Steps[5] \in Services /\ Steps[4] \in Services
    BY <1>1, Zenon DEF Services
  <2>2. CASE "bootp" \in plan.services
    <3>1. After("run") = Steps[4]
      BY <1>1, <1>2, <2>2
    <3> QED
      BY <1>1, <2>2, <3>1, Zenon
  <2>3. CASE "bootp" \notin plan.services /\ "tftp" \in plan.services
    <3>1. After("run") = Steps[5]
      BY <1>1, <1>2, <2>1, <2>3
    <3> QED
      BY <1>1, <2>3, <3>1, Zenon
  <2>4. CASE "bootp" \notin plan.services /\ "tftp" \notin plan.services /\ "rsh" \in plan.services
    <3>1. After("run") = Steps[6]
      BY <1>1, <1>2, <2>1, <2>4
    <3> QED
      BY <1>1, <2>4, <3>1, Zenon
  <2>5. CASE "bootp" \notin plan.services /\ "tftp" \notin plan.services /\ "rsh" \notin plan.services
    <3>1. After("run") = Steps[7]
      BY <1>1, <1>2, <2>1, <2>5
    <3> QED
      BY <1>1, <2>5, <3>1, Zenon
  <2> QED
    BY <2>2, <2>3, <2>4, <2>5, Zenon
<1> QED
  BY <1>3, <1>4, <1>5, <1>6, Zenon

\* The places of CloseWithReason after each wait.
Late3 == {"finish", "closeRec", "summary", "closeTree", "closed", "failed"}
Late2 == {"shutTftp", "drainTftp"} \cup Late3
Late1 == {"shutRsh", "drainRsh"} \cup Late2

Settled(c) == conn[c].at \in {"none", "gone", "rejected", "over"}

\* Only what is bound is served, and the service "rsh" has one connection in its hands.
BoundInv ==
  /\ DOMAIN loop = Services
  /\ (main \in {"tftp", "rsh", "announce"} /\ "bootp" \in plan.services) => sock["bootp"] = "open"
  /\ (main \in {"rsh", "announce"} /\ "tftp" \in plan.services) => sock["tftp"] = "open"
  /\ (main = "announce" /\ "rsh" \in plan.services) => sock["rsh"] = "open"
  /\ \A s \in Services : sock[s] = "none" => loop[s] = "none"
  /\ sock["rsh"] = "none" => \A c \in Conns : conn[c].at = "none"
  /\ sock["tftp"] = "none" => xfer = "none"
  /\ \A c \in Conns : conn[c].at = "accepted" => loop["rsh"] = "busy"
  /\ \A c, d \in Conns : (conn[c].at = "accepted" /\ conn[d].at = "accepted") => c = d

\* After a wait that was not cut short, those it waited for are done.
DrainInv ==
  srv.drained =>
    /\ main \in Late1 => \A s \in Services : loop[s] \in {"none", "done"}
    /\ main \in Late2 => \A c \in Conns : Settled(c)
    /\ main \in Late3 => xfer # "active"

CalmInv == BoundInv /\ DrainInv

\* Nothing is bound at first.
LEMMA CalmInit == Init => CalmInv
<1> SUFFICES ASSUME Init PROVE CalmInv
  BY Zenon
<1>1. main = "tree" /\ xfer = "none" /\ DOMAIN loop = Services
  BY Zenon DEF Init
<1>2. \A s \in Services : loop[s] = "none"
  BY Zenon DEF Init
<1>3. \A c \in Conns : conn[c].at = "none"
  BY Zenon DEF Init
<1> QED
  BY <1>1, <1>2, <1>3, Zenon DEF CalmInv, BoundInv, DrainInv, Services, Late1, Late2, Late3, Settled

\* The steps of Start.
LEMMA CalmStarting == StartInv /\ CalmInv /\ Starting => CalmInv'
<1> SUFFICES ASSUME StartInv, CalmInv, Starting PROVE CalmInv'
  BY Zenon
<1> USE DEF CalmInv, BoundInv, DrainInv, Services, Late1, Late2, Late3, Settled
<1>u. Untouched /\ DOMAIN sock = Services
  BY Zenon DEF StartInv, Starting, buildTree, NewRecorder, WriteRun, bind, Launch, Prior, Binding
<1>1. CASE buildTree
  BY <1>1, <1>u, Zenon DEF buildTree, Untouched
<1>2. CASE NewRecorder
  BY <1>2, <1>u, AfterIs, Zenon DEF NewRecorder, Untouched
<1>3. CASE WriteRun
  BY <1>3, <1>u, AfterIs, Zenon DEF WriteRun, Untouched
<1>4. ASSUME NEW s \in Services, bind(s) PROVE CalmInv'
  <2>1. CASE s = "bootp"
    BY <1>4, <1>u, <2>1, AfterIs, Zenon DEF bind, Untouched
  <2>2. CASE s = "tftp"
    BY <1>4, <1>u, <2>2, AfterIs, Zenon DEF bind, Untouched
  <2>3. CASE s = "rsh"
    BY <1>4, <1>u, <2>3, AfterIs, Zenon DEF bind, Untouched
  <2> QED
    BY <2>1, <2>2, <2>3, Zenon
<1>5. CASE Launch
  BY <1>5, <1>u, Zenon DEF Launch, Untouched
<1> QED
  BY <1>1, <1>2, <1>3, <1>4, <1>5, Zenon DEF Starting

\* CloseSockets and the steps of CloseWithReason.
LEMMA CalmClosing == StartInv /\ CalmInv /\ (CloseSockets \/ Closing) => CalmInv'
<1> SUFFICES ASSUME StartInv, CalmInv, CloseSockets \/ Closing PROVE CalmInv'
  BY Zenon
<1> USE DEF CalmInv, BoundInv, DrainInv, Services, Late1, Late2, Late3, Settled, StartInv
<1>1. CASE CloseSockets
  BY <1>1 DEF CloseSockets
<1>2. CASE JoinLoops
  BY <1>2 DEF JoinLoops, waitTimeout
<1>3. CASE ShutdownRsh
  <2>1. \A c \in Conns : conn'[c].at = conn[c].at
    BY <1>3, ZenonT(30) DEF ShutdownRsh, IsConns, ConnType
  <2>2. /\ main = "shutRsh" /\ main' = IF sock["rsh"] = "none" THEN "shutTftp" ELSE "drainRsh"
        /\ UNCHANGED <<plan, sock, loop, srv, xfer>>
    BY <1>3, Zenon DEF ShutdownRsh
  <2> QED
    BY <2>1, <2>2
<1>4. CASE DrainRsh
  <2>1. ASSUME \A c \in Conns : ~Handled(c), srv.drained PROVE \A c \in Conns : Settled(c)
    BY <1>4, <2>1, Zenon DEF DrainRsh, Handled
  <2> QED
    BY <1>4, <2>1 DEF DrainRsh, waitTimeout
<1>5. CASE ShutdownTftp
  BY <1>5, Zenon DEF ShutdownTftp
<1>6. CASE DrainTftp
  BY <1>6 DEF DrainTftp, waitTimeout
<1>7. CASE ServerStop
  BY <1>7, Zenon DEF ServerStop
<1>8. CASE CloseRecorder
  BY <1>8 DEF CloseRecorder
<1>9. CASE WriteSummary
  BY <1>9 DEF WriteSummary
<1>10. CASE CloseTree
  BY <1>10 DEF CloseTree
<1> QED
  BY <1>1, <1>2, <1>3, <1>4, <1>5, <1>6, <1>7, <1>8, <1>9, <1>10, Zenon DEF Closing

\* What a connection's step may do to the places of the connections.
Moves(c, at) == conn'[c].at = at /\ \A d \in Conns : d # c => conn'[d].at = conn[d].at

\* A step of a service, seen from the places of its connections.
LEMMA CalmServing == StartInv /\ CalmInv /\ Serving => CalmInv'
<1> SUFFICES ASSUME StartInv, CalmInv, Serving PROVE CalmInv'
  BY Zenon
<1>1. UNCHANGED <<main, plan, srv, sock, summary>>
  BY Zenon DEF Serving, ServeReturns, runListener, BootpRequest, BootpReply, TransferStart, TransferEnd, Accept,
         Track, Request, DialStderr, BeginSession, BeginCommand, CommandDone, EndCommand, EndSession,
         BackgroundDone
<1> USE DEF CalmInv, BoundInv, DrainInv, Services, Late1, Late2, Late3, Settled
<1>2. ASSUME NEW s \in Services, ServeReturns(s) \/ runListener(s) PROVE CalmInv'
  BY <1>1, <1>2 DEF ServeReturns, runListener
<1>3. CASE BootpRequest \/ BootpReply
  <2>1. loop["bootp"] \in {"up", "busy"} /\ conn' = conn /\ xfer' = xfer
    BY <1>3, Zenon DEF BootpRequest, BootpReply
  <2>2. DOMAIN loop' = Services /\ loop'["tftp"] = loop["tftp"] /\ loop'["rsh"] = loop["rsh"]
    BY <1>3, Zenon DEF BootpRequest, BootpReply
  <2> QED
    BY <1>1, <2>1, <2>2, Zenon
<1>4. CASE TransferStart \/ TransferEnd
  BY <1>1, <1>4, ZenonT(60) DEF TransferStart, TransferEnd
<1>5. ASSUME NEW c \in Conns, Accept(c) PROVE CalmInv'
  <2>1. Moves(c, "accepted")
    <3>1. PICK a : conn' = [conn EXCEPT ![c] = [conn[c] EXCEPT !.at = "accepted", !.open = TRUE, !.addr = a]]
      BY <1>5, Zenon DEF Accept
    <3> QED
      BY <3>1, ZenonT(30) DEF Moves, StartInv, IsConns, ConnType
  <2> QED
    BY <1>1, <1>5, <2>1 DEF Accept, Moves
<1>6. ASSUME NEW c \in Conns, Track(c) PROVE CalmInv'
  <2>1. Moves(c, "gone") \/ Moves(c, "request")
    BY <1>6, ZenonT(30) DEF Track, Moves, StartInv, IsConns, ConnType
  <2> QED
    BY <1>1, <1>6, <2>1, ZenonT(30) DEF Track, Moves
<1>7. ASSUME NEW c \in Conns, NEW at \in Places \ {"none", "accepted"}, Moves(c, at),
             ~Settled(c) /\ conn[c].at # "accepted", loop' = loop, xfer' = xfer
      PROVE  CalmInv'
  BY <1>1, <1>7 DEF Moves
<1>8. ASSUME NEW c \in Conns, NEW at \in Places, conn' = [conn EXCEPT ![c].at = at] PROVE Moves(c, at)
  BY <1>8, ZenonT(30) DEF Moves, StartInv, IsConns, ConnType
<1>9. ASSUME NEW c \in Conns,
             Request(c) \/ DialStderr(c) \/ BeginSession(c) \/ CommandDone(c) \/ EndCommand(c) \/ EndSession(c)
      PROVE  CalmInv'
  <2>1. /\ conn[c].at \in {"request", "dial", "accepting", "running", "ending", "session"}
        /\ loop' = loop /\ xfer' = xfer
    BY <1>9, Zenon DEF Request, DialStderr, BeginSession, CommandDone, EndCommand, EndSession
  <2>2. \E at \in Places \ {"none", "accepted"} : conn' = [conn EXCEPT ![c].at = at]
    BY <1>9, Zenon DEF Request, DialStderr, BeginSession, CommandDone, EndCommand, EndSession, Places
  <2> QED
    BY <1>7, <1>8, <2>1, <2>2, Zenon
<1>10. ASSUME NEW c \in Conns, BeginCommand(c) PROVE CalmInv'
  <2>1. Moves(c, "ending") \/ Moves(c, "running")
    <3>1. PICK k : conn' = [conn EXCEPT ![c].at = IF k[1] = "back" THEN "ending" ELSE "running", ![c].cmd = k]
      BY <1>10, Zenon DEF BeginCommand
    <3> DEFINE at == IF k[1] = "back" THEN "ending" ELSE "running"
    <3>2. Moves(c, at)
      BY <3>1, ZenonT(30) DEF Moves, StartInv, IsConns, ConnType
    <3> QED
      BY <3>2, Zenon
  <2>2. conn[c].at = "session" /\ loop' = loop /\ xfer' = xfer
    BY <1>10, Zenon DEF BeginCommand
  <2> QED
    BY <1>7, <2>1, <2>2, Zenon DEF Places
<1>11. ASSUME NEW a \in Attempts, BackgroundDone(a) PROVE CalmInv'
  BY <1>1, <1>11 DEF BackgroundDone
<1> QED
  BY <1>2, <1>3, <1>4, <1>5, <1>6, <1>9, <1>10, <1>11, Zenon DEF Serving

\* Every step keeps what a wait has brought.
LEMMA CalmNext == StartInv /\ CalmInv /\ [Next]_vars => CalmInv'
<1> SUFFICES ASSUME CalmInv, UNCHANGED vars PROVE CalmInv'
  BY CalmStarting, CalmClosing, CalmServing, Zenon DEF Next
<1> QED
  BY Zenon DEF CalmInv, BoundInv, DrainInv, Settled, vars

-----------------------------------------------------------------------------
(* The file counts what happens, while it is open and no write has failed. *)

\* What happened so far.  The command that is running has not been counted.
Seen(c) == IF conn[c].at \in {"over", "rejected"} THEN "ended" ELSE
           IF conn[c].at \in {"session", "running", "ending"} THEN "open" ELSE "none"
Done(c) == IF conn[c].at \in {"running", "ending"} THEN ran.commands[c] - 1 ELSE ran.commands[c]
Dones   == [c \in Conns |-> Done(c)]
Passed  == IF xfer = "done" THEN 1 ELSE 0

RanInv ==
  /\ ran = [commands |-> ran.commands, bootp |-> ran.bootp, exits |-> ran.exits, background |-> ran.background]
  /\ ran.commands \in [Conns -> Nat]
  /\ \A c \in Conns : conn[c].at \in {"running", "ending"} => ran.commands[c] > 0
  /\ main \in {"tree", "capture"} => (\A c \in Conns : ran.commands[c] = 0) /\ ran.bootp = 0 /\ ran.exits = 0

Counted ==
  /\ \A c \in Conns : rec.log.sum.sessions[c] = Seen(c)
  /\ rec.log.sum.commands = Total(Dones)
  /\ rec.log.sum.transfers = Passed
  /\ rec.log.sum.bootp = ran.bootp /\ rec.log.sum.exits = ran.exits
Outcomes == \A a \in Attempts : rec.log.sum.installs[a] = Happened(a)
Tells == Fine(rec.log) /\ Counted /\ Outcomes

\* The first line and the line that ends the run are left alone.
Marked == (rec.log.first # "none" => rec'.log.first = rec.log.first) /\ rec'.log.stop = rec.log.stop

\* A step that changes what happened by the event ev, or not at all.
Advances(ev, id) ==
  /\ \A c \in Conns : Seen(c)' = IF c = id /\ ev = "session_end" THEN "ended" ELSE
                                 IF c = id /\ ev = "session_start" /\ Seen(c) = "none" THEN "open" ELSE Seen(c)
  /\ Total(Dones') = IF ev = "command_end" THEN Total(Dones) + 1 ELSE Total(Dones)
  /\ Passed' = IF ev = "transfer_end" THEN Passed + 1 ELSE Passed
  /\ ran'.bootp = IF ev = "bootp_reply" THEN ran.bootp + 1 ELSE ran.bootp
  /\ ran'.exits = IF ev = "listener_exit" THEN ran.exits + 1 ELSE ran.exits
  /\ \A a \in Attempts :
       Happened(a)' = IF a = id /\ ev = "install_start" /\ Happened(a) = "none" THEN "incomplete" ELSE
                      IF a = id /\ ev = "install_returned" /\ Happened(a) # "none" THEN "returned" ELSE Happened(a)

\* The line of what happened leaves the file telling all.
LEMMA TellsAdded ==
  ASSUME Tells, NEW ev, NEW id, Written(rec, rec', ev, id), Advances(ev, id)
  PROVE  Tells'
<1>1. Fine(rec'.log) /\ Added(rec.log.sum, rec'.log.sum, ev, id)
  BY Zenon DEF Written
<1>2. Counted'
  BY <1>1 DEF Added, Tells, Counted, Advances
<1>3. Outcomes'
  BY <1>1 DEF Added, Tells, Outcomes, Advances
<1> QED
  BY <1>1, <1>2, <1>3, Zenon DEF Tells

\* The event is written, and the file still tells what happened.
LEMMA TellsWritten ==
  ASSUME Tells, StartInv, rec.file = "open", NEW ev, NEW id, About(ev, id), ev \notin {"server_stop"},
         rec' \in emit(rec, Ev(ev, id)), ~rec'.err, Advances(ev, id)
  PROVE  Tells' /\ Marked
<1>1. Written(rec, rec', ev, id)
  BY EmitWrites, Zenon DEF Tells, StartInv
<1>2. Marked
  BY <1>1, Zenon DEF Written, Marked
<1> QED
  BY <1>1, <1>2, TellsAdded, Zenon

\* Nothing happens that is counted.
LEMMA TellsSame ==
  ASSUME Tells, rec' = rec, Advances("", "")
  PROVE  Tells' /\ Marked
<1>1. Fine(rec'.log) /\ Marked
  BY Zenon DEF Tells, Marked
<1>2. Counted' /\ Outcomes'
  BY Zenon DEF Tells, Counted, Outcomes, Advances
<1> QED
  BY <1>1, <1>2, Zenon DEF Tells

\* What becomes of an attempt, from its state.
Outcome(st) == [live |-> "incomplete", returned |-> "returned", none |-> "none", start |-> "none",
                back |-> "none"][st]

LEMMA OutcomeIs ==
  /\ \A st \in States : Outcome(st) = IF st = "live" THEN "incomplete" ELSE IF st = "returned" THEN "returned" ELSE "none"
  /\ \A a \in Attempts : Happened(a) = Outcome(attempt[a].st)
  BY DEF Outcome, States, Happened

\* The commands done are numbers, and what they add up to depends on them alone.
LEMMA DonesType == StartInv /\ RanInv => Dones \in [Conns -> Nat]
<1> SUFFICES ASSUME StartInv, RanInv, NEW c \in Conns PROVE Done(c) \in Nat
  BY Zenon DEF Dones
<1>1. ran.commands[c] \in Nat /\ (conn[c].at \in {"running", "ending"} => ran.commands[c] > 0)
  BY Zenon DEF RanInv
<1> QED
  BY <1>1 DEF Done

LEMMA DonesSame ==
  ASSUME \A c \in Conns : Done(c)' = Done(c)
  PROVE  Total(Dones') = Total(Dones)
<1>1. Dones' = Dones
  BY Zenon DEF Dones
<1> QED
  BY <1>1, Zenon

Away == {"none", "accepted", "request", "dial", "accepting", "gone"}

\* A connection that has no session has nothing to count.
LEMMA MovesAway ==
  ASSUME NEW c \in Conns, NEW at \in Away, Moves(c, at), conn[c].at \in Away, ran' = ran
  PROVE  \A d \in Conns : Seen(d)' = Seen(d) /\ Done(d)' = Done(d)
  BY Zenon DEF Moves, Away, Seen, Done

\* A step of a service that writes what it does.
LEMMA TellsServing ==
  ASSUME StartInv, OrderInv, RanInv, Tells, Serving, rec.file = "open", ~rec'.err
  PROVE  Tells' /\ Marked
<1>q. ASSUME ran' = ran, conn' = conn, attempt' = attempt
      PROVE  /\ \A c \in Conns : Seen(c)' = Seen(c) /\ Done(c)' = Done(c)
             /\ \A a \in Attempts : Happened(a)' = Happened(a)
  BY <1>q, Zenon DEF Seen, Done, Happened
<1>c. conn \in [Conns -> ConnType] /\ (\A c \in Conns : conn[c].at \in Places)
  BY Zenon DEF StartInv, IsConns, ConnType
<1>m. ASSUME NEW c \in Conns, NEW at \in Places, conn' = [conn EXCEPT ![c].at = at] PROVE Moves(c, at)
  BY <1>c, <1>m, Zenon DEF Moves, ConnType
<1>h. ASSUME attempt' = attempt PROVE \A a \in Attempts : Happened(a)' = Happened(a)
  BY <1>h, Zenon DEF Happened
<1>1. ASSUME NEW s \in Services, ServeReturns(s) PROVE Tells' /\ Marked
  <2>1. Advances("", "") /\ rec' = rec
    BY <1>1, <1>q, DonesSame, Zenon DEF ServeReturns, Advances, Passed
  <2> QED
    BY <2>1, TellsSame, Zenon
<1>2. ASSUME NEW s \in Services, runListener(s) PROVE Tells' /\ Marked
  <2>0. conn' = conn /\ attempt' = attempt /\ xfer' = xfer
    BY <1>2, Zenon DEF runListener
  <2>1. CASE srv.closing
    <3>1. rec' = rec /\ ran' = ran
      BY <1>2, <2>1, Zenon DEF runListener
    <3>2. Advances("", "")
      BY <1>q, <2>0, <3>1, DonesSame, Zenon DEF Advances, Passed
    <3> QED
      BY <3>1, <3>2, TellsSame, Zenon
  <2>2. CASE ~srv.closing
    <3>1. rec' \in emit(rec, Ev("listener_exit", s)) /\ ran' = [ran EXCEPT !.exits = @ + 1]
      BY <1>2, <2>2, Zenon DEF runListener
    <3>2. ran'.exits = ran.exits + 1 /\ ran'.bootp = ran.bootp /\ ran'.commands = ran.commands
      BY <3>1, Zenon DEF RanInv
    <3>3. \A c \in Conns : Seen(c)' = Seen(c) /\ Done(c)' = Done(c)
      BY <2>0, <3>2, Zenon DEF Seen, Done
    <3>4. Advances("listener_exit", s)
      BY <1>h, <2>0, <3>2, <3>3, DonesSame, Zenon DEF Advances, Passed
    <3>5. About("listener_exit", s)
      BY Zenon DEF About, Installs
    <3> QED
      BY <3>1, <3>4, <3>5, TellsWritten, Zenon
  <2> QED
    BY <2>1, <2>2, Zenon
<1>3. CASE BootpRequest
  <2>1. Advances("", "") /\ rec' = rec
    BY <1>3, <1>q, DonesSame, Zenon DEF BootpRequest, Advances, Passed
  <2> QED
    BY <2>1, TellsSame, Zenon
<1>4. CASE BootpReply
  <2>0. conn' = conn /\ attempt' = attempt /\ xfer' = xfer
    BY <1>4, Zenon DEF BootpReply
  <2>1. CASE rec' \in emit(rec, Ev("bootp_reply", "")) /\ ran' = [ran EXCEPT !.bootp = @ + 1]
    <3>2. ran'.exits = ran.exits /\ ran'.bootp = ran.bootp + 1 /\ ran'.commands = ran.commands
      BY <2>1, Zenon DEF RanInv
    <3>3. \A c \in Conns : Seen(c)' = Seen(c) /\ Done(c)' = Done(c)
      BY <2>0, <3>2, Zenon DEF Seen, Done
    <3>4. Advances("bootp_reply", "")
      BY <1>h, <2>0, <3>2, <3>3, DonesSame, Zenon DEF Advances, Passed
    <3>5. About("bootp_reply", "")
      BY Zenon DEF About, Installs
    <3> QED
      BY <2>1, <3>4, <3>5, TellsWritten, Zenon
  <2>2. CASE rec' \in emit(rec, Ev("bootp_ignored", "")) /\ ran' = ran
    <3>1. Advances("bootp_ignored", "")
      BY <1>q, <2>0, <2>2, DonesSame, Zenon DEF Advances, Passed
    <3>2. About("bootp_ignored", "")
      BY Zenon DEF About, Installs
    <3> QED
      BY <2>2, <3>1, <3>2, TellsWritten, Zenon
  <2>3. CASE rec' = rec /\ ran' = ran
    <3>1. Advances("", "")
      BY <1>q, <2>0, <2>3, DonesSame, Zenon DEF Advances, Passed
    <3> QED
      BY <2>3, <3>1, TellsSame, Zenon
  <2> QED
    BY <1>4, <2>1, <2>2, <2>3, Zenon DEF BootpReply
<1>5. CASE TransferStart
  <2>1. Advances("", "") /\ rec' = rec
    BY <1>5, <1>q, DonesSame, Zenon DEF TransferStart, Advances, Passed
  <2> QED
    BY <2>1, TellsSame, Zenon
<1>6. CASE TransferEnd
  <2>0. /\ xfer = "active" /\ xfer' = "done" /\ conn' = conn /\ attempt' = attempt /\ ran' = ran
        /\ rec' \in emit(rec, Ev("transfer_end", ""))
    BY <1>6, Zenon DEF TransferEnd
  <2>1. Advances("transfer_end", "")
    <3>1. Passed = 0 /\ Passed' = 1
      BY <2>0, Zenon DEF Passed
    <3>2. Passed' = Passed + 1
      BY <3>1
    <3> QED
      BY <1>q, <2>0, <3>2, DonesSame, Zenon DEF Advances
  <2>2. About("transfer_end", "")
    BY Zenon DEF About, Installs
  <2> QED
    BY <2>0, <2>1, <2>2, TellsWritten, Zenon
<1>a. ASSUME NEW c \in Conns, NEW at \in Away, Moves(c, at), conn[c].at \in Away, ran' = ran, attempt' = attempt,
             xfer' = xfer, rec' = rec
      PROVE  Tells' /\ Marked
  <2>1. Advances("", "")
    BY <1>a, <1>h, MovesAway, DonesSame, Zenon DEF Advances, Passed
  <2> QED
    BY <1>a, <2>1, TellsSame, Zenon
<1>7. ASSUME NEW c \in Conns, Accept(c) PROVE Tells' /\ Marked
  <2>1. PICK a : conn' = [conn EXCEPT ![c] = [conn[c] EXCEPT !.at = "accepted", !.open = TRUE, !.addr = a]]
    BY <1>7, Zenon DEF Accept
  <2>2. Moves(c, "accepted")
    BY <1>c, <2>1, Zenon DEF Moves, ConnType
  <2>3. conn[c].at \in Away /\ ran' = ran /\ attempt' = attempt /\ xfer' = xfer /\ rec' = rec /\ "accepted" \in Away
    BY <1>7, Zenon DEF Accept, Away
  <2> QED
    BY <1>a, <2>2, <2>3, Zenon
<1>8. ASSUME NEW c \in Conns, Track(c) PROVE Tells' /\ Marked
  <2> DEFINE at == IF "rsh" \in shut THEN "gone" ELSE "request"
  <2>1. conn' = [conn EXCEPT ![c].at = at, ![c].open = "rsh" \notin shut] /\ at \in Away
    BY <1>8, Zenon DEF Track, Away
  <2> HIDE DEF at
  <2>2. Moves(c, at)
    BY <1>c, <2>1, Zenon DEF Moves, ConnType
  <2>3. conn[c].at \in Away /\ ran' = ran /\ attempt' = attempt /\ xfer' = xfer /\ rec' = rec
    BY <1>8, Zenon DEF Track, Away
  <2> QED
    BY <1>a, <2>1, <2>2, <2>3, Zenon
<1>9. ASSUME NEW c \in Conns, DialStderr(c) PROVE Tells' /\ Marked
  <2>1. PICK at \in {"gone", "accepting"} : conn' = [conn EXCEPT ![c].at = at]
    BY <1>9, Zenon DEF DialStderr
  <2>2. Moves(c, at) /\ at \in Away
    BY <1>m, <2>1, Zenon DEF Places, Away
  <2>3. conn[c].at \in Away /\ ran' = ran /\ attempt' = attempt /\ xfer' = xfer /\ rec' = rec
    BY <1>9, Zenon DEF DialStderr, Away
  <2> QED
    BY <1>a, <2>1, <2>2, <2>3, Zenon
<1>10. ASSUME NEW c \in Conns, Request(c) PROVE Tells' /\ Marked
  <2>0. conn[c].at = "request" /\ ran' = ran /\ attempt' = attempt /\ xfer' = xfer
    BY <1>10, Zenon DEF Request
  <2>1. CASE conn' = [conn EXCEPT ![c].at = "rejected"] /\ rec' \in RSHRejected(rec, c)
    <3>1. PICK q \in emit(rec, Ev("session_start", c)) : rec' \in emit(q, Ev("session_end", c))
      BY <2>1, Zenon DEF RSHRejected
    <3>2. About("session_start", c) /\ About("session_end", c)
      BY Zenon DEF About, Installs
    <3>3. IsRec(rec) /\ Fine(rec.log)
      BY Zenon DEF StartInv, Tells
    <3>4. IsRec(q) /\ q.file = "open"
      BY <3>1, <3>3, EmitShape, Zenon
    <3>5. ~q.err
      BY <3>1, <3>4, ZenonT(30) DEF emit, IsRec
    <3>6. Written(rec, q, "session_start", c)
      BY <3>1, <3>2, <3>3, <3>5, EmitWrites, Zenon
    <3>7. Written(q, rec', "session_end", c)
      <4>1. Fine(q.log)
        BY <3>6, Zenon DEF Written
      <4> QED
        BY <3>1, <3>2, <3>4, <4>1, EmitWrites, Zenon
    <3>8. Moves(c, "rejected")
      BY <1>m, <2>1, Zenon DEF Places
    <3>9. \A d \in Conns : Done(d)' = Done(d) /\ Seen(d)' = IF d = c THEN "ended" ELSE Seen(d)
      BY <2>0, <3>8, Zenon DEF Moves, Seen, Done
    <3>10. \A a \in Attempts : Happened(a)' = Happened(a)
      BY <1>h, <2>0, Zenon
    <3>11. Fine(rec'.log) /\ Marked
      BY <3>6, <3>7, Zenon DEF Written, Marked
    <3>12. Added(rec.log.sum, q.log.sum, "session_start", c) /\ Added(q.log.sum, rec'.log.sum, "session_end", c)
      BY <3>6, <3>7, Zenon DEF Written
    <3>13. Counted'
      BY <2>0, <3>9, <3>12, DonesSame, ZenonT(120) DEF Added, Tells, Counted, Passed
    <3>14. Outcomes'
      BY <3>10, <3>12, ZenonT(60) DEF Added, Tells, Outcomes
    <3> QED
      BY <3>11, <3>13, <3>14, Zenon DEF Tells
  <2>2. CASE conn' = [conn EXCEPT ![c].at = "gone"] /\ rec' = rec
    <3>1. Moves(c, "gone") /\ "gone" \in Away /\ conn[c].at \in Away
      BY <1>m, <2>0, <2>2, Zenon DEF Places, Away
    <3> QED
      BY <1>a, <2>0, <2>2, <3>1, Zenon
  <2>3. CASE conn' = [conn EXCEPT ![c].at = "dial"] /\ rec' = rec
    <3>1. Moves(c, "dial") /\ "dial" \in Away /\ conn[c].at \in Away
      BY <1>m, <2>0, <2>3, Zenon DEF Places, Away
    <3> QED
      BY <1>a, <2>0, <2>3, <3>1, Zenon
  <2> QED
    BY <1>10, <2>1, <2>2, <2>3, Zenon DEF Request
<1>11. ASSUME NEW c \in Conns, BeginSession(c) PROVE Tells' /\ Marked
  <2>0. conn[c].at = "accepting" /\ ran' = ran /\ attempt' = attempt /\ xfer' = xfer
    BY <1>11, Zenon DEF BeginSession
  <2>1. CASE conn' = [conn EXCEPT ![c].at = "gone"] /\ rec' = rec
    <3>1. Moves(c, "gone") /\ "gone" \in Away /\ conn[c].at \in Away
      BY <1>m, <2>0, <2>1, Zenon DEF Places, Away
    <3> QED
      BY <1>a, <2>0, <2>1, <3>1, Zenon
  <2>2. CASE conn' = [conn EXCEPT ![c].at = "session"] /\ rec' \in emit(rec, Ev("session_start", c))
    <3>1. Moves(c, "session")
      BY <1>m, <2>2, Zenon DEF Places
    <3>2. Seen(c) = "none"
      BY <2>0, Zenon DEF Seen
    <3>3. \A d \in Conns : Done(d)' = Done(d) /\ Seen(d)' = IF d = c THEN "open" ELSE Seen(d)
      BY <2>0, <3>1, Zenon DEF Moves, Seen, Done
    <3>4. Advances("session_start", c)
      BY <1>h, <2>0, <3>2, <3>3, DonesSame, Zenon DEF Advances, Passed
    <3>5. About("session_start", c)
      BY Zenon DEF About, Installs
    <3> QED
      BY <2>2, <3>4, <3>5, TellsWritten, Zenon
  <2> QED
    BY <1>11, <2>1, <2>2, Zenon DEF BeginSession
<1>12. ASSUME NEW c \in Conns, BeginCommand(c) PROVE Tells' /\ Marked
  <2>1. PICK k \in Kinds(c) :
          /\ conn' = [conn EXCEPT ![c].at = IF k[1] = "back" THEN "ending" ELSE "running", ![c].cmd = k]
          /\ attempt' = IF k[1] \in {"start", "back"}
                          THEN [attempt EXCEPT ![k[2]] = [addr |-> conn[c].addr, st |-> k[1]]] ELSE attempt
    BY <1>12, Zenon DEF BeginCommand
  <2>2. /\ conn[c].at = "session" /\ ran' = [ran EXCEPT !.commands[c] = @ + 1]
        /\ rec' \in emit(rec, Ev("command_start", c)) /\ xfer' = xfer
    BY <1>12, Zenon DEF BeginCommand
  <2> DEFINE at == IF k[1] = "back" THEN "ending" ELSE "running"
  <2>3. Moves(c, at)
    BY <1>c, <2>1, Zenon DEF Moves, ConnType
  <2>4. /\ ran'.bootp = ran.bootp /\ ran'.exits = ran.exits
        /\ ran'.commands = [ran.commands EXCEPT ![c] = @ + 1] /\ ran.commands \in [Conns -> Nat]
    BY <2>2, Zenon DEF RanInv
  <2>5. \A d \in Conns : Done(d)' = Done(d) /\ Seen(d)' = Seen(d)
    BY <2>2, <2>3, <2>4 DEF Moves, Seen, Done
  <2>6. \A a \in Attempts : Happened(a)' = Happened(a)
    <3>1. CASE k[1] \in {"start", "back"}
      <4>1. k[2] \in Attempts /\ attempt[k[2]].st = "none"
        BY <3>1 DEF Kinds
      <4>2. attempt \in [Attempts -> [addr : Addresses \cup {""}, st : States]]
        BY Zenon DEF OrderInv
      <4>3. \A a \in Attempts : attempt'[a].st = IF a = k[2] THEN k[1] ELSE attempt[a].st
        BY <2>1, <3>1, <4>1, <4>2, Zenon
      <4>4. Outcome(k[1]) = "none" /\ Outcome("none") = "none"
        BY <3>1, OutcomeIs, Zenon DEF States
      <4>5. \A a \in Attempts : Happened(a)' = Outcome(attempt'[a].st) /\ Happened(a) = Outcome(attempt[a].st)
        BY Zenon DEF Happened, Outcome
      <4> QED
        BY <4>1, <4>3, <4>4, <4>5
    <3>2. CASE k[1] \notin {"start", "back"}
      BY <1>h, <2>1, <3>2, Zenon
    <3> QED
      BY <3>1, <3>2, Zenon
  <2>7. Advances("command_start", c)
    BY <2>2, <2>4, <2>5, <2>6, DonesSame, Zenon DEF Advances, Passed
  <2>8. About("command_start", c)
    BY Zenon DEF About, Installs
  <2> QED
    BY <2>2, <2>7, <2>8, TellsWritten, Zenon
<1>i. ASSUME NEW a \in Attempts, attempt[a].st \in {"start", "back"}, InstallStarted(a), xfer' = xfer,
             ran'.bootp = ran.bootp, ran'.exits = ran.exits,
             \A c \in Conns : Seen(c)' = Seen(c) /\ Done(c)' = Done(c)
      PROVE  Tells' /\ Marked
  <2>1. attempt' = [attempt EXCEPT ![a].st = "live"] /\ rec' \in emit(rec, Ev("install_start", a))
    BY <1>i, Zenon DEF InstallStarted
  <2>2. attempt \in [Attempts -> [addr : Addresses \cup {""}, st : States]]
    BY Zenon DEF OrderInv
  <2>3. \A b \in Attempts : attempt'[b].st = IF b = a THEN "live" ELSE attempt[b].st
    BY <2>1, <2>2, Zenon
  <2>4. \A b \in Attempts : Happened(b)' = Outcome(attempt'[b].st) /\ Happened(b) = Outcome(attempt[b].st)
    BY Zenon DEF Happened, Outcome
  <2>5. Happened(a) = "none" /\ Outcome("live") = "incomplete"
    BY <1>i, <2>4, OutcomeIs, Zenon DEF States
  <2>6. Advances("install_start", a)
    BY <1>i, <2>3, <2>4, <2>5, DonesSame, Zenon DEF Advances, Passed
  <2>7. About("install_start", a)
    BY Zenon DEF About, Installs
  <2> QED
    BY <2>1, <2>6, <2>7, TellsWritten, Zenon
<1>r. ASSUME NEW a \in Attempts, attempt[a].st \in {"live", "returned"}, InstallReturned(a), xfer' = xfer,
             ran' = ran, \A c \in Conns : Seen(c)' = Seen(c) /\ Done(c)' = Done(c)
      PROVE  Tells' /\ Marked
  <2>1. CASE attempt[a].st = "returned"
    <3>1. attempt' = attempt /\ rec' = rec
      BY <1>r, <2>1, Zenon DEF InstallReturned
    <3>2. Advances("", "")
      BY <1>h, <1>r, <3>1, DonesSame, Zenon DEF Advances, Passed
    <3> QED
      BY <3>1, <3>2, TellsSame, Zenon
  <2>2. CASE attempt[a].st = "live"
    <3>1. attempt' = [attempt EXCEPT ![a].st = "returned"] /\ rec' \in emit(rec, Ev("install_returned", a))
      BY <1>r, <2>2, Zenon DEF InstallReturned
    <3>2. attempt \in [Attempts -> [addr : Addresses \cup {""}, st : States]]
      BY Zenon DEF OrderInv
    <3>3. \A b \in Attempts : attempt'[b].st = IF b = a THEN "returned" ELSE attempt[b].st
      BY <3>1, <3>2, Zenon
    <3>4. \A b \in Attempts : Happened(b)' = Outcome(attempt'[b].st) /\ Happened(b) = Outcome(attempt[b].st)
      BY Zenon DEF Happened, Outcome
    <3>5. Happened(a) = "incomplete" /\ Outcome("returned") = "returned"
      BY <2>2, <3>4, OutcomeIs, Zenon DEF States
    <3>6. Advances("install_returned", a)
      BY <1>r, <3>3, <3>4, <3>5, DonesSame, Zenon DEF Advances, Passed
    <3>7. About("install_returned", a)
      BY Zenon DEF About, Installs
    <3> QED
      BY <3>1, <3>6, <3>7, TellsWritten, Zenon
  <2> QED
    BY <1>r, <2>1, <2>2, Zenon
<1>13. ASSUME NEW c \in Conns, CommandDone(c) PROVE Tells' /\ Marked
  <2>1. conn[c].at = "running" /\ conn' = [conn EXCEPT ![c].at = "ending"] /\ ran' = ran /\ xfer' = xfer
    BY <1>13, Zenon DEF CommandDone
  <2>2. Moves(c, "ending")
    BY <1>m, <2>1, Zenon DEF Places
  <2>3. \A d \in Conns : Seen(d)' = Seen(d) /\ Done(d)' = Done(d)
    BY <2>1, <2>2, Zenon DEF Moves, Seen, Done
  <2>4. CommandOK(c)
    BY Zenon DEF OrderInv
  <2>5. CASE attempt' = attempt /\ rec' = rec
    <3>1. Advances("", "")
      BY <1>h, <2>1, <2>3, <2>5, DonesSame, Zenon DEF Advances, Passed
    <3> QED
      BY <2>5, <3>1, TellsSame, Zenon
  <2>6. CASE conn[c].cmd[1] = "start" /\ InstallStarted(conn[c].cmd[2])
    <3>1. conn[c].cmd[2] \in Attempts /\ attempt[conn[c].cmd[2]].st = "start"
      BY <2>1, <2>4, <2>6, Zenon DEF CommandOK
    <3> QED
      BY <1>i, <2>1, <2>3, <2>6, <3>1, Zenon
  <2>7. CASE conn[c].cmd[1] = "return" /\ InstallReturned(conn[c].cmd[2])
    <3>1. conn[c].cmd[2] \in Attempts /\ attempt[conn[c].cmd[2]].st \in {"live", "returned"}
      BY <2>1, <2>4, <2>7, Zenon DEF CommandOK
    <3> QED
      BY <1>r, <2>1, <2>3, <2>7, <3>1, Zenon
  <2> QED
    BY <1>13, <2>5, <2>6, <2>7, Zenon DEF CommandDone
<1>14. ASSUME NEW a \in Attempts, BackgroundDone(a) PROVE Tells' /\ Marked
  <2>1. /\ attempt[a].st = "back" /\ InstallStarted(a) /\ ran' = [ran EXCEPT !.background = @ \cup {a}]
        /\ xfer' = xfer /\ conn' = conn
    BY <1>14, Zenon DEF BackgroundDone
  <2>2. ran'.bootp = ran.bootp /\ ran'.exits = ran.exits /\ ran'.commands = ran.commands
    BY <2>1, Zenon DEF RanInv
  <2>3. \A c \in Conns : Seen(c)' = Seen(c) /\ Done(c)' = Done(c)
    BY <2>1, <2>2 DEF Seen, Done
  <2> QED
    BY <1>i, <2>1, <2>2, <2>3, Zenon
<1>15. ASSUME NEW c \in Conns, EndCommand(c) PROVE Tells' /\ Marked
  <2>1. /\ conn[c].at = "ending" /\ conn' = [conn EXCEPT ![c].at = "session"] /\ ran' = ran /\ xfer' = xfer
        /\ rec' \in emit(rec, Ev("command_end", c)) /\ attempt' = attempt
    BY <1>15, Zenon DEF EndCommand
  <2>2. Moves(c, "session")
    BY <1>m, <2>1, Zenon DEF Places
  <2>3. \A d \in Conns : ran.commands[d] \in Nat
    BY Zenon DEF RanInv
  <2>4. \A d \in Conns : Seen(d)' = Seen(d) /\ Done(d)' = IF d = c THEN Done(d) + 1 ELSE Done(d)
    BY <2>1, <2>2, <2>3 DEF Moves, Seen, Done
  <2>5. Dones \in [Conns -> Nat] /\ Dones' \in [Conns -> Nat]
    <3>1. Dones \in [Conns -> Nat]
      BY DonesType, Zenon
    <3>2. ASSUME NEW d \in Conns PROVE Done(d)' \in Nat
      BY <2>4, <3>1 DEF Dones
    <3> QED
      BY <3>1, <3>2, Zenon DEF Dones
  <2>6. \A d \in Conns : Dones'[d] = IF d = c THEN Dones[d] + 1 ELSE Dones[d]
    BY <2>4, Zenon DEF Dones
  <2>7. Total(Dones') = Total(Dones) + 1
    <3> DEFINE f == Dones
               g == Dones'
    <3>1. f \in [Conns -> Nat] /\ g \in [Conns -> Nat] /\ \A d \in Conns : g[d] = IF d = c THEN f[d] + 1 ELSE f[d]
      BY <2>5, <2>6, Zenon
    <3> HIDE DEF f, g
    <3>2. Total(g) = Total(f) + 1
      BY <3>1, TotalInc, Zenon
    <3> QED
      BY <3>2, Zenon DEF f, g
  <2>8. Advances("command_end", c)
    BY <1>h, <2>1, <2>4, <2>7, Zenon DEF Advances, Passed
  <2>9. About("command_end", c)
    BY Zenon DEF About, Installs
  <2> QED
    BY <2>1, <2>8, <2>9, TellsWritten, Zenon
<1>16. ASSUME NEW c \in Conns, EndSession(c) PROVE Tells' /\ Marked
  <2>1. /\ conn[c].at = "session" /\ conn' = [conn EXCEPT ![c].at = "over"] /\ ran' = ran /\ xfer' = xfer
        /\ rec' \in emit(rec, Ev("session_end", c)) /\ attempt' = attempt
    BY <1>16, Zenon DEF EndSession
  <2>2. Moves(c, "over")
    BY <1>m, <2>1, Zenon DEF Places
  <2>3. \A d \in Conns : Done(d)' = Done(d) /\ Seen(d)' = IF d = c THEN "ended" ELSE Seen(d)
    BY <2>1, <2>2, Zenon DEF Moves, Seen, Done
  <2>4. Advances("session_end", c)
    BY <1>h, <2>1, <2>3, DonesSame, Zenon DEF Advances, Passed
  <2>5. About("session_end", c)
    BY Zenon DEF About, Installs
  <2> QED
    BY <2>1, <2>4, <2>5, TellsWritten, Zenon
<1> QED
  BY <1>1, <1>2, <1>3, <1>4, <1>5, <1>6, <1>7, <1>8, <1>9, <1>10, <1>11, <1>12, <1>13, <1>14, <1>15, <1>16, Zenon
     DEF Serving

-----------------------------------------------------------------------------
(* The run as a whole.                                                      *)

FileInv ==
  /\ rec.file \in {"none", "open", "closed"}
  /\ srv.started => rec.file # "none"
  /\ rec.file = "closed" => main \in {"summary", "closeTree", "closed", "failed"}
  /\ main = "closeRec" => rec.file # "none"
  /\ main = "summary" => rec.file = "closed"

\* Once the file is closed, an attempt left in the background is not counted any more.
CountInv ==
  (rec.file # "none" /\ ~rec.err /\ (rec.file = "open" \/ srv.drained)) =>
    /\ Fine(rec.log) /\ Counted
    /\ \A a \in Attempts : (rec.file = "open" \/ a \notin ran.background) => rec.log.sum.installs[a] = Happened(a)

\* The first line, and the line that ends the run.
MarkInv ==
  (rec.file # "none" /\ ~rec.err /\ srv.started) =>
    /\ rec.log.first = "server_start"
    /\ main \in {"closeRec", "summary", "closeTree", "closed"} =>
         rec.log.stop = IF srv.drained THEN "clean" ELSE "incomplete"

\* A result without an error means that no step has failed.
ResultInv ==
  /\ (main = "summary" /\ srv.ok) => ~rec.err
  /\ (main \in {"closeTree", "closed"} /\ srv.started /\ srv.ok) =>
       ~rec.err /\ rec.file = "closed" /\ summary.ok /\ summary.sum = rec.log.sum
  /\ (main = "closed" /\ srv.ok) => srv.drained

FullInv == StartInv /\ OrderInv /\ CalmInv /\ RanInv /\ FileInv /\ CountInv /\ MarkInv /\ ResultInv

\* What happened so far is nothing, at first.
LEMMA FullInit == Init => FullInv
<1> SUFFICES ASSUME Init PROVE FullInv
  BY Zenon
<1>1. StartInv /\ OrderInv /\ CalmInv
  BY StartInit, OrderInit, CalmInit, Zenon
<1>2. RanInv
  <2>1. \A c \in Conns : conn[c].at = "none"
    BY Zenon DEF Init
  <2>2. ran = [commands |-> [c \in Conns |-> 0], bootp |-> 0, exits |-> 0, background |-> {}]
    BY Zenon DEF Init
  <2> QED
    BY <2>1, <2>2, Zenon DEF RanInv
<1>3. rec.file = "none" /\ main = "tree" /\ ~srv.started
  BY Zenon DEF Init
<1> QED
  BY <1>1, <1>2, <1>3, Zenon DEF FullInv, FileInv, CountInv, MarkInv, ResultInv

\* No step of a service changes the state of the file, or writes to it when it is closed.
Recording(r, q) == IsRec(q) /\ q.file = r.file /\ (r.err => q.err) /\ (r.file # "open" => q = r)

LEMMA EmitRecords ==
  ASSUME NEW r, IsRec(r), NEW e, NEW q \in emit(r, e)
  PROVE  Recording(r, q)
  BY Zenon DEF emit, IsRec, Recording

LEMMA ServingRecords == StartInv /\ Serving => Recording(rec, rec')
<1> SUFFICES ASSUME StartInv, Serving PROVE Recording(rec, rec')
  BY Zenon
<1>0. IsRec(rec)
  BY Zenon DEF StartInv
<1>e. ASSUME NEW e, rec' \in emit(rec, e) PROVE Recording(rec, rec')
  BY <1>0, <1>e, EmitRecords, Zenon
<1>u. ASSUME rec' = rec PROVE Recording(rec, rec')
  BY <1>0, <1>u, Zenon DEF Recording
<1>1. ASSUME NEW s \in Services, ServeReturns(s) \/ runListener(s) PROVE Recording(rec, rec')
  BY <1>1, <1>e, <1>u, Zenon DEF ServeReturns, runListener
<1>2. CASE BootpRequest \/ BootpReply
  BY <1>2, <1>e, <1>u, Zenon DEF BootpRequest, BootpReply
<1>3. CASE TransferStart \/ TransferEnd
  BY <1>3, <1>e, <1>u, Zenon DEF TransferStart, TransferEnd
<1>4. ASSUME NEW c \in Conns, Accept(c) \/ Track(c) \/ DialStderr(c) PROVE Recording(rec, rec')
  BY <1>4, <1>u, Zenon DEF Accept, Track, DialStderr
<1>5. ASSUME NEW c \in Conns, Request(c) PROVE Recording(rec, rec')
  <2>1. CASE rec' \in RSHRejected(rec, c)
    <3>1. PICK q \in emit(rec, Ev("session_start", c)) : rec' \in emit(q, Ev("session_end", c))
      BY <2>1, Zenon DEF RSHRejected
    <3>2. Recording(rec, q)
      BY <1>0, <3>1, EmitRecords, Zenon
    <3>3. Recording(q, rec')
      BY <3>1, <3>2, EmitRecords, Zenon DEF Recording
    <3> QED
      BY <3>2, <3>3, Zenon DEF Recording
  <2> QED
    BY <1>5, <1>u, <2>1, Zenon DEF Request
<1>6. ASSUME NEW c \in Conns, BeginSession(c) \/ BeginCommand(c) \/ EndCommand(c) \/ EndSession(c)
      PROVE  Recording(rec, rec')
  BY <1>6, <1>e, <1>u, Zenon DEF BeginSession, BeginCommand, EndCommand, EndSession
<1>7. ASSUME NEW c \in Conns, CommandDone(c) PROVE Recording(rec, rec')
  BY <1>7, <1>e, <1>u, Zenon DEF CommandDone, InstallStarted, InstallReturned
<1>8. ASSUME NEW a \in Attempts, BackgroundDone(a) PROVE Recording(rec, rec')
  BY <1>8, <1>e, Zenon DEF BackgroundDone, InstallStarted
<1> QED
  BY <1>1, <1>2, <1>3, <1>4, <1>5, <1>6, <1>7, <1>8, Zenon DEF Serving

\* The record of what ran.
LEMMA RanServing == StartInv /\ OrderInv /\ RanInv /\ Serving => RanInv'
<1> SUFFICES ASSUME StartInv, OrderInv, RanInv, Serving PROVE RanInv'
  BY Zenon
<1>c. conn \in [Conns -> ConnType] /\ ~Untouched
  BY ServingTouches, Zenon DEF StartInv, IsConns
<1>1. main' = main /\ main \notin {"tree", "capture"}
  <2>1. main' = main
    BY Zenon DEF Serving, ServeReturns, runListener, BootpRequest, BootpReply, TransferStart, TransferEnd, Accept,
           Track, Request, DialStderr, BeginSession, BeginCommand, CommandDone, EndCommand, EndSession,
           BackgroundDone
  <2> QED
    BY <1>c, <2>1, Zenon DEF StartInv, Prior
<1>2. ASSUME ran'.commands = ran.commands,
             ran' = [commands |-> ran'.commands, bootp |-> ran'.bootp, exits |-> ran'.exits,
                     background |-> ran'.background],
             \A c \in Conns : conn'[c].at \in {"running", "ending"} => conn[c].at \in {"running", "ending"}
      PROVE  RanInv'
  BY <1>1, <1>2, Zenon DEF RanInv
<1>3. ASSUME conn' = conn PROVE RanInv'
  <2>1. /\ ran'.commands = ran.commands
        /\ ran' = [commands |-> ran'.commands, bootp |-> ran'.bootp, exits |-> ran'.exits,
                   background |-> ran'.background]
    <3>1. \/ ran' = ran \/ ran' = [ran EXCEPT !.exits = @ + 1] \/ ran' = [ran EXCEPT !.bootp = @ + 1]
          \/ \E a \in Attempts : ran' = [ran EXCEPT !.background = @ \cup {a}]
          \/ \E c \in Conns : BeginCommand(c)
      BY Zenon DEF Serving, ServeReturns, runListener, BootpRequest, BootpReply, TransferStart, TransferEnd, Accept,
             Track, Request, DialStderr, BeginSession, CommandDone, EndCommand, EndSession,
             BackgroundDone
    <3>2. ~\E c \in Conns : BeginCommand(c)
      <4> SUFFICES ASSUME NEW c \in Conns, BeginCommand(c) PROVE FALSE
        BY Zenon
      <4>1. PICK k : conn' = [conn EXCEPT ![c].at = IF k[1] = "back" THEN "ending" ELSE "running", ![c].cmd = k]
        BY Zenon DEF BeginCommand
      <4> DEFINE at == IF k[1] = "back" THEN "ending" ELSE "running"
      <4>3. conn'[c].at = at
        BY <1>c, <4>1, Zenon DEF ConnType
      <4>2. conn[c].at = "session" /\ conn'[c].at \in {"ending", "running"}
        BY <4>3, Zenon DEF BeginCommand
      <4> QED
        BY <1>3, <4>2, Zenon
    <3> QED
      BY <3>1, <3>2, Zenon DEF RanInv
  <2> QED
    BY <1>2, <1>3, <2>1, Zenon
<1>4. ASSUME NEW c \in Conns, NEW at \in Places, Moves(c, at), ran' = ran,
             at \in {"running", "ending"} => conn[c].at \in {"running", "ending"}
      PROVE  RanInv'
  <2>1. \A d \in Conns : conn'[d].at \in {"running", "ending"} => conn[d].at \in {"running", "ending"}
    BY <1>4, Zenon DEF Moves
  <2> QED
    BY <1>2, <1>4, <2>1, Zenon DEF RanInv
<1>5. ASSUME NEW c \in Conns, Accept(c) PROVE RanInv'
  <2>1. PICK a : conn' = [conn EXCEPT ![c] = [conn[c] EXCEPT !.at = "accepted", !.open = TRUE, !.addr = a]]
    BY <1>5, Zenon DEF Accept
  <2>2. Moves(c, "accepted")
    BY <1>c, <2>1, Zenon DEF Moves, ConnType
  <2> QED
    BY <1>4, <1>5, <2>2, Zenon DEF Accept, Places
<1>6. ASSUME NEW c \in Conns, Track(c) PROVE RanInv'
  <2> DEFINE at == IF "rsh" \in shut THEN "gone" ELSE "request"
  <2>1. conn' = [conn EXCEPT ![c].at = at, ![c].open = "rsh" \notin shut] /\ at \in Places \ {"running", "ending"}
    BY <1>6, Zenon DEF Track, Places
  <2> HIDE DEF at
  <2>2. Moves(c, at)
    BY <1>c, <2>1, Zenon DEF Moves, ConnType
  <2> QED
    BY <1>4, <1>6, <2>1, <2>2, Zenon DEF Track
<1>7. ASSUME NEW c \in Conns,
             Request(c) \/ DialStderr(c) \/ BeginSession(c) \/ CommandDone(c) \/ EndCommand(c) \/ EndSession(c)
      PROVE  RanInv'
  <2>1. \E at \in Places : /\ conn' = [conn EXCEPT ![c].at = at]
                           /\ at \in {"running", "ending"} => conn[c].at \in {"running", "ending"}
    BY <1>7, Zenon DEF Request, DialStderr, BeginSession, CommandDone, EndCommand, EndSession, Places
  <2>2. ran' = ran
    BY <1>7, Zenon DEF Request, DialStderr, BeginSession, CommandDone, EndCommand, EndSession
  <2>3. PICK at \in Places : /\ conn' = [conn EXCEPT ![c].at = at]
                             /\ at \in {"running", "ending"} => conn[c].at \in {"running", "ending"}
    BY <2>1, Zenon
  <2>4. Moves(c, at)
    BY <1>c, <2>3, Zenon DEF Moves, ConnType
  <2> QED
    BY <1>4, <2>2, <2>3, <2>4, Zenon
<1>8. ASSUME NEW c \in Conns, BeginCommand(c) PROVE RanInv'
  <2>1. PICK k : conn' = [conn EXCEPT ![c].at = IF k[1] = "back" THEN "ending" ELSE "running", ![c].cmd = k]
    BY <1>8, Zenon DEF BeginCommand
  <2>2. \A d \in Conns : d # c => conn'[d].at = conn[d].at
    BY <1>c, <2>1, Zenon DEF ConnType
  <2>3. ran' = [ran EXCEPT !.commands[c] = @ + 1]
    BY <1>8, Zenon DEF BeginCommand
  <2>4. /\ ran' = [commands |-> ran'.commands, bootp |-> ran'.bootp, exits |-> ran'.exits,
                   background |-> ran'.background]
        /\ ran'.commands = [ran.commands EXCEPT ![c] = @ + 1] /\ ran.commands \in [Conns -> Nat]
    BY <2>3, Zenon DEF RanInv
  <2> QED
    BY <1>1, <2>2, <2>4 DEF RanInv
<1> QED
  BY <1>3, <1>5, <1>6, <1>7, <1>8, Zenon DEF Serving, ServeReturns, runListener, BootpRequest, BootpReply,
     TransferStart, TransferEnd, BackgroundDone

\* Once the file is closed and nobody is left, only a command in the background goes on.
LEMMA OnlyBackground ==
  ASSUME CalmInv, srv.drained, main \in Late3, Serving
  PROVE  \E a \in Attempts : BackgroundDone(a)
<1>1. /\ \A s \in Services : loop[s] \in {"none", "done"}
      /\ \A c \in Conns : Settled(c)
      /\ xfer # "active"
  BY Zenon DEF CalmInv, DrainInv, Late1, Late2
<1>2. \A s \in Services : ~ServeReturns(s) /\ ~runListener(s)
  BY <1>1, Zenon DEF ServeReturns, runListener
<1>3. ~BootpRequest /\ ~BootpReply /\ ~TransferStart /\ ~TransferEnd
  BY <1>1, Zenon DEF BootpRequest, BootpReply, TransferStart, TransferEnd, Services
<1>4. \A c \in Conns : ~Accept(c) /\ ~Track(c) /\ ~Request(c) /\ ~DialStderr(c) /\ ~BeginSession(c)
  BY <1>1, Zenon DEF Accept, Track, Request, DialStderr, BeginSession, Services, Settled
<1>5. \A c \in Conns : ~BeginCommand(c) /\ ~CommandDone(c) /\ ~EndCommand(c) /\ ~EndSession(c)
  BY <1>1, Zenon DEF BeginCommand, CommandDone, EndCommand, EndSession, Settled
<1> QED
  BY <1>2, <1>3, <1>4, <1>5, Zenon DEF Serving

\* A file that is open and has no error tells what happened.
LEMMA OpenTells ==
  ASSUME CountInv, rec.file = "open", ~rec.err
  PROVE  Tells
  BY Zenon DEF CountInv, Tells, Outcomes

RunInv == RanInv /\ FileInv /\ CountInv /\ MarkInv /\ ResultInv

\* A step of a service.
LEMMA FullServing == FullInv /\ Serving => RunInv'
<1> SUFFICES ASSUME FullInv, Serving PROVE RunInv'
  BY Zenon
<1>0. StartInv /\ OrderInv /\ CalmInv /\ RanInv /\ FileInv /\ CountInv /\ MarkInv /\ ResultInv
  BY Zenon DEF FullInv
<1>1. UNCHANGED <<main, plan, srv, sock, summary>>
  BY Zenon DEF Serving, ServeReturns, runListener, BootpRequest, BootpReply, TransferStart, TransferEnd, Accept,
         Track, Request, DialStderr, BeginSession, BeginCommand, CommandDone, EndCommand, EndSession,
         BackgroundDone
<1>2. RanInv'
  BY <1>0, RanServing, Zenon
<1>3. Recording(rec, rec')
  BY <1>0, ServingRecords, Zenon
<1>4. FileInv'
  BY <1>0, <1>1, <1>3, Zenon DEF FileInv, Recording
<1>5. CASE rec.file = "open"
  <2>1. ASSUME ~rec'.err PROVE Tells' /\ Marked /\ ~rec.err
    <3>1. ~rec.err
      BY <1>3, <2>1, Zenon DEF Recording
    <3> QED
      BY <1>0, <1>5, <2>1, <3>1, OpenTells, TellsServing, Zenon
  <2>2. CountInv'
    BY <2>1, Zenon DEF CountInv, Tells, Outcomes
  <2>3. MarkInv'
    BY <1>0, <1>1, <1>5, <2>1, Zenon DEF MarkInv, Marked
  <2>4. main \notin {"summary", "closeTree", "closed"}
    BY <1>0, <1>5, Zenon DEF StartInv, Ends
  <2>5. ResultInv'
    BY <1>1, <2>4, Zenon DEF ResultInv
  <2> QED
    BY <1>2, <1>4, <2>2, <2>3, <2>5, Zenon DEF RunInv
<1>6. CASE rec.file # "open"
  <2>1. rec' = rec
    BY <1>3, <1>6, Zenon DEF Recording
  <2>2. MarkInv' /\ ResultInv'
    BY <1>0, <1>1, <2>1, Zenon DEF MarkInv, ResultInv
  <2>3. CASE ~(rec.file # "none" /\ ~rec.err /\ srv.drained)
    <3>1. CountInv'
      BY <1>1, <1>6, <2>1, <2>3, Zenon DEF CountInv
    <3> QED
      BY <1>2, <1>4, <2>2, <3>1, Zenon DEF RunInv
  <2>4. CASE rec.file # "none" /\ ~rec.err /\ srv.drained
    <3>1. main \in Late3
      BY <1>0, <1>6, <2>4, Zenon DEF FileInv, Late3
    <3>2. PICK a \in Attempts : BackgroundDone(a)
      BY <1>0, <2>4, <3>1, OnlyBackground, Zenon
    <3>3. /\ attempt' = [attempt EXCEPT ![a].st = "live"] /\ ran' = [ran EXCEPT !.background = @ \cup {a}]
          /\ conn' = conn /\ xfer' = xfer
      BY <3>2, Zenon DEF BackgroundDone, InstallStarted
    <3>4. /\ ran'.bootp = ran.bootp /\ ran'.exits = ran.exits /\ ran'.commands = ran.commands
          /\ ran'.background = ran.background \cup {a}
      BY <1>0, <3>3, Zenon DEF RanInv
    <3>5. \A c \in Conns : Seen(c)' = Seen(c) /\ Done(c)' = Done(c)
      BY <3>3, <3>4 DEF Seen, Done
    <3>6. Counted'
      <4>1. Counted
        BY <1>0, <2>4, Zenon DEF CountInv
      <4>2. Total(Dones') = Total(Dones)
        BY <3>5, DonesSame, Zenon
      <4> QED
        BY <2>1, <3>3, <3>4, <3>5, <4>1, <4>2, Zenon DEF Counted, Passed
    <3>7. ASSUME NEW b \in Attempts, b \notin ran'.background PROVE rec'.log.sum.installs[b] = Happened(b)'
      <4>1. b # a /\ b \notin ran.background
        BY <3>4, <3>7, Zenon
      <4>2. Happened(b)' = Happened(b)
        BY <1>0, <3>3, <4>1, Zenon DEF Happened, OrderInv
      <4> QED
        BY <1>0, <2>1, <2>4, <4>1, <4>2, Zenon DEF CountInv
    <3>8. Fine(rec'.log)
      BY <1>0, <2>1, <2>4, Zenon DEF CountInv
    <3>9. CountInv'
      BY <1>6, <2>1, <3>6, <3>7, <3>8, Zenon DEF CountInv
    <3> QED
      BY <1>2, <1>4, <2>2, <3>9, Zenon DEF RunInv
  <2> QED
    BY <2>3, <2>4, Zenon
<1> QED
  BY <1>5, <1>6, Zenon

\* A step that leaves alone what is counted.
LEMMA CountSame ==
  ASSUME ran' = ran, attempt' = attempt, xfer' = xfer, \A c \in Conns : conn'[c].at = conn[c].at
  PROVE  /\ Advances("", "")
         /\ \A c \in Conns : Seen(c)' = Seen(c)
         /\ Total(Dones') = Total(Dones) /\ Passed' = Passed
         /\ \A a \in Attempts : Happened(a)' = Happened(a)
<1>1. \A c \in Conns : Seen(c)' = Seen(c) /\ Done(c)' = Done(c)
  BY Zenon DEF Seen, Done
<1>2. Total(Dones') = Total(Dones)
  BY <1>1, DonesSame, Zenon
<1>3. \A a \in Attempts : Happened(a)' = Happened(a)
  BY Zenon DEF Happened
<1>4. Passed' = Passed
  BY Zenon DEF Passed
<1> QED
  BY <1>1, <1>2, <1>3, <1>4, Zenon DEF Advances

LEMMA RunQuiet ==
  ASSUME RanInv, CountInv, MarkInv, rec' = rec, ran' = ran, attempt' = attempt, xfer' = xfer,
         \A c \in Conns : conn'[c].at = conn[c].at,
         srv'.drained => srv.drained
  PROVE  CountInv' /\ (main' \notin {"tree", "capture"} => RanInv')
<1>1. RanInv' \/ main' \in {"tree", "capture"}
  BY Zenon DEF RanInv
<1>2. CountInv'
  <2> SUFFICES ASSUME rec.file # "none" /\ ~rec.err /\ (rec.file = "open" \/ srv.drained)
               PROVE  Fine(rec'.log) /\ Counted' /\
                      \A a \in Attempts : (rec'.file = "open" \/ a \notin ran'.background) =>
                        rec'.log.sum.installs[a] = Happened(a)'
    BY Zenon DEF CountInv
  <2>1. /\ Fine(rec.log) /\ Counted
        /\ \A a \in Attempts : (rec.file = "open" \/ a \notin ran.background) => rec.log.sum.installs[a] = Happened(a)
    BY Zenon DEF CountInv
  <2>2. Counted'
    BY <2>1, CountSame, Zenon DEF Counted
  <2> QED
    BY <2>1, <2>2, CountSame, Zenon
<1> QED
  BY <1>1, <1>2, Zenon

\* A file in which nothing is written tells that nothing happened.
LEMMA EmptyTells ==
  ASSUME StartInv, RanInv, Untouched, main \in {"tree", "capture"}
  PROVE  Tells
<1>1. rec.log = EmptyLog
  BY Zenon DEF Untouched
<1>2. /\ EmptyLog.sum = NoSummary /\ EmptyLog.last = "whole" /\ EmptyLog.corrupt = FALSE
  BY Zenon DEF EmptyLog
<1>3. Fine(rec.log)
  BY <1>1, <1>2 DEF Fine, IsSum, NoSummary
<1>4. \A c \in Conns : Seen(c) = "none" /\ Done(c) = 0
  BY Zenon DEF Untouched, Seen, Done, RanInv
<1>5. Total(Dones) = 0
  <2> DEFINE f == Dones
  <2>1. f \in [Conns -> Nat]
    BY DonesType, Zenon
  <2>2. \A c \in Conns : f[c] = 0
    BY <1>4, Zenon DEF Dones
  <2> HIDE DEF f
  <2>3. Total(f) = 0
    BY <2>1, <2>2, TotalZero, Zenon
  <2> QED
    BY <2>3, Zenon DEF f
<1>6. Passed = 0 /\ ran.bootp = 0 /\ ran.exits = 0
  BY Zenon DEF Passed, Untouched, RanInv
<1>7. Counted
  BY <1>1, <1>2, <1>4, <1>5, <1>6 DEF Counted, NoSummary
<1>8. \A a \in Attempts : Happened(a) = "none"
  <2>1. Outcome("none") = "none"
    BY OutcomeIs, Zenon DEF States
  <2> QED
    BY <2>1, OutcomeIs, Zenon DEF Untouched
<1>9. Outcomes
  BY <1>1, <1>2, <1>8 DEF Outcomes, NoSummary
<1> QED
  BY <1>3, <1>7, <1>9, Zenon DEF Tells

\* The steps of Start.
LEMMA FullStarting == FullInv /\ Starting => RunInv'
<1> SUFFICES ASSUME FullInv, Starting PROVE RunInv'
  BY Zenon
<1>0. StartInv /\ RanInv /\ FileInv /\ CountInv /\ MarkInv /\ ResultInv
  BY Zenon DEF FullInv
<1>u. Untouched
  <2>1. main \in Prior
    BY Zenon DEF Starting, buildTree, NewRecorder, WriteRun, bind, Launch, Prior, Binding, Services
  <2> QED
    BY <1>0, <2>1, Zenon DEF StartInv
<1>s. ~srv.started
  BY <1>u, Zenon DEF Untouched
<1>1. CASE buildTree
  <2>1. rec.file = "none" /\ rec' = rec /\ ran' = ran /\ conn' = conn /\ main' \in {"capture", "failed"}
        /\ main = "tree" /\ srv'.started = srv.started
    BY <1>0, <1>1, Zenon DEF buildTree, StartInv
  <2> QED
    BY <1>0, <1>s, <2>1, Zenon DEF RunInv, RanInv, FileInv, CountInv, MarkInv, ResultInv
<1>2. CASE NewRecorder
  <2>0. /\ main = "capture" /\ rec.file = "none" /\ IsRec(rec)
        /\ ran' = ran /\ conn' = conn /\ xfer' = xfer /\ attempt' = attempt /\ srv'.started = srv.started
    BY <1>0, <1>2, Zenon DEF NewRecorder, StartInv
  <2>1. After("run") \in Binding
    BY AfterBinds, Zenon
  <2>2. CASE rec' = rec
    <3>1. main' \in Binding \cup {"failed"}
      BY <1>2, <2>0, <2>1, <2>2, Zenon DEF NewRecorder, IsRec
    <3> QED
      BY <1>0, <1>s, <2>0, <2>2, <3>1, Zenon DEF RunInv, RanInv, FileInv, CountInv, MarkInv, ResultInv, Binding
  <2>3. CASE main' = "run" /\ rec' = [rec EXCEPT !.file = "open"]
    <3>1. Tells
      BY <1>0, <1>u, <2>0, EmptyTells, Zenon
    <3>2. rec'.file = "open" /\ rec'.log = rec.log
      BY <2>0, <2>3, Zenon DEF IsRec
    <3>3. Counted' /\ Fine(rec'.log) /\ \A a \in Attempts : rec'.log.sum.installs[a] = Happened(a)'
      BY <2>0, <3>1, <3>2, CountSame, Zenon DEF Tells, Counted, Outcomes
    <3>4. CountInv'
      BY <3>3, Zenon DEF CountInv
    <3> QED
      BY <1>0, <1>s, <2>0, <2>3, <3>2, <3>4, Zenon DEF RunInv, RanInv, FileInv, MarkInv, ResultInv
  <2> QED
    BY <1>2, <2>2, <2>3, Zenon DEF NewRecorder
<1>3. ASSUME WriteRun \/ \E s \in Services : bind(s) PROVE RunInv'
  <2>1. /\ rec' = rec /\ ran' = ran /\ conn' = conn /\ xfer' = xfer /\ attempt' = attempt
        /\ srv'.drained = srv.drained /\ srv'.started = srv.started
    BY <1>0, <1>3, Zenon DEF WriteRun, bind, StartInv
  <2>2. main' \in Binding \cup {"close"} /\ main \in {"run"} \cup Services
    BY <1>3, AfterBinds, Zenon DEF WriteRun, bind, Services
  <2>3. CountInv' /\ RanInv'
    BY <1>0, <2>1, <2>2, RunQuiet, Zenon DEF Binding
  <2> QED
    BY <1>0, <1>s, <2>1, <2>2, <2>3, Zenon DEF RunInv, FileInv, MarkInv, ResultInv, Binding, Services
<1>4. CASE Launch
  <2>1. /\ main = "announce" /\ main' = "serving" /\ rec' \in emit(rec, Ev("server_start", ""))
        /\ ran' = ran /\ conn' = conn /\ xfer' = xfer /\ attempt' = attempt
        /\ srv'.started = (rec.file # "none") /\ srv'.drained = srv.drained
    BY <1>0, <1>4, Zenon DEF Launch, StartInv
  <2>2. Recording(rec, rec')
    BY <1>0, <2>1, EmitRecords, Zenon DEF StartInv
  <2>3. RanInv'
    BY <1>0, <2>1, Zenon DEF RanInv
  <2>4. FileInv'
    BY <1>0, <2>1, <2>2, Zenon DEF FileInv, Recording
  <2>5. ResultInv'
    BY <2>1, Zenon DEF ResultInv
  <2>6. CASE rec.file = "open"
    <3>1. ASSUME ~rec'.err PROVE Tells' /\ rec'.log.first = "server_start"
      <4>1. Tells
        BY <1>0, <2>2, <2>6, <3>1, OpenTells, Zenon DEF Recording
      <4>2. About("server_start", "") /\ IsRec(rec) /\ Fine(rec.log)
        BY <1>0, <4>1, Zenon DEF About, Installs, StartInv, Tells
      <4>3. Written(rec, rec', "server_start", "")
        BY <2>1, <2>6, <3>1, <4>2, EmitWrites, Zenon
      <4>4. Advances("server_start", "")
        BY <2>1, CountSame, Zenon DEF Advances
      <4>5. rec.log.first = "none"
        <5>1. rec.log = EmptyLog
          BY <1>u, Zenon DEF Untouched
        <5> QED
          BY <5>1 DEF EmptyLog
      <4> QED
        BY <4>1, <4>3, <4>4, <4>5, TellsAdded, Zenon DEF Written
    <3>2. CountInv' /\ MarkInv'
      BY <2>1, <3>1, Zenon DEF CountInv, MarkInv, Tells, Outcomes
    <3> QED
      BY <2>3, <2>4, <2>5, <3>2, Zenon DEF RunInv
  <2>7. CASE rec.file = "none"
    <3>1. rec'.file = "none"
      BY <2>2, <2>7, Zenon DEF Recording
    <3>2. CountInv' /\ MarkInv'
      BY <3>1, Zenon DEF CountInv, MarkInv
    <3> QED
      BY <2>3, <2>4, <2>5, <3>2, Zenon DEF RunInv
  <2> QED
    BY <1>0, <2>1, <2>6, <2>7, Zenon DEF FileInv
<1> QED
  BY <1>1, <1>2, <1>3, <1>4, Zenon DEF Starting

\* CloseSockets and the steps of CloseWithReason.
LEMMA FullClosing == FullInv /\ (CloseSockets \/ Closing) => RunInv'
<1> SUFFICES ASSUME FullInv, CloseSockets \/ Closing PROVE RunInv'
  BY Zenon
<1>0. StartInv /\ RanInv /\ FileInv /\ CountInv /\ MarkInv /\ ResultInv
  BY Zenon DEF FullInv
<1>1. ASSUME CloseSockets \/ JoinLoops \/ ShutdownRsh \/ DrainRsh \/ ShutdownTftp \/ DrainTftp PROVE RunInv'
  <2>1. rec' = rec /\ ran' = ran /\ xfer' = xfer /\ attempt' = attempt
    BY <1>1, Zenon DEF CloseSockets, JoinLoops, ShutdownRsh, DrainRsh, ShutdownTftp, DrainTftp
  <2>2. \A c \in Conns : conn'[c].at = conn[c].at
    <3>1. CASE ShutdownRsh
      BY <1>0, <3>1, Zenon DEF ShutdownRsh, StartInv, IsConns, ConnType
    <3>2. CASE ~ShutdownRsh
      <4>1. conn' = conn
        BY <1>1, <3>2, Zenon DEF CloseSockets, JoinLoops, DrainRsh, ShutdownTftp, DrainTftp
      <4> QED
        BY <4>1, Zenon
    <3> QED
      BY <3>1, <3>2, Zenon
  <2>3. srv'.started = srv.started /\ (srv'.drained => srv.drained)
    BY <1>0, <1>1, Zenon DEF CloseSockets, JoinLoops, ShutdownRsh, DrainRsh, ShutdownTftp, DrainTftp, waitTimeout, StartInv
  <2>4. main' \in {"join", "shutRsh", "drainRsh", "shutTftp", "drainTftp", "finish"}
        /\ main \in {"serving", "close", "join", "shutRsh", "drainRsh", "shutTftp", "drainTftp"}
    BY <1>1, Zenon DEF CloseSockets, JoinLoops, ShutdownRsh, DrainRsh, ShutdownTftp, DrainTftp, waitTimeout
  <2>5. CountInv' /\ RanInv'
    BY <1>0, <2>1, <2>2, <2>3, <2>4, RunQuiet, Zenon
  <2> QED
    BY <1>0, <2>1, <2>3, <2>4, <2>5, Zenon DEF RunInv, FileInv, MarkInv, ResultInv
<1>2. CASE ServerStop
  <2>0. main = "finish" /\ UNCHANGED <<srv, conn, xfer, attempt, ran, summary>>
    BY <1>2, Zenon DEF ServerStop
  <2>1. CASE srv.started
    <3> DEFINE word == IF srv.drained THEN "clean" ELSE "incomplete"
    <3>1. main' = "closeRec" /\ rec' \in emit(rec, Ev("server_stop", word))
      BY <1>2, <2>1, Zenon DEF ServerStop
    <3>2. Recording(rec, rec') /\ rec.file = "open"
      BY <1>0, <2>0, <2>1, <3>1, EmitRecords, Zenon DEF StartInv, FileInv
    <3> HIDE DEF word
    <3>3. ASSUME ~rec'.err PROVE Tells' /\ rec'.log.first = "server_start" /\ rec'.log.stop = word
      <4>1. Tells /\ ~rec.err
        BY <1>0, <3>2, <3>3, OpenTells, Zenon DEF Recording
      <4>2. About("server_stop", word) /\ IsRec(rec) /\ Fine(rec.log)
        BY <1>0, <4>1, Zenon DEF About, Installs, StartInv, Tells
      <4>3. Written(rec, rec', "server_stop", word)
        BY <3>1, <3>2, <3>3, <4>2, EmitWrites, Zenon
      <4>4. Advances("server_stop", word)
        BY <2>0, CountSame, Zenon DEF Advances
      <4>5. rec.log.first = "server_start"
        BY <1>0, <2>1, <3>2, <4>1, Zenon DEF MarkInv
      <4> QED
        BY <4>1, <4>3, <4>4, <4>5, TellsAdded, Zenon DEF Written
    <3>4. CountInv' /\ MarkInv'
      BY <2>0, <3>1, <3>3, Zenon DEF CountInv, MarkInv, Tells, Outcomes, word
    <3>5. RanInv' /\ FileInv' /\ ResultInv'
      BY <1>0, <2>0, <3>1, <3>2, Zenon DEF RanInv, FileInv, ResultInv, Recording
    <3> QED
      BY <3>4, <3>5, Zenon DEF RunInv
  <2>2. CASE ~srv.started
    <3>1. main' = (IF rec.file = "none" THEN "closeTree" ELSE "closeRec") /\ rec' = rec
      BY <1>2, <2>2, Zenon DEF ServerStop
    <3>2. CountInv' /\ RanInv'
      BY <1>0, <2>0, <3>1, RunQuiet, Zenon
    <3> QED
      BY <1>0, <2>0, <2>2, <3>1, <3>2, Zenon DEF RunInv, FileInv, MarkInv, ResultInv
  <2> QED
    BY <2>1, <2>2, Zenon
<1>3. CASE CloseRecorder
  <2>1. /\ main = "closeRec" /\ rec' = [rec EXCEPT !.file = "closed"]
        /\ main' = IF srv.started THEN "summary" ELSE "closeTree"
        /\ UNCHANGED <<conn, xfer, attempt, ran, summary>>
    BY <1>3, Zenon DEF CloseRecorder
  <2>2. rec.file = "open" /\ rec'.file = "closed" /\ rec'.err = rec.err /\ rec'.log = rec.log
    BY <1>0, <2>1, Zenon DEF FileInv, StartInv, IsRec
  <2>3. PICK closed \in BOOLEAN : srv' = [srv EXCEPT !.ok = closed /\ ~rec.err]
    BY <1>3, Zenon DEF CloseRecorder
  <2>4. srv'.started = srv.started /\ srv'.drained = srv.drained /\ (srv'.ok => ~rec.err)
    BY <1>0, <2>3, Zenon DEF StartInv
  <2>5. RanInv'
    BY <1>0, <2>1, Zenon DEF RanInv
  <2>6. CountInv'
    <3> SUFFICES ASSUME ~rec.err
                 PROVE  Fine(rec'.log) /\ Counted' /\ \A a \in Attempts : rec'.log.sum.installs[a] = Happened(a)'
      BY <2>2, Zenon DEF CountInv
    <3>1. Tells
      BY <1>0, <2>2, OpenTells, Zenon
    <3> QED
      BY <2>1, <2>2, <3>1, CountSame, Zenon DEF Tells, Counted, Outcomes
  <2>7. FileInv'
    BY <2>1, <2>2, Zenon DEF FileInv
  <2>8. MarkInv'
    BY <1>0, <2>1, <2>2, <2>4, Zenon DEF MarkInv
  <2>9. ResultInv'
    BY <2>1, <2>2, <2>4, Zenon DEF ResultInv
  <2> QED
    BY <2>5, <2>6, <2>7, <2>8, <2>9, Zenon DEF RunInv
<1>4. CASE WriteSummary
  <2>1. /\ main = "summary" /\ main' = "closeTree"
        /\ UNCHANGED <<rec, conn, xfer, attempt, ran>>
    BY <1>4, Zenon DEF WriteSummary
  <2>2. PICK runWritten \in BOOLEAN, sumWritten \in BOOLEAN :
          LET s == Summarize(rec.log)
          IN  /\ summary' = IF s.ok /\ sumWritten THEN s ELSE summary
              /\ srv' = [srv EXCEPT !.ok = @ /\ runWritten /\ sumWritten /\ s.ok]
    BY <1>4, Zenon DEF WriteSummary
  <2> DEFINE s == Summarize(rec.log)
  <2>3. srv'.started = srv.started /\ srv'.drained = srv.drained /\ (srv'.ok => srv.ok /\ sumWritten /\ s.ok)
    BY <1>0, <2>2, Zenon DEF StartInv
  <2>4. s.ok => s.sum = rec.log.sum
    BY Zenon DEF Summarize
  <2>5. srv'.ok => summary'.ok /\ summary'.sum = rec.log.sum
    BY <2>2, <2>3, <2>4, Zenon
  <2> HIDE DEF s
  <2>6. CountInv' /\ RanInv'
    BY <1>0, <2>1, <2>3, RunQuiet, Zenon
  <2> QED
    BY <1>0, <2>1, <2>3, <2>5, <2>6, Zenon DEF RunInv, FileInv, MarkInv, ResultInv
<1>5. CASE CloseTree
  <2>1. /\ main = "closeTree" /\ main' = IF srv.failing THEN "failed" ELSE "closed"
        /\ UNCHANGED <<rec, conn, xfer, attempt, ran, summary>>
    BY <1>5, Zenon DEF CloseTree
  <2>2. PICK closed \in BOOLEAN : srv' = [srv EXCEPT !.tree = "closed", !.ok = @ /\ srv.drained /\ closed]
    BY <1>5, Zenon DEF CloseTree
  <2>3. srv'.started = srv.started /\ srv'.drained = srv.drained /\ (srv'.ok => srv.ok /\ srv.drained)
    BY <1>0, <2>2, Zenon DEF StartInv
  <2>4. CountInv' /\ RanInv'
    BY <1>0, <2>1, <2>3, RunQuiet, Zenon
  <2> QED
    BY <1>0, <2>1, <2>3, <2>4, Zenon DEF RunInv, FileInv, MarkInv, ResultInv
<1> QED
  BY <1>1, <1>2, <1>3, <1>4, <1>5, Zenon DEF Closing

\* Every step keeps the whole invariant.
LEMMA FullNext == FullInv /\ [Next]_vars => FullInv'
<1> SUFFICES ASSUME FullInv, [Next]_vars PROVE FullInv'
  BY Zenon
<1>0. StartInv /\ OrderInv /\ CalmInv /\ RanInv /\ FileInv /\ CountInv /\ MarkInv /\ ResultInv
  BY Zenon DEF FullInv
<1>1. StartInv' /\ OrderInv' /\ CalmInv'
  BY <1>0, StartNext, OrderNext, CalmNext, Zenon
<1>2. CASE UNCHANGED vars
  <2>1. CountInv' /\ RanInv'
    <3>1. /\ rec' = rec /\ ran' = ran /\ attempt' = attempt /\ xfer' = xfer /\ conn' = conn /\ srv' = srv
          /\ main' = main
      BY <1>2, Zenon DEF vars
    <3>2. CountInv'
      BY <1>0, <3>1, RunQuiet, Zenon
    <3> QED
      BY <1>0, <3>1, <3>2, Zenon DEF RanInv
  <2> QED
    BY <1>0, <1>1, <1>2, <2>1, Zenon DEF vars, FullInv, FileInv, MarkInv, ResultInv
<1>3. CASE Next
  <2>1. RunInv'
    BY <1>3, FullStarting, FullClosing, FullServing, Zenon DEF Next
  <2> QED
    BY <1>1, <2>1, Zenon DEF RunInv, FullInv
<1> QED
  BY <1>2, <1>3, Zenon

\* What CloseWithReason says of a run that it ended without an error.
LEMMA CleanIsWhole == FullInv => CleanRunIsWhole
<1> SUFFICES ASSUME FullInv, main = "closed", srv.ok, srv.started
             PROVE  /\ summary.ok /\ summary.sum = Truth
                    /\ \A c \in Conns : Truth.sessions[c] # "open"
                    /\ rec.log.first = "server_start" /\ rec.log.stop = "clean"
  BY Zenon DEF CleanRunIsWhole
<1>1. srv.drained /\ ~rec.err /\ rec.file = "closed" /\ summary.ok /\ summary.sum = rec.log.sum
  BY Zenon DEF FullInv, ResultInv
<1>2. rec.log.first = "server_start" /\ rec.log.stop = "clean"
  BY <1>1, Zenon DEF FullInv, MarkInv
<1>3. /\ Fine(rec.log) /\ Counted
      /\ \A a \in Attempts : a \notin ran.background => rec.log.sum.installs[a] = Happened(a)
  BY <1>1, Zenon DEF FullInv, CountInv
<1>4. \A c \in Conns : Settled(c)
  BY <1>1, Zenon DEF FullInv, CalmInv, DrainInv, Late2, Late3
<1>5. \A c \in Conns : Seen(c) # "open" /\ Done(c) = ran.commands[c]
  BY <1>4, Zenon DEF Settled, Seen, Done
<1>6. Dones = ran.commands
  BY <1>5, Zenon DEF Dones, FullInv, RanInv
<1> DEFINE s == summary.sum
<1>7. IsSum(s) /\ s = rec.log.sum
  BY <1>1, <1>3, Zenon DEF Fine
<1> HIDE DEF s
<1>8. s.sessions = [c \in Conns |-> Seen(c)]
  BY <1>3, <1>7, Zenon DEF IsSum, Counted
<1>9. s.installs = [a \in Attempts |-> IF a \in ran.background THEN s.installs[a] ELSE Happened(a)]
  <2>1. \A a \in Attempts : s.installs[a] = IF a \in ran.background THEN s.installs[a] ELSE Happened(a)
    BY <1>3, <1>7, Zenon
  <2>2. s.installs = [a \in Attempts |-> s.installs[a]]
    BY <1>7, Zenon DEF IsSum
  <2> QED
    BY <2>1, <2>2, Zenon
<1>10. s.commands = FoldFunction(+, 0, ran.commands)
  BY <1>3, <1>6, <1>7, Zenon DEF Counted, Total
<1>11. s.transfers = Passed /\ s.bootp = ran.bootp /\ s.exits = ran.exits
  BY <1>3, <1>7, Zenon DEF Counted
<1>12. s = [sessions |-> s.sessions, commands |-> s.commands, transfers |-> s.transfers,
            installs |-> s.installs, bootp |-> s.bootp, exits |-> s.exits]
  BY <1>7, Zenon DEF IsSum
<1>13. /\ Truth = [sessions |-> Truth.sessions, commands |-> Truth.commands, transfers |-> Truth.transfers,
                   installs |-> Truth.installs, bootp |-> Truth.bootp, exits |-> Truth.exits]
       /\ Truth.sessions = [c \in Conns |-> Seen(c)] /\ Truth.commands = FoldFunction(+, 0, ran.commands)
       /\ Truth.transfers = Passed /\ Truth.bootp = ran.bootp /\ Truth.exits = ran.exits
       /\ Truth.installs = [a \in Attempts |-> IF a \in ran.background THEN s.installs[a] ELSE Happened(a)]
  BY Zenon DEF Truth, Seen, Passed, s
<1>14. s = Truth
  BY <1>8, <1>9, <1>10, <1>11, <1>12, <1>13, Zenon
<1>15. \A c \in Conns : Truth.sessions[c] # "open"
  BY <1>5, <1>13, Zenon
<1> QED
  BY <1>1, <1>2, <1>14, <1>15, Zenon DEF s

\* An incomplete capture never looks clean: whatever fails, and however the services, the
\* commands and the closing interleave, a run that CloseWithReason ended without an error has
\* a summary that counts all that happened, each session ended, and events that begin with
\* server_start and say that the run ended cleanly.
THEOREM CleanRunsAreWhole == Spec => []CleanRunIsWhole
  BY CleanIsWhole, FullInit, FullNext, PTL DEF Spec
====
