----------------------------- MODULE ServiceRun ------------------------------
(***************************************************************************)
(* One run of "instigator serve": Start builds the tree, opens the capture,*)
(* binds the sockets and launches a serve loop per service; BOOTP answers  *)
(* inside its loop, TFTP transfers and rsh sessions have goroutines of     *)
(* their own, and sessions run commands, some of which fetch the command   *)
(* files that time an installation; CloseWithReason closes the sockets,    *)
(* waits for loops, sessions and transfers, each for a limited time, and   *)
(* finishes the capture.  Events reach the capture under its mutex, and    *)
(* the summary is computed from what was written.  Every step of Start may *)
(* fail, and so may a write of an event, after part of it or none.         *)
(***************************************************************************)
EXTENDS Integers, Sequences, FiniteSets, Functions

CONSTANTS
  Conns,        \* rsh connections; one session each
  Addresses,    \* client addresses
  MaxAttempts,  \* bound: fetches of the file that starts an installation
  Plans         \* the runs considered: the services that are configured, and as bounds
                \* the addresses that connect, the commands of a session, the writes to
                \* events.jsonl that fail, and the services whose socket breaks

Services == {"bootp", "tftp", "rsh"}
Attempts == 1..MaxAttempts

ASSUME RunAssumption ==
  /\ MaxAttempts \in Nat /\ IsFiniteSet(Conns)
  /\ Plans \subseteq [services : SUBSET Services, from : [Conns -> SUBSET Addresses], commands : [Conns -> Nat],
                     faults : Nat, breaks : SUBSET Services]

VARIABLES
  main,      \* where Start, and later CloseWithReason, is
  plan,      \* which run it is
  sock,      \* the sockets: "none", "open" or "closed"
  loop,      \* the serve loops
  srv,       \* the fields of Servers
  rec,       \* the recorder
  conn,      \* the handlers of the rsh connections
  shut,      \* the servers whose Shutdown was called
  xfer,      \* one TFTP transfer: "none", "active" or "done"
  attempt,   \* the install attempts: their address and state
  summary,   \* summary.json
  ran        \* what happened: the commands of each session, and the answers of BOOTP

vars == <<main, plan, sock, loop, srv, rec, conn, shut, xfer, attempt, summary, ran>>

-----------------------------------------------------------------------------
(* The recorder.                                                           *)

Ev(ev, id) == [ev |-> ev, id |-> id]

\* Summarize: what one line adds to the summary.  Of a session it keeps whether its
\* end was seen; lines that only carry a marker are no commands and are left out.
NoSummary == [sessions |-> [c \in Conns |-> "none"], commands |-> 0, transfers |-> 0,
              installs |-> [a \in Attempts |-> "none"], bootp |-> 0, exits |-> 0]

SumLine(sum, e) ==
  CASE e.ev = "install_start" ->
         IF sum.installs[e.id] # "none" THEN sum ELSE [sum EXCEPT !.installs[e.id] = "incomplete"]
    [] e.ev = "install_returned" ->
         IF sum.installs[e.id] = "none" THEN sum ELSE [sum EXCEPT !.installs[e.id] = "returned"]
    [] e.ev = "session_start" -> [sum EXCEPT !.sessions[e.id] = IF @ = "none" THEN "open" ELSE @]
    [] e.ev = "session_end" -> [sum EXCEPT !.sessions[e.id] = "ended"]
    [] e.ev = "command_end" -> [sum EXCEPT !.commands = @ + 1]
    [] e.ev = "transfer_end" -> [sum EXCEPT !.transfers = @ + 1]
    [] e.ev = "bootp_reply" -> [sum EXCEPT !.bootp = @ + 1]
    [] e.ev = "listener_exit" -> [sum EXCEPT !.exits = @ + 1]
    [] OTHER -> sum

\* events.jsonl, as Summarize would read it: the sum of its lines, its first line, how
\* the last one stands, whether one before that is malformed, and the lines about each
\* install attempt in their order.
EmptyLog == [sum |-> NoSummary, first |-> "none", last |-> "whole", corrupt |-> FALSE,
             stop |-> "none", about |-> [a \in Attempts |-> <<>>]]

\* A write ends the line that an earlier write left unfinished, or is a line.
Line(log, e) ==
  IF log.last = "torn" THEN [log EXCEPT !.last = "malformed"]
  ELSE [sum |-> SumLine(log.sum, e),
        first |-> IF log.first = "none" THEN e.ev ELSE log.first,
        last |-> "whole",
        corrupt |-> log.corrupt \/ log.last = "malformed",
        stop |-> IF e.ev = "server_stop" THEN e.id ELSE log.stop,
        about |-> IF e.ev \in {"install_start", "install_returned"}
                    THEN [log.about EXCEPT ![e.id] = Append(@, e.ev)] ELSE log.about]

PartOfLine(log) == [log EXCEPT !.first = IF @ = "none" THEN "torn" ELSE @,
                               !.last = "torn",
                               !.corrupt = @ \/ log.last = "malformed"]

\* emit: what may become of the recorder.  After Close the event is dropped.
emit(r, e) ==
  IF r.file # "open" THEN {r}
  ELSE {[r EXCEPT !.log = Line(@, e)]} \cup
       (IF r.faults = plan.faults THEN {}
        ELSE {[r EXCEPT !.err = TRUE, !.faults = @ + 1, !.log = l] : l \in {r.log, PartOfLine(r.log)}})

\* RSHRejected writes the start and the end of a session that never was.
RSHRejected(r, c) ==
  UNION {emit(q, Ev("session_end", c)) : q \in emit(r, Ev("session_start", c))}

\* A line that does not parse is accepted at the end of the file alone.
Summarize(log) ==
  IF log.corrupt THEN [ok |-> FALSE, sum |-> NoSummary] ELSE [ok |-> TRUE, sum |-> log.sum]

-----------------------------------------------------------------------------
(* Start.                                                                  *)

\* The step after a step; services that are not configured are skipped.
Steps == <<"tree", "capture", "run", "bootp", "tftp", "rsh", "announce">>
After(step) ==
  LET i == CHOOSE k \in DOMAIN Steps : Steps[k] = step
      later == {k \in (i + 1)..Len(Steps) : Steps[k] \in Services => Steps[k] \in plan.services}
  IN  Steps[CHOOSE k \in later : \A m \in later : k <= m]

\* buildTree releases what it opened when it fails.
buildTree ==
  /\ main = "tree"
  /\ \/ main' = "capture" /\ srv' = [srv EXCEPT !.tree = "open"]
     \/ main' = "failed" /\ UNCHANGED srv
  /\ UNCHANGED <<plan, sock, loop, rec, conn, shut, xfer, attempt, summary, ran>>

\* capture.New, if there is to be a capture.
NewRecorder ==
  /\ main = "capture"
  /\ \/ main' = After("run") /\ UNCHANGED <<srv, rec>>
     \/ main' = "run" /\ rec' = [rec EXCEPT !.file = "open"] /\ UNCHANGED srv
     \/ main' = "failed" /\ srv' = [srv EXCEPT !.tree = "closed"] /\ UNCHANGED rec
  /\ UNCHANGED <<plan, sock, loop, conn, shut, xfer, attempt, summary, ran>>

\* WriteRun: run.json with the provenance.
WriteRun ==
  /\ main = "run"
  /\ \/ main' = After("run") /\ UNCHANGED srv
     \/ main' = "close" /\ srv' = [srv EXCEPT !.failing = TRUE]
  /\ UNCHANGED <<plan, sock, loop, rec, conn, shut, xfer, attempt, summary, ran>>

\* Mutant: a bind that fails returns at once.
bindAndReturn(s) ==
  /\ main = s
  /\ \/ main' = After(s) /\ sock' = [sock EXCEPT ![s] = "open"] /\ UNCHANGED srv
     \/ main' = "failed" /\ UNCHANGED <<srv, sock>>
  /\ UNCHANGED <<plan, loop, rec, conn, shut, xfer, attempt, summary, ran>>

bind(s) ==
  /\ main = s
  /\ \/ main' = After(s) /\ sock' = [sock EXCEPT ![s] = "open"] /\ UNCHANGED srv
     \/ main' = "close" /\ srv' = [srv EXCEPT !.failing = TRUE] /\ UNCHANGED sock
  /\ UNCHANGED <<plan, loop, rec, conn, shut, xfer, attempt, summary, ran>>

\* server_start is written before the first loop runs.
Launch ==
  /\ main = "announce"
  /\ rec' \in emit(rec, Ev("server_start", ""))
  /\ srv' = [srv EXCEPT !.started = rec.file # "none"]
  /\ loop' = [s \in Services |-> IF s \in plan.services THEN "up" ELSE "none"]
  /\ main' = "serving"
  /\ UNCHANGED <<plan, sock, conn, shut, xfer, attempt, summary, ran>>

-----------------------------------------------------------------------------
(* The serve loops.                                                        *)

\* Serve returns: the socket was closed, or it broke.  runListener then looks at
\* closing, and reports an exit that nobody asked for.
ServeReturns(s) ==
  /\ loop[s] = "up"
  /\ sock[s] = "closed" \/ s \in plan.breaks
  /\ loop' = [loop EXCEPT ![s] = "returned"]
  /\ UNCHANGED <<main, plan, sock, srv, rec, conn, shut, xfer, attempt, summary, ran>>

runListener(s) ==
  /\ loop[s] = "returned"
  /\ loop' = [loop EXCEPT ![s] = "done"]
  /\ IF srv.closing THEN UNCHANGED <<rec, ran>>
     ELSE rec' \in emit(rec, Ev("listener_exit", s)) /\ ran' = [ran EXCEPT !.exits = @ + 1]
  /\ UNCHANGED <<main, plan, sock, srv, conn, shut, xfer, attempt, summary>>

\* BOOTP takes a request and, inside its loop, answers it, records that it ignored it,
\* or drops it.
BootpRequest ==
  /\ loop["bootp"] = "up" /\ ran.bootp = 0
  /\ loop' = [loop EXCEPT !["bootp"] = "busy"]
  /\ UNCHANGED <<main, plan, sock, srv, rec, conn, shut, xfer, attempt, summary, ran>>

BootpReply ==
  /\ loop["bootp"] = "busy"
  /\ loop' = [loop EXCEPT !["bootp"] = "up"]
  /\ \/ rec' \in emit(rec, Ev("bootp_reply", "")) /\ ran' = [ran EXCEPT !.bootp = @ + 1]
     \/ rec' \in emit(rec, Ev("bootp_ignored", "")) /\ UNCHANGED ran
     \/ UNCHANGED <<rec, ran>>
  /\ UNCHANGED <<main, plan, sock, srv, conn, shut, xfer, attempt, summary>>

\* TFTP (TftpTransfer has the details): a transfer starts, and ends with its record.
TransferStart ==
  /\ loop["tftp"] = "up" /\ "tftp" \notin shut /\ xfer = "none"
  /\ xfer' = "active"
  /\ UNCHANGED <<main, plan, sock, loop, srv, rec, conn, shut, attempt, summary, ran>>

TransferEnd ==
  /\ xfer = "active"
  /\ xfer' = "done"
  /\ rec' \in emit(rec, Ev("transfer_end", ""))
  /\ UNCHANGED <<main, plan, sock, loop, srv, conn, shut, attempt, summary, ran>>

-----------------------------------------------------------------------------
(* rsh: Serve, handle and the session.                                     *)

\* Accept returns a connection; the loop has not tracked it yet.
Accept(c) ==
  /\ loop["rsh"] = "up" /\ sock["rsh"] = "open"
  /\ conn[c].at = "none"
  /\ \E a \in plan.from[c] : conn' = [conn EXCEPT ![c] = [@ EXCEPT !.at = "accepted", !.open = TRUE, !.addr = a]]
  /\ loop' = [loop EXCEPT !["rsh"] = "busy"]
  /\ UNCHANGED <<main, plan, sock, srv, rec, shut, xfer, attempt, summary, ran>>

\* Under the mutex: refused after Shutdown, else tracked and handed to a goroutine.
Track(c) ==
  /\ conn[c].at = "accepted"
  /\ loop' = [loop EXCEPT !["rsh"] = "up"]
  /\ conn' = [conn EXCEPT ![c].at = IF "rsh" \in shut THEN "gone" ELSE "request",
                          ![c].open = "rsh" \notin shut]
  /\ UNCHANGED <<main, plan, sock, srv, rec, shut, xfer, attempt, summary, ran>>

\* handle: a client the filter or the port refuses is recorded; a request that ends
\* early, or that is not one, is not.  The stderr port comes first, and is dialled
\* before the rest of the request is read.
Request(c) ==
  /\ conn[c].at = "request"
  /\ \/ conn' = [conn EXCEPT ![c].at = "rejected"] /\ rec' \in RSHRejected(rec, c)
     \/ conn' = [conn EXCEPT ![c].at = "gone"] /\ UNCHANGED rec
     \/ conn' = [conn EXCEPT ![c].at = "dial"] /\ UNCHANGED rec
  /\ UNCHANGED <<main, plan, sock, loop, srv, shut, xfer, attempt, summary, ran>>

\* The dial back to the client takes its time, whatever becomes of the connection;
\* then the request is read to its end, and a byte is written to accept it.
DialStderr(c) ==
  /\ conn[c].at = "dial"
  /\ \E at \in {"gone"} \cup (IF conn[c].open THEN {"accepting"} ELSE {}) :
       conn' = [conn EXCEPT ![c].at = at]
  /\ UNCHANGED <<main, plan, sock, loop, srv, rec, shut, xfer, attempt, summary, ran>>

\* Handler: only a shell is served.
BeginSession(c) ==
  /\ conn[c].at = "accepting"
  /\ \/ conn' = [conn EXCEPT ![c].at = "gone"] /\ UNCHANGED rec
     \/ conn' = [conn EXCEPT ![c].at = "session"] /\ rec' \in emit(rec, Ev("session_start", c))
  /\ UNCHANGED <<main, plan, sock, loop, srv, shut, xfer, attempt, summary, ran>>

\* RunShell reads a line and runs it: a plain command, a fetch of the file that
\* starts an attempt, or of the file that ends attempt a, which must be live and
\* the same client's.  A fetch may be put in the background.  Lines that are buffered
\* are run after the connection is closed, too.
Kinds(c) ==
  {<<"plain", 0>>} \cup {<<"start", a>> : a \in {b \in Attempts : attempt[b].st = "none"}}
                   \cup {<<"back", a>> : a \in {b \in Attempts : attempt[b].st = "none"}}
                   \cup {<<"return", a>> : a \in {b \in Attempts :
                           attempt[b].st \in {"live", "returned"} /\ attempt[b].addr = conn[c].addr}}
BeginCommand(c) ==
  /\ conn[c].at = "session"
  /\ ran.commands[c] < plan.commands[c]
  /\ \E k \in Kinds(c) :
       /\ conn' = [conn EXCEPT ![c].at = IF k[1] = "back" THEN "ending" ELSE "running", ![c].cmd = k]
       /\ attempt' = IF k[1] \in {"start", "back"}
                       THEN [attempt EXCEPT ![k[2]] = [addr |-> conn[c].addr, st |-> k[1]]] ELSE attempt
  /\ ran' = [ran EXCEPT !.commands[c] = @ + 1]
  /\ rec' \in emit(rec, Ev("command_start", c))
  /\ UNCHANGED <<main, plan, sock, loop, srv, shut, xfer, summary>>

\* Transferred with all of the file starts the attempt.
InstallStarted(a) ==
  /\ attempt' = [attempt EXCEPT ![a].st = "live"]
  /\ rec' \in emit(rec, Ev("install_start", a))

\* Mutant: a return is recorded each time its file is read.
InstallReturnedAgain(a) ==
  /\ attempt' = [attempt EXCEPT ![a].st = "returned"]
  /\ rec' \in emit(rec, Ev("install_returned", a))

\* The first read of all of the return file ends it.
InstallReturned(a) ==
  IF attempt[a].st = "returned" THEN UNCHANGED <<attempt, rec>>
  ELSE /\ attempt' = [attempt EXCEPT ![a].st = "returned"]
       /\ rec' \in emit(rec, Ev("install_returned", a))

\* The command is done: the file was sent to its end, or not.
CommandDone(c) ==
  /\ conn[c].at = "running"
  /\ conn' = [conn EXCEPT ![c].at = "ending"]
  /\ \/ UNCHANGED <<attempt, rec>>
     \/ conn[c].cmd[1] = "start" /\ InstallStarted(conn[c].cmd[2])
     \/ conn[c].cmd[1] = "return" /\ InstallReturned(conn[c].cmd[2])
  /\ UNCHANGED <<main, plan, sock, loop, srv, shut, xfer, summary, ran>>

\* What runs in the background is not waited for, by the session or by Shutdown.
BackgroundDone(a) ==
  /\ attempt[a].st = "back"
  /\ InstallStarted(a)
  /\ ran' = [ran EXCEPT !.background = @ \cup {a}]
  /\ UNCHANGED <<main, plan, sock, loop, srv, conn, shut, xfer, summary>>

EndCommand(c) ==
  /\ conn[c].at = "ending"
  /\ conn' = [conn EXCEPT ![c].at = "session"]
  /\ rec' \in emit(rec, Ev("command_end", c))
  /\ UNCHANGED <<main, plan, sock, loop, srv, shut, xfer, attempt, summary, ran>>

\* The client is done, silent for too long, or cut off.
EndSession(c) ==
  /\ conn[c].at = "session"
  /\ conn' = [conn EXCEPT ![c].at = "over"]
  /\ rec' \in emit(rec, Ev("session_end", c))
  /\ UNCHANGED <<main, plan, sock, loop, srv, shut, xfer, attempt, summary, ran>>

-----------------------------------------------------------------------------
(* CloseWithReason.                                                        *)

\* The sockets are closed, when a signal asks for it or when Start failed.
CloseSockets ==
  /\ main \in {"serving", "close"}
  /\ main' = "join"
  /\ srv' = [srv EXCEPT !.closing = TRUE]
  /\ sock' = [s \in Services |-> IF sock[s] = "open" THEN "closed" ELSE sock[s]]
  /\ UNCHANGED <<plan, loop, rec, conn, shut, xfer, attempt, summary, ran>>

\* Mutant: the wait has no limit.
waitUnlimited(done, next) ==
  /\ main' = next
  /\ done /\ UNCHANGED srv

\* waitTimeout, and the end of the Shutdowns: everyone is done, or time is up; when
\* both are so, either is seen.
waitTimeout(done, next) ==
  /\ main' = next
  /\ \/ done /\ UNCHANGED srv
     \/ srv' = [srv EXCEPT !.drained = FALSE]

\* Mutant: the loops are not waited for.
JoinNoLoops ==
  /\ main = "join"
  /\ main' = "shutRsh"
  /\ UNCHANGED <<plan, sock, loop, srv, rec, conn, shut, xfer, attempt, summary, ran>>

\* The loops first: BOOTP answers inside its loop.
JoinLoops ==
  /\ main = "join"
  /\ waitTimeout(\A s \in Services : loop[s] \in {"none", "done"}, "shutRsh")
  /\ UNCHANGED <<plan, sock, loop, rec, conn, shut, xfer, attempt, summary, ran>>

\* Shutdown of the rsh server: no connection is taken any more, and those that are
\* tracked are closed.  A dial back is no connection of the server's.
Handled(c) == conn[c].at \notin {"none", "accepted", "gone", "rejected", "over"}

ShutdownRsh ==
  /\ main = "shutRsh"
  /\ main' = IF sock["rsh"] = "none" THEN "shutTftp" ELSE "drainRsh"
  /\ shut' = shut \cup {"rsh"}
  /\ conn' = [c \in Conns |-> [conn[c] EXCEPT !.open = @ /\ ~Handled(c)]]
  /\ UNCHANGED <<plan, sock, loop, srv, rec, xfer, attempt, summary, ran>>

DrainRsh ==
  /\ main = "drainRsh"
  /\ waitTimeout(\A c \in Conns : ~Handled(c), "shutTftp")
  /\ UNCHANGED <<plan, sock, loop, rec, conn, shut, xfer, attempt, summary, ran>>

\* Shutdown of the TFTP server ends the transfers by closing their sockets.
ShutdownTftp ==
  /\ main = "shutTftp"
  /\ main' = IF sock["tftp"] = "none" THEN "finish" ELSE "drainTftp"
  /\ shut' = shut \cup {"tftp"}
  /\ UNCHANGED <<plan, sock, loop, srv, rec, conn, xfer, attempt, summary, ran>>

DrainTftp ==
  /\ main = "drainTftp"
  /\ waitTimeout(xfer # "active", "finish")
  /\ UNCHANGED <<plan, sock, loop, rec, conn, shut, xfer, attempt, summary, ran>>

\* Finish begins with server_stop; a recorder whose run never started is closed.
ServerStop ==
  /\ main = "finish"
  /\ IF srv.started
       THEN /\ main' = "closeRec"
            /\ rec' \in emit(rec, Ev("server_stop", IF srv.drained THEN "clean" ELSE "incomplete"))
       ELSE /\ main' = IF rec.file = "none" THEN "closeTree" ELSE "closeRec"
            /\ UNCHANGED rec
  /\ UNCHANGED <<plan, sock, loop, srv, conn, shut, xfer, attempt, summary, ran>>

\* Recorder.Close hands up the error of a write before its own.
CloseRecorder ==
  /\ main = "closeRec"
  /\ rec' = [rec EXCEPT !.file = "closed"]
  /\ main' = IF srv.started THEN "summary" ELSE "closeTree"
  /\ \E closed \in BOOLEAN : srv' = [srv EXCEPT !.ok = closed /\ ~rec.err]
  /\ UNCHANGED <<plan, sock, loop, conn, shut, xfer, attempt, summary, ran>>

\* run.json is written again, then the summary; the first error is the result.
WriteSummary ==
  /\ main = "summary"
  /\ main' = "closeTree"
  /\ \E runWritten, sumWritten \in BOOLEAN :
       LET s == Summarize(rec.log)
       IN  /\ summary' = IF s.ok /\ sumWritten THEN s ELSE summary
           /\ srv' = [srv EXCEPT !.ok = @ /\ runWritten /\ sumWritten /\ s.ok]
  /\ UNCHANGED <<plan, sock, loop, rec, conn, shut, xfer, attempt, ran>>

\* The media last; the result is nil only if nothing went wrong on the way.
CloseTree ==
  /\ main = "closeTree"
  /\ main' = IF srv.failing THEN "failed" ELSE "closed"
  /\ \E closed \in BOOLEAN : srv' = [srv EXCEPT !.tree = "closed", !.ok = @ /\ srv.drained /\ closed]
  /\ UNCHANGED <<plan, sock, loop, rec, conn, shut, xfer, attempt, summary, ran>>

-----------------------------------------------------------------------------
Init ==
  /\ main = "tree"
  /\ plan \in Plans
  /\ sock = [s \in Services |-> "none"]
  /\ loop = [s \in Services |-> "none"]
  /\ srv = [tree |-> "none", closing |-> FALSE, started |-> FALSE, failing |-> FALSE,
            drained |-> TRUE, ok |-> TRUE]
  /\ rec = [file |-> "none", err |-> FALSE, faults |-> 0, log |-> EmptyLog]
  /\ conn = [c \in Conns |-> [at |-> "none", open |-> FALSE, addr |-> "", cmd |-> <<"plain", 0>>]]
  /\ shut = {}
  /\ xfer = "none"
  /\ attempt = [a \in Attempts |-> [addr |-> "", st |-> "none"]]
  /\ summary = [ok |-> FALSE, sum |-> NoSummary]
  /\ ran = [commands |-> [c \in Conns |-> 0], bootp |-> 0, exits |-> 0, background |-> {}]

Starting == buildTree \/ NewRecorder \/ WriteRun \/ Launch \/ \E s \in Services : bind(s)

Closing ==
  \/ JoinLoops \/ ShutdownRsh \/ DrainRsh \/ ShutdownTftp \/ DrainTftp
  \/ ServerStop \/ CloseRecorder \/ WriteSummary \/ CloseTree

Serving ==
  \/ \E s \in Services : ServeReturns(s) \/ runListener(s)
  \/ BootpRequest \/ BootpReply \/ TransferStart \/ TransferEnd
  \/ \E c \in Conns : \/ Accept(c) \/ Track(c) \/ Request(c) \/ DialStderr(c) \/ BeginSession(c)
                      \/ BeginCommand(c) \/ CommandDone(c) \/ EndCommand(c) \/ EndSession(c)
  \/ \E a \in Attempts : BackgroundDone(a)

Next == Starting \/ CloseSockets \/ Closing \/ Serving

Spec == Init /\ [][Next]_vars
\* Start and CloseWithReason run on; their waits end, if not before, when time is up.
\* Nothing is assumed of the goroutines they wait for.
FairSpec == Spec /\ WF_vars(Starting) /\ WF_vars(Closing) /\ WF_vars(main = "close" /\ CloseSockets)

-----------------------------------------------------------------------------
(* Properties.                                                             *)

\* What the summary should say, from what the services did.
Happened(a) ==
  [live |-> "incomplete", returned |-> "returned", none |-> "none", start |-> "none",
   back |-> "none"][attempt[a].st]

Truth ==
  [sessions  |-> [c \in Conns |-> IF conn[c].at \in {"over", "rejected"} THEN "ended" ELSE
                                  IF conn[c].at \in {"session", "running", "ending"} THEN "open" ELSE "none"],
   commands  |-> FoldFunction(+, 0, ran.commands),
   transfers |-> IF xfer = "done" THEN 1 ELSE 0,
   installs  |-> [a \in Attempts |-> IF a \in ran.background THEN summary.sum.installs[a] ELSE Happened(a)],
   bootp     |-> ran.bootp,
   exits     |-> ran.exits]

\* An incomplete capture never looks clean (Recorder.Close, CloseWithReason): once
\* CloseWithReason has returned nil, and forever after, the summary on disk counts
\* every session, all of them ended, every command, transfer, BOOTP answer and lost
\* listener, and gives each install attempt its outcome; the file begins with
\* server_start and says that the run ended cleanly.  Only an attempt started by a
\* command left in the background may be missing.
CleanRunIsWhole ==
  (main = "closed" /\ srv.ok /\ srv.started) =>
    /\ summary.ok
    /\ summary.sum = Truth
    /\ \A c \in Conns : Truth.sessions[c] # "open"
    /\ rec.log.first = "server_start" /\ rec.log.stop = "clean"

\* When Start fails, at whatever step, nothing of the run is left: no socket is bound,
\* no loop runs, the media and the events file are closed, and no event and no summary
\* claims that a run took place.
FailedStartLeavesNothing ==
  main = "failed" =>
    /\ \A s \in Services : sock[s] # "open" /\ loop[s] = "none"
    /\ srv.tree # "open"
    /\ rec.file # "open" /\ rec.log = EmptyLog /\ ~summary.ok

\* The events of an install attempt (installScripts.open): it starts at most once and
\* returns at most once, however many sessions read its file at the same time, and the
\* return follows the start unless a write has failed.
InstallOrder ==
  \A a \in Attempts :
    \/ rec.log.about[a] \in {<<>>, <<"install_start">>, <<"install_start", "install_returned">>}
    \/ rec.err /\ rec.log.about[a] = <<"install_returned">>

\* CloseWithReason returns, whatever the loops, the sessions and the transfers it waits
\* for are doing: each wait is limited.
CloseReturns == srv.closing ~> main \in {"closed", "failed"}
=============================================================================
