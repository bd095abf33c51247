------------------------- MODULE TransferInterrupt -------------------------
(***************************************************************************)
(* Interrupting file transfers in the rsh shell (internal/instcmd): the    *)
(* transferInterruptController with the goroutine that reads signal bytes, *)
(* the shell loop of RunShellWithSignals that disables and suspends it,    *)
(* and the cat and dd commands (shCat, shDD, copyFileTransfer) that begin  *)
(* a transfer, poll it between reads and writes, and finish it.            *)
(*                                                                         *)
(* A request to the controller is a rendezvous its goroutine answers under *)
(* the lock, so request, handling and answer are one step.  The bytes that *)
(* are transferred are left out; a write to the client may block for ever  *)
(* unless the write deadline has been set.                                 *)
(***************************************************************************)
EXTENDS Integers, Sequences, FiniteSets

CONSTANTS
  N,          \* stages of a pipeline; also the transfers that can run at once
  QueueCap,   \* signal bytes the channel from rcmd holds, 16 in the code
  MaxLines    \* bound: transfers from idle, and command lines

ASSUME SizesAssumption == N \in Nat \ {0} /\ QueueCap \in Nat /\ MaxLines \in Nat

Stages == 1..N

VARIABLES
  active, interrupted, disabled, suspended, deadlineSet, closed,   \* controller
  running,   \* its goroutine has not returned
  queue,     \* the signal channel, each byte with the epoch it was queued in
  epoch,     \* times active left zero
  cause,     \* the epoch of the byte that set interrupted
  shell,     \* the shell loop: "read", "run", "closing", "closed"
  kind,      \* the command line being run
  lines,     \* command lines run so far
  pc,        \* where each transfer is
  held,      \* fileTransferInterrupt.active
  back,      \* the transfers started by background syntax
  piped,     \* the transfers that are stages of a pipeline
  pipe       \* pipe[t]: stage t has written what stage t + 1 has not read

flags   == <<interrupted, deadlineSet, cause>>
modes   == <<disabled, suspended>>
life    == <<closed, running>>
loop    == <<shell, kind, lines>>
started == <<back, piped>>
vars == <<active, flags, modes, life, queue, epoch, loop, pc, held, started, pipe>>

Kinds == {"plain", "pipeline", "unsupported", "background"}

Init ==
  /\ active = 0
  /\ interrupted = FALSE /\ deadlineSet = FALSE /\ cause = 0
  /\ disabled = FALSE /\ suspended = FALSE
  /\ closed = FALSE /\ running = TRUE
  /\ queue = <<>> /\ epoch = 0
  /\ shell = "read" /\ kind = "plain" /\ lines = 0
  /\ pc = [t \in Stages |-> "off"]
  /\ held = [t \in Stages |-> FALSE]
  /\ back = {} /\ piped = {}
  /\ pipe = [t \in Stages |-> FALSE]

-----------------------------------------------------------------------------
(* The signal channel and the controller's goroutine.                      *)

\* Mutant: forwardSignals does not wait for room in the channel.
SignalUnbounded ==
  /\ shell # "closed"
  /\ \E b \in {"int", "other"} :
       queue' = Append(queue, [byte |-> b, at |-> IF active > 0 THEN epoch ELSE 0])
  /\ UNCHANGED <<active, flags, modes, life, epoch, loop, pc, held, started, pipe>>

\* forwardSignals queues a byte; a full channel blocks it.
Signal ==
  /\ shell # "closed"
  /\ Len(queue) < QueueCap
  /\ \E b \in {"int", "other"} :
       queue' = Append(queue, [byte |-> b, at |-> IF active > 0 THEN epoch ELSE 0])
  /\ UNCHANGED <<active, flags, modes, life, epoch, loop, pc, held, started, pipe>>

\* Mutant: the modes of the controller are not looked at.
InterruptAnyway(s) ==
  IF s.byte = "int" /\ ~closed /\ active > 0 /\ ~interrupted
    THEN /\ interrupted' = TRUE
         /\ deadlineSet' \in BOOLEAN
         /\ cause' = s.at
    ELSE UNCHANGED flags

\* interrupt: SIGINT marks the running transfers, and makes the connection's
\* writes fail where it has a write deadline that can be set.
Interrupt(s) ==
  IF s.byte = "int" /\ ~closed /\ ~disabled /\ ~suspended /\ active > 0 /\ ~interrupted
    THEN /\ interrupted' = TRUE
         /\ deadlineSet' \in BOOLEAN
         /\ cause' = s.at
    ELSE UNCHANGED flags

TakeSignal ==
  /\ running
  /\ queue # <<>>
  /\ Interrupt(Head(queue))
  /\ queue' = Tail(queue)
  /\ UNCHANGED <<active, modes, life, epoch, loop, pc, held, started, pipe>>

\* The goroutine sees the stop channel closed and returns.
Stop ==
  /\ running
  /\ closed
  /\ running' = FALSE
  /\ UNCHANGED <<active, flags, modes, closed, queue, epoch, loop, pc, held, started, pipe>>

-----------------------------------------------------------------------------
(* The shell loop.                                                         *)

Free(t) == pc[t] = "off"

\* The shell reads a line.  Background syntax disables signals for good, and a
\* pipeline of anything but cat and dd suspends them while it runs.
ReadLine ==
  /\ shell = "read"
  /\ lines < MaxLines
  /\ \E k \in Kinds :
       /\ kind' = k
       /\ disabled' = (disabled \/ k = "background")
       /\ suspended' = (suspended \/ k = "unsupported")
       /\ IF k = "background"
            THEN interrupted' = FALSE /\ deadlineSet' = FALSE /\ cause' = 0
            ELSE UNCHANGED flags
  /\ shell' = "run"
  /\ lines' = lines + 1
  /\ UNCHANGED <<active, life, queue, epoch, pc, held, started, pipe>>

\* The line runs a cat or a dd: after what went before, or behind it (&).
StartCommand ==
  /\ shell = "run"
  /\ kind # "pipeline"
  /\ kind # "background" => \A t \in Stages : Free(t) \/ t \in back
  /\ \E t \in Stages :
       /\ Free(t)
       /\ pc' = [pc EXCEPT ![t] = "begin"]
       /\ back' \in IF kind = "background" THEN {back, back \cup {t}} ELSE {back}
  /\ UNCHANGED <<active, flags, modes, life, queue, epoch, loop, held, piped, pipe>>

\* The line runs a pipeline of cat and dd, all its stages at once.
StartPipeline ==
  /\ shell = "run"
  /\ kind \in {"pipeline", "unsupported"}
  /\ \A t \in Stages : Free(t)
  /\ pc' = [t \in Stages |-> "begin"]
  /\ piped' = Stages
  /\ UNCHANGED <<active, flags, modes, life, queue, epoch, loop, held, back, pipe>>

\* The foreground commands of the line are done; signals are restored.
EndLine ==
  /\ shell = "run"
  /\ \A t \in Stages : t \in back \/ pc[t] \in {"off", "ended"}
  /\ shell' \in {"read", "closing"}
  /\ suspended' = (suspended /\ kind # "unsupported")
  /\ pc' = [t \in Stages |-> IF t \in back THEN pc[t] ELSE "off"]
  /\ piped' = {} /\ pipe' = [t \in Stages |-> FALSE]
  /\ UNCHANGED <<active, flags, disabled, life, queue, epoch, kind, lines, held, back>>

\* End of input.
EndInput ==
  /\ shell = "read"
  /\ shell' = "closing"
  /\ UNCHANGED <<active, flags, modes, life, queue, epoch, kind, lines, pc, held, started, pipe>>

\* close: no new transfers, and the goroutine is told to stop ...
CloseBegins ==
  /\ shell = "closing"
  /\ ~closed
  /\ closed' = TRUE
  /\ UNCHANGED <<active, flags, modes, running, queue, epoch, loop, pc, held, started, pipe>>

\* ... and once it has, nothing is left marked.
CloseEnds ==
  /\ shell = "closing"
  /\ ~running
  /\ shell' = "closed"
  /\ IF active = 0
       THEN interrupted' = FALSE /\ deadlineSet' = FALSE /\ cause' = 0
       ELSE UNCHANGED flags
  /\ UNCHANGED <<active, modes, life, queue, epoch, kind, lines, pc, held, started, pipe>>

-----------------------------------------------------------------------------
(* A transfer: cat, or dd, in the stage t of its line.                     *)

InterruptedNow(t) == held[t] /\ interrupted
Goto(t, where) == pc' = [pc EXCEPT ![t] = where]

FromPipe(t) == t \in piped /\ t > 1
ToPipe(t)   == t \in piped /\ t < N

\* Mutant: bytes queued before the transfer are kept.
BeginUndrained(t) ==
  /\ pc[t] = "begin"
  /\ running /\ ~closed
  /\ active > 0 \/ epoch < MaxLines
  /\ epoch' = IF active = 0 THEN epoch + 1 ELSE epoch
  /\ active' = active + 1
  /\ held' = [held EXCEPT ![t] = TRUE]
  /\ Goto(t, "check")
  /\ UNCHANGED <<flags, modes, life, queue, loop, started, pipe>>

\* begin: the first transfer drains the bytes queued while the shell was idle.
Begin(t) ==
  /\ pc[t] = "begin"
  /\ running /\ ~closed
  /\ active > 0 \/ epoch < MaxLines
  /\ IF active = 0
       THEN queue' = <<>> /\ epoch' = epoch + 1
       ELSE UNCHANGED <<queue, epoch>>
  /\ active' = active + 1
  /\ held' = [held EXCEPT ![t] = TRUE]
  /\ Goto(t, "check")
  /\ UNCHANGED <<flags, modes, life, loop, started, pipe>>

\* Mutant: the transfer believes it was accepted.
BeginRefusedHolds(t) ==
  /\ pc[t] = "begin"
  /\ closed
  /\ held' = [held EXCEPT ![t] = TRUE]
  /\ Goto(t, "check")
  /\ UNCHANGED <<active, flags, modes, life, queue, epoch, loop, started, pipe>>

\* The controller is closed: the transfer runs without it.
BeginRefused(t) ==
  /\ pc[t] = "begin"
  /\ closed
  /\ Goto(t, "check")
  /\ UNCHANGED <<active, flags, modes, life, queue, epoch, loop, held, started, pipe>>

Check(t) ==
  /\ pc[t] = "check"
  /\ Goto(t, IF InterruptedNow(t) THEN "finish" ELSE "fetch")
  /\ UNCHANGED <<active, flags, modes, life, queue, epoch, loop, held, started, pipe>>

\* A read from the file, or from the pipe once there is something in it or its
\* writer has ended.  What is left to do at the end of the input is the flush,
\* and dd's record counts behind it.
Fetch(t) ==
  /\ pc[t] = "fetch"
  /\ \/ /\ FromPipe(t) /\ pipe[t - 1]
        /\ pipe' = [pipe EXCEPT ![t - 1] = FALSE]
        /\ Goto(t, "write")
     \/ /\ FromPipe(t) /\ ~pipe[t - 1] /\ pc[t - 1] = "ended"
        /\ Goto(t, "flush")
        /\ UNCHANGED pipe
     \/ /\ ~FromPipe(t)
        /\ pc' \in {[pc EXCEPT ![t] = where] : where \in {"write", "flush", "finish"}}
        /\ UNCHANGED pipe
  /\ UNCHANGED <<active, flags, modes, life, queue, epoch, loop, held, started>>

\* After a write that went through the transfer looks for an interrupt again.
Written(t) == Goto(t, IF InterruptedNow(t) THEN "finish" ELSE "check")

\* After the flush it ends, or, a cat of several files, goes on to the next.
Flushed(t) == Goto(t, "finish") \/ (~FromPipe(t) /\ Written(t))

\* The client takes what is written to it, as long as no deadline has passed.
ClientTakes(t) ==
  /\ ~ToPipe(t)
  /\ ~deadlineSet
  /\ \/ pc[t] = "write" /\ Written(t)
     \/ pc[t] = "flush" /\ Flushed(t)
  /\ UNCHANGED <<active, flags, modes, life, queue, epoch, loop, held, started, pipe>>

\* Mutant: a write that is already blocked does not notice the deadline.
ClientWriteNeverFails(t) == FALSE /\ UNCHANGED vars

\* A write to the client fails at the deadline.
ClientWriteFails(t) ==
  /\ ~ToPipe(t)
  /\ deadlineSet
  /\ pc[t] \in {"write", "flush"}
  /\ Goto(t, "finish")
  /\ UNCHANGED <<active, flags, modes, life, queue, epoch, loop, held, started, pipe>>

\* A write to the pipe waits for the reader, and fails once that has ended.
PipeWrite(t) ==
  /\ ToPipe(t)
  /\ \/ /\ pc[t] = "write" /\ pc[t + 1] # "ended" /\ ~pipe[t]
        /\ pipe' = [pipe EXCEPT ![t] = TRUE]
        /\ Written(t)
     \/ /\ pc[t] = "write" /\ pc[t + 1] = "ended"
        /\ Goto(t, "finish")
        /\ UNCHANGED pipe
     \/ /\ pc[t] = "flush"
        /\ Flushed(t)
        /\ UNCHANGED pipe
  /\ UNCHANGED <<active, flags, modes, life, queue, epoch, loop, held, started>>

\* Mutant: the last transfer leaves the write deadline set.
FinishKeepsDeadline(t) ==
  /\ pc[t] = "finish"
  /\ IF held[t]
       THEN /\ active' = active - 1
            /\ interrupted' = (interrupted /\ active' # 0)
            /\ UNCHANGED <<deadlineSet, cause>>
       ELSE UNCHANGED <<active, flags>>
  /\ held' = [held EXCEPT ![t] = FALSE]
  /\ Goto(t, "ended")
  /\ UNCHANGED <<modes, life, queue, epoch, loop, started, pipe>>

\* finish, through the goroutine or, once that has returned, without it: the last
\* transfer to end clears the interrupt and the deadline.
Finish(t) ==
  /\ pc[t] = "finish"
  /\ IF held[t]
       THEN /\ active' = active - 1
            /\ IF active' = 0
                 THEN interrupted' = FALSE /\ deadlineSet' = FALSE /\ cause' = 0
                 ELSE UNCHANGED flags
       ELSE UNCHANGED <<active, flags>>
  /\ held' = [held EXCEPT ![t] = FALSE]
  /\ Goto(t, "ended")
  /\ UNCHANGED <<modes, life, queue, epoch, loop, started, pipe>>

-----------------------------------------------------------------------------
Loop == \/ ReadLine \/ StartCommand \/ StartPipeline \/ EndLine \/ EndInput
        \/ CloseBegins \/ CloseEnds

\* What a transfer does without waiting for the client.
OwnStep(t) == \/ Begin(t) \/ BeginRefused(t) \/ Check(t) \/ Fetch(t)
              \/ ClientWriteFails(t) \/ PipeWrite(t) \/ Finish(t)

Next == \/ Signal \/ TakeSignal \/ Stop \/ Loop
        \/ \E t \in Stages : OwnStep(t) \/ ClientTakes(t)

Spec == Init /\ [][Next]_vars

\* The goroutines run; the client owes nothing.
FairSpec == Spec /\ WF_vars(TakeSignal \/ Stop) /\ \A t \in Stages : WF_vars(OwnStep(t))

-----------------------------------------------------------------------------
(* Properties.                                                             *)

Bytes == [byte : {"int", "other"}, at : 0..MaxLines]

FlagsOK ==
  /\ interrupted \in BOOLEAN /\ deadlineSet \in BOOLEAN
  /\ disabled \in BOOLEAN /\ suspended \in BOOLEAN
  /\ closed \in BOOLEAN /\ running \in BOOLEAN
  /\ held \in [Stages -> BOOLEAN] /\ pipe \in [Stages -> BOOLEAN]

\* Every variable has its type; the channel never holds more than it can.
TypeOK ==
  /\ FlagsOK
  /\ active \in 0..N
  /\ queue \in Seq(Bytes) /\ Len(queue) <= QueueCap
  /\ epoch \in 0..MaxLines /\ cause \in 0..MaxLines
  /\ shell \in {"read", "run", "closing", "closed"}
  /\ kind \in Kinds
  /\ lines \in 0..MaxLines
  /\ pc \in [Stages -> {"off", "begin", "check", "fetch", "write", "flush", "finish", "ended"}]
  /\ back \subseteq Stages /\ piped \subseteq Stages

\* Between transfers the connection is clean: no interrupt is left marked and no
\* write deadline is left set, so the marker the shell writes after an
\* interrupted transfer, and everything after it, goes through.
CleanBetweenTransfers == active = 0 => ~interrupted /\ ~deadlineSet

\* A transfer is interrupted only by a byte queued since the shell was last idle:
\* bytes queued while it was idle, or for an earlier transfer, never cancel it.
NoStaleCancel == interrupted => cause = epoch

\* Signals are really ignored where the shell says so: nothing is interrupted
\* while a pipeline it does not support runs, or ever after background syntax.
IgnoredWhileOff == disabled \/ suspended => ~interrupted /\ ~deadlineSet

Holders == {t \in Stages : held[t]}

\* The count of transfers never drifts from the transfers that hold the
\* controller, through closing too.
CountIsExact == active = Cardinality(Holders)

-----------------------------------------------------------------------------
(* The inductive invariant behind the properties above.                    *)

\* A transfer holds the controller only while it copies; at the prompt only
\* background transfers are left, and those were preceded by disable.
Placed ==
  /\ \A t \in Stages : held[t] => pc[t] \in {"check", "fetch", "write", "flush", "finish"}
  /\ shell = "read" => \A t \in Stages : t \in back \/ pc[t] = "off"
  /\ back # {} => disabled
  /\ shell = "run" /\ kind = "background" => disabled

\* While a transfer runs, every queued byte was queued since the shell was idle.
Fresh == active > 0 => \A k \in 1..Len(queue) : queue[k].at = epoch

IInv ==
  /\ TypeOK /\ CleanBetweenTransfers /\ NoStaleCancel /\ IgnoredWhileOff /\ CountIsExact
  /\ Placed /\ Fresh

-----------------------------------------------------------------------------
\* An interrupt with a deadline ends every transfer of the line, although the
\* client reads nothing any more and the stages of a pipeline wait on each other.
InterruptEnds == deadlineSet ~> active = 0
=============================================================================
