---------------------- MODULE TransferInterruptProofs ----------------------
(***************************************************************************)
(* Proofs about TransferInterrupt, for pipelines of any length, channels   *)
(* of any size and any number of command lines.                            *)
(***************************************************************************)
EXTENDS TransferInterrupt, FiniteSetTheorems, TLAPS

Places == {"off", "begin", "check", "fetch", "write", "flush", "finish", "ended"}

-----------------------------------------------------------------------------
(* Counting the transfers that hold the controller.                        *)

\* The holders are finitely many, and at most N.
LEMMA HoldersFinite ==
  IsFiniteSet(Holders) /\ Cardinality(Holders) \in Nat /\ Cardinality(Holders) <= N
<1>1. IsFiniteSet(Stages) /\ Cardinality(Stages) = N
  BY SizesAssumption, FS_Interval DEF Stages
<1>2. Holders \in SUBSET Stages
  BY DEF Holders
<1>3. IsFiniteSet(Holders) /\ Cardinality(Holders) <= Cardinality(Stages)
  BY <1>1, <1>2, FS_Subset
<1>4. Cardinality(Holders) \in Nat
  BY <1>3, FS_CardinalityType
<1>5. QED  BY <1>1, <1>3, <1>4

\* The same of the next state, whatever the step.
LEMMA HoldersFiniteNext ==
  IsFiniteSet(Holders') /\ Cardinality(Holders') \in Nat /\ Cardinality(Holders') <= N
<1>1. IsFiniteSet(Stages) /\ Cardinality(Stages) = N
  BY SizesAssumption, FS_Interval DEF Stages
<1>2. Holders' \in SUBSET Stages
  BY DEF Holders
<1>3. IsFiniteSet(Holders') /\ Cardinality(Holders') <= Cardinality(Stages)
  BY <1>1, <1>2, FS_Subset
<1>4. Cardinality(Holders') \in Nat
  BY <1>3, FS_CardinalityType
<1>5. QED  BY <1>1, <1>3, <1>4

\* A transfer that begins adds itself to the holders.
LEMMA BeginCounts ==
  ASSUME IInv, NEW t \in Stages, Begin(t)
  PROVE  CountIsExact'
<1>1. held \in [Stages -> BOOLEAN] /\ ~held[t]
  BY Zenon DEF IInv, TypeOK, FlagsOK, Placed, Begin
<1>2. Holders' = Holders \cup {t} /\ t \notin Holders
  BY <1>1 DEF Begin, Holders
<1>3. Cardinality(Holders') = Cardinality(Holders) + 1
  BY <1>2, HoldersFinite, FS_AddElement
<1>4. QED  BY <1>3 DEF CountIsExact, Begin, IInv

\* A transfer that finishes removes itself from the holders, if it was one.
LEMMA FinishCounts ==
  ASSUME IInv, NEW t \in Stages, Finish(t)
  PROVE  CountIsExact'
<1>1. held \in [Stages -> BOOLEAN]
  BY Zenon DEF IInv, TypeOK, FlagsOK
<1>2. Holders' = Holders \ {t}
  BY <1>1 DEF Finish, Holders
<1>3. Cardinality(Holders') = IF t \in Holders THEN Cardinality(Holders) - 1
                              ELSE Cardinality(Holders)
  BY <1>2, HoldersFinite, FS_RemoveElement
<1>4. t \in Holders <=> held[t]
  BY DEF Holders
<1>5. QED  BY <1>3, <1>4, HoldersFinite DEF CountIsExact, Finish, IInv

-----------------------------------------------------------------------------
(* Type correctness.                                                       *)

\* The Boolean variables keep their type in every step.
LEMMA NextFlagsOK ==
  ASSUME FlagsOK, [Next]_vars
  PROVE  FlagsOK'
<1> USE DEF FlagsOK
<1>1. CASE Signal  BY <1>1, Zenon DEF Signal, flags, modes, life
<1>2. CASE TakeSignal  BY <1>2, Zenon DEF TakeSignal, Interrupt, flags, modes, life
<1>3. CASE Stop  BY <1>3, Zenon DEF Stop, flags, modes
<1>4. CASE ReadLine
  <2>1. PICK k \in Kinds :
          /\ disabled' = (disabled \/ k = "background")
          /\ suspended' = (suspended \/ k = "unsupported")
          /\ IF k = "background" THEN interrupted' = FALSE /\ deadlineSet' = FALSE
             ELSE UNCHANGED flags
    BY <1>4, Zenon DEF ReadLine
  <2>2. QED  BY <1>4, <2>1, Zenon DEF ReadLine, life, flags
<1>5. CASE StartCommand  BY <1>5, Zenon DEF StartCommand, flags, modes, life
<1>6. CASE StartPipeline  BY <1>6, Zenon DEF StartPipeline, flags, modes, life
<1>7. CASE EndLine  BY <1>7, Zenon DEF EndLine, flags, life
<1>8. CASE EndInput  BY <1>8, Zenon DEF EndInput, flags, modes, life
<1>9. CASE CloseBegins  BY <1>9, Zenon DEF CloseBegins, flags, modes
<1>10. CASE CloseEnds  BY <1>10, Zenon DEF CloseEnds, flags, modes, life
<1>11. ASSUME NEW t \in Stages, OwnStep(t) \/ ClientTakes(t)  PROVE FlagsOK'
  <2>1. CASE Begin(t)  BY <2>1, Zenon DEF Begin, flags, modes, life
  <2>2. CASE BeginRefused(t)  BY <2>2, Zenon DEF BeginRefused, flags, modes, life
  <2>3. CASE Check(t)  BY <2>3, Zenon DEF Check, flags, modes, life
  <2>4. CASE Fetch(t)  BY <2>4, Zenon DEF Fetch, flags, modes, life
  <2>5. CASE ClientTakes(t)  BY <2>5, Zenon DEF ClientTakes, flags, modes, life
  <2>6. CASE ClientWriteFails(t)  BY <2>6, Zenon DEF ClientWriteFails, flags, modes, life
  <2>7. CASE PipeWrite(t)  BY <2>7, Zenon DEF PipeWrite, flags, modes, life
  <2>8. CASE Finish(t)  BY <2>8, Zenon DEF Finish, flags, modes, life
  <2>9. QED  BY <1>11, <2>1, <2>2, <2>3, <2>4, <2>5, <2>6, <2>7, <2>8 DEF OwnStep
<1>12. CASE UNCHANGED vars  BY <1>12, Zenon DEF vars, flags, modes, life
<1>13. QED
  BY <1>1, <1>2, <1>3, <1>4, <1>5, <1>6, <1>7, <1>8, <1>9, <1>10, <1>11, <1>12
  DEF Next, Loop

\* The bytes in the channel are well typed and fit in it.
QueueOK == queue \in Seq(Bytes) /\ Len(queue) <= QueueCap

\* The counters, and where the shell and the transfers are.
PlacesOK ==
  /\ epoch \in 0..MaxLines /\ cause \in 0..MaxLines
  /\ shell \in {"read", "run", "closing", "closed"}
  /\ kind \in Kinds
  /\ lines \in 0..MaxLines
  /\ pc \in [Stages -> Places]
  /\ back \subseteq Stages /\ piped \subseteq Stages

\* TypeOK in the three parts that are proved apart.
LEMMA TypeParts == TypeOK <=> FlagsOK /\ active \in 0..N /\ QueueOK /\ PlacesOK
BY DEF TypeOK, QueueOK, PlacesOK, Places

\* The channel keeps its type and its bound.
LEMMA NextQueueOK ==
  ASSUME IInv, [Next]_vars
  PROVE  QueueOK'
<1>1. QueueOK /\ epoch \in 0..MaxLines /\ active \in Int
  BY SizesAssumption DEF IInv, TypeOK, QueueOK
<1>2. CASE Signal
  <2>1. PICK b \in {"int", "other"} :
          queue' = Append(queue, [byte |-> b, at |-> IF active > 0 THEN epoch ELSE 0])
    BY <1>2 DEF Signal
  <2>2. [byte |-> b, at |-> IF active > 0 THEN epoch ELSE 0] \in Bytes
    BY <1>1, SizesAssumption DEF Bytes
  <2>3. QED  BY <1>1, <1>2, <2>1, <2>2, SizesAssumption DEF Signal, QueueOK
<1>3. CASE TakeSignal
  BY <1>1, <1>3, SizesAssumption DEF TakeSignal, QueueOK
<1>4. ASSUME NEW t \in Stages, Begin(t)  PROVE QueueOK'
  <2>1. CASE active = 0
    <3>1. queue' = <<>>  BY <1>4, <2>1 DEF Begin
    <3>2. <<>> \in Seq(Bytes) /\ Len(<<>>) = 0  OBVIOUS
    <3>3. QED  BY <3>1, <3>2, SizesAssumption DEF QueueOK
  <2>2. CASE active # 0  BY <1>1, <1>4, <2>2 DEF Begin, QueueOK
  <2>3. QED  BY <2>1, <2>2
<1>5. CASE UNCHANGED queue
  BY <1>1, <1>5 DEF QueueOK
<1>6. QED
  BY <1>2, <1>3, <1>4, <1>5
  DEF Next, Loop, OwnStep, vars, Stop, ReadLine, StartCommand, StartPipeline, EndLine,
      EndInput, CloseBegins, CloseEnds, BeginRefused, Check, Fetch, ClientTakes,
      ClientWriteFails, PipeWrite, Finish

\* The counters and places keep their types.
LEMMA NextPlacesOK ==
  ASSUME IInv, [Next]_vars
  PROVE  PlacesOK'
<1>1. PlacesOK /\ QueueOK
  BY DEF IInv, TypeOK, PlacesOK, QueueOK, Places
<1> USE <1>1, SizesAssumption DEF PlacesOK, flags, loop, started
<1>2. CASE Signal  BY <1>2 DEF Signal
<1>3. CASE TakeSignal
  <2>1. Head(queue) \in Bytes
    BY <1>3 DEF TakeSignal, QueueOK
  <2>2. QED  BY <1>3, <2>1 DEF TakeSignal, Interrupt, Bytes
<1>4. CASE Stop  BY <1>4 DEF Stop
<1>5. CASE ReadLine  BY <1>5 DEF ReadLine
<1>6. CASE StartCommand  BY <1>6 DEF StartCommand, Places
<1>7. CASE StartPipeline  BY <1>7 DEF StartPipeline, Places
<1>8. CASE EndLine  BY <1>8 DEF EndLine, Places
<1>9. CASE EndInput  BY <1>9 DEF EndInput
<1>10. CASE CloseBegins  BY <1>10 DEF CloseBegins
<1>11. CASE CloseEnds  BY <1>11 DEF CloseEnds
<1>12. ASSUME NEW t \in Stages, OwnStep(t) \/ ClientTakes(t)  PROVE PlacesOK'
  <2> USE DEF Goto, Places
  <2>1. CASE Begin(t)
    <3>1. active \in Int  BY DEF IInv, TypeOK
    <3>2. QED  BY <2>1, <3>1 DEF Begin
  <2>2. CASE BeginRefused(t)  BY <2>2 DEF BeginRefused
  <2>3. CASE Check(t)  BY <2>3 DEF Check
  <2>4. CASE Fetch(t)  BY <2>4 DEF Fetch
  <2>5. CASE ClientTakes(t)  BY <2>5 DEF ClientTakes, Written, Flushed
  <2>6. CASE ClientWriteFails(t)  BY <2>6 DEF ClientWriteFails
  <2>7. CASE PipeWrite(t)  BY <2>7 DEF PipeWrite, Written, Flushed
  <2>8. CASE Finish(t)  BY <2>8 DEF Finish
  <2>9. QED  BY <1>12, <2>1, <2>2, <2>3, <2>4, <2>5, <2>6, <2>7, <2>8 DEF OwnStep
<1>13. CASE UNCHANGED vars  BY <1>13 DEF vars
<1>14. QED
  BY <1>2, <1>3, <1>4, <1>5, <1>6, <1>7, <1>8, <1>9, <1>10, <1>11, <1>12, <1>13
  DEF Next, Loop

-----------------------------------------------------------------------------
(* The inductive invariant.                                                *)

\* What the flags promise, apart from the types.
Promises == CleanBetweenTransfers /\ NoStaleCancel /\ IgnoredWhileOff /\ Fresh

\* A step that leaves the controller and the channel alone keeps the promises.
LEMMA QuietStep ==
  ASSUME IInv, UNCHANGED <<active, flags, modes, queue, epoch, held>>
  PROVE  Promises' /\ CountIsExact'
<1>1. Promises'
  BY DEF Promises, IInv, CleanBetweenTransfers, NoStaleCancel, IgnoredWhileOff, Fresh,
         flags, modes
<1>2. CountIsExact'
  BY DEF IInv, CountIsExact, Holders
<1>3. QED  BY <1>1, <1>2

\* At the prompt nothing is interrupted: what still runs is in the background,
\* and background syntax has switched signals off.
LEMMA CleanAtPrompt ==
  ASSUME IInv, shell = "read"
  PROVE  ~interrupted /\ ~deadlineSet
<1>1. CASE disabled
  BY <1>1, Zenon DEF IInv, IgnoredWhileOff
<1>2. CASE ~disabled
  <2>1. back = {}
    BY <1>2 DEF IInv, Placed
  <2>2. \A t \in Stages : ~held[t]
    BY <2>1 DEF IInv, Placed
  <2>3. Holders = {}
    BY <2>2 DEF Holders
  <2>4. active = 0
    BY <2>3, FS_EmptySet DEF IInv, CountIsExact
  <2>5. QED  BY <2>4, Zenon DEF IInv, CleanBetweenTransfers
<1>3. QED  BY <1>1, <1>2

\* Every step keeps the promises and the count.
LEMMA NextPromises ==
  ASSUME IInv, [Next]_vars
  PROVE  Promises' /\ CountIsExact'
<1>1. CASE UNCHANGED <<active, flags, modes, queue, epoch, held>>
  BY <1>1, QuietStep
<1> USE DEF Promises, CleanBetweenTransfers, NoStaleCancel, IgnoredWhileOff
<1>2. CASE Signal
  <2>1. CleanBetweenTransfers' /\ NoStaleCancel' /\ IgnoredWhileOff'
    BY <1>2 DEF IInv, Signal, flags, modes
  <2>2. Fresh'
    <3>1. PICK b \in {"int", "other"} :
            queue' = Append(queue, [byte |-> b, at |-> IF active > 0 THEN epoch ELSE 0])
      BY <1>2 DEF Signal
    <3>2. queue \in Seq(Bytes)  BY DEF IInv, TypeOK
    <3>3. QED  BY <1>2, <3>1, <3>2 DEF IInv, Fresh, Signal
  <2>3. CountIsExact'  BY <1>2 DEF Signal, IInv, CountIsExact, Holders
  <2>4. QED  BY <2>1, <2>2, <2>3
<1>3. CASE TakeSignal
  <2>1. queue \in Seq(Bytes) /\ queue # <<>> /\ queue' = Tail(queue)
    BY <1>3 DEF IInv, TypeOK, TakeSignal
  <2>2. active > 0 => Head(queue).at = epoch
    BY <2>1 DEF IInv, Fresh
  <2>3. CleanBetweenTransfers' /\ NoStaleCancel' /\ IgnoredWhileOff'
    <3>1. CASE UNCHANGED flags
      BY <1>3, <3>1 DEF IInv, TakeSignal, flags, modes
    <3>2. CASE /\ ~disabled /\ ~suspended /\ active > 0
               /\ interrupted' = TRUE /\ cause' = Head(queue).at
      BY <1>3, <2>2, <3>2 DEF TakeSignal, modes
    <3>3. QED  BY <1>3, <3>1, <3>2 DEF TakeSignal, Interrupt
  <2>4. Fresh'
    BY <1>3, <2>1 DEF IInv, Fresh, TakeSignal
  <2>5. CountIsExact'  BY <1>3 DEF TakeSignal, IInv, CountIsExact, Holders
  <2>6. QED  BY <2>3, <2>4, <2>5
<1>4. CASE ReadLine
  <2>1. ~interrupted /\ ~deadlineSet
    BY <1>4, CleanAtPrompt DEF ReadLine
  <2>2. ~interrupted' /\ ~deadlineSet'
    BY <1>4, <2>1 DEF ReadLine, flags
  <2>3. Fresh'  BY <1>4 DEF ReadLine, IInv, Fresh
  <2>4. CountIsExact'  BY <1>4 DEF ReadLine, IInv, CountIsExact, Holders
  <2>5. QED  BY <2>2, <2>3, <2>4
<1>5. CASE EndLine
  <2>1. Fresh'  BY <1>5 DEF EndLine, IInv, Fresh
  <2>2. CountIsExact'  BY <1>5 DEF EndLine, IInv, CountIsExact, Holders
  <2>3. QED  BY <1>5, <2>1, <2>2, Zenon DEF EndLine, IInv, flags
<1>6. CASE CloseEnds
  <2>1. Fresh'  BY <1>6 DEF CloseEnds, IInv, Fresh
  <2>2. CountIsExact'  BY <1>6 DEF CloseEnds, IInv, CountIsExact, Holders
  <2>3. CleanBetweenTransfers' /\ NoStaleCancel' /\ IgnoredWhileOff'
    BY <1>6 DEF CloseEnds, IInv, flags, modes
  <2>4. QED  BY <2>1, <2>2, <2>3
<1>7. ASSUME NEW t \in Stages, Begin(t)  PROVE Promises' /\ CountIsExact'
  <2>1. active \in Nat /\ active' = active + 1
    BY <1>7, SizesAssumption DEF Begin, IInv, TypeOK
  <2>2. CleanBetweenTransfers'  BY <2>1
  <2>3. NoStaleCancel'
    BY <1>7, <2>1 DEF Begin, IInv, flags
  <2>4. IgnoredWhileOff'  BY <1>7 DEF Begin, IInv, flags, modes
  <2>5. Fresh'
    <3>1. CASE active = 0
      <4>1. queue' = <<>>  BY <1>7, <3>1 DEF Begin
      <4>2. QED  BY <4>1 DEF Fresh
    <3>2. CASE active # 0  BY <1>7, <2>1, <3>2 DEF Begin, IInv, Fresh
    <3>3. QED  BY <3>1, <3>2
  <2>6. QED  BY <2>2, <2>3, <2>4, <2>5, <1>7, BeginCounts
<1>8. ASSUME NEW t \in Stages, Finish(t)  PROVE Promises' /\ CountIsExact'
  <2>1. active \in Int  BY DEF IInv, TypeOK
  <2>2. CASE ~held[t]
    <3>1. UNCHANGED <<active, flags>>  BY <1>8, <2>2 DEF Finish
    <3>2. Promises'
      BY <1>8, <3>1 DEF Finish, IInv, Fresh, flags, modes
    <3>3. QED  BY <3>2, <1>8, FinishCounts
  <2>3. CASE held[t]
    <3>1. active' = active - 1  BY <1>8, <2>3 DEF Finish
    <3>2. CleanBetweenTransfers'  BY <1>8, <2>3, <3>1 DEF Finish
    <3>3. NoStaleCancel' /\ IgnoredWhileOff'
      BY <1>8, <2>3 DEF Finish, IInv, flags, modes
    <3>4. Fresh'  BY <1>8, <2>1, <3>1 DEF Finish, IInv, Fresh
    <3>5. QED  BY <3>2, <3>3, <3>4, <1>8, FinishCounts
  <2>4. QED  BY <2>2, <2>3
<1>9. QED
  BY <1>1, <1>2, <1>3, <1>4, <1>5, <1>6, <1>7, <1>8
  DEF Next, Loop, OwnStep, vars, Stop, StartCommand, StartPipeline, EndInput, CloseBegins,
      BeginRefused, Check, Fetch, ClientTakes, ClientWriteFails, PipeWrite

\* Every step leaves transfers and shell where Placed says they are.
LEMMA NextPlaced ==
  ASSUME IInv, [Next]_vars
  PROVE  Placed'
<1>1. PlacesOK /\ held \in [Stages -> BOOLEAN]
  BY Zenon, TypeParts DEF IInv, FlagsOK
<1> USE <1>1 DEF Placed, PlacesOK, Places, flags, loop, started, modes
<1>2. CASE Signal \/ TakeSignal \/ Stop \/ CloseBegins \/ CloseEnds \/ EndInput
  BY <1>2 DEF IInv, Signal, TakeSignal, Stop, CloseBegins, CloseEnds, EndInput
<1>3. CASE ReadLine  BY <1>3 DEF IInv, ReadLine
<1>4. CASE StartCommand  BY <1>4 DEF IInv, StartCommand, Free
<1>5. CASE StartPipeline  BY <1>5 DEF IInv, StartPipeline, Free
<1>6. CASE EndLine  BY <1>6 DEF IInv, EndLine
<1>7. ASSUME NEW t \in Stages, OwnStep(t) \/ ClientTakes(t)  PROVE Placed'
  <2> USE DEF Goto
  <2>1. CASE Begin(t)  BY <2>1 DEF IInv, Begin
  <2>2. CASE BeginRefused(t)  BY <2>2 DEF IInv, BeginRefused
  <2>3. CASE Check(t)  BY <2>3 DEF IInv, Check
  <2>4. CASE Fetch(t)  BY <2>4 DEF IInv, Fetch
  <2>5. CASE ClientTakes(t)  BY <2>5 DEF IInv, ClientTakes, Written, Flushed
  <2>6. CASE ClientWriteFails(t)  BY <2>6 DEF IInv, ClientWriteFails
  <2>7. CASE PipeWrite(t)  BY <2>7 DEF IInv, PipeWrite, Written, Flushed
  <2>8. CASE Finish(t)  BY <2>8 DEF IInv, Finish
  <2>9. QED  BY <1>7, <2>1, <2>2, <2>3, <2>4, <2>5, <2>6, <2>7, <2>8 DEF OwnStep
<1>8. CASE UNCHANGED vars  BY <1>8 DEF IInv, vars
<1>9. QED
  BY <1>2, <1>3, <1>4, <1>5, <1>6, <1>7, <1>8 DEF Next, Loop

\* The invariant holds at the start, before any line is read.
LEMMA InitIInv == Init => IInv
<1> SUFFICES ASSUME Init  PROVE IInv
  OBVIOUS
<1>1. FlagsOK  BY Zenon DEF Init, FlagsOK
<1>2. active \in 0..N /\ PlacesOK
  BY SizesAssumption DEF Init, PlacesOK, Places, Kinds
<1>3. QueueOK
  BY SizesAssumption DEF Init, QueueOK
<1>4. Holders = {}  BY DEF Init, Holders
<1>5. CountIsExact  BY <1>4, FS_EmptySet DEF Init, CountIsExact
<1>6. CleanBetweenTransfers /\ NoStaleCancel /\ IgnoredWhileOff
  BY DEF Init, CleanBetweenTransfers, NoStaleCancel, IgnoredWhileOff
<1>7. Placed /\ Fresh  BY DEF Init, Placed, Fresh
<1>8. QED  BY <1>1, <1>2, <1>3, <1>5, <1>6, <1>7, TypeParts DEF IInv

\* Every step preserves the invariant.
LEMMA NextIInv == IInv /\ [Next]_vars => IInv'
<1> SUFFICES ASSUME IInv, [Next]_vars  PROVE IInv'
  OBVIOUS
<1>1. Promises' /\ CountIsExact'  BY NextPromises
<1>2. active' \in 0..N
  BY <1>1, HoldersFiniteNext, SizesAssumption DEF CountIsExact
<1>3. FlagsOK'  BY NextFlagsOK DEF IInv, TypeOK
<1>4. TypeOK'
  BY <1>2, <1>3, NextQueueOK, NextPlacesOK DEF TypeOK, QueueOK, PlacesOK, Places
<1>5. QED  BY <1>1, <1>4, NextPlaced DEF IInv, Promises

\* The invariant holds in every reachable state.
THEOREM Invariance == Spec => []IInv
BY InitIInv, NextIInv, PTL DEF Spec

\* Every variable keeps its type, and the signal channel its bound.
THEOREM TypeCorrect == Spec => []TypeOK
<1>1. IInv => TypeOK  BY DEF IInv
<1>2. QED  BY <1>1, Invariance, PTL

\* Whatever the interleaving of signals, transfers and closing, no transfer
\* leaves an interrupt marked or a write deadline set behind it.
THEOREM CleanAfterwards == Spec => []CleanBetweenTransfers
<1>1. IInv => CleanBetweenTransfers  BY DEF IInv
<1>2. QED  BY <1>1, Invariance, PTL

\* A byte queued before the shell was last idle never interrupts a transfer.
THEOREM StaleBytesDropped == Spec => []NoStaleCancel
<1>1. IInv => NoStaleCancel  BY DEF IInv
<1>2. QED  BY <1>1, Invariance, PTL

\* Nothing is interrupted where the shell ignores signals.
THEOREM IgnoredMeansIgnored == Spec => []IgnoredWhileOff
<1>1. IInv => IgnoredWhileOff  BY DEF IInv
<1>2. QED  BY <1>1, Invariance, PTL

\* The controller's count is the number of transfers that hold it.
THEOREM CountCorrect == Spec => []CountIsExact
<1>1. IInv => CountIsExact  BY DEF IInv
<1>2. QED  BY <1>1, Invariance, PTL
=============================================================================
