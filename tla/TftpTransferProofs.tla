------------------------- MODULE TftpTransferProofs -------------------------
(***************************************************************************)
(* Proofs about TftpTransfer for every file size, block size, retry budget *)
(* and wrap-around of the block number.                                    *)
(***************************************************************************)
EXTENDS TftpTransfer, TLAPS

-----------------------------------------------------------------------------
(* Arithmetic.                                                             *)

\* Multiplication by a block size is monotonic.
LEMMA Products ==
  ASSUME NEW b \in Nat, NEW i \in Nat, NEW j \in Nat, i <= j
  PROVE  /\ i * b \in Nat
         /\ j * b \in Nat
         /\ (i + 1) * b = i * b + b
         /\ i * b <= j * b
OBVIOUS

\* How many whole blocks fit in a file.
LEMMA Quotient ==
  ASSUME NEW s \in Nat, NEW b \in Nat, b > 0, NEW q \in Nat, q * b <= s
  PROVE  /\ s \div b \in Nat
         /\ s \div b >= q
         /\ s < q * b + b => s \div b = q
<1>1. s \div b \in Nat /\ s % b \in 0..(b - 1) /\ s = b * (s \div b) + (s % b)
  OBVIOUS
<1>2. QED  BY <1>1

\* Two counts less than a lap apart with the same block number are equal.
LEMMA SameResidue ==
  ASSUME NEW w \in Nat, w > 0, NEW a \in Nat, NEW c \in Nat,
         a <= c, c - a < w, a % w = c % w
  PROVE  a = c
<1>1. a = w * (a \div w) + (a % w) /\ a \div w \in Int
  OBVIOUS
<1>2. c = w * (c \div w) + (c % w) /\ c \div w \in Int
  OBVIOUS
<1>3. c - a = w * ((c \div w) - (a \div w))
  BY <1>1, <1>2
<1> DEFINE d == (c \div w) - (a \div w)
<1>4. d \in Int /\ c - a = w * d
  BY <1>1, <1>2, <1>3
<1> HIDE DEF d
<1>5. CASE d >= 1
  <2>1. w * d >= w * 1  BY <1>4, <1>5
  <2>2. QED  BY <1>4, <2>1
<1>6. CASE d <= -1
  <2>1. w * d <= w * (-1)  BY <1>4, <1>6
  <2>2. QED  BY <1>4, <2>1
<1>7. CASE d = 0
  BY <1>4, <1>7
<1>8. QED  BY <1>4, <1>5, <1>6, <1>7

-----------------------------------------------------------------------------
(* The request is fixed, and what follows from it.                         *)

\* negotiateOptions never yields an empty block.
LEMMA BlkPositive ==
  ASSUME TypeOK
  PROVE  Blk \in Nat /\ Blk > 0 /\ size \in Nat
<1>1. size \in Nat
  BY SizeAssumption DEF TypeOK
<1>2. CASE opts.blksize = {}
  BY <1>1, <1>2, SizeAssumption DEF Blk
<1>3. CASE opts.blksize # {}
  <2>1. PICK b \in AskedBlk : opts.blksize = {b}
    BY <1>3 DEF TypeOK, Options
  <2>2. (CHOOSE x \in opts.blksize : TRUE) = b
    BY <2>1
  <2>3. Blk = Clamp(b) /\ b \in Int
    BY <1>3, <2>1, <2>2, SizeAssumption DEF Blk
  <2>4. QED  BY <1>1, <2>3, SizeAssumption DEF Clamp
<1>4. QED  BY <1>2, <1>3

\* A step that leaves the request alone leaves the block layout alone.
LEMMA LayoutFixed ==
  ASSUME UNCHANGED request
  PROVE  Blk' = Blk /\ NBlocks' = NBlocks /\ size' = size /\ opts' = opts
BY DEF request, Blk, NBlocks

\* The budget depends on the request and the round only.
LEMMA BudgetFixed ==
  ASSUME UNCHANGED request, n' = n
  PROVE  Budget' = Budget
BY DEF request, Budget, IsFinal, Want, Blk

\* A retry budget is a natural number.
LEMMA BudgetNat == Budget \in Nat /\ Budget' \in Nat
BY RetryAssumption DEF Budget

\* The last block is the one that ends the file, and only that one.
LEMMA LastBlock ==
  ASSUME TypeOK, n > 0, (n - 1) * Blk <= size
  PROVE  /\ n * Blk = (n - 1) * Blk + Blk
         /\ IsFinal(n) => /\ NBlocks = n /\ n * Blk > size
                          /\ (n - 1) * Blk + Want(n) = size
         /\ ~IsFinal(n) => /\ n < NBlocks /\ n * Blk <= size
                           /\ (n - 1) * Blk + Want(n) = n * Blk
<1>1. Blk \in Nat /\ Blk > 0 /\ size \in Nat /\ n \in Nat /\ n - 1 \in Nat
  BY BlkPositive DEF TypeOK
<1>2. n * Blk = (n - 1) * Blk + Blk /\ (n - 1) * Blk \in Nat /\ n * Blk \in Nat
  <2>1. (n - 1) * Blk \in Nat /\ ((n - 1) + 1) * Blk = (n - 1) * Blk + Blk
    BY <1>1, Products
  <2>2. (n - 1) + 1 = n  BY <1>1
  <2>3. QED  BY <2>1, <2>2, <1>1
<1>3. ASSUME IsFinal(n)
      PROVE  NBlocks = n /\ n * Blk > size /\ (n - 1) * Blk + Want(n) = size
  <2>1. size < (n - 1) * Blk + Blk /\ (n - 1) * Blk + Want(n) = size
    BY <1>1, <1>2, <1>3 DEF IsFinal, Want
  <2>2. size \div Blk = n - 1
    BY <1>1, <2>1, Quotient
  <2>3. QED  BY <1>1, <1>2, <2>1, <2>2 DEF NBlocks
<1>4. ASSUME ~IsFinal(n)
      PROVE  n < NBlocks /\ n * Blk <= size /\ (n - 1) * Blk + Want(n) = n * Blk
  <2>1. n * Blk <= size /\ (n - 1) * Blk + Want(n) = n * Blk
    BY <1>1, <1>2, <1>4 DEF IsFinal, Want
  <2>2. size \div Blk >= n /\ size \div Blk \in Nat
    BY <1>1, <2>1, Quotient
  <2>3. QED  BY <1>1, <2>1, <2>2 DEF NBlocks
<1>5. QED  BY <1>2, <1>3, <1>4

-----------------------------------------------------------------------------
(* What a matching block number means while no datagram is a lap old.      *)

\* RecvAck: the ACK that ends the wait is for the block that was sent.
LEMMA AckMeansHeld ==
  ASSUME IInv, NEW m \in net, m.type = "ACK", BlockNo(m.n) = BlockNo(n)
  PROVE  Len(rcvd) = n
<1>1. m.n \in Nat /\ n \in Nat /\ Len(rcvd) \in Nat
  BY DEF IInv, TypeOK
<1>2. m.n + Life > n /\ m.n <= Len(rcvd) /\ Len(rcvd) <= n
  BY DEF IInv, NetInStep, InStep
<1>3. Wrap \in Nat /\ Wrap > 0 /\ n - m.n < Wrap /\ m.n <= n
  BY <1>1, <1>2, NetworkAssumption
<1>4. m.n = n
  BY <1>1, <1>3, SameResidue DEF BlockNo
<1>5. QED  BY <1>1, <1>2, <1>4

\* ClientTakes: the block the client takes is the next one of the file.
LEMMA TakenIsNext ==
  ASSUME IInv, NEW m \in net, m.type = "DATA",
         BlockNo(m.n) = BlockNo(Len(rcvd) + 1)
  PROVE  m.n = Len(rcvd) + 1 /\ n = Len(rcvd) + 1
<1>1. m.n \in Nat /\ n \in Nat /\ Len(rcvd) \in Nat
  BY DEF IInv, TypeOK
<1>2. /\ m.n + Life > n /\ m.n <= n
      /\ n - 1 <= Len(rcvd) /\ Len(rcvd) <= n
  BY DEF IInv, NetInStep, InStep
<1>3. /\ Wrap \in Nat /\ Wrap > 0
      /\ Len(rcvd) + 1 \in Nat /\ m.n <= Len(rcvd) + 1
      /\ (Len(rcvd) + 1) - m.n < Wrap
  BY <1>1, <1>2, NetworkAssumption
<1>4. m.n = Len(rcvd) + 1
  BY <1>1, <1>3, SameResidue DEF BlockNo
<1>5. QED  BY <1>1, <1>2, <1>4

-----------------------------------------------------------------------------
(* The inductive invariant.                                                *)

\* A server that has not yet been asked anything satisfies the invariant.
LEMMA InitIInv == Init => IInv
<1> SUFFICES ASSUME Init PROVE IInv
  OBVIOUS
<1>0. SocketsOK
  BY Zenon DEF Init, SocketsOK
<1>1. TypeOK
  BY <1>0 DEF Init, TypeOK, Results
<1>2. Blk \in Nat /\ size \in Nat
  BY <1>1, BlkPositive
<1>3. InOrder /\ InStep /\ NetInStep /\ WithinFile /\ ResultIsTrue
  BY <1>2 DEF Init, InOrder, InStep, NetInStep, WithinFile, ResultIsTrue
<1>4. Accounts
  BY <1>2 DEF Init, Accounts, Early
<1>5. QED  BY <1>1, <1>3, <1>4 DEF IInv

\* Every step of the handler, of Shutdown and of the client preserves it.
LEMMA NextIInv == IInv /\ [Next]_vars => IInv'
<1> SUFFICES ASSUME IInv, [Next]_vars PROVE IInv'
  OBVIOUS
<1> USE DEF request, accounting, sockets, clientVars
<1>0. /\ Blk \in Nat /\ Blk > 0 /\ size \in Nat
      /\ n \in Nat /\ Len(rcvd) \in Nat /\ n * Blk \in Nat /\ Len(rcvd) * Blk \in Nat
      /\ n > 0 => n - 1 \in Nat /\ (n - 1) * Blk \in Nat
  BY BlkPositive, Products DEF IInv, TypeOK
<1>1. UNCHANGED request
  BY DEF Next, Handler, Client, vars, Serve, Refuse, OpenFile, OpenFails, ListenAndTrack,
     ListenFails, NextBlock, ReadFails, Send, SendFails, RecvAck, RecvError, ReadTimeout,
     Finish, Shutdown, ClientOack, ClientTakes, ClientRepeats, ClientStops
<1>2. Blk' = Blk /\ NBlocks' = NBlocks /\ size' = size /\ opts' = opts
  BY <1>1, LayoutFixed
<1>3. n' = n => Budget' = Budget
  BY <1>1, BudgetFixed
<1>s. SocketsOK'
  BY Zenon DEF IInv, TypeOK, SocketsOK, Next, Handler, Client, vars, Serve, Refuse, OpenFile,
     OpenFails, ListenAndTrack, ListenFails, NextBlock, ReadFails, Send, SendFails, RecvAck,
     RecvError, ReadTimeout, Finish, Shutdown, ClientOack, ClientTakes, ClientRepeats,
     ClientStops
<1>4. CASE Serve \/ OpenFile \/ ListenAndTrack \/ ListenFails
  <2> USE <1>0, <1>2, <1>3, <1>4 DEF Serve, OpenFile, ListenAndTrack, ListenFails, IInv
  <2>1. TypeOK'
    BY <1>s, BudgetNat DEF TypeOK, InStep, Early
  <2>2. InOrder'
    BY DEF InOrder
  <2>3. InStep'
    BY DEF InStep, Early
  <2>4. NetInStep'
    BY DEF NetInStep
  <2>5. WithinFile'
    BY DEF WithinFile, InStep, Early
  <2>6. Accounts'
    BY DEF Accounts, Early, InStep, TypeOK
  <2>7. ResultIsTrue'
    BY DEF ResultIsTrue, InStep, Early
  <2>8. QED  BY <2>1, <2>2, <2>3, <2>4, <2>5, <2>6, <2>7
<1>5. CASE Refuse \/ OpenFails
  <2> USE <1>0, <1>2, <1>3, <1>5 DEF Refuse, OpenFails, IInv
  <2>1. TypeOK'
    BY <1>s, BudgetNat DEF TypeOK, InStep, Early, Types, Msg, Results
  <2>2. InOrder'
    BY DEF InOrder
  <2>3. InStep'
    BY DEF InStep, Early
  <2>4. NetInStep'
    BY NetworkAssumption DEF NetInStep, Msg, InStep, Early
  <2>5. WithinFile'
    BY DEF WithinFile, InStep, Early
  <2>6. Accounts'
    BY DEF Accounts, Early, InStep, TypeOK
  <2>7. ResultIsTrue'
    BY DEF ResultIsTrue, InStep, Early
  <2>8. QED  BY <2>1, <2>2, <2>3, <2>4, <2>5, <2>6, <2>7
<1>6. CASE NextBlock
  <2> USE <1>0, <1>2, <1>3, <1>6 DEF NextBlock, IInv
  <2>a. (n + 1) * Blk = n * Blk + Blk /\ (n + 1) - 1 = n /\ Want(n + 1) \in Nat
        /\ n * Blk + Want(n + 1) = IF (n + 1) * Blk > size THEN size ELSE (n + 1) * Blk
    BY Products DEF Want, WithinFile
  <2>b. \A m \in net : m.n \in Nat
    BY DEF TypeOK
  <2>1. TypeOK'
    BY <1>s, <2>a, BudgetNat DEF TypeOK, Unexpired
  <2>2. InOrder'
    BY DEF InOrder
  <2>3. InStep'
    BY DEF InStep, Early
  <2>4. NetInStep'
    BY <2>b DEF NetInStep, Unexpired, InStep
  <2>5. WithinFile'
    BY <2>a DEF WithinFile, InStep
  <2>6. Accounts'
    BY <2>a DEF Accounts, InStep, Early, WithinFile, TypeOK
  <2>7. ResultIsTrue'
    BY DEF ResultIsTrue, InStep, Early
  <2>8. QED  BY <2>1, <2>2, <2>3, <2>4, <2>5, <2>6, <2>7
<1>7. CASE ReadFails
  <2> USE <1>0, <1>2, <1>3, <1>7 DEF ReadFails, Finish, IInv
  <2>1. TypeOK'
    BY <1>s, BudgetNat DEF TypeOK, InStep, Early, Types, Msg, Results
  <2>2. InOrder'
    BY DEF InOrder
  <2>3. InStep'
    BY DEF InStep, Early
  <2>4. NetInStep'
    BY NetworkAssumption DEF NetInStep, Msg, InStep, Early
  <2>5. WithinFile'
    BY DEF WithinFile, InStep, Early
  <2>6. Accounts'
    BY DEF Accounts, Early, InStep, TypeOK
  <2>7. ResultIsTrue'
    BY DEF ResultIsTrue, InStep, Early
  <2>8. QED  BY <2>1, <2>2, <2>3, <2>4, <2>5, <2>6, <2>7
<1>8. CASE Send
  <2> USE <1>0, <1>2, <1>3, <1>8 DEF Send, IInv
  <2>1. TypeOK'
    BY <1>s, BudgetNat DEF TypeOK, InStep, Early, Types, Msg, Results
  <2>2. InOrder'
    BY DEF InOrder
  <2>3. InStep'
    BY DEF InStep, Early
  <2>4. NetInStep'
    BY NetworkAssumption DEF NetInStep, Msg, InStep, Early
  <2>5. WithinFile'
    BY DEF WithinFile, InStep, Early
  <2>6. Accounts'
    BY DEF Accounts, Early, InStep, TypeOK
  <2>7. ResultIsTrue'
    BY DEF ResultIsTrue, InStep, Early
  <2>8. QED  BY <2>1, <2>2, <2>3, <2>4, <2>5, <2>6, <2>7
<1>9. CASE SendFails \/ RecvError
  <2> USE <1>0, <1>2, <1>3, <1>9 DEF SendFails, RecvError, Finish, IInv
  <2>1. TypeOK'
    <3>1. /\ pc' = "done" /\ result' = "aborted" /\ resendTotal' = resendTotal + attempt
          /\ UNCHANGED <<n, attempt, blocksSent, bytesSent, bytesAcked, net, client, rcvd>>
      OBVIOUS
    <3>2. QED  BY <3>1, <1>s DEF TypeOK, Results
  <2>2. InOrder'
    BY DEF InOrder
  <2>3. InStep'
    BY DEF InStep, Early
  <2>4. NetInStep'
    BY NetworkAssumption DEF NetInStep, Msg, InStep, Early
  <2>5. WithinFile'
    BY DEF WithinFile, InStep, Early
  <2>6. Accounts'
    BY DEF Accounts, Early, InStep, TypeOK
  <2>7. ResultIsTrue'
    BY DEF ResultIsTrue, InStep, Early
  <2>8. QED  BY <2>1, <2>2, <2>3, <2>4, <2>5, <2>6, <2>7
<1>10. CASE Shutdown
  <2> USE <1>0, <1>2, <1>3, <1>10 DEF Shutdown, IInv
  <2>1. TypeOK'
    BY <1>s, BudgetNat DEF TypeOK, InStep, Early
  <2>2. InOrder'
    BY DEF InOrder
  <2>3. InStep'
    BY DEF InStep, Early
  <2>4. NetInStep'
    BY NetworkAssumption DEF NetInStep, Msg, InStep, Early
  <2>5. WithinFile'
    BY DEF WithinFile, InStep, Early
  <2>6. Accounts'
    BY DEF Accounts, Early, InStep, TypeOK
  <2>7. ResultIsTrue'
    BY DEF ResultIsTrue, InStep, Early
  <2>8. QED  BY <2>1, <2>2, <2>3, <2>4, <2>5, <2>6, <2>7
<1>11. CASE ClientOack
  <2> USE <1>0, <1>2, <1>3, <1>11 DEF ClientOack, IInv
  <2>1. TypeOK'
    BY <1>s, BudgetNat DEF TypeOK, InStep, Early, Types, Msg, Results
  <2>2. InOrder'
    BY DEF InOrder
  <2>3. InStep'
    BY DEF InStep, Early
  <2>4. NetInStep'
    BY NetworkAssumption DEF NetInStep, Msg, InStep, Early
  <2>5. WithinFile'
    BY DEF WithinFile, InStep, Early
  <2>6. Accounts'
    BY DEF Accounts, Early, InStep, TypeOK
  <2>7. ResultIsTrue'
    BY DEF ResultIsTrue, InStep, Early
  <2>8. QED  BY <2>1, <2>2, <2>3, <2>4, <2>5, <2>6, <2>7
<1>12. CASE ClientStops
  <2> USE <1>0, <1>2, <1>3, <1>12 DEF ClientStops, IInv
  <2>1. TypeOK'
    BY <1>s, BudgetNat DEF TypeOK, InStep, Early, Types, Msg, Results
  <2>2. InOrder'
    BY DEF InOrder
  <2>3. InStep'
    BY DEF InStep, Early
  <2>4. NetInStep'
    BY NetworkAssumption DEF NetInStep, Msg, InStep, Early
  <2>5. WithinFile'
    BY DEF WithinFile, InStep, Early
  <2>6. Accounts'
    BY DEF Accounts, Early, InStep, TypeOK
  <2>7. ResultIsTrue'
    BY DEF ResultIsTrue, InStep, Early
  <2>8. QED  BY <2>1, <2>2, <2>3, <2>4, <2>5, <2>6, <2>7
<1>13. CASE UNCHANGED vars
  <2> USE <1>0, <1>2, <1>3, <1>13 DEF vars, IInv
  <2>1. TypeOK'
    BY <1>s, BudgetNat DEF TypeOK, InStep, Early
  <2>2. InOrder'
    BY DEF InOrder
  <2>3. InStep'
    BY DEF InStep, Early
  <2>4. NetInStep'
    BY NetworkAssumption DEF NetInStep, Msg, InStep, Early
  <2>5. WithinFile'
    BY DEF WithinFile, InStep, Early
  <2>6. Accounts'
    BY DEF Accounts, Early, InStep, TypeOK
  <2>7. ResultIsTrue'
    BY DEF ResultIsTrue, InStep, Early
  <2>8. QED  BY <2>1, <2>2, <2>3, <2>4, <2>5, <2>6, <2>7
<1>14. CASE RecvAck
  <2> USE <1>0, <1>2, <1>3 DEF IInv
  <2>1. Len(rcvd) = n /\ pc = "wait"
    BY <1>14, AckMeansHeld DEF RecvAck
  <2>2. CASE n = 0 \/ ~IsFinal(n)
    <3>1. /\ pc' = "next" /\ n' = n /\ attempt' = attempt /\ rcvd' = rcvd /\ net' = net
          /\ result' = result /\ client' = client /\ blocksSent' = blocksSent
          /\ bytesSent' = bytesSent /\ resendTotal' = resendTotal + attempt
      BY <1>14, <2>2 DEF RecvAck, IsFinal
    <3>2. bytesAcked' = n * Blk /\ n * Blk <= size
      BY <1>14, <2>1, <2>2, LastBlock DEF RecvAck, Accounts, WithinFile
    <3>3. TypeOK'
      BY <3>1, <3>2, <1>s DEF TypeOK
    <3>4. InOrder' /\ InStep' /\ NetInStep' /\ WithinFile' /\ ResultIsTrue'
      BY <2>1, <3>1, <3>2
         DEF InOrder, InStep, NetInStep, WithinFile, ResultIsTrue, Early
    <3>5. Accounts'
      BY <2>1, <3>1, <3>2 DEF Accounts, Early
    <3>6. QED  BY <3>3, <3>4, <3>5
  <2>3. CASE n > 0 /\ IsFinal(n)
    <3>1. /\ pc' = "done" /\ n' = n /\ attempt' = attempt /\ rcvd' = rcvd /\ net' = net
          /\ result' = "ok" /\ client' = client /\ blocksSent' = blocksSent
          /\ bytesSent' = bytesSent /\ resendTotal' = resendTotal + attempt
      BY <1>14, <2>3 DEF RecvAck, Finish
    <3>2. bytesAcked' = size /\ NBlocks = n /\ n * Blk > size
      BY <1>14, <2>1, <2>3, LastBlock DEF RecvAck, Accounts, WithinFile
    <3>3. TypeOK'
      BY <3>1, <3>2, <1>s DEF TypeOK, Results
    <3>4. InOrder' /\ InStep' /\ NetInStep' /\ WithinFile'
      BY <2>1, <3>1, <3>2 DEF InOrder, InStep, NetInStep, WithinFile, Early
    <3>5. Accounts' /\ ResultIsTrue'
      BY <2>1, <3>1, <3>2 DEF Accounts, ResultIsTrue, Early
    <3>6. QED  BY <3>3, <3>4, <3>5
  <2>4. QED  BY <2>2, <2>3
<1>15. CASE ReadTimeout
  <2> USE <1>0, <1>2, <1>3, <1>15 DEF IInv, ReadTimeout, Finish
  <2>1. TypeOK'
    <3>1. CASE attempt < Budget
      BY <3>1, <1>s, BudgetNat DEF TypeOK
    <3>2. CASE ~(attempt < Budget)
      <4>1. /\ pc' = "done" /\ result' \in {"unacked_final", "gaveup"}
            /\ resendTotal' = resendTotal + attempt
            /\ UNCHANGED <<n, attempt, blocksSent, bytesSent, bytesAcked, net, client, rcvd>>
        BY <3>2
      <4>2. QED  BY <4>1, <1>s DEF TypeOK, Results
    <3>3. QED  BY <3>1, <3>2
  <2>2. InOrder' /\ InStep' /\ NetInStep' /\ WithinFile'
    BY DEF InOrder, InStep, NetInStep, WithinFile, Early
  <2>3. Accounts'
    BY DEF Accounts, Early, TypeOK
  <2>4. ResultIsTrue'
    <3>1. CASE n = 0
      BY <3>1 DEF ResultIsTrue, IsFinal, Accounts, NBlocks
    <3>2. CASE n > 0
      BY <3>2, LastBlock DEF ResultIsTrue, Accounts, WithinFile
    <3>3. QED  BY <3>1, <3>2
  <2>5. QED  BY <2>1, <2>2, <2>3, <2>4
<1>16. CASE ClientTakes
  <2> USE <1>0, <1>2, <1>3 DEF IInv
  <2>1. PICK m \in net :
          /\ m.type = "DATA"
          /\ BlockNo(m.n) = BlockNo(Len(rcvd) + 1)
          /\ rcvd' = Append(rcvd, m.n)
          /\ client' = IF IsFinal(m.n) THEN "complete" ELSE "active"
          /\ net' = net \cup {Msg("ACK", m.n)}
    BY <1>16 DEF ClientTakes
  <2>2. m.n = Len(rcvd) + 1 /\ n = Len(rcvd) + 1
    BY <2>1, TakenIsNext
  <2>3. rcvd \in Seq(Nat) /\ Len(rcvd') = n /\ rcvd' \in Seq(Nat)
    BY <2>1, <2>2 DEF TypeOK
  <2>4. /\ pc' = pc /\ n' = n /\ attempt' = attempt /\ result' = result
        /\ UNCHANGED accounting
    BY <1>16 DEF ClientTakes
  <2>5. TypeOK'
    BY <2>1, <2>2, <2>3, <2>4, <1>s DEF TypeOK, Types, Msg
  <2>6. InOrder'
    BY <2>1, <2>2, <2>3 DEF InOrder
  <2>7. InStep' /\ WithinFile'
    BY <2>2, <2>3, <2>4 DEF InStep, WithinFile, Early
  <2>8. NetInStep'
    BY <2>1, <2>2, <2>3, <2>4, NetworkAssumption DEF NetInStep, Msg, TypeOK
  <2>9. Accounts'
    BY <2>2, <2>3, <2>4, Products DEF Accounts, Early, TypeOK
  <2>10. ResultIsTrue'
    BY <2>2, <2>3, <2>4 DEF ResultIsTrue, Accounts, TypeOK
  <2>11. QED  BY <2>5, <2>6, <2>7, <2>8, <2>9, <2>10
<1>17. CASE ClientRepeats
  <2> USE <1>0, <1>2, <1>3 DEF IInv
  <2>1. PICK m \in net :
          /\ m.type = "DATA"
          /\ BlockNo(m.n) = BlockNo(Len(rcvd))
          /\ net' = net \cup {Msg("ACK", m.n)}
    BY <1>17 DEF ClientRepeats
  <2>2. m.n \in Nat /\ m.n <= n /\ m.n + Life > n /\ n - 1 <= Len(rcvd)
    BY <2>1 DEF TypeOK, NetInStep, InStep
  <2>3. m.n <= Len(rcvd)
    <3>1. SUFFICES ASSUME m.n = Len(rcvd) + 1 PROVE FALSE
      BY <2>2
    <3>2. QED
      BY <2>1, <3>1, SameResidue, NetworkAssumption DEF BlockNo
  <2>4. /\ pc' = pc /\ n' = n /\ attempt' = attempt /\ result' = result
        /\ UNCHANGED accounting /\ rcvd' = rcvd /\ client' = client
    BY <1>17 DEF ClientRepeats
  <2>5. TypeOK'
    BY <2>1, <2>2, <2>4, <1>s DEF TypeOK, Types, Msg
  <2>6. InOrder' /\ InStep' /\ WithinFile' /\ Accounts' /\ ResultIsTrue'
    BY <2>4 DEF InOrder, InStep, WithinFile, Accounts, ResultIsTrue, Early
  <2>7. NetInStep'
    BY <2>1, <2>2, <2>3, <2>4 DEF NetInStep, Msg
  <2>8. QED  BY <2>5, <2>6, <2>7
<1>18. QED
  BY <1>4, <1>5, <1>6, <1>7, <1>8, <1>9, <1>10, <1>11, <1>12, <1>13, <1>14, <1>15, <1>16,
     <1>17
     DEF Next, Handler, Client

\* The invariant of the transfer holds for every size, option, loss and delay.
THEOREM Invariance == Spec => []IInv
BY InitIInv, NextIInv, PTL DEF Spec

-----------------------------------------------------------------------------
(* The properties.                                                         *)

\* TypeOK: no round of sendAndWaitAck outlives its retry budget.
THEOREM TypeCorrect == Spec => []TypeOK
<1>1. IInv => TypeOK  BY DEF IInv
<1>2. QED  BY <1>1, Invariance, PTL

\* InOrder: the client's copy is a prefix of the file, for every wrap-around of
\* the block number longer than the life of a datagram.
THEOREM PrefixDelivered == Spec => []InOrder
<1>1. IInv => InOrder  BY DEF IInv
<1>2. QED  BY <1>1, Invariance, PTL

\* ResultIsTrue: the result serveFile records is true of the transfer.
THEOREM RecordedResult == Spec => []ResultIsTrue
<1>1. IInv => ResultIsTrue  BY DEF IInv
<1>2. QED  BY <1>1, Invariance, PTL

\* CountsBracketTruth: bytesAcked and bytesSent bracket what the client holds.
THEOREM RecordedCounts == Spec => []CountsBracketTruth
<1>1. ASSUME IInv PROVE CountsBracketTruth
  <2>1. /\ Blk \in Nat /\ size \in Nat /\ n \in Nat /\ Len(rcvd) \in Nat
        /\ Len(rcvd) <= n /\ bytesAcked \in Nat
    BY <1>1, BlkPositive DEF IInv, TypeOK, InStep
  <2>2. Len(rcvd) * Blk <= n * Blk /\ Len(rcvd) * Blk \in Nat /\ n * Blk \in Nat
    BY <2>1, Products
  <2>3. QED
    BY <1>1, <2>1, <2>2 DEF IInv, Accounts, CountsBracketTruth, Held
<1>2. QED  BY <1>1, Invariance, PTL

-----------------------------------------------------------------------------
(* The refinement.                                                         *)

\* The server never starts a block past the last.
LEMMA RoundsBounded ==
  ASSUME IInv
  PROVE  NBlocks \in Nat \ {0} /\ n <= NBlocks /\ n \in Nat /\ Len(rcvd) \in Nat
<1>1. Blk \in Nat /\ Blk > 0 /\ size \in Nat /\ n \in Nat /\ Len(rcvd) \in Nat
  BY BlkPositive DEF IInv, TypeOK
<1>2. NBlocks \in Nat \ {0}
  BY <1>1, Quotient DEF NBlocks
<1>3. n <= NBlocks
  <2>1. CASE n = 0
    BY <1>1, <1>2, <2>1
  <2>2. CASE n > 0
    BY <1>1, <1>2, <2>2, LastBlock DEF IInv, WithinFile
  <2>3. QED  BY <1>1, <2>1, <2>2
<1>4. QED  BY <1>1, <1>2, <1>3

\* A step moves the client by one block, or ends the handler, or does neither.
LEMMA StepShapes ==
  ASSUME IInv, [Next]_vars
  PROVE  /\ UNCHANGED request
         /\ \/ /\ rcvd' = rcvd
               /\ \/ pc' = pc /\ result' = result
                  \/ pc # "done" /\ pc' # "done"
                  \/ pc # "done" /\ pc' = "done" /\ result' \in Results
            \/ /\ pc' = pc /\ result' = result
               /\ Len(rcvd') = Len(rcvd) + 1 /\ n = Len(rcvd) + 1
<1> USE DEF request, accounting, sockets, clientVars, Results
<1>1. CASE ClientTakes
  <2>1. PICK m \in net :
          /\ m.type = "DATA"
          /\ BlockNo(m.n) = BlockNo(Len(rcvd) + 1)
          /\ rcvd' = Append(rcvd, m.n)
    BY <1>1 DEF ClientTakes
  <2>2. n = Len(rcvd) + 1 /\ m.n \in Nat /\ rcvd \in Seq(Nat)
    BY <2>1, TakenIsNext DEF IInv, TypeOK
  <2>3. QED  BY <1>1, <2>1, <2>2 DEF ClientTakes
<1>2. CASE Handler
  BY <1>2 DEF Handler, Serve, Refuse, OpenFile, OpenFails, ListenAndTrack, ListenFails,
     NextBlock, ReadFails, Send, SendFails, RecvAck, RecvError, ReadTimeout, Finish, IInv,
     TypeOK
<1>3. CASE Shutdown \/ ClientOack \/ ClientRepeats \/ ClientStops \/ UNCHANGED vars
  BY <1>3 DEF Shutdown, ClientOack, ClientRepeats, ClientStops, vars
<1>4. QED  BY <1>1, <1>2, <1>3 DEF Next, Client

\* Every step of the transfer, seen through the mapping of Promise, is a step of
\* FileDelivery or a stutter: the recorded result never overstates delivery.
THEOREM Refinement == Spec => Delivery
<1>1. Init => Promise!Init
  <2> SUFFICES ASSUME Init PROVE Promise!Init
    OBVIOUS
  <2>1. NBlocks \in Nat \ {0}
    BY InitIInv, RoundsBounded
  <2>2. QED  BY <2>1 DEF Init, Promise!Init
<1>2. IInv /\ IInv' /\ [Next]_vars => [Promise!Next]_(Promise!vars)
  <2> SUFFICES ASSUME IInv, IInv', [Next]_vars PROVE [Promise!Next]_(Promise!vars)
    OBVIOUS
  <2>0. /\ UNCHANGED request
        /\ \/ /\ rcvd' = rcvd
              /\ \/ pc' = pc /\ result' = result
                 \/ pc # "done" /\ pc' # "done"
                 \/ pc # "done" /\ pc' = "done" /\ result' \in Results
           \/ /\ pc' = pc /\ result' = result
              /\ Len(rcvd') = Len(rcvd) + 1 /\ n = Len(rcvd) + 1
    BY StepShapes
  <2>1. NBlocks' = NBlocks
    BY <2>0, LayoutFixed
  <2>2. NBlocks \in Nat \ {0} /\ n <= NBlocks /\ n \in Nat /\ Len(rcvd) \in Nat
    BY RoundsBounded
  <2>3. CASE pc' = pc /\ result' = result /\ Len(rcvd') = Len(rcvd) + 1 /\ n = Len(rcvd) + 1
    <3>1. Promise!Deliver
      BY <2>1, <2>2, <2>3 DEF Promise!Deliver
    <3>2. QED  BY <3>1 DEF Promise!Next
  <2>4. CASE rcvd' = rcvd /\ ((pc' = pc /\ result' = result) \/ (pc # "done" /\ pc' # "done"))
    BY <2>1, <2>4 DEF Promise!vars
  <2>5. CASE rcvd' = rcvd /\ pc # "done" /\ pc' = "done" /\ result' \in Results
    <3>1. result' = "ok" => Len(rcvd) = NBlocks
      BY <2>1, <2>5 DEF IInv, ResultIsTrue
    <3>2. result' = "unacked_final" => Len(rcvd) >= NBlocks - 1
      <4>1. ASSUME result' = "unacked_final" PROVE Len(rcvd) >= NBlocks - 1
        <5>1. n' = NBlocks /\ n' - 1 <= Len(rcvd')
          BY <2>1, <2>5, <4>1 DEF IInv, ResultIsTrue, Accounts, InStep
        <5>2. QED  BY <5>1, <2>5
      <4>2. QED  BY <4>1
    <3>3. Promise!Finish(result')
      BY <2>1, <2>5, <3>1, <3>2 DEF Promise!Finish
    <3>4. result' \in Promise!Failures \cup {"ok", "unacked_final"}
      BY <2>5 DEF Results, Promise!Failures
    <3>5. Promise!Next
      BY <3>3, <3>4 DEF Promise!Next
    <3>6. QED  BY <3>5
  <2>6. QED  BY <2>0, <2>3, <2>4, <2>5
<1>3. QED
  BY <1>1, <1>2, Invariance, PTL DEF Spec, Delivery, Promise!Spec
=============================================================================
