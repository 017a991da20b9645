------------------------- MODULE EvmExecutionProofs -------------------------
(***************************************************************************)
(* Proofs, for any set of calls and any bounds, that execute_swap keeps    *)
(* its records straight and implements SwapOutcome.                        *)
(***************************************************************************)
EXTENDS EvmExecution, SequenceTheorems, TLAPS

\* A recorded transaction carries its call and its position in the record.
RecordsInOrder ==
  \A c \in Calls : \A i \in 1..Len(submitted[c]) :
    submitted[c][i].call = c /\ submitted[c][i].index = i

\* How the control point of a call relates to its record: nothing is in doubt
\* before a transaction is submitted or after it is confirmed, and the record
\* is never longer than the prepared list.
RecordFollowsControl ==
  \A c \in Calls :
    /\ Len(submitted[c]) <= prepared[c].size
    /\ pc[c] \in {"idle", "chain"} => submitted[c] = <<>>
    /\ pc[c] \in {"gas", "nonce", "sign"} =>
         Len(submitted[c]) < prepared[c].size
    /\ pc[c] \in {"submit", "confirm"} => Len(submitted[c]) > 0
    /\ pc[c] \in {"next", "gas", "nonce", "sign"} =>
         \A i \in 1..Len(submitted[c]) : submitted[c][i] \in succeeded
    /\ pc[c] = "done" <=> result[c] # "none"

\* The inductive invariant.
IndInv ==
  /\ TypeOK
  /\ RecordsInOrder
  /\ RecordFollowsControl
  /\ EveryBroadcastRecorded
  /\ OnlyLastInDoubt
  /\ OutcomeMatchesChain

-----------------------------------------------------------------------------
(* Steps that leave the record and the chain alone. *)

\* The last recorded transaction of a call that has one.
LEMMA LastIsRecorded ==
  ASSUME TypeOK, NEW c \in Calls, Len(submitted[c]) > 0
  PROVE  /\ Len(submitted[c]) \in 1..Len(submitted[c])
         /\ Last(c) = submitted[c][Len(submitted[c])]
         /\ Last(c) \in Transaction
<1>1. submitted[c] \in Seq(Transaction)
  BY DEF TypeOK
<1>2. Len(submitted[c]) \in Nat /\ 1..Len(submitted[c]) = 1..Len(submitted[c])
  BY <1>1
<1>3. QED
  BY <1>1, <1>2 DEF Last

LEMMA InitIndInv == Init => IndInv
<1> SUFFICES ASSUME Init PROVE IndInv
  OBVIOUS
<1>1. TypeOK
  BY ConstantsAssumption DEF Init, TypeOK, Control, Filling
<1>2. \A c \in Calls : submitted[c] = <<>> /\ Len(submitted[c]) = 0
  BY DEF Init
<1>4. \A c \in Calls : pc[c] = "idle" /\ result[c] = "none"
  BY DEF Init
<1>5. ASSUME NEW c \in Calls PROVE 0 <= prepared[c].size
  <2>1. prepared[c] \in Prepared
    BY <1>1 DEF TypeOK
  <2>2. QED
    BY <2>1, ConstantsAssumption DEF Prepared
<1>6. RecordFollowsControl
  BY <1>2, <1>4, <1>5 DEF RecordFollowsControl
<1>7. RecordsInOrder /\ OnlyLastInDoubt
  BY <1>2 DEF RecordsInOrder, OnlyLastInDoubt
<1>8. EveryBroadcastRecorded
  BY DEF Init, EveryBroadcastRecorded, Broadcast, Unmined
<1>9. OutcomeMatchesChain
  BY <1>4 DEF OutcomeMatchesChain
<1>10. QED
  BY <1>1, <1>6, <1>7, <1>8, <1>9 DEF IndInv

\* Steps that change only the control point, the outcome and the counters of a
\* call: the record and the chain stay as they are.
LEMMA MoveKeepsRecord ==
  ASSUME IndInv, UNCHANGED <<prepared, submitted, chainVars>>
  PROVE  RecordsInOrder' /\ EveryBroadcastRecorded' /\ OnlyLastInDoubt'
BY DEF IndInv, RecordsInOrder, EveryBroadcastRecorded, OnlyLastInDoubt,
       Broadcast, Unmined, chainVars

LEMMA StartKeeps ==
  ASSUME IndInv, NEW c \in Calls, Start(c)
  PROVE  IndInv'
<1>1. TypeOK'
  BY DEF IndInv, TypeOK, Start, Finish, Goto, Control, Filling, Errors,
         chainVars
<1>2. RecordsInOrder' /\ EveryBroadcastRecorded' /\ OnlyLastInDoubt'
  BY MoveKeepsRecord DEF Start
<1>3. RecordFollowsControl'
  <2>1. /\ pc[c] = "idle" /\ result[c] = "none" /\ submitted[c] = <<>>
        /\ \/ pc'[c] = "chain" /\ result'[c] = "none"
           \/ pc'[c] = "done" /\ result'[c] = "wrong chain"
    BY DEF IndInv, TypeOK, RecordFollowsControl, Start, Finish, Goto
  <2>2. \A d \in Calls \ {c} : pc'[d] = pc[d] /\ result'[d] = result[d]
    BY DEF IndInv, TypeOK, Start, Finish, Goto
  <2>3. UNCHANGED <<submitted, prepared, succeeded>>
    BY DEF Start, chainVars
  <2>4. QED
    BY <2>1, <2>2, <2>3 DEF IndInv, RecordFollowsControl
<1>4. OutcomeMatchesChain'
  BY DEF IndInv, TypeOK, RecordFollowsControl, OutcomeMatchesChain,
         Start, Finish, Goto, Control, Filling, chainVars, Last
<1>5. QED
  BY <1>1, <1>2, <1>3, <1>4 DEF IndInv

LEMMA CheckNodeChainKeeps ==
  ASSUME IndInv, NEW c \in Calls, CheckNodeChain(c)
  PROVE  IndInv'
<1>1. TypeOK'
  BY DEF IndInv, TypeOK, CheckNodeChain, Finish, Goto, Control, Filling, Errors,
         chainVars
<1>2. RecordsInOrder' /\ EveryBroadcastRecorded' /\ OnlyLastInDoubt'
  BY MoveKeepsRecord DEF CheckNodeChain
<1>3. RecordFollowsControl'
  <2>1. /\ pc[c] = "chain" /\ result[c] = "none"
        /\ \/ pc'[c] = "next" /\ result'[c] = "none"
           \/ pc'[c] = "done" /\ result'[c] # "none"
    BY DEF IndInv, TypeOK, RecordFollowsControl, CheckNodeChain, Finish, Goto,
           Control, Filling
  <2>2. \A d \in Calls \ {c} : pc'[d] = pc[d] /\ result'[d] = result[d]
    BY DEF IndInv, TypeOK, CheckNodeChain, Finish, Goto
  <2>3. UNCHANGED <<submitted, prepared, succeeded>>
    BY DEF CheckNodeChain, chainVars
  <2>4. submitted[c] = <<>> /\ Len(submitted[c]) = 0
    BY <2>1 DEF IndInv, RecordFollowsControl
  <2>5. QED
    BY <2>1, <2>2, <2>3, <2>4 DEF IndInv, RecordFollowsControl
<1>4. OutcomeMatchesChain'
  <2>1. /\ submitted[c] = <<>> /\ result[c] = "none"
        /\ result'[c] \in {"none", "wrong chain", "rpc"}
    BY DEF IndInv, TypeOK, RecordFollowsControl, CheckNodeChain, Finish, Goto,
           Control, Filling
  <2>2. \A d \in Calls \ {c} : result'[d] = result[d]
    BY DEF IndInv, TypeOK, CheckNodeChain, Finish, Goto
  <2>3. UNCHANGED <<submitted, prepared, succeeded, reverted>>
    BY DEF CheckNodeChain, chainVars
  <2>4. QED
    BY <2>1, <2>2, <2>3 DEF IndInv, OutcomeMatchesChain, Last
<1>5. QED
  BY <1>1, <1>2, <1>3, <1>4 DEF IndInv

LEMMA NextTransactionKeeps ==
  ASSUME IndInv, NEW c \in Calls, NextTransaction(c)
  PROVE  IndInv'
<1>1. TypeOK'
  BY DEF IndInv, TypeOK, NextTransaction, Finish, Goto, Control, Filling, Errors,
         chainVars
<1>2. RecordsInOrder' /\ EveryBroadcastRecorded' /\ OnlyLastInDoubt'
  BY MoveKeepsRecord DEF NextTransaction
<1>3. RecordFollowsControl'
  BY DEF IndInv, TypeOK, RecordFollowsControl, OnlyLastInDoubt,
         NextTransaction, Finish,
         Goto, Control, Filling, chainVars
<1>4. OutcomeMatchesChain'
  BY DEF IndInv, TypeOK, RecordFollowsControl, OutcomeMatchesChain,
         NextTransaction, Finish, Goto, Control, Filling, chainVars, Last
<1>5. QED
  BY <1>1, <1>2, <1>3, <1>4 DEF IndInv

LEMMA FillGasKeeps ==
  ASSUME IndInv, NEW c \in Calls, FillGas(c)
  PROVE  IndInv'
<1>1. TypeOK'
  BY DEF IndInv, TypeOK, FillGas, Finish, Goto, Control, Filling, Errors,
         chainVars
<1>2. RecordsInOrder' /\ EveryBroadcastRecorded' /\ OnlyLastInDoubt'
  BY MoveKeepsRecord DEF FillGas
<1>3. RecordFollowsControl'
  BY DEF IndInv, TypeOK, RecordFollowsControl, OnlyLastInDoubt, FillGas, Finish,
         Goto, Control, Filling, chainVars
<1>4. OutcomeMatchesChain'
  BY DEF IndInv, TypeOK, RecordFollowsControl, OutcomeMatchesChain,
         FillGas, Finish, Goto, Control, Filling, chainVars, Last
<1>5. QED
  BY <1>1, <1>2, <1>3, <1>4 DEF IndInv

LEMMA FillNonceKeeps ==
  ASSUME IndInv, NEW c \in Calls, FillNonce(c)
  PROVE  IndInv'
<1>1. TypeOK'
  BY DEF IndInv, TypeOK, FillNonce, Finish, Goto, Control, Filling, Errors,
         chainVars
<1>2. RecordsInOrder' /\ EveryBroadcastRecorded' /\ OnlyLastInDoubt'
  BY MoveKeepsRecord DEF FillNonce
<1>3. RecordFollowsControl'
  BY DEF IndInv, TypeOK, RecordFollowsControl, OnlyLastInDoubt, FillNonce, Finish,
         Goto, Control, Filling, chainVars
<1>4. OutcomeMatchesChain'
  BY DEF IndInv, TypeOK, RecordFollowsControl, OutcomeMatchesChain,
         FillNonce, Finish, Goto, Control, Filling, chainVars, Last
<1>5. QED
  BY <1>1, <1>2, <1>3, <1>4 DEF IndInv

LEMMA ReceiptFoundKeeps ==
  ASSUME IndInv, NEW c \in Calls, ReceiptFound(c)
  PROVE  IndInv'
<1>1. TypeOK'
  BY DEF IndInv, TypeOK, ReceiptFound, Finish, Goto, Control, Filling, Errors,
         chainVars
<1>2. RecordsInOrder' /\ EveryBroadcastRecorded' /\ OnlyLastInDoubt'
  BY MoveKeepsRecord DEF ReceiptFound
<1>3. RecordFollowsControl'
  <2>1. /\ pc[c] = "confirm" /\ result[c] = "none"
        /\ \/ /\ pc'[c] = "next" /\ result'[c] = "none"
              /\ Last(c) \in succeeded
           \/ pc'[c] = "done" /\ result'[c] = "reverted"
    BY DEF IndInv, TypeOK, RecordFollowsControl, ReceiptFound, Finish, Goto,
           Control, Filling
  <2>2. \A d \in Calls \ {c} : pc'[d] = pc[d] /\ result'[d] = result[d]
    BY DEF IndInv, TypeOK, ReceiptFound, Finish, Goto
  <2>3. UNCHANGED <<submitted, prepared, succeeded>>
    BY DEF ReceiptFound, chainVars
  <2>4. Len(submitted[c]) \in Nat
    BY LastIsRecorded, <2>1 DEF IndInv, RecordFollowsControl
  <2>5. Last(c) \in succeeded =>
          \A i \in 1..Len(submitted[c]) : submitted[c][i] \in succeeded
    BY <2>4 DEF IndInv, OnlyLastInDoubt, Last
  <2>6. QED
    BY <2>1, <2>2, <2>3, <2>5 DEF IndInv, RecordFollowsControl
<1>4. OutcomeMatchesChain'
  BY DEF IndInv, TypeOK, RecordFollowsControl, OutcomeMatchesChain,
         ReceiptFound, Finish, Goto, Control, Filling, chainVars, Last
<1>5. QED
  BY <1>1, <1>2, <1>3, <1>4 DEF IndInv

LEMMA ReceiptFailsKeeps ==
  ASSUME IndInv, NEW c \in Calls, ReceiptFails(c)
  PROVE  IndInv'
<1>1. TypeOK'
  BY DEF IndInv, TypeOK, ReceiptFails, Finish, Goto, Control, Filling, Errors,
         chainVars
<1>2. RecordsInOrder' /\ EveryBroadcastRecorded' /\ OnlyLastInDoubt'
  BY MoveKeepsRecord DEF ReceiptFails
<1>3. RecordFollowsControl'
  BY LastIsRecorded
  DEF IndInv, TypeOK, RecordFollowsControl, OnlyLastInDoubt, ReceiptFails, Finish,
         Goto, Control, Filling, chainVars
<1>4. OutcomeMatchesChain'
  BY DEF IndInv, TypeOK, RecordFollowsControl, OutcomeMatchesChain,
         ReceiptFails, Finish, Goto, Control, Filling, chainVars, Last
<1>5. QED
  BY <1>1, <1>2, <1>3, <1>4 DEF IndInv

LEMMA ConfirmTimesOutKeeps ==
  ASSUME IndInv, NEW c \in Calls, ConfirmTimesOut(c)
  PROVE  IndInv'
<1>1. TypeOK'
  BY DEF IndInv, TypeOK, ConfirmTimesOut, Finish, Goto, Control, Filling, Errors,
         chainVars
<1>2. RecordsInOrder' /\ EveryBroadcastRecorded' /\ OnlyLastInDoubt'
  BY MoveKeepsRecord DEF ConfirmTimesOut
<1>3. RecordFollowsControl'
  BY LastIsRecorded
  DEF IndInv, TypeOK, RecordFollowsControl, OnlyLastInDoubt, ConfirmTimesOut, Finish,
         Goto, Control, Filling, chainVars
<1>4. OutcomeMatchesChain'
  BY DEF IndInv, TypeOK, RecordFollowsControl, OutcomeMatchesChain,
         ConfirmTimesOut, Finish, Goto, Control, Filling, chainVars, Last
<1>5. QED
  BY <1>1, <1>2, <1>3, <1>4 DEF IndInv

\* Signing extends the record of the call by a transaction that is on no
\* mempool and has no receipt yet, because everything broadcast is recorded.
LEMMA SignKeeps ==
  ASSUME IndInv, NEW c \in Calls, Sign(c)
  PROVE  IndInv'
<1> DEFINE t == [call |-> c, index |-> Len(submitted[c]) + 1,
                 nonce |-> nonce[c]]
<1>1. /\ UNCHANGED <<prepared, age, waited, nonce, chainVars, overlapped>>
      /\ pc[c] = "sign" /\ result[c] = "none"
      /\ \A d \in Calls \ {c} : pc'[d] = pc[d] /\ result'[d] = result[d]
  BY DEF IndInv, TypeOK, RecordFollowsControl, Sign, Finish, Goto
<1>2. /\ submitted[c] \in Seq(Transaction)
      /\ Len(submitted[c]) \in Nat
      /\ Len(submitted[c]) + 1 <= prepared[c].size
      /\ prepared[c].size \in 1..MaxTransactions
  <2>1. prepared[c] \in Prepared /\ submitted[c] \in Seq(Transaction)
    BY DEF IndInv, TypeOK
  <2>2. prepared[c].size \in 1..MaxTransactions /\ Len(submitted[c]) \in Nat
    BY <2>1 DEF Prepared
  <2>3. Len(submitted[c]) < prepared[c].size
    BY <1>1 DEF IndInv, RecordFollowsControl
  <2>4. QED
    BY <2>1, <2>2, <2>3, ConstantsAssumption
<1>3. CASE UNCHANGED submitted /\ Finish(c, "sign")
  <2>1. pc'[c] = "done" /\ result'[c] = "sign"
    BY <1>3 DEF IndInv, TypeOK, Finish, Goto
  <2>2. TypeOK'
    BY <1>1, <1>3 DEF IndInv, TypeOK, Finish, Goto, Control, Errors, chainVars
  <2>3. RecordsInOrder' /\ EveryBroadcastRecorded' /\ OnlyLastInDoubt'
    BY <1>1, <1>3, MoveKeepsRecord
  <2>4. RecordFollowsControl' /\ OutcomeMatchesChain'
    BY <1>1, <1>3, <2>1 DEF IndInv, RecordFollowsControl, OutcomeMatchesChain,
                            chainVars, Last
  <2>5. QED
    BY <2>2, <2>3, <2>4 DEF IndInv
<1>4. CASE /\ Goto(c, "submit") /\ UNCHANGED result
           /\ submitted' = [submitted EXCEPT ![c] = Append(@, t)]
  <2>1. t \in Transaction
    <3>1. nonce[c] \in 0..MaxNonce
      BY DEF IndInv, TypeOK
    <3>2. Len(submitted[c]) + 1 \in 1..MaxTransactions
      BY <1>2, ConstantsAssumption
    <3>3. QED
      BY <3>1, <3>2 DEF Transaction
  <2>2. /\ submitted'[c] = Append(submitted[c], t)
        /\ \A d \in Calls \ {c} : submitted'[d] = submitted[d]
    BY <1>4 DEF IndInv, TypeOK
  <2>3. /\ submitted'[c] \in Seq(Transaction)
        /\ Len(submitted'[c]) = Len(submitted[c]) + 1
        /\ \A i \in 1..Len(submitted[c]) : submitted'[c][i] = submitted[c][i]
        /\ submitted'[c][Len(submitted[c]) + 1] = t
    BY <1>2, <2>1, <2>2, AppendProperties
  <2>4. pc'[c] = "submit"
    BY <1>4 DEF IndInv, TypeOK, Goto
  <2>5. TypeOK'
    <3>1. submitted' \in [Calls -> Seq(Transaction)]
      BY <1>4, <2>2, <2>3 DEF IndInv, TypeOK
    <3>2. QED
      BY <1>1, <1>4, <3>1 DEF IndInv, TypeOK, Goto, Control, Filling, chainVars
  <2>6. RecordsInOrder'
    <3>1. ASSUME NEW d \in Calls, NEW i \in 1..Len(submitted'[d])
          PROVE  submitted'[d][i].call = d /\ submitted'[d][i].index = i
      <4>1. CASE d # c
        BY <4>1, <2>2, <3>1 DEF IndInv, RecordsInOrder
      <4>2. CASE d = c /\ i <= Len(submitted[c])
        <5>1. i \in 1..Len(submitted[c])
          BY <4>2, <1>2, <2>3, <3>1
        <5>2. submitted[c][i].call = c /\ submitted[c][i].index = i
          BY <5>1 DEF IndInv, RecordsInOrder
        <5>3. QED
          BY <4>2, <5>1, <5>2, <2>3
      <4>3. CASE d = c /\ i = Len(submitted[c]) + 1
        BY <4>3, <2>3
      <4>4. QED
        BY <1>2, <2>3, <3>1, <4>1, <4>2, <4>3
    <3>2. QED
      BY <3>1 DEF RecordsInOrder
  <2>7. RecordFollowsControl'
    BY <1>1, <1>2, <1>4, <2>2, <2>3, <2>4
    DEF IndInv, RecordFollowsControl, chainVars
  <2>8. EveryBroadcastRecorded'
    <3>1. Broadcast' = Broadcast
      BY <1>1 DEF Broadcast, Unmined, chainVars
    <3>2. ASSUME NEW u \in Broadcast
          PROVE  /\ u.index \in 1..Len(submitted'[u.call])
                 /\ submitted'[u.call][u.index] = u
      <4>1. /\ u.call \in Calls /\ u.index \in 1..Len(submitted[u.call])
            /\ submitted[u.call][u.index] = u
        BY DEF IndInv, TypeOK, EveryBroadcastRecorded, Broadcast, Unmined,
               Transaction
      <4>2. CASE u.call = c
        BY <4>1, <4>2, <1>2, <2>3
      <4>3. CASE u.call # c
        BY <4>1, <4>3, <2>2
      <4>4. QED
        BY <4>2, <4>3
    <3>3. QED
      BY <3>1, <3>2 DEF EveryBroadcastRecorded
  <2>9. OnlyLastInDoubt'
    <3>1. ASSUME NEW d \in Calls, NEW i \in 1..(Len(submitted'[d]) - 1)
          PROVE  submitted'[d][i] \in succeeded
      <4>1. CASE d # c
        BY <4>1, <2>2, <3>1 DEF IndInv, OnlyLastInDoubt
      <4>2. CASE d = c
        <5>1. i \in 1..Len(submitted[c])
          BY <4>2, <1>2, <2>3
        <5>2. submitted[c][i] \in succeeded
          BY <5>1, <1>1 DEF IndInv, RecordFollowsControl
        <5>3. QED
          BY <4>2, <5>1, <5>2, <2>3
      <4>3. QED
        BY <4>1, <4>2
    <3>2. QED
      BY <3>1, <1>1 DEF OnlyLastInDoubt, chainVars
  <2>10. OutcomeMatchesChain'
    <3>1. /\ UNCHANGED <<prepared, result, succeeded, reverted>>
          /\ result[c] = "none"
      BY <1>1, <1>4 DEF chainVars
    <3>2. QED
      BY <3>1, <2>2 DEF IndInv, OutcomeMatchesChain, Last
  <2>11. QED
    BY <2>5, <2>6, <2>7, <2>8, <2>9, <2>10 DEF IndInv
<1>5. QED
  BY <1>3, <1>4 DEF Sign

\* The wallet's transactions on the network and the chain change, the record
\* does not: it still names all of them.
LEMMA BroadcastKeeps ==
  ASSUME IndInv, UNCHANGED <<prepared, submitted>>,
         NEW c \in Calls,
         Broadcast' \subseteq Broadcast \cup {Last(c)},
         Len(submitted[c]) > 0
  PROVE  RecordsInOrder' /\ EveryBroadcastRecorded'
<1>1. RecordsInOrder'
  BY DEF IndInv, RecordsInOrder
<1>2. Len(submitted[c]) \in Nat \ {0} /\ Last(c) = submitted[c][Len(submitted[c])]
  BY LastIsRecorded DEF IndInv
<1>3. Last(c).call = c /\ Last(c).index = Len(submitted[c])
  BY <1>2 DEF IndInv, RecordsInOrder
<1>4. EveryBroadcastRecorded'
  BY <1>2, <1>3 DEF IndInv, EveryBroadcastRecorded
<1>5. QED
  BY <1>1, <1>4

LEMMA AcknowledgedKeeps ==
  ASSUME IndInv, NEW c \in Calls, Acknowledged(c)
  PROVE  IndInv'
<1>1. /\ pc[c] = "submit" /\ pc'[c] = "confirm" /\ Len(submitted[c]) > 0
      /\ \A d \in Calls \ {c} : pc'[d] = pc[d]
      /\ UNCHANGED <<prepared, submitted, result, age, nonce, accountNonce,
                     succeeded, reverted>>
  BY DEF IndInv, TypeOK, RecordFollowsControl, Acknowledged, Goto
<1>2. Last(c) \in Transaction
  BY <1>1, LastIsRecorded DEF IndInv
<1>3. /\ pool' \subseteq pool \cup {Last(c)}
      /\ hidden' \subseteq hidden \cup {Last(c)}
  BY DEF Acknowledged, EnterPool
<1>4. TypeOK'
  BY <1>1, <1>2, <1>3, ConstantsAssumption
  DEF IndInv, TypeOK, Acknowledged, Goto, Control
<1>5. RecordsInOrder' /\ EveryBroadcastRecorded'
  BY <1>1, <1>3, BroadcastKeeps DEF Broadcast, Unmined
<1>6. RecordFollowsControl' /\ OnlyLastInDoubt' /\ OutcomeMatchesChain'
  BY <1>1 DEF IndInv, RecordFollowsControl, OnlyLastInDoubt,
              OutcomeMatchesChain, Last
<1>7. QED
  BY <1>4, <1>5, <1>6 DEF IndInv

LEMMA SubmitFailsKeeps ==
  ASSUME IndInv, NEW c \in Calls, SubmitFails(c)
  PROVE  IndInv'
<1>1. /\ pc[c] = "submit" /\ pc'[c] = "done" /\ Len(submitted[c]) > 0
      /\ result'[c] \in {"submit", "mismatch"}
      /\ \A d \in Calls \ {c} : pc'[d] = pc[d] /\ result'[d] = result[d]
      /\ UNCHANGED <<prepared, submitted, age, waited, nonce, accountNonce,
                     pool, succeeded, reverted>>
  BY DEF IndInv, TypeOK, RecordFollowsControl, SubmitFails, Finish, Goto
<1>2. Last(c) \in Transaction
  BY <1>1, LastIsRecorded DEF IndInv
<1>3. hidden' \subseteq hidden \cup {Last(c)}
  BY DEF SubmitFails
<1>4. TypeOK'
  BY <1>1, <1>2, <1>3
  DEF IndInv, TypeOK, SubmitFails, Finish, Goto, Control, Errors
<1>5. RecordsInOrder' /\ EveryBroadcastRecorded'
  BY <1>1, <1>3, BroadcastKeeps DEF Broadcast, Unmined
<1>6. RecordFollowsControl' /\ OnlyLastInDoubt' /\ OutcomeMatchesChain'
  BY <1>1 DEF IndInv, RecordFollowsControl, OnlyLastInDoubt,
              OutcomeMatchesChain, Last
<1>7. QED
  BY <1>4, <1>5, <1>6 DEF IndInv

\* Receipts are never withdrawn.
LEMMA ChainKeeps ==
  ASSUME IndInv, NEW t \in Unmined, Surface(t) \/ Mine(t)
  PROVE  IndInv'
<1>1. /\ UNCHANGED <<callVars, overlapped>> /\ accountNonce' \in Nat
      /\ pool' \subseteq pool \cup {t} /\ hidden' \subseteq hidden
      /\ succeeded \subseteq succeeded' /\ succeeded' \subseteq succeeded \cup {t}
      /\ reverted \subseteq reverted' /\ reverted' \subseteq reverted \cup {t}
  BY DEF IndInv, TypeOK, Surface, Mine, EnterPool
<1>2. t \in Transaction /\ Broadcast' \subseteq Broadcast
  BY <1>1 DEF IndInv, TypeOK, Broadcast, Unmined
<1>3. TypeOK'
  BY <1>1, <1>2 DEF IndInv, TypeOK, callVars
<1>4. RecordsInOrder' /\ EveryBroadcastRecorded'
  BY <1>1, <1>2 DEF IndInv, RecordsInOrder, EveryBroadcastRecorded, callVars
<1>5. RecordFollowsControl' /\ OnlyLastInDoubt' /\ OutcomeMatchesChain'
  BY <1>1 DEF IndInv, RecordFollowsControl, OnlyLastInDoubt,
              OutcomeMatchesChain, Last, callVars
<1>6. QED
  BY <1>3, <1>4, <1>5 DEF IndInv

LEMMA TickKeeps ==
  ASSUME IndInv, Tick
  PROVE  IndInv'
<1>1. UNCHANGED <<prepared, pc, result, nonce, submitted, chainVars,
                  overlapped>>
  BY DEF Tick
<1>2. age' \in [Calls -> 0..MaxQuoteAge]
  BY ConstantsAssumption DEF IndInv, TypeOK, Tick
<1>3. waited' \in [Calls -> 0..ConfirmationTimeout]
  BY ConstantsAssumption DEF IndInv, TypeOK, Tick
<1>4. TypeOK'
  BY <1>1, <1>2, <1>3 DEF IndInv, TypeOK, chainVars
<1>5. RecordsInOrder' /\ EveryBroadcastRecorded' /\ OnlyLastInDoubt'
  BY <1>1, MoveKeepsRecord
<1>6. RecordFollowsControl' /\ OutcomeMatchesChain'
  BY <1>1 DEF IndInv, RecordFollowsControl, OutcomeMatchesChain, Last,
              chainVars
<1>7. QED
  BY <1>4, <1>5, <1>6 DEF IndInv

LEMMA StepKeeps == IndInv /\ [Next]_vars => IndInv'
<1> SUFFICES ASSUME IndInv, [Next]_vars PROVE IndInv'
  OBVIOUS
<1>1. ASSUME NEW c \in Calls, Start(c) \/ Advance(c) \/ ReceiptFails(c)
      PROVE  IndInv'
  BY <1>1, StartKeeps, CheckNodeChainKeeps, NextTransactionKeeps, FillGasKeeps,
     FillNonceKeeps, SignKeeps, AcknowledgedKeeps, SubmitFailsKeeps,
     ReceiptFoundKeeps, ReceiptFailsKeeps, ConfirmTimesOutKeeps
  DEF Advance
<1>2. CASE Environment
  BY <1>2, TickKeeps, ChainKeeps DEF Environment
<1>3. CASE UNCHANGED vars
  BY <1>3 DEF IndInv, TypeOK, RecordsInOrder, RecordFollowsControl,
              EveryBroadcastRecorded, OnlyLastInDoubt, OutcomeMatchesChain,
              Broadcast, Unmined, Last, vars, callVars, chainVars
<1>4. QED
  BY <1>1, <1>2, <1>3 DEF Next

-----------------------------------------------------------------------------
(* The theorems. *)

\* Every reachable state satisfies the inductive invariant.
THEOREM Invariance == Spec => []IndInv
<1>1. QED
  BY InitIndInv, StepKeeps, PTL DEF Spec

\* The state of execute_swap and of the chain keeps its type.
THEOREM TypeCorrect == Spec => []TypeOK
<1>1. IndInv => TypeOK
  BY DEF IndInv
<1>2. QED
  BY Invariance, <1>1, PTL

\* SwapError.submitted names every transaction that may land.
THEOREM BroadcastsAreRecorded == Spec => []EveryBroadcastRecorded
<1>1. IndInv => EveryBroadcastRecorded
  BY DEF IndInv
<1>2. QED
  BY Invariance, <1>1, PTL

\* A transaction is recorded only when all before it are mined with success.
THEOREM OnlyLastIsInDoubt == Spec => []OnlyLastInDoubt
<1>1. IndInv => OnlyLastInDoubt
  BY DEF IndInv
<1>2. QED
  BY Invariance, <1>1, PTL

\* The verdict given to the caller agrees with the chain.
THEOREM VerdictIsTrue == Spec => []OutcomeMatchesChain
<1>1. IndInv => OutcomeMatchesChain
  BY DEF IndInv
<1>2. QED
  BY Invariance, <1>1, PTL

-----------------------------------------------------------------------------
(* EvmExecution implements SwapOutcome. *)

LandedOf(c) == {i \in 1..Len(submitted[c]) : submitted[c][i] \in succeeded}
VerdictOf(c) == IF result[c] \in {"none", "ok"} THEN result[c] ELSE "unconfirmed"

LEMMA OutcomeInit == Init => Outcome!Init
<1> SUFFICES ASSUME Init PROVE Outcome!Init
  OBVIOUS
<1>1. \A c \in Calls : /\ submitted[c] = <<>> /\ Len(submitted[c]) = 0
                       /\ result[c] = "none"
  BY DEF Init
<1>2. ASSUME NEW c \in Calls PROVE prepared[c].size \in 1..MaxTransactions
  <2>1. prepared[c] \in Prepared
    BY DEF Init
  <2>2. QED
    BY <2>1 DEF Prepared
<1>3. [c \in Calls |-> LandedOf(c)] = [c \in Calls |-> {}]
  BY <1>1 DEF LandedOf
<1>4. QED
  BY <1>1, <1>2, <1>3 DEF Outcome!Init, LandedOf

\* A step that leaves the record, the receipts and the results alone.
LEMMA OutcomeStutters ==
  ASSUME UNCHANGED <<prepared, submitted, succeeded, result>>
  PROVE  UNCHANGED Outcome!vars
BY DEF Outcome!vars

\* A call that ends for another reason than success fails in SwapOutcome too.
LEMMA OutcomeFails ==
  ASSUME IndInv, NEW c \in Calls, NEW how \in Errors, Finish(c, how),
         pc[c] # "done", UNCHANGED <<prepared, submitted, succeeded>>
  PROVE  Outcome!EndUnconfirmed(c)
<1>1. result[c] = "none" /\ result' = [result EXCEPT ![c] = how]
  BY DEF IndInv, TypeOK, RecordFollowsControl, Finish
<1>2. how \notin {"none", "ok"}
  BY DEF Errors
<1>3. [d \in Calls |-> VerdictOf(d)]' =
        [[d \in Calls |-> VerdictOf(d)] EXCEPT ![c] = "unconfirmed"]
  BY <1>1, <1>2 DEF VerdictOf, IndInv, TypeOK
<1>4. QED
  BY <1>1, <1>3 DEF Outcome!EndUnconfirmed, VerdictOf

\* A confirmed transaction list: everything recorded has landed.
LEMMA AllLanded ==
  ASSUME IndInv, NEW c \in Calls,
         pc[c] \in {"next", "gas", "nonce", "sign"}
  PROVE  LandedOf(c) = 1..Len(submitted[c])
BY DEF IndInv, RecordFollowsControl, LandedOf

LEMMA OutcomeSucceeds ==
  ASSUME IndInv, NEW c \in Calls, pc[c] = "next", Finish(c, "ok"),
         Len(submitted[c]) = prepared[c].size,
         UNCHANGED <<prepared, submitted, succeeded>>
  PROVE  Outcome!Succeed(c)
<1>1. result[c] = "none" /\ result' = [result EXCEPT ![c] = "ok"]
  BY DEF IndInv, TypeOK, RecordFollowsControl, Finish
<1>2. [d \in Calls |-> VerdictOf(d)]' =
        [[d \in Calls |-> VerdictOf(d)] EXCEPT ![c] = "ok"]
  BY <1>1 DEF VerdictOf, IndInv, TypeOK
<1>3. LandedOf(c) = 1..prepared[c].size
  BY AllLanded
<1>4. QED
  BY <1>1, <1>2, <1>3 DEF Outcome!Succeed, VerdictOf, LandedOf

LEMMA OutcomeAnnounces ==
  ASSUME IndInv, IndInv', NEW c \in Calls, Sign(c),
         submitted' = [submitted EXCEPT ![c] = Append(@,
           [call |-> c, index |-> Len(@) + 1, nonce |-> nonce[c]])],
         UNCHANGED result
  PROVE  Outcome!Announce(c)
<1> DEFINE t == [call |-> c, index |-> Len(submitted[c]) + 1,
                 nonce |-> nonce[c]]
<1>1. /\ pc[c] = "sign" /\ result[c] = "none"
      /\ UNCHANGED <<prepared, chainVars>>
  BY DEF IndInv, TypeOK, RecordFollowsControl, Sign
<1>2. /\ submitted[c] \in Seq(Transaction) /\ submitted'[c] \in Seq(Transaction)
      /\ submitted'[c] = Append(submitted[c], t)
      /\ \A d \in Calls \ {c} : submitted'[d] = submitted[d]
      /\ Len(submitted[c]) < prepared[c].size
  BY <1>1 DEF IndInv, TypeOK, RecordFollowsControl
<1>3. /\ Len(submitted[c]) \in Nat
      /\ Len(submitted'[c]) = Len(submitted[c]) + 1
      /\ \A i \in 1..Len(submitted[c]) : submitted'[c][i] = submitted[c][i]
      /\ submitted'[c][Len(submitted[c]) + 1] = t
  BY <1>2
<1>4. t \notin succeeded
  BY <1>3 DEF IndInv, EveryBroadcastRecorded, Broadcast
<1>5. LandedOf(c)' = LandedOf(c)
  <2>1. \A i \in 1..Len(submitted'[c]) :
          i \in 1..Len(submitted[c]) \/ i = Len(submitted[c]) + 1
    BY <1>3
  <2>2. 1..Len(submitted[c]) \subseteq 1..Len(submitted'[c])
    BY <1>3
  <2>3. succeeded' = succeeded
    BY <1>1 DEF chainVars
  <2>4. QED
    BY <1>3, <1>4, <2>1, <2>2, <2>3 DEF LandedOf
<1>6. \A d \in Calls : LandedOf(d)' = LandedOf(d)
  BY <1>1, <1>2, <1>5 DEF LandedOf, chainVars
<1>7. [d \in Calls |-> Len(submitted[d])]' =
        [[d \in Calls |-> Len(submitted[d])] EXCEPT ![c] = @ + 1]
  <2>1. \A d \in Calls : Len(submitted'[d]) =
          IF d = c THEN Len(submitted[c]) + 1 ELSE Len(submitted[d])
    BY <1>2, <1>3
  <2>2. QED
    BY <2>1
<1>8. LandedOf(c) = 1..Len(submitted[c])
  BY <1>1, AllLanded
<1>9. QED
  BY <1>1, <1>2, <1>6, <1>7, <1>8 DEF Outcome!Announce, LandedOf

LEMMA OutcomeLands ==
  ASSUME IndInv, NEW t \in Unmined, Mine(t)
  PROVE  [Outcome!Next]_Outcome!vars
<1> DEFINE c == t.call
           i == t.index
<1>1. /\ c \in Calls /\ i \in 1..Len(submitted[c]) /\ submitted[c][i] = t
      /\ UNCHANGED <<prepared, submitted, result>>
  BY DEF IndInv, TypeOK, EveryBroadcastRecorded, Broadcast, Unmined,
         Transaction, Mine, callVars
<1>2. CASE UNCHANGED succeeded
  BY <1>1, <1>2, OutcomeStutters
<1>3. CASE succeeded' = succeeded \cup {t} /\ t \notin succeeded
  <2>1. LandedOf(c)' = LandedOf(c) \cup {i} /\ i \notin LandedOf(c)
    BY <1>1, <1>3 DEF LandedOf, IndInv, RecordsInOrder
  <2>2. \A d \in Calls \ {c} : LandedOf(d)' = LandedOf(d)
    BY <1>1, <1>3 DEF LandedOf, IndInv, RecordsInOrder
  <2>3. [d \in Calls |-> LandedOf(d)]' =
          [[d \in Calls |-> LandedOf(d)] EXCEPT ![c] = @ \cup {i}]
    BY <1>1, <2>1, <2>2
  <2>4. Outcome!Land(c)
    BY <1>1, <2>1, <2>3 DEF Outcome!Land, LandedOf
  <2>5. QED
    BY <1>1, <2>4 DEF Outcome!Next
<1>4. QED
  BY <1>2, <1>3 DEF Mine

LEMMA OutcomeStep ==
  IndInv /\ IndInv' /\ [Next]_vars => [Outcome!Next]_Outcome!vars
<1> SUFFICES ASSUME IndInv, IndInv', [Next]_vars
             PROVE  [Outcome!Next]_Outcome!vars
  OBVIOUS
<1>1. ASSUME NEW c \in Calls, NEW how \in Errors, Finish(c, how),
             pc[c] # "done", UNCHANGED <<prepared, submitted, succeeded>>
      PROVE  [Outcome!Next]_Outcome!vars
  BY <1>1, OutcomeFails DEF Outcome!Next
<1>2. ASSUME NEW c \in Calls,
             Start(c) \/ CheckNodeChain(c) \/ FillGas(c) \/ FillNonce(c)
      PROVE  [Outcome!Next]_Outcome!vars
  BY <1>1, <1>2, OutcomeStutters
  DEF Start, CheckNodeChain, FillGas, FillNonce, Errors, chainVars
<1>3. ASSUME NEW c \in Calls, NextTransaction(c)
      PROVE  [Outcome!Next]_Outcome!vars
  <2>1. UNCHANGED <<prepared, submitted, succeeded>> /\ pc[c] = "next"
    BY <1>3 DEF NextTransaction, chainVars
  <2>2. CASE Len(submitted[c]) = prepared[c].size /\ Finish(c, "ok")
    BY <2>1, <2>2, OutcomeSucceeds DEF Outcome!Next
  <2>3. CASE Finish(c, "expired")
    BY <1>1, <2>1, <2>3 DEF Errors
  <2>4. CASE UNCHANGED result
    BY <2>1, <2>4, OutcomeStutters
  <2>5. QED
    BY <1>3, <2>2, <2>3, <2>4 DEF NextTransaction
<1>4. ASSUME NEW c \in Calls, Sign(c)
      PROVE  [Outcome!Next]_Outcome!vars
  <2>1. CASE Finish(c, "sign") /\ UNCHANGED submitted
    BY <1>1, <1>4, <2>1 DEF Sign, Errors, chainVars
  <2>2. CASE ~(Finish(c, "sign") /\ UNCHANGED submitted)
    BY <1>4, <2>2, OutcomeAnnounces DEF Sign, Outcome!Next
  <2>3. QED
    BY <2>1, <2>2
<1>5. ASSUME NEW c \in Calls, Acknowledged(c) \/ SubmitFails(c)
      PROVE  [Outcome!Next]_Outcome!vars
  BY <1>1, <1>5, OutcomeStutters DEF Acknowledged, SubmitFails, Errors
<1>6. ASSUME NEW c \in Calls,
             ReceiptFound(c) \/ ReceiptFails(c) \/ ConfirmTimesOut(c)
      PROVE  [Outcome!Next]_Outcome!vars
  BY <1>1, <1>6, OutcomeStutters
  DEF ReceiptFound, ReceiptFails, ConfirmTimesOut, Errors, chainVars
<1>7. CASE Environment
  <2>1. CASE Tick
    BY <2>1, OutcomeStutters DEF Tick, chainVars
  <2>2. ASSUME NEW t \in Unmined, Surface(t)
        PROVE  [Outcome!Next]_Outcome!vars
    BY <2>2, OutcomeStutters DEF Surface, callVars
  <2>3. QED
    BY <1>7, <2>1, <2>2, OutcomeLands DEF Environment
<1>8. CASE UNCHANGED vars
  BY <1>8, OutcomeStutters DEF vars, callVars, chainVars
<1>9. QED
  BY <1>2, <1>3, <1>4, <1>5, <1>6, <1>7, <1>8 DEF Next, Advance

\* execute_swap keeps the promise of SwapOutcome whatever the signer, the
\* submitter, the node and the chain do.
THEOREM KeepsItsPromise == Spec => KeepsPromise
<1>1. QED
  BY Invariance, OutcomeInit, OutcomeStep, PTL DEF Spec, KeepsPromise, Outcome!Spec

-----------------------------------------------------------------------------
(* No acknowledged transaction loses its nonce. *)

\* The transactions EarlierNotOverwritten does not speak about.
Excused(t) ==
  \/ result[t.call] \in {"submit", "mismatch"}
  \/ prepared[t.call].submitter = "elsewhere"
  \/ t.call \in overlapped

Running(c) == pc[c] \notin {"idle", "done"}

\* Two calls running together are known to overlap; what the node does not see
\* is excused; and since a call has read its nonce, no transaction took that
\* nonce in the node's pool unless it is excused.
NonceInv ==
  /\ \A c, d \in Calls :
       c # d /\ Running(c) /\ Running(d) => c \in overlapped
  /\ \A t \in hidden : Excused(t)
  /\ \A c \in Calls : \A t \in pool :
       /\ pc[c] = "sign" /\ t.nonce = nonce[c] => Excused(t)
       /\ pc[c] = "submit" /\ t.nonce = Last(c).nonce => Excused(t)

\* A transaction stays excused.
LEMMA ExcusedStays ==
  ASSUME IndInv, [Next]_vars, NEW t, t.call \in Calls, Excused(t)
  PROVE  Excused(t)'
<1>1. overlapped \subseteq overlapped' /\ UNCHANGED prepared
  BY DEF Next, Advance, Environment, Start, CheckNodeChain, NextTransaction,
         FillGas, FillNonce, Sign, Acknowledged, SubmitFails, ReceiptFound,
         ReceiptFails, ConfirmTimesOut, Tick, Surface, Mine, vars, callVars
<1>2. \A c \in Calls : result[c] # "none" => result'[c] = result[c]
  <2>1. \A c \in Calls : result[c] # "none" => pc[c] = "done"
    BY DEF IndInv, RecordFollowsControl
  <2>2. UNCHANGED result \/ \E c \in Calls, how \in {"ok"} \cup Errors :
          Finish(c, how)
    BY DEF Next, Advance, Environment, Start, CheckNodeChain, NextTransaction,
           FillGas, FillNonce, Sign, Acknowledged, SubmitFails, ReceiptFound,
           ReceiptFails, ConfirmTimesOut, Tick, Surface, Mine, vars, callVars,
           Errors
  <2>3. QED
    BY <2>1, <2>2 DEF Finish, Goto, IndInv, TypeOK
<1>3. QED
  BY <1>1, <1>2 DEF Excused

\* A call's step moves its own control point only.
LEMMA OthersStay ==
  ASSUME IndInv, NEW c \in Calls, Start(c) \/ Advance(c) \/ ReceiptFails(c)
  PROVE  \A d \in Calls \ {c} :
           /\ pc'[d] = pc[d] /\ nonce'[d] = nonce[d]
           /\ submitted'[d] = submitted[d]
BY DEF IndInv, TypeOK, Advance, Start, CheckNodeChain, NextTransaction, FillGas,
       FillNonce, Sign, Acknowledged, SubmitFails, ReceiptFound, ReceiptFails,
       ConfirmTimesOut, Finish, Goto

LEMMA NonceInit == Init => NonceInv
BY DEF Init, NonceInv, Running

\* The steps of a call before it submits, and after: the network is untouched.
LEMMA QuietStepKeepsNonces ==
  ASSUME IndInv, NonceInv, [Next]_vars, NEW c \in Calls,
         \/ Start(c) \/ CheckNodeChain(c) \/ NextTransaction(c) \/ FillGas(c)
         \/ FillNonce(c) \/ Sign(c) \/ ReceiptFound(c) \/ ReceiptFails(c)
         \/ ConfirmTimesOut(c)
  PROVE  NonceInv'
<1>1. UNCHANGED <<pool, hidden>>
  BY DEF Start, CheckNodeChain, NextTransaction, FillGas, FillNonce, Sign,
         ReceiptFound, ReceiptFails, ConfirmTimesOut, chainVars
<1>2. \A t \in pool \cup hidden : t.call \in Calls
  BY DEF IndInv, TypeOK, Transaction
<1>3. \A d \in Calls \ {c} :
        /\ pc'[d] = pc[d] /\ nonce'[d] = nonce[d]
        /\ submitted'[d] = submitted[d]
  BY OthersStay DEF Advance
<1>4. \A t \in hidden' : Excused(t)'
  BY <1>1, <1>2, ExcusedStays DEF NonceInv
<1>5. ASSUME NEW a \in Calls, NEW b \in Calls, a # b, Running(a)', Running(b)'
      PROVE  a \in overlapped'
  <2>1. overlapped \subseteq overlapped'
    BY DEF Start, CheckNodeChain, NextTransaction, FillGas, FillNonce, Sign,
           ReceiptFound, ReceiptFails, ConfirmTimesOut
  <2>2. CASE Start(c)
    <3>1. CASE a # c /\ b # c
      BY <1>3, <1>5, <2>1, <3>1 DEF NonceInv, Running
    <3>2. CASE a = c
      <4>1. b \in {d \in Calls \ {c} : pc[d] \notin {"idle", "done"}}
        BY <1>3, <1>5, <3>2 DEF Running
      <4>2. QED
        BY <2>2, <3>2, <4>1 DEF Start
    <3>3. CASE b = c
      <4>1. a \in {d \in Calls \ {c} : pc[d] \notin {"idle", "done"}}
        BY <1>3, <1>5, <3>3 DEF Running
      <4>2. QED
        BY <2>2, <4>1 DEF Start
    <3>4. QED
      BY <3>1, <3>2, <3>3
  <2>3. CASE ~Start(c)
    <3>1. Running(c)
      BY <2>3 DEF Running, CheckNodeChain, NextTransaction, FillGas, FillNonce,
                  Sign, ReceiptFound, ReceiptFails, ConfirmTimesOut
    <3>2. QED
      BY <1>3, <1>5, <2>1, <3>1 DEF NonceInv, Running
  <2>4. QED
    BY <2>2, <2>3
<1>6. ASSUME NEW t \in pool'
      PROVE  /\ pc'[c] = "sign" /\ t.nonce = nonce'[c] => Excused(t)'
             /\ pc'[c] = "submit" /\ t.nonce = Last(c)'.nonce => Excused(t)'
  <2>1. CASE pc'[c] = "sign"
    <3>1. FillNonce(c) /\ IsPendingNonce(nonce'[c])
      BY <2>1 DEF Start, CheckNodeChain, NextTransaction, FillGas, FillNonce,
                  Sign, ReceiptFound, ReceiptFails, ConfirmTimesOut, Finish,
                  Goto, IndInv, TypeOK, Errors
    <3>2. QED
      BY <1>1, <1>6, <2>1, <3>1 DEF IsPendingNonce
  <2>2. CASE pc'[c] = "submit"
    <3>1. Sign(c) /\ pc[c] = "sign" /\ submitted' = [submitted EXCEPT ![c] =
            Append(@, [call |-> c, index |-> Len(@) + 1, nonce |-> nonce[c]])]
      BY <2>2 DEF Start, CheckNodeChain, NextTransaction, FillGas, FillNonce,
                  Sign, ReceiptFound, ReceiptFails, ConfirmTimesOut, Finish,
                  Goto, IndInv, TypeOK, Errors
    <3>2. submitted[c] \in Seq(Transaction) /\ Len(submitted[c]) \in Nat
      BY DEF IndInv, TypeOK
    <3>3. submitted'[c] = Append(submitted[c],
            [call |-> c, index |-> Len(submitted[c]) + 1, nonce |-> nonce[c]])
      BY <3>1 DEF IndInv, TypeOK
    <3>4. Last(c)'.nonce = nonce[c]
      <4> DEFINE u == [call |-> c, index |-> Len(submitted[c]) + 1,
                       nonce |-> nonce[c]]
      <4> HIDE DEF u
      <4>1. submitted'[c] = Append(submitted[c], u)
        BY <3>3 DEF u
      <4>2. /\ Len(Append(submitted[c], u)) = Len(submitted[c]) + 1
            /\ Append(submitted[c], u)[Len(submitted[c]) + 1] = u
        BY <3>2
      <4>3. Last(c)' = u
        BY <4>1, <4>2 DEF Last
      <4>4. QED
        BY <4>3 DEF u
    <3>5. QED
      BY <1>1, <1>2, <1>6, <2>2, <3>1, <3>4, ExcusedStays DEF NonceInv
  <2>3. QED
    BY <2>1, <2>2
<1>7. ASSUME NEW d \in Calls \ {c}, NEW t \in pool'
      PROVE  /\ pc'[d] = "sign" /\ t.nonce = nonce'[d] => Excused(t)'
             /\ pc'[d] = "submit" /\ t.nonce = Last(d)'.nonce => Excused(t)'
  <2>1. Last(d)' = Last(d)
    BY <1>3 DEF Last
  <2>2. QED
    BY <1>1, <1>2, <1>3, <2>1, ExcusedStays DEF NonceInv
<1>8. QED
  BY <1>4, <1>5, <1>6, <1>7 DEF NonceInv

\* What a submission puts on the network belongs to a call that every other
\* call past its nonce runs beside, is out of the node's sight, or has failed.
LEMMA SubmitStepKeepsNonces ==
  ASSUME IndInv, NonceInv, [Next]_vars, NEW c \in Calls,
         Acknowledged(c) \/ SubmitFails(c)
  PROVE  NonceInv'
<1>1. /\ pc[c] = "submit" /\ pc'[c] \in {"confirm", "done"}
      /\ UNCHANGED <<prepared, submitted, overlapped>>
  BY DEF Acknowledged, SubmitFails, Finish, Goto, IndInv, TypeOK
<1>2. \A d \in Calls \ {c} :
        /\ pc'[d] = pc[d] /\ nonce'[d] = nonce[d]
        /\ submitted'[d] = submitted[d]
  BY OthersStay DEF Advance
<1>3. Last(c).call = c
  <2>1. Len(submitted[c]) \in 1..Len(submitted[c])
    BY <1>1, LastIsRecorded DEF IndInv, RecordFollowsControl
  <2>2. QED
    BY <2>1 DEF IndInv, RecordsInOrder, Last
<1>4. \A t \in pool \cup hidden : t.call \in Calls
  BY DEF IndInv, TypeOK, Transaction
<1>5. \A a, b \in Calls :
        a # b /\ Running(a)' /\ Running(b)' => a \in overlapped'
  BY <1>1, <1>2 DEF NonceInv, Running
<1>6. ASSUME NEW t \in hidden' PROVE Excused(t)'
  <2>1. CASE t \in hidden
    BY <1>4, <2>1, ExcusedStays DEF NonceInv
  <2>2. CASE t \notin hidden
    <3>1. t = Last(c)
      BY <1>6, <2>2 DEF Acknowledged, SubmitFails
    <3>2. CASE Acknowledged(c)
      BY <1>1, <1>3, <1>6, <2>2, <3>1, <3>2 DEF Acknowledged, Excused
    <3>3. CASE SubmitFails(c)
      <4>1. result'[c] \in {"submit", "mismatch"}
        BY <3>3 DEF SubmitFails, Finish, IndInv, TypeOK
      <4>2. QED
        BY <1>3, <3>1, <4>1 DEF Excused
    <3>4. QED
      BY <3>2, <3>3
  <2>3. QED
    BY <2>1, <2>2
<1>7. ASSUME NEW d \in Calls, NEW t \in pool'
      PROVE  /\ pc'[d] = "sign" /\ t.nonce = nonce'[d] => Excused(t)'
             /\ pc'[d] = "submit" /\ t.nonce = Last(d)'.nonce => Excused(t)'
  <2>1. CASE d = c
    BY <1>1, <2>1
  <2>2. CASE d # c /\ t \in pool
    <3>1. Last(d)' = Last(d)
      BY <1>1 DEF Last
    <3>2. QED
      BY <1>2, <1>4, <2>2, <3>1, ExcusedStays DEF NonceInv
  <2>3. CASE d # c /\ t \notin pool
    <3>1. t = Last(c)
      BY <1>7, <2>3 DEF Acknowledged, SubmitFails, EnterPool
    <3>2. pc[d] \in {"sign", "submit"} => c \in overlapped
      BY <1>1, <2>3 DEF NonceInv, Running
    <3>3. QED
      BY <1>1, <1>2, <1>3, <2>3, <3>1, <3>2 DEF Excused
  <2>4. QED
    BY <2>1, <2>2, <2>3
<1>8. QED
  BY <1>5, <1>6, <1>7 DEF NonceInv

\* Transactions that surface were hidden, and mining only removes some.
LEMMA EnvironmentKeepsNonces ==
  ASSUME IndInv, NonceInv, [Next]_vars, Environment \/ UNCHANGED vars
  PROVE  NonceInv'
<1>1. UNCHANGED <<pc, nonce, submitted, overlapped>>
  BY DEF Environment, Tick, Surface, Mine, vars, callVars
<1>2. hidden' \subseteq hidden /\ pool' \subseteq pool \cup hidden
  BY DEF Environment, Tick, Surface, Mine, EnterPool, vars, chainVars
<1>3. \A t \in pool \cup hidden : t.call \in Calls
  BY DEF IndInv, TypeOK, Transaction
<1>4. \A t \in pool \cup hidden : Excused(t) => Excused(t)'
  BY <1>3, ExcusedStays
<1>5. \A c \in Calls : Last(c)' = Last(c)
  BY <1>1 DEF Last
<1>6. QED
  BY <1>1, <1>2, <1>4, <1>5 DEF NonceInv, Running

LEMMA NonceStep == IndInv /\ NonceInv /\ [Next]_vars => NonceInv'
<1> SUFFICES ASSUME IndInv, NonceInv, [Next]_vars PROVE NonceInv'
  OBVIOUS
<1>1. ASSUME NEW c \in Calls, Start(c) \/ Advance(c) \/ ReceiptFails(c)
      PROVE  NonceInv'
  BY <1>1, QuietStepKeepsNonces, SubmitStepKeepsNonces DEF Advance
<1>2. CASE Environment \/ UNCHANGED vars
  BY <1>2, EnvironmentKeepsNonces
<1>3. QED
  BY <1>1, <1>2 DEF Next

\* The promise of Node::pending_nonce, for any number of calls: an acknowledged
\* unmined transaction the node knows is overwritten only by a call that ran
\* beside the one that sent it.
THEOREM NoncesAreNotReused == Spec => EarlierNotOverwritten
<1>1. IndInv /\ NonceInv =>
        \A c \in Calls : \A t \in Unmined :
          pc[c] = "submit" /\ t.nonce = Last(c).nonce => Excused(t)
  BY DEF NonceInv, Unmined
<1>2. IndInv /\ NonceInv =>
        [\A c \in Calls :
           pc[c] = "submit" /\ pc'[c] = "confirm" =>
             \A t \in Unmined :
               t # Last(c) /\ t.nonce = Last(c).nonce =>
                 \/ result[t.call] \in {"submit", "mismatch"}
                 \/ prepared[t.call].submitter = "elsewhere"
                 \/ t.call \in overlapped]_vars
  BY <1>1 DEF Excused
<1>3. QED
  BY Invariance, NonceInit, NonceStep, <1>2, PTL DEF Spec, EarlierNotOverwritten
=============================================================================
