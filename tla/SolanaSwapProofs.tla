-------------------------- MODULE SolanaSwapProofs --------------------------
(***************************************************************************)
(* Proofs about SolanaSwap, for any number of calls and any costs, rates   *)
(* and limits.                                                             *)
(*                                                                         *)
(* The strengthening says, per call, what is signed, encoded and reported  *)
(* at each control point, and ties the cluster's record of the call's      *)
(* transaction to it.  A step of one call leaves what is said of another   *)
(* alone (OthersKeep), so each action is examined at its own call.         *)
(***************************************************************************)
EXTENDS SolanaSwap, TLAPS

\* Control points before the first signer has answered.
Unsigned == {"idle", "prepare", "build", "cost", "price", "recheck", "compare",
             "user"}

\* Control points after the last signer has answered.
Sendable == {"submit", "confirm", "after"}

\* What is signed is what is encoded, by the user first.
SignaturesHold(c) ==
  /\ pc[c] \in Unsigned => userSigned[c] = {} /\ sponsorSigned[c] = {}
  /\ pc[c] = "sponsor" => userSigned[c] = {charge[c]} /\ sponsorSigned[c] = {}
  /\ pc[c] = "sponsor" => request[c].sponsored
  /\ pc[c] \in Sendable => FullySigned(c)
  /\ userSigned[c] \subseteq {charge[c]}
  /\ sponsorSigned[c] \subseteq userSigned[c]

\* A charge that passed finalize_fee stays the one it computed.
ChargeHolds(c) ==
  /\ request[c].sponsored
  /\ pc[c] \in {"recheck", "compare", "user", "sponsor"} \cup Sendable
     \/ userSigned[c] # {}
  => /\ cost[c] <= MaxCost
     /\ charge[c] = ChargeFor(cost[c], rate[c])
     /\ charge[c] <= Ceiling

\* The fee to report is the encoded one as soon as a signer is asked.
ReportHolds(c) ==
  pc[c] \in {"user", "sponsor"} \cup Sendable \/ result[c] \in Statuses =>
    reported[c] = charge[c]

\* How far the call is and what the cluster knows of its transaction.
SentHolds(c) ==
  /\ result[c] = "none" <=> pc[c] # "done"
  /\ c \in sent => pc[c] \in {"confirm", "after", "done"} /\ FullySigned(c)
  /\ c \in sent => result[c] \in {"none", "submit", "rpc"} \cup Statuses
  /\ pc[c] \in {"confirm", "after"} \/ result[c] \in Statuses => c \in sent
  /\ c \in confirmed \cup failed => c \in sent
  /\ pc[c] = "after" \/ result[c] = "Confirmed" => c \in confirmed
  /\ result[c] = "Failed" => c \in failed

\* The balance read before lacks the swap's output, the gain has it.
BalanceHolds(c) ==
  /\ \A b \in before[c] : c \notin b
  /\ \A gained \in received[c] : c \in gained

CallHolds(c) ==
  /\ SignaturesHold(c)
  /\ ChargeHolds(c)
  /\ ReportHolds(c)
  /\ SentHolds(c)
  /\ BalanceHolds(c)

IndInv == TypeOK /\ \A c \in Calls : CallHolds(c)

USE DEF Unsigned, Sendable

-----------------------------------------------------------------------------
LEMMA InitIndInv == Init => IndInv
<1> SUFFICES ASSUME Init PROVE IndInv
  OBVIOUS
<1>1. TypeOK
  BY ConstantsAssumption DEF Init, TypeOK, Control
<1>2. ASSUME NEW c \in Calls PROVE CallHolds(c)
  BY DEF Init, CallHolds, SignaturesHold, ChargeHolds, ReportHolds, SentHolds,
         BalanceHolds, Statuses
<1>3. QED
  BY <1>1, <1>2 DEF IndInv

\* What the invariant says of a call depends on that call's own state only.
LEMMA OthersKeep ==
  ASSUME NEW d \in Calls, CallHolds(d),
         request'[d] = request[d], pc'[d] = pc[d], before'[d] = before[d],
         cost'[d] = cost[d], rate'[d] = rate[d], charge'[d] = charge[d],
         userSigned'[d] = userSigned[d], sponsorSigned'[d] = sponsorSigned[d],
         result'[d] = result[d], reported'[d] = reported[d],
         received'[d] = received[d],
         d \in sent' <=> d \in sent,
         d \in confirmed' <=> d \in confirmed,
         d \in failed' <=> d \in failed
  PROVE  CallHolds(d)'
BY DEF CallHolds, SignaturesHold, ChargeHolds, ReportHolds, SentHolds,
       BalanceHolds, FullySigned, ChargeFor, Reimbursement

\* The variables the invariant speaks of, but for the control state.
heldVars == <<request, before, cost, rate, charge, signVars, outcomeVars, sent,
              confirmed, failed>>

\* A call moves on between two control points that are alike.
LEMMA MoveKeeps ==
  ASSUME IndInv, TypeOK', NEW c \in Calls, NEW next, Goto(c, next),
         UNCHANGED heldVars,
         \/ pc[c] \in Unsigned /\ next \in {"prepare", "build", "cost", "price"}
         \/ pc[c] = "recheck" /\ next = "compare"
         \/ pc[c] = "confirm" /\ next = "after" /\ c \in confirmed
  PROVE  IndInv'
<1>1. ASSUME NEW d \in Calls, d # c PROVE CallHolds(d)'
  <2>1. pc'[d] = pc[d]
    BY <1>1 DEF Goto, IndInv, TypeOK
  <2>2. QED
    BY <2>1, OthersKeep DEF IndInv, heldVars, signVars, outcomeVars
<1>2. pc'[c] = next
  BY DEF Goto, IndInv, TypeOK
<1>3. CallHolds(c)'
  BY <1>2 DEF heldVars, signVars, outcomeVars, IndInv, CallHolds,
    SignaturesHold, ChargeHolds, ReportHolds, SentHolds, BalanceHolds,
    FullySigned, ChargeFor, Reimbursement, Statuses
<1>4. QED
  BY <1>1, <1>3 DEF IndInv

\* A call ends with an error, before or after its transaction was sent.
LEMMA FailKeeps ==
  ASSUME IndInv, TypeOK', NEW c \in Calls, NEW error \in Errors,
         FailWith(c, error),
         UNCHANGED <<request, before, cost, rate, charge, signVars, confirmed,
                     failed>>,
         pc[c] # "done",
         \/ UNCHANGED sent /\ (c \in sent => error = "rpc")
         \/ /\ pc[c] = "submit" /\ error = "submit"
            /\ sent' \in {sent, sent \cup {c}}
  PROVE  IndInv'
<1>1. /\ pc' = [pc EXCEPT ![c] = "done"]
      /\ result' = [result EXCEPT ![c] = error]
      /\ UNCHANGED <<reported, received>>
      /\ error \notin {"none"} \cup Statuses
  BY DEF FailWith, Goto, Errors, Statuses
<1>2. ASSUME NEW d \in Calls, d # c PROVE CallHolds(d)'
  <2>1. pc'[d] = pc[d] /\ result'[d] = result[d]
    BY <1>1, <1>2 DEF IndInv, TypeOK
  <2>2. QED
    BY <1>1, <1>2, <2>1, OthersKeep DEF IndInv, signVars
<1>3. pc'[c] = "done" /\ result'[c] = error
  BY <1>1 DEF IndInv, TypeOK
<1>4. CallHolds(c)'
  BY <1>1, <1>3 DEF signVars, IndInv, CallHolds, SignaturesHold, ChargeHolds,
    ReportHolds, SentHolds, BalanceHolds, FullySigned, ChargeFor,
    Reimbursement, Statuses
<1>5. QED
  BY <1>2, <1>4 DEF IndInv

-----------------------------------------------------------------------------
(* Types. *)

\* Charges are natural numbers.
LEMMA ReimbursementNat ==
  ASSUME NEW lamports \in Nat, NEW r \in Nat
  PROVE  Reimbursement(lamports, r) \in Nat
<1>1. LamportsPerSol \in Nat /\ LamportsPerSol > 0
  BY ConstantsAssumption
<1>2. lamports * r \in Nat
  OBVIOUS
<1> DEFINE p == lamports * r + LamportsPerSol - 1
<1>3. p \in Nat
  BY <1>1, <1>2
<1> HIDE DEF p
<1>4. p \div LamportsPerSol \in Nat
  BY <1>1, <1>3
<1>5. QED
  BY <1>4 DEF Reimbursement, p

\* The control state and the results stay in their types.
LEMMA ControlTypes ==
  ASSUME TypeOK, NEW c \in Calls,
         \/ pc' = pc
         \/ \E next \in Control : Goto(c, next)
         \/ \E error \in Errors : FailWith(c, error),
         \/ result' = result
         \/ \E status \in Statuses : result' = [result EXCEPT ![c] = status]
         \/ \E error \in Errors : FailWith(c, error)
  PROVE  /\ pc' \in [Calls -> Control]
         /\ result' \in [Calls -> {"none"} \cup Statuses \cup Errors]
BY DEF TypeOK, Goto, FailWith, Control

\* Every step keeps the types.
LEMMA TypeStep == TypeOK /\ [Next]_vars => TypeOK'
<1> SUFFICES ASSUME TypeOK, [Next]_vars PROVE TypeOK'
  OBVIOUS
<1> USE DEF stageVars, policyVars, signVars, outcomeVars, chainVars
<1>1. ASSUME NEW c \in Calls, Start(c) PROVE TypeOK'
  <2>1. /\ pc' \in [Calls -> Control]
        /\ result' \in [Calls -> {"none"} \cup Statuses \cup Errors]
    BY <1>1, ControlTypes DEF Start, Control, Errors, Statuses
  <2>2. QED
    BY <1>1, <2>1, ConstantsAssumption DEF Start, TypeOK, FailWith
<1>2. ASSUME NEW c \in Calls, ReadBefore(c) PROVE TypeOK'
  <2>1. /\ pc' \in [Calls -> Control]
        /\ result' \in [Calls -> {"none"} \cup Statuses \cup Errors]
    BY <1>2, ControlTypes DEF ReadBefore, Control, Errors, Statuses
  <2>2. QED
    BY <1>2, <2>1, ConstantsAssumption DEF ReadBefore, TypeOK, FailWith
<1>3. ASSUME NEW c \in Calls, PrepareRoute(c) PROVE TypeOK'
  <2>1. /\ pc' \in [Calls -> Control]
        /\ result' \in [Calls -> {"none"} \cup Statuses \cup Errors]
    BY <1>3, ControlTypes DEF PrepareRoute, Control, Errors, Statuses
  <2>2. QED
    BY <1>3, <2>1, ConstantsAssumption DEF PrepareRoute, TypeOK, FailWith
<1>4. ASSUME NEW c \in Calls, Joined(c) PROVE TypeOK'
  <2>1. /\ pc' \in [Calls -> Control]
        /\ result' \in [Calls -> {"none"} \cup Statuses \cup Errors]
    BY <1>4, ControlTypes DEF Joined, Control, Errors, Statuses
  <2>2. QED
    BY <1>4, <2>1, ConstantsAssumption DEF Joined, TypeOK, FailWith
<1>5. ASSUME NEW c \in Calls, Build(c) PROVE TypeOK'
  <2>1. /\ pc' \in [Calls -> Control]
        /\ result' \in [Calls -> {"none"} \cup Statuses \cup Errors]
    BY <1>5, ControlTypes DEF Build, Control, Errors, Statuses
  <2>2. QED
    BY <1>5, <2>1, ConstantsAssumption DEF Build, TypeOK, FailWith
<1>6. ASSUME NEW c \in Calls, SimulateCost(c) PROVE TypeOK'
  <2>1. /\ pc' \in [Calls -> Control]
        /\ result' \in [Calls -> {"none"} \cup Statuses \cup Errors]
    BY <1>6, ControlTypes DEF SimulateCost, Control, Errors, Statuses
  <2>2. QED
    BY <1>6, <2>1, ConstantsAssumption DEF SimulateCost, TypeOK, FailWith
<1>7. ASSUME NEW c \in Calls, ReadPrice(c) PROVE TypeOK'
  <2>1. /\ pc' \in [Calls -> Control]
        /\ result' \in [Calls -> {"none"} \cup Statuses \cup Errors]
    BY <1>7, ControlTypes DEF ReadPrice, Control, Errors, Statuses
  <2>2. CASE UNCHANGED <<rate, priceAge, charge>>
    BY <1>7, <2>1, <2>2 DEF ReadPrice, TypeOK, FailWith
  <2>3. CASE ~UNCHANGED <<rate, priceAge, charge>>
    <3>1. PICK r \in Rates, age \in 0..MaxPriceAge :
            /\ rate' = [rate EXCEPT ![c] = r]
            /\ priceAge' = [priceAge EXCEPT ![c] = age]
            /\ charge' = [charge EXCEPT ![c] = ChargeFor(cost[c], r)]
            /\ UNCHANGED outcomeVars
      BY <1>7, <2>3 DEF ReadPrice
    <3>2. r \in Nat /\ cost[c] \in Nat
      BY ConstantsAssumption DEF TypeOK
    <3>3. ChargeFor(cost[c], r) \in Nat
      <4>1. Reimbursement(cost[c], r) \in Nat
        BY <3>2, ReimbursementNat
      <4>2. ServiceFee \in Nat
        BY ConstantsAssumption
      <4>3. QED
        BY <4>1, <4>2 DEF ChargeFor
    <3>4. age \in 0..(MaxPriceAge + 1)
      BY ConstantsAssumption
    <3>5. UNCHANGED <<waited, stageVars, cost, recost, costAge, signVars,
                      chainVars>>
      BY <1>7 DEF ReadPrice
    <3>6. QED
      BY <2>1, <3>1, <3>2, <3>3, <3>4, <3>5 DEF TypeOK
  <2>4. QED
    BY <2>2, <2>3
<1>8. ASSUME NEW c \in Calls, Recheck(c) PROVE TypeOK'
  <2>1. /\ pc' \in [Calls -> Control]
        /\ result' \in [Calls -> {"none"} \cup Statuses \cup Errors]
    BY <1>8, ControlTypes DEF Recheck, Control, Errors, Statuses
  <2>2. QED
    BY <1>8, <2>1, ConstantsAssumption DEF Recheck, TypeOK, FailWith
<1>9. ASSUME NEW c \in Calls, UserSigns(c) PROVE TypeOK'
  <2>1. /\ pc' \in [Calls -> Control]
        /\ result' \in [Calls -> {"none"} \cup Statuses \cup Errors]
    BY <1>9, ControlTypes DEF UserSigns, Control, Errors, Statuses
  <2>2. QED
    BY <1>9, <2>1, ConstantsAssumption DEF UserSigns, TypeOK, FailWith
<1>10. ASSUME NEW c \in Calls, SponsorSigns(c) PROVE TypeOK'
  <2>1. /\ pc' \in [Calls -> Control]
        /\ result' \in [Calls -> {"none"} \cup Statuses \cup Errors]
    BY <1>10, ControlTypes DEF SponsorSigns, Control, Errors, Statuses
  <2>2. QED
    BY <1>10, <2>1, ConstantsAssumption DEF SponsorSigns, TypeOK, FailWith
<1>11. ASSUME NEW c \in Calls, Acknowledged(c) PROVE TypeOK'
  <2>1. /\ pc' \in [Calls -> Control]
        /\ result' \in [Calls -> {"none"} \cup Statuses \cup Errors]
    BY <1>11, ControlTypes DEF Acknowledged, Control, Errors, Statuses
  <2>2. waited' \in [Calls -> 0..Deadline] /\ sent' \subseteq Calls
    BY <1>11, ConstantsAssumption DEF Acknowledged, TypeOK
  <2>3. UNCHANGED <<stageVars, policyVars, signVars, reported, received, netCost,
                    confirmed, finalized, failed>>
    BY <1>11 DEF Acknowledged
  <2>4. QED
    BY <2>1, <2>2, <2>3 DEF TypeOK
<1>12. ASSUME NEW c \in Calls, SubmitFails(c) PROVE TypeOK'
  <2>1. /\ pc' \in [Calls -> Control]
        /\ result' \in [Calls -> {"none"} \cup Statuses \cup Errors]
    BY <1>12, ControlTypes DEF SubmitFails, Control, Errors, Statuses
  <2>2. QED
    BY <1>12, <2>1, ConstantsAssumption DEF SubmitFails, TypeOK, FailWith
<1>13. ASSUME NEW c \in Calls, StatusFound(c) PROVE TypeOK'
  <2>1. /\ pc' \in [Calls -> Control]
        /\ result' \in [Calls -> {"none"} \cup Statuses \cup Errors]
    BY <1>13, ControlTypes DEF StatusFound, Control, Errors, Statuses
  <2>2. QED
    BY <1>13, <2>1, ConstantsAssumption DEF StatusFound, TypeOK, FailWith
<1>14. ASSUME NEW c \in Calls, StatusFails(c) PROVE TypeOK'
  <2>1. /\ pc' \in [Calls -> Control]
        /\ result' \in [Calls -> {"none"} \cup Statuses \cup Errors]
    BY <1>14, ControlTypes DEF StatusFails, Control, Errors, Statuses
  <2>2. QED
    BY <1>14, <2>1, ConstantsAssumption DEF StatusFails, TypeOK, FailWith
<1>15. ASSUME NEW c \in Calls, DeadlinePasses(c) PROVE TypeOK'
  <2>1. /\ pc' \in [Calls -> Control]
        /\ result' \in [Calls -> {"none"} \cup Statuses \cup Errors]
    BY <1>15, ControlTypes DEF DeadlinePasses, Control, Errors, Statuses
  <2>2. QED
    BY <1>15, <2>1, ConstantsAssumption DEF DeadlinePasses, TypeOK, FailWith
<1>16. ASSUME NEW c \in Calls, ReadAfter(c) PROVE TypeOK'
  <2>1. /\ pc' \in [Calls -> Control]
        /\ result' \in [Calls -> {"none"} \cup Statuses \cup Errors]
    BY <1>16, ControlTypes DEF ReadAfter, Control, Errors, Statuses
  <2>2. QED
    BY <1>16, <2>1, ConstantsAssumption DEF ReadAfter, TypeOK, FailWith
<1>17. CASE Tick
  <2>1. ASSUME NEW age \in 0..(MaxPriceAge + 1)
        PROVE  Older(age) \in 0..(MaxPriceAge + 1)
    BY ConstantsAssumption DEF Older
  <2>2. /\ priceAge' \in [Calls -> 0..(MaxPriceAge + 1)]
        /\ costAge' \in [Calls -> 0..(MaxPriceAge + 1)]
    BY <1>17, <2>1 DEF Tick, TypeOK
  <2>3. waited' \in [Calls -> 0..Deadline]
    BY <1>17, ConstantsAssumption DEF Tick, TypeOK
  <2>4. QED
    BY <1>17, <2>2, <2>3 DEF Tick, TypeOK
<1>18. ASSUME NEW c \in Calls, Execute(c) \/ Finalize(c) PROVE TypeOK'
  BY <1>18 DEF Execute, Finalize, TypeOK
<1>19. CASE CostMoves
  <2>1. costAge' \in [Calls -> 0..(MaxPriceAge + 1)] /\ netCost' \in Costs
    BY <1>19, ConstantsAssumption DEF CostMoves, TypeOK
  <2>2. QED
    BY <1>19, <2>1 DEF CostMoves, TypeOK
<1>20. CASE UNCHANGED vars
  BY <1>20 DEF vars, TypeOK
<1>21. ASSUME NEW c \in Calls, Resimulate(c) PROVE TypeOK'
  <2>1. /\ pc' \in [Calls -> Control]
        /\ result' \in [Calls -> {"none"} \cup Statuses \cup Errors]
    BY <1>21, ControlTypes DEF Resimulate, Control, Errors, Statuses
  <2>2. netCost \in Nat
    BY ConstantsAssumption DEF TypeOK
  <2>3. QED
    BY <1>21, <2>1, <2>2 DEF Resimulate, TypeOK, FailWith
<1>22. QED
  BY <1>1, <1>2, <1>3, <1>4, <1>5, <1>6, <1>7, <1>8, <1>9, <1>10, <1>11,
     <1>12, <1>13, <1>14, <1>15, <1>16, <1>17, <1>18, <1>19, <1>20, <1>21
  DEF Next, Advance, Cluster

-----------------------------------------------------------------------------
(* The strengthening, action by action. *)

\* Starting a call and reading the balance before it.
LEMMA StartKeeps ==
  ASSUME IndInv, TypeOK', NEW c \in Calls, Start(c)
  PROVE  IndInv'
BY MoveKeeps DEF Start, heldVars, policyVars, signVars, outcomeVars, chainVars

LEMMA ReadBeforeKeeps ==
  ASSUME IndInv, TypeOK', NEW c \in Calls, ReadBefore(c)
  PROVE  IndInv'
<1> USE DEF policyVars, signVars, outcomeVars, chainVars
<1>1. UNCHANGED <<request, pc, cost, rate, charge, userSigned, sponsorSigned,
                  result, reported, received, sent, confirmed, failed>>
  BY DEF ReadBefore
<1>2. c \notin confirmed
  BY DEF ReadBefore, IndInv, CallHolds, SentHolds
<1>3. ASSUME NEW d \in Calls, d # c PROVE CallHolds(d)'
  <2>1. before'[d] = before[d]
    BY <1>3 DEF ReadBefore, IndInv, TypeOK
  <2>2. QED
    BY <1>1, <2>1, OthersKeep DEF IndInv
<1>4. CallHolds(c)'
  <2>1. before'[c] = before[c] \/ before'[c] = {confirmed}
    BY DEF ReadBefore, IndInv, TypeOK
  <2>2. BalanceHolds(c)'
    BY <1>1, <1>2, <2>1 DEF IndInv, CallHolds, BalanceHolds
  <2>3. QED
    BY <1>1, <2>2 DEF IndInv, CallHolds, SignaturesHold, ChargeHolds,
      ReportHolds, SentHolds, FullySigned, ChargeFor, Reimbursement
<1>5. QED
  BY <1>3, <1>4 DEF IndInv

\* The end of preparation, with or without a route.
LEMMA JoinedKeeps ==
  ASSUME IndInv, TypeOK', NEW c \in Calls, Joined(c)
  PROVE  IndInv'
<1> USE DEF stageVars, policyVars, signVars, outcomeVars, chainVars
<1>1. CASE routed[c]
  BY <1>1, MoveKeeps DEF Joined, heldVars
<1>2. CASE ~routed[c]
  <2>1. c \notin sent
    BY DEF Joined, IndInv, CallHolds, SentHolds
  <2>2. QED
    BY <1>2, <2>1, FailKeeps DEF Joined, Errors
<1>3. QED
  BY <1>1, <1>2

\* A call that is not past the signers has sent nothing.
LEMMA NothingSent ==
  ASSUME IndInv, NEW c \in Calls, pc[c] \in Unsigned \cup {"sponsor", "submit"}
  PROVE  c \notin sent
BY DEF IndInv, CallHolds, SentHolds

LEMMA BuildKeeps ==
  ASSUME IndInv, TypeOK', NEW c \in Calls, Build(c)
  PROVE  IndInv'
<1> USE DEF stageVars, policyVars, signVars, outcomeVars, chainVars
<1>1. CASE \E error \in {"build", "sign"} : FailWith(c, error) /\ UNCHANGED charge
  BY <1>1, FailKeeps, NothingSent DEF Build, Errors
<1>2. CASE UNCHANGED <<result, received>>
  <2> DEFINE fee == IF request[c].sponsored THEN Ceiling ELSE 0
  <2>1. CASE \E error \in {"build", "sign"} : FailWith(c, error) /\ UNCHANGED charge
    BY <1>1, <2>1
  <2>2. CASE ~\E error \in {"build", "sign"} :
               FailWith(c, error) /\ UNCHANGED charge
    <3>1. /\ Goto(c, IF request[c].sponsored THEN "cost" ELSE "user")
          /\ charge' = [charge EXCEPT ![c] = fee]
          /\ reported' = [reported EXCEPT ![c] = fee]
          /\ UNCHANGED <<request, before, cost, rate, signVars, result,
                         received, sent, confirmed, failed>>
      BY <1>2, <2>2 DEF Build
    <3>2. ASSUME NEW d \in Calls, d # c PROVE CallHolds(d)'
      <4>1. pc'[d] = pc[d] /\ charge'[d] = charge[d] /\ reported'[d] = reported[d]
        BY <3>1, <3>2 DEF Goto, IndInv, TypeOK
      <4>2. QED
        BY <3>1, <4>1, OthersKeep DEF IndInv
    <3>3. /\ pc'[c] = IF request[c].sponsored THEN "cost" ELSE "user"
          /\ charge'[c] = fee /\ reported'[c] = fee
      BY <3>1 DEF Goto, IndInv, TypeOK
    <3>4. CallHolds(c)'
      <4>1. pc[c] = "build" /\ c \notin sent
        BY NothingSent DEF Build
      <4>2. QED
        BY <3>1, <3>3, <4>1 DEF IndInv, CallHolds, SignaturesHold, ChargeHolds,
          ReportHolds, SentHolds, BalanceHolds, FullySigned, Statuses
    <3>5. QED
      BY <3>2, <3>4 DEF IndInv
  <2>3. QED
    BY <2>1, <2>2
<1>3. QED
  BY <1>1, <1>2 DEF Build

\* The cost the policy charges for is read.
LEMMA SimulateCostKeeps ==
  ASSUME IndInv, TypeOK', NEW c \in Calls, SimulateCost(c)
  PROVE  IndInv'
<1> USE DEF stageVars, policyVars, signVars, outcomeVars, chainVars
<1>1. CASE FailWith(c, "cost") /\ UNCHANGED cost
  BY <1>1, FailKeeps, NothingSent DEF SimulateCost, Errors
<1>2. CASE /\ Goto(c, "price")
           /\ cost' = [cost EXCEPT ![c] = netCost]
           /\ UNCHANGED outcomeVars
  <2>1. ASSUME NEW d \in Calls, d # c PROVE CallHolds(d)'
    <3>1. pc'[d] = pc[d] /\ cost'[d] = cost[d]
      BY <1>2, <2>1 DEF Goto, IndInv, TypeOK
    <3>2. QED
      BY <1>2, <3>1, OthersKeep DEF SimulateCost, IndInv
  <2>2. pc'[c] = "price" /\ pc[c] = "cost" /\ c \notin sent
    BY <1>2, NothingSent DEF SimulateCost, Goto, IndInv, TypeOK
  <2>3. CallHolds(c)'
    BY <1>2, <2>2 DEF SimulateCost, IndInv, CallHolds, SignaturesHold,
      ChargeHolds, ReportHolds, SentHolds, BalanceHolds, FullySigned, Statuses
  <2>4. QED
    BY <2>1, <2>3 DEF IndInv
<1>3. QED
  BY <1>1, <1>2 DEF SimulateCost

\* The charge is computed, within both caps.
LEMMA ReadPriceKeeps ==
  ASSUME IndInv, TypeOK', NEW c \in Calls, ReadPrice(c)
  PROVE  IndInv'
<1> USE DEF stageVars, policyVars, signVars, outcomeVars, chainVars
<1>1. CASE FailWith(c, "price") /\ UNCHANGED <<rate, priceAge, charge>>
  BY <1>1, FailKeeps, NothingSent DEF ReadPrice, Errors
<1>2. ASSUME NEW r \in Rates, NEW age \in 0..MaxPriceAge,
             Chargeable(cost[c], r, age),
             Goto(c, "recheck"),
             rate' = [rate EXCEPT ![c] = r],
             charge' = [charge EXCEPT ![c] = ChargeFor(cost[c], r)],
             UNCHANGED outcomeVars
      PROVE  IndInv'
  <2>1. ASSUME NEW d \in Calls, d # c PROVE CallHolds(d)'
    <3>1. pc'[d] = pc[d] /\ rate'[d] = rate[d] /\ charge'[d] = charge[d]
      BY <1>2, <2>1 DEF Goto, IndInv, TypeOK
    <3>2. QED
      BY <1>2, <3>1, OthersKeep DEF ReadPrice, IndInv
  <2>2. pc'[c] = "recheck" /\ pc[c] = "price" /\ c \notin sent
    BY <1>2, NothingSent DEF ReadPrice, Goto, IndInv, TypeOK
  <2>3. rate'[c] = r /\ charge'[c] = ChargeFor(cost[c], r) /\ cost'[c] = cost[c]
    BY <1>2 DEF ReadPrice, IndInv, TypeOK
  <2>4. ChargeHolds(c)'
    BY <1>2, <2>3 DEF ChargeHolds, Chargeable, ChargeFor, Reimbursement
  <2>5. CallHolds(c)'
    BY <1>2, <2>2, <2>4 DEF ReadPrice, IndInv, CallHolds, SignaturesHold,
      ReportHolds, SentHolds, BalanceHolds, FullySigned, Statuses
  <2>6. QED
    BY <2>1, <2>5 DEF IndInv
<1>3. QED
  BY <1>1, <1>2 DEF ReadPrice

\* The second simulation changes nothing that is signed or charged.
LEMMA ResimulateKeeps ==
  ASSUME IndInv, TypeOK', NEW c \in Calls, Resimulate(c)
  PROVE  IndInv'
<1> USE DEF stageVars, signVars, outcomeVars, chainVars
<1>1. CASE Goto(c, "compare") /\ UNCHANGED outcomeVars
  BY <1>1, MoveKeeps DEF Resimulate, heldVars
<1>2. CASE FailWith(c, "cost")
  BY <1>2, FailKeeps, NothingSent DEF Resimulate, Errors
<1>3. QED
  BY <1>1, <1>2 DEF Resimulate

\* The second simulation confirms the charge, which is then reported.
LEMMA RecheckKeeps ==
  ASSUME IndInv, TypeOK', NEW c \in Calls, Recheck(c)
  PROVE  IndInv'
<1> USE DEF stageVars, policyVars, signVars, outcomeVars, chainVars
<1>1. CASE FailWith(c, "cost") \/ FailWith(c, "price")
  BY <1>1, FailKeeps, NothingSent DEF Recheck, Errors
<1>2. CASE /\ Goto(c, "user")
           /\ reported' = [reported EXCEPT ![c] = charge[c]]
           /\ UNCHANGED <<result, received>>
  <2>1. ASSUME NEW d \in Calls, d # c PROVE CallHolds(d)'
    <3>1. pc'[d] = pc[d] /\ reported'[d] = reported[d]
      BY <1>2, <2>1 DEF Goto, IndInv, TypeOK
    <3>2. QED
      BY <1>2, <3>1, OthersKeep DEF Recheck, IndInv
  <2>2. pc'[c] = "user" /\ pc[c] = "compare" /\ c \notin sent
    BY <1>2, NothingSent DEF Recheck, Goto, IndInv, TypeOK
  <2>3. reported'[c] = charge[c]
    BY <1>2 DEF IndInv, TypeOK
  <2>4. CallHolds(c)'
    BY <1>2, <2>2, <2>3 DEF Recheck, IndInv, CallHolds, SignaturesHold,
      ChargeHolds, ReportHolds, SentHolds, BalanceHolds, FullySigned,
      ChargeFor, Reimbursement, Statuses
  <2>5. QED
    BY <2>1, <2>4 DEF IndInv
<1>3. QED
  BY <1>1, <1>2 DEF Recheck

\* The signatures of the user and then of the sponsor cover the final charge.
LEMMA UserSignsKeeps ==
  ASSUME IndInv, TypeOK', NEW c \in Calls, UserSigns(c)
  PROVE  IndInv'
<1> USE DEF stageVars, policyVars, signVars, outcomeVars, chainVars
<1>1. CASE FailWith(c, "sign") /\ UNCHANGED userSigned
  BY <1>1, FailKeeps, NothingSent DEF UserSigns, Errors
<1>2. CASE /\ Goto(c, IF request[c].sponsored THEN "sponsor" ELSE "submit")
           /\ userSigned' = [userSigned EXCEPT ![c] = {charge[c]}]
           /\ UNCHANGED outcomeVars
  <2>1. ASSUME NEW d \in Calls, d # c PROVE CallHolds(d)'
    <3>1. pc'[d] = pc[d] /\ userSigned'[d] = userSigned[d]
      BY <1>2, <2>1 DEF Goto, IndInv, TypeOK
    <3>2. QED
      BY <1>2, <3>1, OthersKeep DEF UserSigns, IndInv
  <2>2. /\ pc'[c] = IF request[c].sponsored THEN "sponsor" ELSE "submit"
        /\ pc[c] = "user" /\ c \notin sent
    BY <1>2, NothingSent DEF UserSigns, Goto, IndInv, TypeOK
  <2>3. userSigned'[c] = {charge[c]} /\ sponsorSigned'[c] = {}
    BY <1>2 DEF UserSigns, IndInv, TypeOK, CallHolds, SignaturesHold
  <2>4. CallHolds(c)'
    BY <1>2, <2>2, <2>3 DEF UserSigns, IndInv, CallHolds, SignaturesHold,
      ChargeHolds, ReportHolds, SentHolds, BalanceHolds, FullySigned,
      ChargeFor, Reimbursement, Statuses
  <2>5. QED
    BY <2>1, <2>4 DEF IndInv
<1>3. QED
  BY <1>1, <1>2 DEF UserSigns

LEMMA SponsorSignsKeeps ==
  ASSUME IndInv, TypeOK', NEW c \in Calls, SponsorSigns(c)
  PROVE  IndInv'
<1> USE DEF stageVars, policyVars, signVars, outcomeVars, chainVars
<1>1. CASE FailWith(c, "sign") /\ UNCHANGED sponsorSigned
  BY <1>1, FailKeeps, NothingSent DEF SponsorSigns, Errors
<1>2. CASE /\ Goto(c, "submit")
           /\ sponsorSigned' = [sponsorSigned EXCEPT ![c] = {charge[c]}]
           /\ UNCHANGED outcomeVars
  <2>1. ASSUME NEW d \in Calls, d # c PROVE CallHolds(d)'
    <3>1. pc'[d] = pc[d] /\ sponsorSigned'[d] = sponsorSigned[d]
      BY <1>2, <2>1 DEF Goto, IndInv, TypeOK
    <3>2. QED
      BY <1>2, <3>1, OthersKeep DEF SponsorSigns, IndInv
  <2>2. pc'[c] = "submit" /\ pc[c] = "sponsor" /\ c \notin sent
    BY <1>2, NothingSent DEF SponsorSigns, Goto, IndInv, TypeOK
  <2>3. sponsorSigned'[c] = {charge[c]}
    BY <1>2 DEF IndInv, TypeOK
  <2>4. CallHolds(c)'
    BY <1>2, <2>2, <2>3 DEF SponsorSigns, IndInv, CallHolds, SignaturesHold,
      ChargeHolds, ReportHolds, SentHolds, BalanceHolds, FullySigned,
      ChargeFor, Reimbursement, Statuses
  <2>5. QED
    BY <2>1, <2>4 DEF IndInv
<1>3. QED
  BY <1>1, <1>2 DEF SponsorSigns

\* The submitter's two answers.
LEMMA AcknowledgedKeeps ==
  ASSUME IndInv, TypeOK', NEW c \in Calls, Acknowledged(c)
  PROVE  IndInv'
<1> USE DEF stageVars, policyVars, signVars
<1> DEFINE next == IF request[c].waits THEN "confirm" ELSE "done"
           status == IF request[c].waits THEN result[c] ELSE "Pending"
<1>1. /\ pc' = [pc EXCEPT ![c] = next]
      /\ result' = [result EXCEPT ![c] = status]
      /\ sent' = sent \cup {c}
  BY DEF Acknowledged, Goto, IndInv, TypeOK
<1>2. UNCHANGED <<request, before, cost, rate, charge, signVars, reported,
                  received, confirmed, failed>>
  BY DEF Acknowledged
<1>3. ASSUME NEW d \in Calls, d # c PROVE CallHolds(d)'
  <2>1. pc'[d] = pc[d] /\ result'[d] = result[d]
    BY <1>1, <1>3 DEF IndInv, TypeOK
  <2>2. QED
    BY <1>1, <1>2, <1>3, <2>1, OthersKeep DEF IndInv
<1>4. CallHolds(c)'
  <2>1. pc[c] = "submit" /\ c \notin sent /\ pc'[c] = next /\ result'[c] = status
    BY <1>1, NothingSent DEF Acknowledged, IndInv, TypeOK
  <2>2. QED
    BY <1>1, <1>2, <2>1 DEF IndInv, CallHolds, SignaturesHold, ChargeHolds,
      ReportHolds, SentHolds, BalanceHolds, FullySigned, ChargeFor,
      Reimbursement, Statuses
<1>5. QED
  BY <1>3, <1>4 DEF IndInv

LEMMA SubmitFailsKeeps ==
  ASSUME IndInv, TypeOK', NEW c \in Calls, SubmitFails(c)
  PROVE  IndInv'
BY FailKeeps DEF SubmitFails, Errors, stageVars, policyVars, signVars

\* The answers to a status request, and the end of the polling.
LEMMA StatusFailsKeeps ==
  ASSUME IndInv, TypeOK', NEW c \in Calls, StatusFails(c)
  PROVE  IndInv'
BY FailKeeps DEF StatusFails, Errors, stageVars, policyVars, signVars, chainVars

\* A call ends with a status that is true of its transaction.
LEMMA StatusKeeps ==
  ASSUME IndInv, TypeOK', NEW c \in Calls, NEW status \in Statuses,
         pc[c] \in {"confirm", "after"}, Goto(c, "done"),
         result' = [result EXCEPT ![c] = status],
         status = "Confirmed" => c \in confirmed,
         status = "Failed" => c \in failed,
         UNCHANGED <<stageVars, policyVars, signVars, reported, chainVars>>,
         \A d \in Calls \ {c} : received'[d] = received[d],
         \A gained \in received'[c] : c \in gained
  PROVE  IndInv'
<1> USE DEF stageVars, policyVars, signVars, chainVars
<1>1. ASSUME NEW d \in Calls, d # c PROVE CallHolds(d)'
  <2>1. pc'[d] = pc[d] /\ result'[d] = result[d] /\ received'[d] = received[d]
    BY <1>1 DEF Goto, IndInv, TypeOK
  <2>2. QED
    BY <2>1, OthersKeep DEF IndInv
<1>2. pc'[c] = "done" /\ result'[c] = status
  BY DEF Goto, IndInv, TypeOK
<1>3. CallHolds(c)'
  BY <1>2 DEF IndInv, CallHolds, SignaturesHold, ChargeHolds,
    ReportHolds, SentHolds, BalanceHolds, FullySigned, ChargeFor,
    Reimbursement, Statuses
<1>4. QED
  BY <1>1, <1>3 DEF IndInv

LEMMA StatusFoundKeeps ==
  ASSUME IndInv, TypeOK', NEW c \in Calls, StatusFound(c)
  PROVE  IndInv'
<1> USE DEF stageVars, policyVars, signVars, outcomeVars, chainVars
<1>1. CASE c \in confirmed /\ Goto(c, "after") /\ UNCHANGED result
  BY <1>1, MoveKeeps DEF StatusFound, heldVars
<1>2. CASE /\ c \in failed
           /\ Goto(c, "done")
           /\ result' = [result EXCEPT ![c] = "Failed"]
  <2>1. \A gained \in received'[c] : c \in gained
    BY DEF StatusFound, IndInv, CallHolds, BalanceHolds
  <2>2. QED
    BY <1>2, <2>1, StatusKeeps DEF StatusFound, Statuses
<1>3. QED
  BY <1>1, <1>2 DEF StatusFound

LEMMA DeadlinePassesKeeps ==
  ASSUME IndInv, TypeOK', NEW c \in Calls, DeadlinePasses(c)
  PROVE  IndInv'
<1>1. \A gained \in received'[c] : c \in gained
  BY DEF DeadlinePasses, IndInv, CallHolds, BalanceHolds
<1>2. QED
  BY <1>1, StatusKeeps DEF DeadlinePasses, Statuses

\* What was gained since the balance read before includes the swap's output.
LEMMA ReadAfterKeeps ==
  ASSUME IndInv, TypeOK', NEW c \in Calls, ReadAfter(c)
  PROVE  IndInv'
<1>1. c \in confirmed /\ CallHolds(c)
  BY DEF ReadAfter, IndInv, CallHolds, SentHolds
<1>2. /\ \A d \in Calls \ {c} : received'[d] = received[d]
      /\ \/ received'[c] = received[c]
         \/ received'[c] = {confirmed \ b : b \in before[c]}
  BY DEF ReadAfter, IndInv, TypeOK
<1>3. \A gained \in received'[c] : c \in gained
  BY <1>1, <1>2 DEF CallHolds, BalanceHolds
<1>4. QED
  BY <1>1, <1>2, <1>3, StatusKeeps DEF ReadAfter, Statuses

\* A transaction is executed only as it was signed, once it was sent.
LEMMA ExecuteKeeps ==
  ASSUME IndInv, TypeOK', NEW c \in Calls, Execute(c)
  PROVE  IndInv'
<1> USE DEF stageVars, policyVars, signVars, outcomeVars
<1>1. /\ c \in sent
      /\ confirmed' \in {confirmed, confirmed \cup {c}}
      /\ failed' \in {failed, failed \cup {c}}
      /\ UNCHANGED <<request, pc, before, cost, rate, charge, userSigned,
                     sponsorSigned, result, reported, received, sent>>
  BY DEF Execute
<1>2. ASSUME NEW d \in Calls, d # c PROVE CallHolds(d)'
  BY <1>1, <1>2, OthersKeep DEF IndInv
<1>3. CallHolds(c)'
  BY <1>1 DEF IndInv, CallHolds, SignaturesHold, ChargeHolds,
    ReportHolds, SentHolds, BalanceHolds, FullySigned, ChargeFor,
    Reimbursement
<1>4. QED
  BY <1>2, <1>3 DEF IndInv

\* The steps that touch nothing the invariant speaks of.
LEMMA SilentKeeps ==
  ASSUME IndInv, TypeOK', UNCHANGED <<pc, heldVars>>
  PROVE  IndInv'
BY OthersKeep DEF IndInv, heldVars, signVars, outcomeVars

LEMMA StepKeeps == IndInv /\ [Next]_vars => IndInv'
<1> SUFFICES ASSUME IndInv, [Next]_vars PROVE IndInv'
  OBVIOUS
<1>1. TypeOK'
  BY TypeStep DEF IndInv
<1>2. ASSUME NEW c \in Calls, Start(c) \/ StatusFails(c) PROVE IndInv'
  BY <1>1, <1>2, StartKeeps, StatusFailsKeeps
<1>3. ASSUME NEW c \in Calls, PrepareRoute(c) PROVE IndInv'
  BY <1>1, <1>3, SilentKeeps
  DEF PrepareRoute, heldVars, policyVars, signVars, outcomeVars, chainVars
<1>4. ASSUME NEW c \in Calls,
             \/ ReadBefore(c) \/ Joined(c) \/ Build(c)
             \/ SimulateCost(c) \/ ReadPrice(c) \/ Resimulate(c) \/ Recheck(c)
      PROVE  IndInv'
  BY <1>1, <1>4, ReadBeforeKeeps, JoinedKeeps, BuildKeeps, SimulateCostKeeps,
     ReadPriceKeeps, ResimulateKeeps, RecheckKeeps
<1>5. ASSUME NEW c \in Calls,
             \/ UserSigns(c) \/ SponsorSigns(c)
             \/ Acknowledged(c) \/ SubmitFails(c)
             \/ StatusFound(c) \/ DeadlinePasses(c) \/ ReadAfter(c)
      PROVE  IndInv'
  BY <1>1, <1>5, UserSignsKeeps, SponsorSignsKeeps, AcknowledgedKeeps,
     SubmitFailsKeeps, StatusFoundKeeps, DeadlinePassesKeeps, ReadAfterKeeps
<1>6. ASSUME NEW c \in Calls, Execute(c) \/ Finalize(c) PROVE IndInv'
  <2>1. CASE Execute(c)
    BY <1>1, <2>1, ExecuteKeeps
  <2>2. CASE Finalize(c)
    BY <1>1, <2>2, SilentKeeps
    DEF Finalize, heldVars, stageVars, policyVars, signVars, outcomeVars
  <2>3. QED
    BY <1>6, <2>1, <2>2
<1>7. CASE CostMoves
  BY <1>1, <1>7, SilentKeeps
  DEF CostMoves, heldVars, stageVars, policyVars, signVars, outcomeVars
<1>8. CASE Tick
  BY <1>1, <1>8, SilentKeeps
  DEF Tick, heldVars, stageVars, signVars, outcomeVars, chainVars
<1>9. CASE UNCHANGED vars
  BY <1>1, <1>9, SilentKeeps
  DEF vars, heldVars, stageVars, policyVars, signVars, outcomeVars, chainVars
<1>10. QED
  BY <1>2, <1>3, <1>4, <1>5, <1>6, <1>7, <1>8, <1>9 DEF Next, Advance, Cluster

\* The strengthening holds in every state.
THEOREM Invariance == Spec => []IndInv
<1>1. QED
  BY InitIndInv, StepKeeps, PTL DEF Spec

-----------------------------------------------------------------------------
(* The invariants that are runs' properties. *)

\* Every variable of every call and of the cluster keeps its type.
THEOREM TypeCorrect == Spec => []TypeOK
<1>1. IndInv => TypeOK
  BY DEF IndInv
<1>2. QED
  BY <1>1, Invariance, PTL

\* User and sponsor sign the same final transaction, the user first.
THEOREM OneTransactionIsSigned == Spec => []SignersAgree
<1>1. IndInv => SignersAgree
  BY DEF IndInv, CallHolds, SignaturesHold, SignersAgree
<1>2. QED
  BY <1>1, Invariance, PTL

\* A quotient that was rounded up covers the dividend.
LEMMA RoundedUpCovers ==
  ASSUME NEW x \in Nat, NEW n \in Nat \ {0}
  PROVE  ((x + n - 1) \div n) * n >= x
<1> DEFINE p == x + n - 1
           q == p \div n
           m == p % n
<1>1. p \in Int /\ n \in Int /\ n > 0
  OBVIOUS
<1>2. q \in Int /\ m \in 0..(n - 1)
  BY <1>1
<1>3. p = n * q + m
  BY <1>1
<1>4. q * n = n * q
  BY <1>2
<1>5. QED
  BY <1>1, <1>2, <1>3, <1>4

\* The sponsor of a transaction the user signed is paid back what was
\* simulated, at the rate of the feed, and no more than was reserved.
THEOREM SponsorIsPaidBack == Spec => []CostsRecovered
<1>1. ASSUME IndInv, NEW c \in Calls, request[c].sponsored, userSigned[c] # {}
      PROVE  /\ cost[c] <= MaxCost
             /\ charge[c] <= Ceiling
             /\ (charge[c] - ServiceFee) * LamportsPerSol >= cost[c] * rate[c]
  <2> DEFINE paid == Reimbursement(cost[c], rate[c])
  <2>1. /\ cost[c] <= MaxCost /\ charge[c] <= Ceiling
        /\ charge[c] = paid + ServiceFee
    BY <1>1 DEF IndInv, CallHolds, ChargeHolds, ChargeFor
  <2>2. cost[c] \in Nat /\ rate[c] \in Nat
    BY <1>1 DEF IndInv, TypeOK
  <2>3. paid \in Nat /\ ServiceFee \in Nat
    BY <2>2, ReimbursementNat, ConstantsAssumption
  <2>4. paid * LamportsPerSol >= cost[c] * rate[c]
    <3>1. cost[c] * rate[c] \in Nat
      BY <2>2
    <3>2. QED
      BY <3>1, RoundedUpCovers, ConstantsAssumption DEF Reimbursement
  <2>5. charge[c] - ServiceFee = paid
    BY <2>1, <2>3
  <2>6. QED
    BY <2>1, <2>4, <2>5
<1>2. IndInv => CostsRecovered
  BY <1>1 DEF CostsRecovered
<1>3. QED
  BY <1>2, Invariance, PTL

\* A result reports the sponsorship fee that the sent transaction encodes.
THEOREM FeeIsReported == Spec => []ReportedIsEncoded
<1>1. IndInv => ReportedIsEncoded
  BY DEF IndInv, CallHolds, ReportHolds, SentHolds, ReportedIsEncoded
<1>2. QED
  BY <1>1, Invariance, PTL

\* The status a caller gets agrees with the cluster.
THEOREM StatusIsTrue == Spec => []StatusMatchesChain
<1>1. IndInv => StatusMatchesChain
  BY DEF IndInv, CallHolds, SentHolds, StatusMatchesChain
<1>2. QED
  BY <1>1, Invariance, PTL

\* amount_received includes the swap's own output.
THEOREM OutputIsCounted == Spec => []ReceivedCountsOwn
<1>1. IndInv => ReceivedCountsOwn
  BY DEF IndInv, CallHolds, BalanceHolds, ReceivedCountsOwn
<1>2. QED
  BY <1>1, Invariance, PTL

\* How old what the charge rests on can be: what the sponsor would pay now is
\* of age 0, and a cost the second simulation confirmed cannot have been
\* overtaken for longer than the rate has been known.
AgesHold(c) ==
  /\ netCost = cost[c] => costAge[c] = 0
  /\ pc[c] = "compare" /\ recost[c] = cost[c] => costAge[c] <= priceAge[c]

AgeInv == \A c \in Calls : AgesHold(c)

ageVars == <<cost, recost, costAge, priceAge, netCost>>

\* A step that neither ages anything nor brings a call to the comparison.
LEMMA AgesKeep ==
  ASSUME AgeInv, UNCHANGED ageVars,
         \A d \in Calls : pc'[d] = "compare" => pc[d] = "compare"
  PROVE  AgeInv'
BY DEF AgeInv, AgesHold, ageVars

\* A call that goes elsewhere brings none to the comparison.
LEMMA GotoElsewhere ==
  ASSUME TypeOK, NEW c \in Calls, NEW next, Goto(c, next), next # "compare"
  PROVE  \A d \in Calls : pc'[d] = "compare" => pc[d] = "compare"
BY DEF Goto, TypeOK

LEMMA AgeStep == IndInv /\ AgeInv /\ [Next]_vars => AgeInv'
<1> SUFFICES ASSUME TypeOK, AgeInv, [Next]_vars PROVE AgeInv'
  BY DEF IndInv
<1> USE DEF stageVars, policyVars, signVars, outcomeVars, chainVars, ageVars
<1>1. ASSUME NEW c \in Calls, NEW error, FailWith(c, error), UNCHANGED ageVars
      PROVE  AgeInv'
  BY <1>1, GotoElsewhere, AgesKeep DEF FailWith
<1>2. ASSUME NEW c \in Calls,
             \/ Start(c) \/ ReadBefore(c) \/ PrepareRoute(c) \/ Joined(c)
             \/ Build(c) \/ Recheck(c)
      PROVE  AgeInv'
  BY <1>1, <1>2, GotoElsewhere, AgesKeep
  DEF Start, ReadBefore, PrepareRoute, Joined, Build, Recheck
<1>3. ASSUME NEW c \in Calls,
             \/ UserSigns(c) \/ SponsorSigns(c) \/ Acknowledged(c)
             \/ SubmitFails(c)
      PROVE  AgeInv'
  BY <1>1, <1>3, GotoElsewhere, AgesKeep
  DEF UserSigns, SponsorSigns, Acknowledged, SubmitFails
<1>4. ASSUME NEW c \in Calls,
             \/ StatusFound(c) \/ StatusFails(c) \/ DeadlinePasses(c)
             \/ ReadAfter(c)
      PROVE  AgeInv'
  BY <1>1, <1>4, GotoElsewhere, AgesKeep
  DEF StatusFound, StatusFails, DeadlinePasses, ReadAfter
<1>5. ASSUME NEW c \in Calls, SimulateCost(c) PROVE AgeInv'
  <2>1. CASE FailWith(c, "cost") /\ UNCHANGED <<cost, costAge>>
    BY <1>1, <1>5, <2>1 DEF SimulateCost
  <2>2. CASE /\ Goto(c, "price")
             /\ cost' = [cost EXCEPT ![c] = netCost]
             /\ costAge' = [costAge EXCEPT ![c] = 0]
    <3>1. pc'[c] = "price" /\ \A d \in Calls \ {c} : pc'[d] = pc[d]
      BY <2>2 DEF Goto, TypeOK
    <3>2. /\ costAge'[c] = 0
          /\ \A d \in Calls \ {c} : cost'[d] = cost[d] /\ costAge'[d] = costAge[d]
      BY <2>2 DEF TypeOK
    <3>3. QED
      BY <1>5, <3>1, <3>2 DEF SimulateCost, AgeInv, AgesHold
  <2>3. QED
    BY <1>5, <2>1, <2>2 DEF SimulateCost
<1>6. ASSUME NEW c \in Calls, ReadPrice(c) PROVE AgeInv'
  <2>1. CASE FailWith(c, "price") /\ UNCHANGED <<rate, priceAge, charge>>
    BY <1>1, <1>6, <2>1 DEF ReadPrice
  <2>2. ASSUME NEW age, Goto(c, "recheck"),
               priceAge' = [priceAge EXCEPT ![c] = age]
        PROVE  AgeInv'
    <3>1. pc'[c] = "recheck" /\ \A d \in Calls \ {c} : pc'[d] = pc[d]
      BY <2>2 DEF Goto, TypeOK
    <3>2. \A d \in Calls \ {c} : priceAge'[d] = priceAge[d]
      BY <2>2 DEF TypeOK
    <3>3. QED
      BY <1>6, <3>1, <3>2 DEF ReadPrice, AgeInv, AgesHold
  <2>3. QED
    BY <1>6, <2>1, <2>2 DEF ReadPrice
<1>7. ASSUME NEW c \in Calls, Resimulate(c) PROVE AgeInv'
  <2>1. CASE FailWith(c, "cost") /\ UNCHANGED recost
    BY <1>1, <1>7, <2>1 DEF Resimulate
  <2>2. CASE Goto(c, "compare") /\ recost' = [recost EXCEPT ![c] = netCost]
    <3>1. \A d \in Calls \ {c} : pc'[d] = pc[d] /\ recost'[d] = recost[d]
      BY <2>2 DEF Goto, TypeOK
    <3>2. recost'[c] = netCost /\ priceAge[c] >= 0
      BY <2>2, ConstantsAssumption DEF TypeOK
    <3>3. UNCHANGED <<cost, costAge, priceAge, netCost>>
      BY <1>7 DEF Resimulate
    <3>4. AgesHold(c)'
      BY <3>2, <3>3 DEF AgeInv, AgesHold
    <3>5. QED
      BY <3>1, <3>3, <3>4 DEF AgeInv, AgesHold
  <2>3. QED
    BY <1>7, <2>1, <2>2 DEF Resimulate
<1>8. CASE CostMoves
  <2>1. ASSUME NEW c \in Calls PROVE AgesHold(c)'
    <3>1. costAge'[c] = IF cost[c] = netCost' THEN 0 ELSE costAge[c]
      BY <1>8 DEF CostMoves
    <3>2. UNCHANGED <<pc, cost, recost, priceAge>>
      BY <1>8 DEF CostMoves
    <3>3. priceAge[c] >= 0
      BY ConstantsAssumption DEF TypeOK
    <3>4. QED
      BY <3>1, <3>2, <3>3 DEF AgeInv, AgesHold
  <2>2. QED
    BY <2>1 DEF AgeInv
<1>9. CASE Tick
  <2>1. ASSUME NEW c \in Calls PROVE AgesHold(c)'
    <3>1. UNCHANGED <<pc, cost, recost, netCost>>
      BY <1>9 DEF Tick
    <3>2. costAge'[c] = IF pc[c] \in {"price", "recheck", "compare"}
                           /\ cost[c] # netCost
                          THEN Older(costAge[c]) ELSE costAge[c]
      BY <1>9 DEF Tick
    <3>3. pc[c] = "compare" => priceAge'[c] = Older(priceAge[c])
      BY <1>9 DEF Tick
    <3>4. /\ costAge[c] \in 0..(MaxPriceAge + 1)
          /\ priceAge[c] \in 0..(MaxPriceAge + 1)
          /\ MaxPriceAge \in Nat
      BY ConstantsAssumption DEF TypeOK
    <3>5. costAge[c] <= priceAge[c] =>
            /\ Older(costAge[c]) <= Older(priceAge[c])
            /\ costAge[c] <= Older(priceAge[c])
      BY <3>4 DEF Older
    <3>6. QED
      BY <3>1, <3>2, <3>3, <3>5 DEF AgeInv, AgesHold
  <2>2. QED
    BY <2>1 DEF AgeInv
<1>10. ASSUME NEW c \in Calls, Execute(c) \/ Finalize(c) PROVE AgeInv'
  BY <1>10, AgesKeep DEF Execute, Finalize
<1>11. CASE UNCHANGED vars
  BY <1>11, AgesKeep DEF vars
<1>12. QED
  BY <1>2, <1>3, <1>4, <1>5, <1>6, <1>7, <1>8, <1>9, <1>10, <1>11
  DEF Next, Advance, Cluster

\* When the first signer of a sponsored swap is asked, the charge rests on a
\* cost and a rate of the last MaxPriceAge ticks, whatever the cluster did
\* while the simulations and the feed were awaited.
THEOREM BoundedWhenAsked == Spec => EstimateIsBounded
<1>1. Init => AgeInv
  <2>1. ASSUME Init, NEW c \in Calls PROVE costAge[c] = 0 /\ pc[c] # "compare"
    BY <2>1 DEF Init
  <2>2. QED
    BY <2>1 DEF AgeInv, AgesHold
<1>2. ASSUME IndInv, AgeInv, [Next]_vars, NEW c \in Calls,
             request[c].sponsored, pc[c] # "user", pc'[c] = "user"
      PROVE  costAge'[c] <= MaxPriceAge /\ priceAge'[c] <= MaxPriceAge
  <2>1. ASSUME NEW d \in Calls, Build(d) PROVE FALSE
    BY <1>2, <2>1 DEF Build, FailWith, Goto, IndInv, TypeOK
  <2>2. ASSUME NEW d \in Calls, Recheck(d)
        PROVE  costAge'[c] <= MaxPriceAge /\ priceAge'[c] <= MaxPriceAge
    <3>1. c = d /\ Goto(d, "user")
      BY <1>2, <2>2 DEF Recheck, FailWith, Goto, IndInv, TypeOK
    <3>2. ~FailWith(d, "cost") /\ ~FailWith(d, "price")
      <4>1. pc \in [Calls -> Control] /\ pc'[d] = "user"
        BY <1>2, <3>1 DEF IndInv, TypeOK
      <4>2. QED
        BY <4>1 DEF FailWith, Goto
    <3>3. /\ pc[c] = "compare" /\ recost[c] = cost[c]
          /\ Chargeable(cost[c], rate[c], priceAge[c])
          /\ UNCHANGED policyVars
      BY <2>2, <3>1, <3>2 DEF Recheck
    <3>4. costAge[c] <= priceAge[c] /\ priceAge[c] <= MaxPriceAge
      BY <1>2, <3>3 DEF AgeInv, AgesHold, Chargeable
    <3>5. /\ costAge[c] \in 0..(MaxPriceAge + 1)
          /\ priceAge[c] \in 0..(MaxPriceAge + 1)
          /\ MaxPriceAge \in Nat
      BY <1>2, ConstantsAssumption DEF IndInv, TypeOK
    <3>6. QED
      BY <3>3, <3>4, <3>5 DEF policyVars
  <2>3. ASSUME NEW d \in Calls,
               \/ Start(d) \/ ReadBefore(d) \/ PrepareRoute(d) \/ Joined(d)
               \/ SimulateCost(d) \/ ReadPrice(d) \/ Resimulate(d)
        PROVE  FALSE
    BY <1>2, <2>3 DEF Start, ReadBefore, PrepareRoute, Joined, SimulateCost,
      ReadPrice, Resimulate, FailWith, Goto, IndInv, TypeOK
  <2>4. ASSUME NEW d \in Calls,
               \/ UserSigns(d) \/ SponsorSigns(d) \/ Acknowledged(d)
               \/ SubmitFails(d) \/ StatusFound(d) \/ StatusFails(d)
               \/ DeadlinePasses(d) \/ ReadAfter(d)
        PROVE  FALSE
    BY <1>2, <2>4 DEF UserSigns, SponsorSigns, Acknowledged, SubmitFails,
      StatusFound, StatusFails, DeadlinePasses, ReadAfter, FailWith, Goto,
      IndInv, TypeOK
  <2>5. ~(Cluster \/ Tick \/ UNCHANGED vars)
    BY <1>2 DEF Cluster, CostMoves, Execute, Finalize, Tick, vars
  <2>6. QED
    BY <1>2, <2>1, <2>2, <2>3, <2>4, <2>5 DEF Next, Advance
<1>3. IndInv /\ AgeInv /\ [Next]_vars =>
        [\A c \in Calls :
           request[c].sponsored /\ pc[c] # "user" /\ pc'[c] = "user" =>
             /\ costAge'[c] <= MaxPriceAge
             /\ priceAge'[c] <= MaxPriceAge]_vars
  BY <1>2
<1>4. QED
  BY <1>1, <1>3, AgeStep, Invariance, PTL DEF Spec, EstimateIsBounded

-----------------------------------------------------------------------------
(* SolanaSwap implements SwapOutcome. *)

AnnouncedOf(c) == IF FullySigned(c) THEN 1 ELSE 0
LandedOf(c)    == IF c \in confirmed THEN {1} ELSE {}
VerdictOf(c)   == IF result[c] = "none" THEN "none"
                  ELSE IF result[c] = "Confirmed" THEN "ok" ELSE "unconfirmed"

LEMMA OutcomeInit == Init => Outcome!Init
<1> SUFFICES ASSUME Init PROVE Outcome!Init
  OBVIOUS
<1>1. \A c \in Calls : AnnouncedOf(c) = 0 /\ LandedOf(c) = {}
                       /\ VerdictOf(c) = "none"
  BY DEF Init, AnnouncedOf, LandedOf, VerdictOf, FullySigned
<1>2. [c \in Calls |-> 1] \in [Calls -> 1..1]
  OBVIOUS
<1>3. QED
  BY <1>1, <1>2 DEF Outcome!Init, AnnouncedOf, LandedOf, VerdictOf

\* A step that leaves every call's outcome alone.
LEMMA OutcomeStutters ==
  ASSUME \A c \in Calls : /\ FullySigned(c)' <=> FullySigned(c)
                          /\ c \in confirmed' <=> c \in confirmed
                          /\ VerdictOf(c)' = VerdictOf(c)
  PROVE  UNCHANGED Outcome!vars
<1>1. [c \in Calls |-> AnnouncedOf(c)]' = [c \in Calls |-> AnnouncedOf(c)]
  BY DEF AnnouncedOf
<1>2. [c \in Calls |-> LandedOf(c)]' = [c \in Calls |-> LandedOf(c)]
  BY DEF LandedOf
<1>3. [c \in Calls |-> VerdictOf(c)]' = [c \in Calls |-> VerdictOf(c)]
  OBVIOUS
<1>4. QED
  BY <1>1, <1>2, <1>3 DEF Outcome!vars, AnnouncedOf, LandedOf, VerdictOf

\* A call that ends: the verdict follows its result.
LEMMA OutcomeEnds ==
  ASSUME IndInv, NEW c \in Calls, pc[c] # "done",
         NEW how \in Statuses \cup Errors,
         result' = [result EXCEPT ![c] = how],
         how = "Confirmed" => c \in confirmed /\ FullySigned(c),
         UNCHANGED <<request, charge, userSigned, sponsorSigned, confirmed>>
  PROVE  Outcome!Succeed(c) \/ Outcome!EndUnconfirmed(c)
<1> DEFINE word == IF how = "Confirmed" THEN "ok" ELSE "unconfirmed"
<1>1. result[c] = "none" /\ how # "none"
  BY DEF IndInv, CallHolds, SentHolds, Statuses, Errors
<1>2. [d \in Calls |-> VerdictOf(d)]' =
        [[d \in Calls |-> VerdictOf(d)] EXCEPT ![c] = word]
  BY <1>1 DEF VerdictOf, IndInv, TypeOK
<1>3. UNCHANGED <<[d \in Calls |-> AnnouncedOf(d)], [d \in Calls |-> LandedOf(d)]>>
  BY DEF AnnouncedOf, LandedOf, FullySigned
<1>4. CASE how = "Confirmed"
  BY <1>1, <1>2, <1>3, <1>4
  DEF Outcome!Succeed, AnnouncedOf, LandedOf, VerdictOf
<1>5. CASE how # "Confirmed"
  BY <1>1, <1>2, <1>3, <1>5
  DEF Outcome!EndUnconfirmed, AnnouncedOf, LandedOf, VerdictOf
<1>6. QED
  BY <1>4, <1>5

\* The last signature announces the transaction.
LEMMA OutcomeAnnounces ==
  ASSUME IndInv, NEW c \in Calls, pc[c] \in {"user", "sponsor"},
         ~FullySigned(c), FullySigned(c)',
         \A d \in Calls \ {c} : FullySigned(d)' <=> FullySigned(d),
         UNCHANGED <<result, confirmed>>
  PROVE  Outcome!Announce(c)
<1>1. result[c] = "none" /\ c \notin confirmed
  BY DEF IndInv, CallHolds, SentHolds
<1>2. [d \in Calls |-> AnnouncedOf(d)]' =
        [[d \in Calls |-> AnnouncedOf(d)] EXCEPT ![c] = @ + 1]
  <2>1. \A d \in Calls : AnnouncedOf(d)' =
          IF d = c THEN AnnouncedOf(c) + 1 ELSE AnnouncedOf(d)
    BY DEF AnnouncedOf
  <2>2. QED
    BY <2>1
<1>3. UNCHANGED <<[d \in Calls |-> VerdictOf(d)], [d \in Calls |-> LandedOf(d)]>>
  BY DEF VerdictOf, LandedOf
<1>4. {} = 1..0
  OBVIOUS
<1>5. QED
  BY <1>1, <1>2, <1>3, <1>4
  DEF Outcome!Announce, AnnouncedOf, LandedOf, VerdictOf

LEMMA OutcomeLands ==
  ASSUME IndInv, NEW c \in Calls, Execute(c)
  PROVE  [Outcome!Next]_Outcome!vars
<1>1. /\ FullySigned(c) /\ c \notin confirmed
      /\ UNCHANGED <<request, charge, userSigned, sponsorSigned, result>>
  BY DEF Execute, stageVars, policyVars, signVars, outcomeVars
<1>2. CASE UNCHANGED confirmed
  BY <1>1, <1>2, OutcomeStutters DEF FullySigned, VerdictOf
<1>3. CASE confirmed' = confirmed \cup {c}
  <2>1. [d \in Calls |-> LandedOf(d)]' =
          [[d \in Calls |-> LandedOf(d)] EXCEPT ![c] = @ \cup {1}]
    BY <1>1, <1>3 DEF LandedOf
  <2>2. UNCHANGED <<[d \in Calls |-> VerdictOf(d)],
                    [d \in Calls |-> AnnouncedOf(d)]>>
    BY <1>1 DEF VerdictOf, AnnouncedOf, FullySigned
  <2>3. 1 \in (1..1) \ {}
    OBVIOUS
  <2>4. Outcome!Land(c)
    BY <1>1, <2>1, <2>2, <2>3
    DEF Outcome!Land, AnnouncedOf, LandedOf, VerdictOf
  <2>5. QED
    BY <2>4 DEF Outcome!Next
<1>4. QED
  BY <1>2, <1>3 DEF Execute

\* A step whose transactions keep their signatures, or have none before it and
\* after it, leaves what is announced alone.
LEMMA UnsignedStutters ==
  ASSUME IndInv, NEW c \in Calls, pc[c] \in Unsigned,
         \A d \in Calls \ {c} : charge'[d] = charge[d],
         UNCHANGED <<request, userSigned, sponsorSigned, confirmed, result>>
  PROVE  UNCHANGED Outcome!vars
<1>1. ~FullySigned(c) /\ ~FullySigned(c)'
  BY DEF FullySigned, IndInv, CallHolds, SignaturesHold
<1>2. \A d \in Calls : FullySigned(d)' <=> FullySigned(d)
  BY <1>1 DEF FullySigned
<1>3. QED
  BY <1>2, OutcomeStutters DEF VerdictOf

LEMMA OutcomeStep ==
  IndInv /\ IndInv' /\ [Next]_vars => [Outcome!Next]_Outcome!vars
<1> SUFFICES ASSUME IndInv, IndInv', [Next]_vars
             PROVE  [Outcome!Next]_Outcome!vars
  OBVIOUS
<1> USE DEF stageVars, policyVars, signVars, outcomeVars, chainVars
<1>1. ASSUME NEW c \in Calls, NEW how \in Statuses \cup Errors,
             pc[c] # "done", result' = [result EXCEPT ![c] = how],
             how = "Confirmed" => c \in confirmed /\ FullySigned(c),
             UNCHANGED <<request, charge, userSigned, sponsorSigned, confirmed>>
      PROVE  [Outcome!Next]_Outcome!vars
  BY <1>1, OutcomeEnds DEF Outcome!Next
<1>2. ASSUME NEW c \in Calls, NEW error \in Errors, FailWith(c, error),
             UNCHANGED <<request, charge, userSigned, sponsorSigned, confirmed>>
      PROVE  [Outcome!Next]_Outcome!vars
  BY <1>1, <1>2 DEF FailWith, Goto, Errors
<1>3. ASSUME UNCHANGED <<request, charge, userSigned, sponsorSigned, confirmed,
                         result>>
      PROVE  [Outcome!Next]_Outcome!vars
  BY <1>3, OutcomeStutters DEF FullySigned, VerdictOf
<1>4. ASSUME NEW c \in Calls,
             \/ Start(c) \/ ReadBefore(c) \/ PrepareRoute(c) \/ Joined(c)
             \/ SimulateCost(c) \/ Resimulate(c) \/ Recheck(c)
             \/ SubmitFails(c) \/ StatusFails(c)
      PROVE  [Outcome!Next]_Outcome!vars
  BY <1>2, <1>3, <1>4 DEF Start, ReadBefore, PrepareRoute, Joined, SimulateCost,
    Resimulate, Recheck, SubmitFails, StatusFails, Errors
<1>5. ASSUME NEW c \in Calls, Build(c)
      PROVE  [Outcome!Next]_Outcome!vars
  <2>1. ASSUME NEW error \in {"build", "sign"}, FailWith(c, error),
               UNCHANGED charge
        PROVE  [Outcome!Next]_Outcome!vars
    BY <1>2, <1>5, <2>1 DEF Build, Errors
  <2>2. ASSUME NEW fee, charge' = [charge EXCEPT ![c] = fee], UNCHANGED result
        PROVE  [Outcome!Next]_Outcome!vars
    BY <1>5, <2>2, UnsignedStutters DEF Build, IndInv, TypeOK
  <2>3. QED
    BY <1>5, <2>1, <2>2 DEF Build
<1>6. ASSUME NEW c \in Calls, ReadPrice(c)
      PROVE  [Outcome!Next]_Outcome!vars
  <2>1. CASE FailWith(c, "price") /\ UNCHANGED charge
    BY <1>2, <1>6, <2>1 DEF ReadPrice, Errors
  <2>2. ASSUME NEW fee, charge' = [charge EXCEPT ![c] = fee], UNCHANGED result
        PROVE  [Outcome!Next]_Outcome!vars
    BY <1>6, <2>2, UnsignedStutters DEF ReadPrice, IndInv, TypeOK
  <2>3. QED
    BY <1>6, <2>1, <2>2 DEF ReadPrice
<1>7. ASSUME NEW c \in Calls, UserSigns(c)
      PROVE  [Outcome!Next]_Outcome!vars
  <2>1. CASE FailWith(c, "sign") /\ UNCHANGED userSigned
    BY <1>2, <1>7, <2>1 DEF UserSigns, Errors
  <2>2. CASE userSigned' = [userSigned EXCEPT ![c] = {charge[c]}]
             /\ UNCHANGED result
    <3>1. /\ pc[c] = "user" /\ userSigned[c] = {} /\ sponsorSigned'[c] = {}
          /\ UNCHANGED <<request, charge, sponsorSigned, confirmed>>
      BY <1>7 DEF UserSigns, IndInv, CallHolds, SignaturesHold
    <3>2. userSigned'[c] = {charge[c]}
          /\ \A d \in Calls \ {c} : userSigned'[d] = userSigned[d]
      BY <2>2 DEF IndInv, TypeOK
    <3>3. \A d \in Calls \ {c} : FullySigned(d)' <=> FullySigned(d)
      BY <3>1, <3>2 DEF FullySigned
    <3>4. ~FullySigned(c) /\ (FullySigned(c)' <=> ~request[c].sponsored)
      BY <3>1, <3>2 DEF FullySigned
    <3>5. CASE request[c].sponsored
      BY <2>2, <3>1, <3>3, <3>4, <3>5, OutcomeStutters DEF VerdictOf
    <3>6. CASE ~request[c].sponsored
      BY <2>2, <3>1, <3>3, <3>4, <3>6, OutcomeAnnounces DEF Outcome!Next
    <3>7. QED
      BY <3>5, <3>6
  <2>3. QED
    BY <1>7, <2>1, <2>2 DEF UserSigns
<1>8. ASSUME NEW c \in Calls, SponsorSigns(c)
      PROVE  [Outcome!Next]_Outcome!vars
  <2>1. CASE FailWith(c, "sign") /\ UNCHANGED sponsorSigned
    BY <1>2, <1>8, <2>1 DEF SponsorSigns, Errors
  <2>2. CASE sponsorSigned' = [sponsorSigned EXCEPT ![c] = {charge[c]}]
             /\ UNCHANGED result
    <3>1. /\ pc[c] = "sponsor" /\ request[c].sponsored
          /\ userSigned[c] = {charge[c]} /\ sponsorSigned[c] = {}
          /\ UNCHANGED <<request, charge, userSigned, confirmed>>
      BY <1>8 DEF SponsorSigns, IndInv, CallHolds, SignaturesHold
    <3>2. sponsorSigned'[c] = {charge[c]}
          /\ \A d \in Calls \ {c} : sponsorSigned'[d] = sponsorSigned[d]
      BY <2>2 DEF IndInv, TypeOK
    <3>3. /\ ~FullySigned(c) /\ FullySigned(c)'
          /\ \A d \in Calls \ {c} : FullySigned(d)' <=> FullySigned(d)
      BY <3>1, <3>2 DEF FullySigned
    <3>4. QED
      BY <2>2, <3>1, <3>3, OutcomeAnnounces DEF Outcome!Next
  <2>3. QED
    BY <1>8, <2>1, <2>2 DEF SponsorSigns
<1>9. ASSUME NEW c \in Calls, Acknowledged(c)
      PROVE  [Outcome!Next]_Outcome!vars
  BY <1>1, <1>3, <1>9 DEF Acknowledged, Statuses
<1>10. ASSUME NEW c \in Calls, StatusFound(c) \/ DeadlinePasses(c)
       PROVE  [Outcome!Next]_Outcome!vars
  BY <1>1, <1>3, <1>10 DEF StatusFound, DeadlinePasses, Statuses
<1>11. ASSUME NEW c \in Calls, ReadAfter(c)
       PROVE  [Outcome!Next]_Outcome!vars
  <2>1. c \in confirmed /\ FullySigned(c)
    BY <1>11 DEF ReadAfter, IndInv, CallHolds, SentHolds, SignaturesHold
  <2>2. QED
    BY <1>1, <1>11, <2>1 DEF ReadAfter, Statuses
<1>12. ASSUME NEW c \in Calls, Finalize(c)
       PROVE  [Outcome!Next]_Outcome!vars
  BY <1>3, <1>12 DEF Finalize
<1>13. CASE CostMoves \/ Tick \/ UNCHANGED vars
  BY <1>3, <1>13 DEF CostMoves, Tick, vars
<1>14. QED
  BY <1>4, <1>5, <1>6, <1>7, <1>8, <1>9, <1>10, <1>11, <1>12, <1>13,
     OutcomeLands DEF Next, Advance, Cluster

\* swap and submit keep the promise of SwapOutcome whatever the signers, the
\* submitter, the RPC node and the cluster do.
THEOREM KeepsItsPromise == Spec => KeepsPromise
<1>1. QED
  BY Invariance, OutcomeInit, OutcomeStep, PTL
  DEF Spec, KeepsPromise, Outcome!Spec

=============================================================================
