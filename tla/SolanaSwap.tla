----------------------------- MODULE SolanaSwap -----------------------------
(***************************************************************************)
(* Concurrent Client::swap and Client::submit calls on Solana              *)
(* (solana/client/mod.rs, solana/executor.rs), sponsored or not            *)
(* (solana/gas_sponsor), against the cluster they talk to.                 *)
(*                                                                         *)
(* A call prepares a route (and reads the balance it will compare with),   *)
(* builds the transaction, replaces the sponsor's reserved ceiling by the  *)
(* simulated charge, collects the user's and then the sponsor's signature, *)
(* submits once and polls the signature's status.  Every arrow between two *)
(* control points is an await, so calls interleave there and the cluster   *)
(* moves in between.                                                       *)
(*                                                                         *)
(* Optional values (Rust's Option) are sets with at most one member.  A    *)
(* balance is abstracted to the set of swaps whose output it contains.     *)
(***************************************************************************)
EXTENDS Integers

CONSTANTS
  Calls,       \* swap and submit calls of one wallet
  Costs,       \* sponsor costs a simulation can report, in lamports
  Rates,       \* SOL/USDC rates the feed can report, per LamportsPerSol
  LamportsPerSol,
  MaxCost,     \* max_cost_lamports
  Ceiling,     \* max_fee_usdc, the USDC reserved by preparation
  ServiceFee,  \* service_fee_usdc
  MaxPriceAge, \* MAX_PRICE_AGE in clock ticks
  Deadline     \* TradingClient::deadline in clock ticks

ASSUME ConstantsAssumption ==
  /\ Costs \subseteq Nat /\ Costs # {}
  /\ Rates \subseteq Nat
  /\ LamportsPerSol \in Nat \ {0}
  /\ MaxCost \in Nat \ {0}
  /\ Ceiling \in Nat
  /\ ServiceFee \in Nat /\ ServiceFee < Ceiling
  /\ MaxPriceAge \in Nat
  /\ Deadline \in Nat

VARIABLES
  request,      \* per call: does it wait for the outcome, is it sponsored?
  pc,           \* per call: the await it is suspended in
  awaited,      \* per call: branches of the first join still running
  routed,       \* per call: did preparation return a route?
  before,       \* per call: output balance read before, if it was read
  cost,         \* per call: first simulated sponsor cost
  rate,         \* per call: SOL/USDC rate taken from the feed
  priceAge,     \* per call: age of that rate, capped at MaxPriceAge + 1
  recost,       \* per call: sponsor cost the second simulation reported
  costAge,      \* per call: ticks since the sponsor would last have paid that
                \* first cost; no step reads it
  charge,       \* per call: amount of the encoded reimbursement transfer
  userSigned,   \* per call: the charge the user's signature covers, if any
  sponsorSigned,\* per call: the charge the sponsor's signature covers
  waited,       \* per call: ticks since confirmation started
  result,       \* per call: "none", a SwapStatus or the kind of error
  reported,     \* per call: sponsorship_fee of the result
  received,     \* per call: amount_received of the result
  netCost,      \* what the sponsor would pay for a transaction now
  sent,         \* calls whose transaction is on the network
  confirmed,    \* calls whose transaction succeeded, at `confirmed`
  finalized,    \* those the cluster has finalized
  failed        \* calls whose transaction failed on chain

stageVars   == <<request, awaited, routed, before>>
policyVars  == <<cost, recost, costAge, rate, priceAge, charge>>
signVars    == <<userSigned, sponsorSigned>>
outcomeVars == <<result, reported, received>>
chainVars   == <<netCost, sent, confirmed, finalized, failed>>
vars == <<pc, waited, stageVars, policyVars, signVars, outcomeVars, chainVars>>

Request == [waits : BOOLEAN, sponsored : BOOLEAN]

Control == {"idle", "prepare", "build", "cost", "price", "recheck", "compare",
            "user", "sponsor", "submit", "confirm", "after", "done"}

Statuses == {"Confirmed", "Failed", "Pending"}
Errors   == {"prepare", "build", "cost", "price", "sign", "submit", "rpc"}

TypeOK ==
  /\ request \in [Calls -> Request]
  /\ pc \in [Calls -> Control]
  /\ awaited \in [Calls -> SUBSET {"balance", "route"}]
  /\ routed \in [Calls -> BOOLEAN]
  /\ before \in [Calls -> SUBSET SUBSET Calls]
  /\ cost \in [Calls -> Nat]
  /\ recost \in [Calls -> Nat]
  /\ costAge \in [Calls -> 0..(MaxPriceAge + 1)]
  /\ rate \in [Calls -> Nat]
  /\ priceAge \in [Calls -> 0..(MaxPriceAge + 1)]
  /\ charge \in [Calls -> Nat]
  /\ userSigned \in [Calls -> SUBSET Nat]
  /\ sponsorSigned \in [Calls -> SUBSET Nat]
  /\ waited \in [Calls -> 0..Deadline]
  /\ result \in [Calls -> {"none"} \cup Statuses \cup Errors]
  /\ reported \in [Calls -> Nat]
  /\ received \in [Calls -> SUBSET SUBSET Calls]
  /\ netCost \in Costs
  /\ sent \subseteq Calls
  /\ confirmed \subseteq Calls
  /\ finalized \subseteq Calls
  /\ failed \subseteq Calls

-----------------------------------------------------------------------------
(* The cluster. *)

\* Only a transaction every required signer signed as it is can be executed.
FullySigned(c) ==
  /\ userSigned[c] = {charge[c]}
  /\ request[c].sponsored => sponsorSigned[c] = {charge[c]}

\* The transaction of c reaches a block, and succeeds or fails there.
Execute(c) ==
  /\ c \in sent \ (confirmed \cup failed)
  /\ FullySigned(c)
  /\ \/ confirmed' = confirmed \cup {c} /\ UNCHANGED failed
     \/ failed' = failed \cup {c} /\ UNCHANGED confirmed
  /\ UNCHANGED <<pc, waited, stageVars, policyVars, signVars, outcomeVars,
                 netCost, sent, finalized>>

Finalize(c) ==
  /\ c \in confirmed \ finalized
  /\ finalized' = finalized \cup {c}
  /\ UNCHANGED <<pc, waited, stageVars, policyVars, signVars, outcomeVars,
                 netCost, sent, confirmed, failed>>

\* Accounts open and close: what the sponsor has to pay for changes.
CostMoves ==
  /\ netCost' \in Costs \ {netCost}
  /\ costAge' = [c \in Calls |-> IF cost[c] = netCost' THEN 0 ELSE costAge[c]]
  /\ UNCHANGED <<pc, waited, stageVars, cost, recost, rate, priceAge, charge,
                 signVars, outcomeVars, sent, confirmed, finalized, failed>>

-----------------------------------------------------------------------------
(* Preparation and building. *)

Goto(c, next) == pc[c] # next /\ pc' = [pc EXCEPT ![c] = next]

\* An error return: the caller gets no hash and no fees.
FailWith(c, error) ==
  /\ Goto(c, "done")
  /\ result' = [result EXCEPT ![c] = error]
  /\ UNCHANGED <<reported, received>>

\* swap reads the output balance while the route is prepared; submit does not.
Start(c) ==
  /\ pc[c] = "idle"
  /\ Goto(c, "prepare")
  /\ awaited' = [awaited EXCEPT ![c] =
       IF request[c].waits THEN {"balance", "route"} ELSE {"route"}]
  /\ UNCHANGED <<waited, request, routed, before, policyVars, signVars,
                 outcomeVars, chainVars>>

\* output_balance answers before the join ends, or yields None.
ReadBefore(c) ==
  /\ pc[c] = "prepare"
  /\ "balance" \in awaited[c]
  /\ awaited' = [awaited EXCEPT ![c] = @ \ {"balance"}]
  /\ before' \in {before, [before EXCEPT ![c] = {confirmed}]}
  /\ UNCHANGED <<pc, waited, request, routed, policyVars, signVars,
                 outcomeVars, chainVars>>

\* prepare_swap answers within its deadline, or fails.
PrepareRoute(c) ==
  /\ pc[c] = "prepare"
  /\ "route" \in awaited[c]
  /\ awaited' = [awaited EXCEPT ![c] = @ \ {"route"}]
  /\ \E ok \in BOOLEAN : routed' = [routed EXCEPT ![c] = ok]
  /\ UNCHANGED <<pc, waited, request, before, policyVars, signVars,
                 outcomeVars, chainVars>>

\* Both branches of the join have ended; only then is the route's error seen.
Joined(c) ==
  /\ pc[c] = "prepare"
  /\ awaited[c] = {}
  /\ IF routed[c] THEN Goto(c, "build") /\ UNCHANGED outcomeVars
                  ELSE FailWith(c, "prepare")
  /\ UNCHANGED <<waited, stageVars, policyVars, signVars, chainVars>>

\* build_transaction: a simulation and a blockhash, then compile and check.
\* The reimbursement is built with the reserved ceiling.
Build(c) ==
  /\ pc[c] = "build"
  /\ \/ /\ Goto(c, IF request[c].sponsored THEN "cost" ELSE "user")
        /\ LET fee == IF request[c].sponsored THEN Ceiling ELSE 0
           IN  /\ charge' = [charge EXCEPT ![c] = fee]
               /\ reported' = [reported EXCEPT ![c] = fee]
        /\ UNCHANGED <<result, received>>
     \/ \E error \in {"build", "sign"} : FailWith(c, error) /\ UNCHANGED charge
  /\ UNCHANGED <<waited, stageVars, cost, recost, costAge, rate, priceAge,
                 signVars, chainVars>>

-----------------------------------------------------------------------------
(* The sponsor's cost policy. *)

\* Mutant: the lamports are converted to USDC rounding down.
ReimbursementRoundedDown(lamports, r) == (lamports * r) \div LamportsPerSol

\* The lamports in USDC at rate r, rounded up.
Reimbursement(lamports, r) ==
  (lamports * r + LamportsPerSol - 1) \div LamportsPerSol

ChargeFor(lamports, r) == Reimbursement(lamports, r) + ServiceFee

\* charge: the rate is usable and recent, both caps hold.
Chargeable(lamports, r, age) ==
  /\ r > 0
  /\ age <= MaxPriceAge
  /\ lamports <= MaxCost
  /\ ChargeFor(lamports, r) <= Ceiling

\* finalize_fee: what the sponsor pays for the built transaction.
SimulateCost(c) ==
  /\ pc[c] = "cost"
  /\ \/ /\ Goto(c, "price")
        /\ cost' = [cost EXCEPT ![c] = netCost]
        /\ costAge' = [costAge EXCEPT ![c] = 0]
        /\ UNCHANGED outcomeVars
     \/ FailWith(c, "cost") /\ UNCHANGED <<cost, costAge>>
  /\ UNCHANGED <<waited, stageVars, recost, rate, priceAge, charge, signVars,
                 chainVars>>

\* finalize_fee: the feed answers in time with a rate of some age, the charge
\* is computed and put in the reimbursement transfer.
ReadPrice(c) ==
  /\ pc[c] = "price"
  /\ \/ \E r \in Rates, age \in 0..MaxPriceAge :
          /\ Chargeable(cost[c], r, age)
          /\ Goto(c, "recheck")
          /\ rate' = [rate EXCEPT ![c] = r]
          /\ priceAge' = [priceAge EXCEPT ![c] = age]
          /\ charge' = [charge EXCEPT ![c] = ChargeFor(cost[c], r)]
          /\ UNCHANGED outcomeVars
     \/ FailWith(c, "price") /\ UNCHANGED <<rate, priceAge, charge>>
  /\ UNCHANGED <<waited, stageVars, cost, recost, costAge, signVars, chainVars>>

\* finalize_fee: the cluster simulates the changed transaction and answers.
Resimulate(c) ==
  /\ pc[c] = "recheck"
  /\ \/ /\ Goto(c, "compare")
        /\ recost' = [recost EXCEPT ![c] = netCost]
        /\ UNCHANGED outcomeVars
     \/ FailWith(c, "cost") /\ UNCHANGED recost
  /\ UNCHANGED <<waited, stageVars, cost, costAge, rate, priceAge, charge,
                 signVars, chainVars>>

\* Mutant: the changed transaction is simulated again, but its cost is not
\* compared with the one the charge was computed from.
RecheckPriceOnly(c) ==
  /\ pc[c] = "compare"
  /\ IF Chargeable(cost[c], rate[c], priceAge[c])
       THEN /\ Goto(c, "user")
            /\ reported' = [reported EXCEPT ![c] = charge[c]]
            /\ UNCHANGED <<result, received>>
       ELSE FailWith(c, "price")
  /\ UNCHANGED <<waited, stageVars, policyVars, signVars, chainVars>>

\* Mutant: the result keeps the fee of the quote, which is the ceiling.
RecheckKeepsQuotedFee(c) ==
  /\ pc[c] = "compare"
  /\ \/ /\ recost[c] = cost[c]
        /\ Chargeable(cost[c], rate[c], priceAge[c])
        /\ Goto(c, "user")
        /\ UNCHANGED outcomeVars
     \/ recost[c] # cost[c] /\ FailWith(c, "cost")
  /\ UNCHANGED <<waited, stageVars, policyVars, signVars, chainVars>>

\* finalize_fee: the simulations have to agree, and the rate must still be
\* recent now that the second has answered; then the first signer is asked.
Recheck(c) ==
  /\ pc[c] = "compare"
  /\ \/ /\ recost[c] = cost[c]
        /\ Chargeable(cost[c], rate[c], priceAge[c])
        /\ Goto(c, "user")
        /\ reported' = [reported EXCEPT ![c] = charge[c]]
        /\ UNCHANGED <<result, received>>
     \/ recost[c] # cost[c] /\ FailWith(c, "cost")
     \/ /\ recost[c] = cost[c]
        /\ ~Chargeable(cost[c], rate[c], priceAge[c])
        /\ FailWith(c, "price")
  /\ UNCHANGED <<waited, stageVars, policyVars, signVars, chainVars>>

-----------------------------------------------------------------------------
(* Signing, submitting and confirming. *)

\* Mutant: the user signs the transaction as it was built.
UserSignsCeiling(c) ==
  /\ pc[c] = "user"
  /\ \/ /\ Goto(c, IF request[c].sponsored THEN "sponsor" ELSE "submit")
        /\ userSigned' = [userSigned EXCEPT ![c] =
             IF request[c].sponsored THEN {Ceiling} ELSE {charge[c]}]
        /\ UNCHANGED outcomeVars
     \/ FailWith(c, "sign") /\ UNCHANGED userSigned
  /\ UNCHANGED <<waited, stageVars, policyVars, sponsorSigned, chainVars>>

\* The user signs the transaction as it is.
UserSigns(c) ==
  /\ pc[c] = "user"
  /\ \/ /\ Goto(c, IF request[c].sponsored THEN "sponsor" ELSE "submit")
        /\ userSigned' = [userSigned EXCEPT ![c] = {charge[c]}]
        /\ UNCHANGED outcomeVars
     \/ FailWith(c, "sign") /\ UNCHANGED userSigned
  /\ UNCHANGED <<waited, stageVars, policyVars, sponsorSigned, chainVars>>

\* The sponsor signs after the user.
SponsorSigns(c) ==
  /\ pc[c] = "sponsor"
  /\ \/ /\ Goto(c, "submit")
        /\ sponsorSigned' = [sponsorSigned EXCEPT ![c] = {charge[c]}]
        /\ UNCHANGED outcomeVars
     \/ FailWith(c, "sign") /\ UNCHANGED sponsorSigned
  /\ UNCHANGED <<waited, stageVars, policyVars, userSigned, chainVars>>

\* The submitter returns the signature of the transaction it was given, which
\* the code takes as it is.  submit reports Pending at once.
Acknowledged(c) ==
  /\ pc[c] = "submit"
  /\ sent' = sent \cup {c}
  /\ IF request[c].waits
       THEN Goto(c, "confirm") /\ UNCHANGED result
       ELSE Goto(c, "done") /\ result' = [result EXCEPT ![c] = "Pending"]
  /\ waited' = [waited EXCEPT ![c] = 0]
  /\ UNCHANGED <<stageVars, policyVars, signVars, reported, received, netCost,
                 confirmed, finalized, failed>>

\* Mutant: a failed submission falls back to preparing another route.
SubmitFallsBack(c) ==
  /\ pc[c] = "submit"
  /\ sent' \in {sent, sent \cup {c}}
  /\ Goto(c, "prepare")
  /\ awaited' = [awaited EXCEPT ![c] = {"route"}]
  /\ userSigned' = [userSigned EXCEPT ![c] = {}]
  /\ sponsorSigned' = [sponsorSigned EXCEPT ![c] = {}]
  /\ UNCHANGED <<waited, request, routed, before, policyVars, outcomeVars,
                 netCost, confirmed, finalized, failed>>

\* The submitter fails.  The transaction may be on the network all the same,
\* and the error carries no hash.
SubmitFails(c) ==
  /\ pc[c] = "submit"
  /\ sent' \in {sent, sent \cup {c}}
  /\ FailWith(c, "submit")
  /\ UNCHANGED <<waited, stageVars, policyVars, signVars, netCost, confirmed,
                 finalized, failed>>

\* confirm: a status request finds the transaction in a block.
StatusFound(c) ==
  /\ pc[c] = "confirm"
  /\ \/ c \in confirmed /\ Goto(c, "after") /\ UNCHANGED result
     \/ /\ c \in failed
        /\ Goto(c, "done")
        /\ result' = [result EXCEPT ![c] = "Failed"]
  /\ UNCHANGED <<waited, stageVars, policyVars, signVars, reported, received,
                 chainVars>>

\* confirm: a status request fails, which loses the hash.
StatusFails(c) ==
  /\ pc[c] = "confirm"
  /\ FailWith(c, "rpc")
  /\ UNCHANGED <<waited, stageVars, policyVars, signVars, chainVars>>

\* Mutant: the deadline is measured from the last poll.
PollRestartsDeadline(c) ==
  /\ pc[c] = "confirm"
  /\ c \notin confirmed \cup failed
  /\ waited' = [waited EXCEPT ![c] = 0]
  /\ UNCHANGED <<pc, stageVars, policyVars, signVars, outcomeVars, chainVars>>

\* Mutant: a transaction not seen by the deadline is reported as failed.
DeadlineFails(c) ==
  /\ pc[c] = "confirm"
  /\ c \notin confirmed \cup failed
  /\ waited[c] >= Deadline
  /\ Goto(c, "done")
  /\ result' = [result EXCEPT ![c] = "Failed"]
  /\ UNCHANGED <<waited, stageVars, policyVars, signVars, reported, received,
                 chainVars>>

\* confirm: still unknown at the deadline.
DeadlinePasses(c) ==
  /\ pc[c] = "confirm"
  /\ c \notin confirmed \cup failed
  /\ waited[c] >= Deadline
  /\ Goto(c, "done")
  /\ result' = [result EXCEPT ![c] = "Pending"]
  /\ UNCHANGED <<waited, stageVars, policyVars, signVars, reported, received,
                 chainVars>>

\* Mutant: the balance is read at `finalized`.
ReadAfterFinalized(c) ==
  /\ pc[c] = "after"
  /\ Goto(c, "done")
  /\ result' = [result EXCEPT ![c] = "Confirmed"]
  /\ received' \in {received,
       [received EXCEPT ![c] = {finalized \ b : b \in before[c]}]}
  /\ UNCHANGED <<waited, stageVars, policyVars, signVars, reported, chainVars>>

\* The balance is read again; the difference is known if both reads answered.
ReadAfter(c) ==
  /\ pc[c] = "after"
  /\ Goto(c, "done")
  /\ result' = [result EXCEPT ![c] = "Confirmed"]
  /\ received' \in {received,
       [received EXCEPT ![c] = {confirmed \ b : b \in before[c]}]}
  /\ UNCHANGED <<waited, stageVars, policyVars, signVars, reported, chainVars>>

\* A clock tick; ages saturate just past the limits they are compared with.
Older(age) == IF age <= MaxPriceAge THEN age + 1 ELSE age

Tick ==
  /\ priceAge' = [c \in Calls |->
       IF pc[c] \in {"recheck", "compare"} THEN Older(priceAge[c])
                                          ELSE priceAge[c]]
  /\ costAge' = [c \in Calls |->
       IF pc[c] \in {"price", "recheck", "compare"} /\ cost[c] # netCost
         THEN Older(costAge[c]) ELSE costAge[c]]
  /\ waited' = [c \in Calls |->
       IF pc[c] = "confirm" /\ waited[c] < Deadline
         THEN waited[c] + 1 ELSE waited[c]]
  /\ UNCHANGED <<pc, stageVars, cost, recost, rate, charge, signVars,
                 outcomeVars, chainVars>>

-----------------------------------------------------------------------------
Init ==
  /\ request \in [Calls -> Request]
  /\ pc = [c \in Calls |-> "idle"]
  /\ awaited = [c \in Calls |-> {}]
  /\ routed = [c \in Calls |-> FALSE]
  /\ before = [c \in Calls |-> {}]
  /\ cost = [c \in Calls |-> 0]
  /\ recost = [c \in Calls |-> 0]
  /\ costAge = [c \in Calls |-> 0]
  /\ rate = [c \in Calls |-> 0]
  /\ priceAge = [c \in Calls |-> 0]
  /\ charge = [c \in Calls |-> 0]
  /\ userSigned = [c \in Calls |-> {}]
  /\ sponsorSigned = [c \in Calls |-> {}]
  /\ waited = [c \in Calls |-> 0]
  /\ result = [c \in Calls |-> "none"]
  /\ reported = [c \in Calls |-> 0]
  /\ received = [c \in Calls |-> {}]
  /\ netCost \in Costs
  /\ sent = {} /\ confirmed = {} /\ finalized = {} /\ failed = {}

\* The steps a running call is bound to take once its await resolves.
Advance(c) ==
  \/ ReadBefore(c) \/ PrepareRoute(c) \/ Joined(c) \/ Build(c)
  \/ SimulateCost(c) \/ ReadPrice(c) \/ Resimulate(c) \/ Recheck(c)
  \/ UserSigns(c) \/ SponsorSigns(c)
  \/ Acknowledged(c) \/ SubmitFails(c)
  \/ StatusFound(c) \/ DeadlinePasses(c) \/ ReadAfter(c)

Cluster == CostMoves \/ \E c \in Calls : Execute(c) \/ Finalize(c)

Next ==
  \/ \E c \in Calls : Start(c) \/ Advance(c) \/ StatusFails(c)
  \/ Cluster
  \/ Tick

Spec == Init /\ [][Next]_vars

\* RPC, provider, price feed, signer and submitter awaits resolve and time
\* passes.  Nothing obliges the cluster to execute a transaction.
Fairness == WF_vars(Tick) /\ \A c \in Calls : WF_vars(Advance(c))

FairSpec == Spec /\ Fairness

-----------------------------------------------------------------------------
(* Properties. *)

\* User and sponsor sign the same final transaction (README, sponsorship): the
\* encoded charge never changes under a signature, and the sponsor never signs
\* what the user has not.
SignersAgree ==
  \A c \in Calls :
    /\ userSigned[c] \subseteq {charge[c]}
    /\ sponsorSigned[c] \subseteq userSigned[c]

\* A sponsored transaction the user signed pays the sponsor back at least what
\* was simulated, at the rate read from the feed, plus the service fee, and no
\* more than the reserved ceiling, so what the buyer set aside is enough.
CostsRecovered ==
  \A c \in Calls :
    request[c].sponsored /\ userSigned[c] # {} =>
      /\ cost[c] <= MaxCost
      /\ charge[c] <= Ceiling
      /\ (charge[c] - ServiceFee) * LamportsPerSol >= cost[c] * rate[c]

\* When the first signer of a sponsored swap is asked, the charge rests on what
\* the sponsor would have paid at some moment no longer ago than a rate may be
\* old, and on a rate that is no older.  The cost may have moved meanwhile:
\* between the execution of the second simulation and its answer it is not
\* looked at (cost.rs: "a bounded estimate"; README, sponsorship: "changed cost,
\* simulation errors, stale prices or either exceeded cap stop before signing").
EstimateIsBounded ==
  [][\A c \in Calls :
       request[c].sponsored /\ pc[c] # "user" /\ pc'[c] = "user" =>
         /\ costAge'[c] <= MaxPriceAge
         /\ priceAge'[c] <= MaxPriceAge]_vars

\* A result, which always names a transaction that was submitted, reports the
\* sponsorship fee that transaction encodes, whether or not it is executed
\* later (README: "fee amounts from the transaction being submitted").
ReportedIsEncoded ==
  \A c \in Calls :
    result[c] \in Statuses => c \in sent /\ reported[c] = charge[c]

\* What the caller is told agrees with the cluster: Confirmed and Failed are
\* final, and an error before submission means nothing was sent.
StatusMatchesChain ==
  \A c \in Calls :
    /\ result[c] = "Confirmed" => c \in confirmed
    /\ result[c] = "Failed" => c \in failed
    /\ c \in sent => result[c] \in {"none", "submit", "rpc"} \cup Statuses

\* amount_received counts the swap's own output: it was not in the balance
\* read before, and it is in the one read after confirmation.
ReceivedCountsOwn ==
  \A c \in Calls : \A gained \in received[c] : c \in gained

\* A started call ends, whatever the cluster does: nothing is retried and the
\* status poll is bounded by the deadline.
Termination ==
  \A c \in Calls : pc[c] \notin {"idle", "done"} ~> pc[c] = "done"

\* The promise of SwapOutcome, with the one transaction of the swap announced
\* when its last signer has signed it.
Outcome == INSTANCE SwapOutcome WITH
  MaxTransactions <- 1,
  size <- [c \in Calls |-> 1],
  announced <- [c \in Calls |-> IF FullySigned(c) THEN 1 ELSE 0],
  landed <- [c \in Calls |-> IF c \in confirmed THEN {1} ELSE {}],
  verdict <- [c \in Calls |-> IF result[c] = "none" THEN "none"
                              ELSE IF result[c] = "Confirmed" THEN "ok"
                              ELSE "unconfirmed"]

KeepsPromise == Outcome!Spec
=============================================================================
