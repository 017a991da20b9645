------------------------ MODULE ProviderQuotesProofs ------------------------
(***************************************************************************)
(* Proofs about SettlementFees, for every fee rate, limit and amount, and  *)
(* about ProviderQuotes, for every slippage and answer besides.            *)
(*                                                                         *)
(* The strengthening for SettlementFees records, stage by stage, what the  *)
(* checks passed so far have established: the routed amount after          *)
(* routed_trade, the bounds and the fee of the candidate after             *)
(* validate_candidate, the net quote after append_fees.                    *)
(*                                                                         *)
(* The refinement needs one fact about earlier steps: a source that was    *)
(* asked to collect a fee is one whose adapter checks it.  With it, what   *)
(* was proved of SettlementFees holds of the preparation with adapters.    *)
(***************************************************************************)
EXTENDS ProviderQuotes, TLAPS

-----------------------------------------------------------------------------
(* Fees. *)

\* A fee below BasisPoints is less than a positive basis it is taken of.
LEMMA FeeBelowBasis ==
  ASSUME NEW basis \in Nat, NEW bps \in 0..(BasisPoints - 1)
  PROVE  /\ (basis * bps) \div BasisPoints \in Nat
         /\ (basis * bps) \div BasisPoints <= basis
         /\ basis > 0 => (basis * bps) \div BasisPoints < basis
<1>1. BasisPoints \in Nat /\ BasisPoints > 0 /\ bps \in Nat /\ bps < BasisPoints
  BY ConstantsAssumption
<1>2. basis * bps \in Nat
  BY <1>1
<1>3. basis * bps <= basis * BasisPoints
  BY <1>1
<1>4. basis > 0 => basis * bps < basis * BasisPoints
  BY <1>1
<1> DEFINE p == basis * bps
           q == p \div BasisPoints
<1>5. q \in Nat /\ BasisPoints * q <= p /\ p < BasisPoints * (q + 1)
  <2> HIDE DEF p
  <2> QED
    BY <1>1, <1>2 DEF p
<1>6. q <= basis
  <2>1. SUFFICES ASSUME q >= basis + 1 PROVE FALSE
    BY <1>5
  <2>2. BasisPoints * q >= BasisPoints * (basis + 1)
    BY <2>1, <1>1, <1>5
  <2>3. BasisPoints * (basis + 1) = basis * BasisPoints + BasisPoints
    BY <1>1
  <2> HIDE DEF p, q
  <2>4. QED
    BY <2>2, <2>3, <1>1, <1>2, <1>3, <1>5 DEF p
<1>7. basis > 0 => q < basis
  <2>1. SUFFICES ASSUME basis > 0, q = basis PROVE FALSE
    BY <1>5, <1>6
  <2>2. BasisPoints * q = basis * BasisPoints
    BY <2>1, <1>1
  <2> HIDE DEF p, q
  <2>3. QED
    BY <2>1, <2>2, <1>1, <1>2, <1>4, <1>5 DEF p
<1>8. QED
  BY <1>5, <1>6, <1>7

\* The same of the operators, in a typed state.
LEMMA FeeBounds ==
  ASSUME TypeOK, NEW basis \in Nat
  PROVE  /\ Fee(basis) \in Nat
         /\ Fee(basis) <= basis
         /\ basis > 0 => Fee(basis) < basis
<1>1. client.bps \in 0..(BasisPoints - 1)
  BY ConstantsAssumption DEF TypeOK, Client
<1>2. QED
  BY <1>1, FeeBelowBasis DEF Fee

\* A trade's amount is a u64.
LEMMA TradeAmount ==
  ASSUME TypeOK
  PROVE  MaxAmount \in Nat /\ trade.amount \in Amount
<1>1. MaxAmount \in Nat /\ Amounts \subseteq Amount
  BY ConstantsAssumption DEF Amount
<1>2. trade.amount \in Amounts
  BY DEF TypeOK, Trade
<1>3. QED
  BY <1>1, <1>2

LEMMA TransferFeeBounds ==
  ASSUME TypeOK, NEW basis \in Nat
  PROVE  /\ TransferFee(basis) \in Nat
         /\ TransferFee(basis) <= basis
         /\ basis > 0 => TransferFee(basis) < basis
BY FeeBounds DEF TransferFee

-----------------------------------------------------------------------------
(* The inductive invariant. *)

\* After routed_trade: the source is asked for a positive part of the amount.
RoutedHolds ==
  stage \in {"routing", "quoted", "prepared", "executed"} =>
    /\ trade.amount > 0
    /\ routed = RoutedAmount
    /\ routed > 0

\* After validate_candidate.
CandidateHolds ==
  stage \in {"quoted", "prepared", "executed"} =>
    /\ 0 < candidate.min /\ candidate.min <= candidate.expected
    /\ ~ProviderCollects => candidate.application = 0

\* After append_fees.
QuoteHolds ==
  stage \in {"prepared", "executed"} =>
    /\ SellDeduction < candidate.min
    /\ quote = NetQuote(SellDeduction)
    /\ transfer = quote.application - candidate.application

IndInv ==
  /\ TypeOK
  /\ ServiceBelowCeiling
  /\ RoutedHolds
  /\ CandidateHolds
  /\ QuoteHolds
  /\ NeverOverspent
  /\ NeverBelowQuote

LEMMA InitIndInv == Init => IndInv
BY ConstantsAssumption
   DEF Init, IndInv, TypeOK, Amount, Policy, Quote, Moved, NoQuote,
       ServiceBelowCeiling, RoutedHolds, CandidateHolds, QuoteHolds,
       NeverOverspent, NeverBelowQuote

\* Leaving the stages the parts constrain keeps the invariant.
LEMMA RejectKeeps ==
  ASSUME IndInv, Reject
  PROVE  IndInv'
BY DEF IndInv, Reject, TypeOK, Quote, Moved, ServiceBelowCeiling, RoutedHolds,
       CandidateHolds, QuoteHolds, NeverOverspent, NeverBelowQuote

\* The builder calls and the request come before every constrained stage.
LEMMA ConfigureKeeps ==
  ASSUME IndInv, stage = "configure",
         stage' \in {"configure", "asked"},
         UNCHANGED <<client, trade, routed, candidate, quote, transfer, moved>>,
         policy' \in Policy, policy'.service < policy'.ceiling
  PROVE  IndInv'
BY DEF IndInv, TypeOK, ServiceBelowCeiling, RoutedHolds, CandidateHolds,
       QuoteHolds, NeverOverspent, NeverBelowQuote

LEMMA BuilderKeeps ==
  ASSUME IndInv, NEW a \in Limits, WithLimits(a) \/ WithServiceFee(a)
  PROVE  IndInv'
<1>1. CASE Reject
  BY <1>1, RejectKeeps
<1>2. CASE ~Reject
  <2>1. /\ a \in Amount
        /\ policy \in Policy
        /\ policy.service < policy.ceiling
    BY ConstantsAssumption DEF IndInv, TypeOK, ServiceBelowCeiling, Amount
  <2>2. policy' \in Policy /\ policy'.service < policy'.ceiling
    BY <1>2, <2>1 DEF WithLimits, WithServiceFee, Policy
  <2>3. QED
    BY <1>2, <2>2, ConfigureKeeps DEF WithLimits, WithServiceFee
<1>3. QED
  BY <1>1, <1>2

LEMMA AskKeeps ==
  ASSUME IndInv, Ask
  PROVE  IndInv'
BY ConfigureKeeps DEF Ask, IndInv, TypeOK, ServiceBelowCeiling

\* The routed amount is what is left of the amount, and positive.
LEMMA RoutedAmountBounds ==
  ASSUME TypeOK, ServiceBelowCeiling, Acceptable, Sponsored => RoutedAmount > 0
  PROVE  /\ RoutedAmount \in Amount
         /\ RoutedAmount > 0
         /\ trade.amount > 0
<1>1. /\ trade.amount \in Nat /\ trade.amount > 0 /\ trade.amount <= MaxAmount
      /\ policy.ceiling \in Nat
      /\ MaxAmount \in Nat
  BY TradeAmount DEF TypeOK, Policy, Amount, Acceptable
<1>2. /\ TransferFee(trade.amount) \in Nat
      /\ TransferFee(trade.amount) < trade.amount
  BY <1>1, TransferFeeBounds
<1>3. Reserved \in Nat /\ (~Sponsored => Reserved = 0)
  BY <1>1 DEF Reserved
<1>4. QED
  BY <1>1, <1>2, <1>3 DEF RoutedAmount, Amount

LEMMA ReserveKeeps ==
  ASSUME IndInv, Reserve
  PROVE  IndInv'
<1>1. CASE Reject
  BY <1>1, RejectKeeps
<1>2. CASE ~Reject
  <2>1. /\ stage = "asked" /\ stage' = "routing"
        /\ Acceptable /\ (Sponsored => RoutedAmount > 0)
        /\ routed' = RoutedAmount
        /\ UNCHANGED <<policy, client, trade, candidate, quote, transfer, moved>>
    BY <1>2 DEF Reserve
  <2>2. /\ RoutedAmount \in Amount
        /\ RoutedAmount > 0
        /\ trade.amount > 0
    BY <2>1, RoutedAmountBounds DEF IndInv
  <2>3. RoutedAmount' = RoutedAmount
    BY <2>1 DEF RoutedAmount, TransferFee, ProviderCollects, Fee, Reserved,
                Sponsored
  <2>4. TypeOK' /\ RoutedHolds'
    BY <2>1, <2>2, <2>3 DEF IndInv, TypeOK, RoutedHolds
  <2>5. QED
    BY <2>1, <2>4 DEF IndInv, ServiceBelowCeiling, CandidateHolds, QuoteHolds,
                      NeverOverspent, NeverBelowQuote
<1>3. QED
  BY <1>1, <1>2

LEMMA RouteKeeps ==
  ASSUME IndInv,
         NEW expected \in Amount, NEW min \in Amount, NEW fee \in Amount,
         Route(expected, min, fee)
  PROVE  IndInv'
<1>1. /\ stage = "routing" /\ stage' = "quoted"
      /\ 0 < min /\ min <= expected
      /\ ~ProviderCollects => fee = 0
      /\ candidate' = [in |-> routed, expected |-> expected, min |-> min,
                       application |-> fee, sponsorship |-> 0]
      /\ UNCHANGED <<policy, client, trade, routed, quote, transfer, moved>>
  BY DEF Route
<1>2. candidate' \in Quote
  BY <1>1, ConstantsAssumption DEF Quote, Amount, IndInv, TypeOK
<1>3. TypeOK' /\ ServiceBelowCeiling'
  BY <1>1, <1>2 DEF IndInv, TypeOK, ServiceBelowCeiling
<1>4. RoutedHolds'
  BY <1>1 DEF IndInv, RoutedHolds, RoutedAmount, TransferFee, ProviderCollects,
              Fee, Reserved, Sponsored
<1>5. CandidateHolds'
  BY <1>1 DEF CandidateHolds, ProviderCollects
<1>6. QED
  BY <1>1, <1>3, <1>4, <1>5 DEF IndInv, QuoteHolds, NeverOverspent,
                                NeverBelowQuote

\* The amounts of a settled trade: everything stays within u64.
LEMMA NetQuoteBounds ==
  ASSUME IndInv, stage = "quoted", SellDeduction < candidate.min
  PROVE  /\ NetQuote(SellDeduction) \in Quote
         /\ NetQuote(SellDeduction).application - candidate.application \in Amount
<1>1. /\ trade.amount \in Amount
      /\ candidate.expected \in Amount /\ candidate.min \in Amount
      /\ candidate.application \in Amount
      /\ policy.ceiling \in Amount
      /\ MaxAmount \in Nat
  BY TradeAmount DEF IndInv, TypeOK, Quote, Policy
<1>2. /\ candidate.min <= candidate.expected
      /\ ~ProviderCollects => candidate.application = 0
  BY DEF IndInv, CandidateHolds
<1>3. \A basis \in Amount : TransferFee(basis) \in Nat /\ TransferFee(basis) <= basis
  BY TransferFeeBounds DEF IndInv, Amount
<1>4. Reserved \in Amount
  BY <1>1 DEF Reserved, Amount
<1>5. SellDeduction \in Nat
  BY <1>1, <1>3, <1>4 DEF SellDeduction, Amount
<1> DEFINE basis == IF trade.side = "Buy" THEN trade.amount
                                          ELSE candidate.expected
<1>6. basis \in Amount
  BY <1>1
<1>7. /\ TransferFee(basis) \in Amount
      /\ candidate.application + TransferFee(basis) \in Amount
  <2>1. TransferFee(basis) \in Nat /\ TransferFee(basis) <= basis
    BY <1>3, <1>6
  <2>2. ProviderCollects => TransferFee(basis) = 0
    BY DEF TransferFee
  <2> HIDE DEF basis
  <2>3. QED
    BY <1>1, <1>2, <1>6, <2>1, <2>2 DEF Amount
<1> HIDE DEF basis
<1>8. /\ candidate.expected - SellDeduction \in Amount
      /\ candidate.min - SellDeduction \in Amount
  BY <1>1, <1>2, <1>5 DEF Amount
<1>9. NetQuote(SellDeduction) =
        [in |-> trade.amount,
         expected |-> candidate.expected - SellDeduction,
         min |-> candidate.min - SellDeduction,
         application |-> candidate.application + TransferFee(basis),
         sponsorship |-> Reserved]
  BY DEF NetQuote, basis
<1>10. NetQuote(SellDeduction) \in Quote
  BY <1>1, <1>4, <1>7, <1>8, <1>9 DEF Quote
<1>11. NetQuote(SellDeduction).application - candidate.application
         = TransferFee(basis)
  BY <1>1, <1>7, <1>9 DEF Amount
<1>12. QED
  BY <1>7, <1>10, <1>11

LEMMA SettleKeeps ==
  ASSUME IndInv, Settle
  PROVE  IndInv'
<1>1. CASE Reject
  BY <1>1, RejectKeeps
<1>2. CASE ~Reject
  <2>1. /\ stage = "quoted" /\ stage' = "prepared"
        /\ SellDeduction < candidate.min
        /\ quote' = NetQuote(SellDeduction)
        /\ transfer' = quote'.application - candidate.application
        /\ UNCHANGED <<policy, client, trade, routed, candidate, moved>>
    BY <1>2 DEF Settle
  <2>2. quote' \in Quote /\ transfer' \in Amount
    BY <2>1, NetQuoteBounds
  <2>3. TypeOK' /\ ServiceBelowCeiling'
    BY <2>1, <2>2 DEF IndInv, TypeOK, ServiceBelowCeiling
  <2>4. RoutedHolds' /\ CandidateHolds'
    BY <2>1 DEF IndInv, RoutedHolds, CandidateHolds, RoutedAmount, TransferFee,
                ProviderCollects, Fee, Reserved, Sponsored
  <2>5. /\ SellDeduction' = SellDeduction
        /\ NetQuote(SellDeduction)' = NetQuote(SellDeduction)
    BY <2>1 DEF NetQuote, SellDeduction, TransferFee, ProviderCollects, Fee,
                Reserved, Sponsored
  <2>6. QuoteHolds'
    BY <2>1, <2>5 DEF QuoteHolds
  <2>7. QED
    BY <2>1, <2>3, <2>4, <2>6 DEF IndInv, NeverOverspent, NeverBelowQuote
<1>3. QED
  BY <1>1, <1>2

\* What an executed transaction moves stays within the quote.
LEMMA ExecuteKeeps ==
  ASSUME IndInv, NEW out \in Amount, NEW chg \in Amount, Execute(out, chg)
  PROVE  IndInv'
<1>1. /\ stage = "prepared" /\ stage' = "executed"
      /\ out >= candidate.min
      /\ Sponsored => chg <= policy.ceiling
      /\ ~Sponsored => chg = 0
      /\ UNCHANGED <<policy, client, trade, routed, candidate, quote, transfer>>
  BY DEF Execute
<1>2. /\ trade.amount \in Amount
      /\ routed \in Amount
      /\ candidate.expected \in Amount /\ candidate.min \in Amount
      /\ candidate.application \in Amount
      /\ transfer \in Amount
      /\ policy.ceiling \in Amount
      /\ MaxAmount \in Nat
  BY TradeAmount DEF IndInv, TypeOK, Quote, Policy
<1>3. /\ routed = RoutedAmount /\ SellDeduction < candidate.min
      /\ quote = NetQuote(SellDeduction)
      /\ transfer = quote.application - candidate.application
  BY <1>1 DEF IndInv, RoutedHolds, QuoteHolds
<1>4. Reserved \in Nat /\ chg <= Reserved
  BY <1>1, <1>2 DEF Reserved, Amount
<1>5. /\ TransferFee(trade.amount) \in Nat
      /\ TransferFee(candidate.expected) \in Nat
  BY <1>2, TransferFeeBounds DEF IndInv, Amount
<1>6. transfer = TransferFee(IF trade.side = "Buy" THEN trade.amount
                                                   ELSE candidate.expected)
  BY <1>2, <1>3, <1>5 DEF NetQuote, Amount
<1>7. quote.in = trade.amount /\ quote.min = candidate.min - SellDeduction
  BY <1>3 DEF NetQuote
<1>8. CASE trade.side = "Buy"
  <2>1. moved' = [spent |-> routed + transfer + chg, gained |-> out]
    BY <1>8 DEF Execute
  <2>2. routed + transfer + chg \in Nat /\ routed + transfer + chg <= trade.amount
    BY <1>2, <1>3, <1>4, <1>5, <1>6, <1>8 DEF RoutedAmount, Amount
  <2>3. SellDeduction = 0
    BY <1>8 DEF SellDeduction
  <2>4. moved' \in Moved
    BY <2>1, <2>2, <1>2 DEF Moved, Amount
  <2>5. NeverOverspent' /\ NeverBelowQuote'
    BY <1>1, <1>2, <1>3, <1>7, <2>1, <2>2, <2>3
       DEF NeverOverspent, NeverBelowQuote, Amount
  <2>6. QED
    BY <1>1, <2>4, <2>5 DEF IndInv, TypeOK, ServiceBelowCeiling, RoutedHolds,
      CandidateHolds, QuoteHolds, RoutedAmount, TransferFee, ProviderCollects,
      Fee, Reserved, Sponsored, SellDeduction, NetQuote
<1>9. CASE trade.side # "Buy"
  <2>1. moved' = [spent |-> routed, gained |-> out - transfer - chg]
    BY <1>9 DEF Execute
  <2>2. trade.side = "Sell"
    BY <1>9 DEF IndInv, TypeOK, Trade
  <2>3. SellDeduction = transfer + Reserved
    BY <1>6, <2>2 DEF SellDeduction
  <2>4. /\ out - transfer - chg >= candidate.min - SellDeduction
        /\ out - transfer - chg \in Amount
    BY <1>1, <1>2, <1>3, <1>4, <2>3 DEF Amount
  <2>5. moved' \in Moved
    BY <2>1, <2>4, <1>2 DEF Moved
  <2>6. routed = trade.amount
    BY <1>3, <1>9 DEF RoutedAmount
  <2>7. NeverOverspent' /\ NeverBelowQuote'
    BY <1>1, <1>2, <1>3, <1>4, <1>7, <2>1, <2>3, <2>4, <2>6
       DEF NeverOverspent, NeverBelowQuote, Amount
  <2>8. QED
    BY <1>1, <2>5, <2>7 DEF IndInv, TypeOK, ServiceBelowCeiling, RoutedHolds,
      CandidateHolds, QuoteHolds, RoutedAmount, TransferFee, ProviderCollects,
      Fee, Reserved, Sponsored, SellDeduction, NetQuote
<1>10. QED
  BY <1>8, <1>9

LEMMA StepKeeps == IndInv /\ [Next]_vars => IndInv'
<1> SUFFICES ASSUME IndInv, [Next]_vars PROVE IndInv'
  OBVIOUS
<1>1. CASE UNCHANGED vars
  BY <1>1 DEF vars, IndInv, TypeOK, ServiceBelowCeiling, RoutedHolds,
    CandidateHolds, QuoteHolds, NeverOverspent, NeverBelowQuote, RoutedAmount,
    TransferFee, ProviderCollects, Fee, Reserved, Sponsored, SellDeduction,
    NetQuote
<1>2. ASSUME NEW a \in Limits, WithLimits(a) \/ WithServiceFee(a) PROVE IndInv'
  BY <1>2, BuilderKeeps
<1>3. CASE Ask
  BY <1>3, AskKeeps
<1>4. CASE Reserve
  BY <1>4, ReserveKeeps
<1>5. ASSUME NEW expected \in Amount, NEW min \in Amount, NEW fee \in Amount,
             Route(expected, min, fee)
      PROVE  IndInv'
  BY <1>5, RouteKeeps
<1>6. CASE RouteFails
  BY <1>6, RejectKeeps DEF RouteFails
<1>7. CASE Settle
  BY <1>7, SettleKeeps
<1>8. ASSUME NEW out \in Amount, NEW chg \in Amount, Execute(out, chg)
      PROVE  IndInv'
  BY <1>8, ExecuteKeeps
<1>9. QED
  BY <1>1, <1>2, <1>3, <1>4, <1>5, <1>6, <1>7, <1>8 DEF Next

-----------------------------------------------------------------------------
(* The theorems. *)

\* The strengthening holds in every reachable state.
THEOREM Invariance == Spec => []IndInv
  BY InitIndInv, StepKeeps, PTL DEF Spec

\* Every amount the code computes fits in u64: no addition overflows and no
\* subtraction underflows, whatever the provider answers.
THEOREM TypeCorrect == Spec => []TypeOK
<1>1. IndInv => TypeOK
  BY DEF IndInv
<1>2. QED
  BY <1>1, Invariance, PTL

\* The ceiling exceeds the service fee after any sequence of builder calls.
THEOREM RoomForExpenses == Spec => []ServiceBelowCeiling
<1>1. IndInv => ServiceBelowCeiling
  BY DEF IndInv
<1>2. QED
  BY <1>1, Invariance, PTL

\* An executed trade never takes more than its amount from the wallet.
THEOREM StaysInBudget == Spec => []NeverOverspent
<1>1. IndInv => NeverOverspent
  BY DEF IndInv
<1>2. QED
  BY <1>1, Invariance, PTL

\* An executed trade leaves the wallet at least the positive quoted minimum.
THEOREM QuoteIsNet == Spec => []NeverBelowQuote
<1>1. IndInv => NeverBelowQuote
  BY DEF IndInv
<1>2. QED
  BY <1>1, Invariance, PTL

\* The application fee is taken once and is what the quote reports.
THEOREM FeeIsTakenOnce == Spec => []ChargedOnce
<1>1. IndInv => ChargedOnce
  <2> SUFFICES ASSUME IndInv, stage \in {"prepared", "executed"}
               PROVE  ChargedOnce
    BY DEF ChargedOnce
  <2>1. /\ quote = NetQuote(SellDeduction)
        /\ transfer = quote.application - candidate.application
        /\ ~ProviderCollects => candidate.application = 0
    BY DEF IndInv, QuoteHolds, CandidateHolds
  <2>2. /\ candidate.application \in Nat /\ quote.application \in Nat
        /\ trade.amount \in Nat /\ candidate.expected \in Nat
    BY TradeAmount DEF IndInv, TypeOK, Quote, Amount
  <2>3. ProviderCollects => quote.application = candidate.application
    BY <2>1, <2>2 DEF NetQuote, TransferFee
  <2>4. QED
    BY <2>1, <2>2, <2>3 DEF ChargedOnce
<1>2. QED
  BY <1>1, Invariance, PTL

-----------------------------------------------------------------------------
(* What the checks establish of an answer. *)

\* The fee of an accepted answer is the requested one, or none.
LEMMA AcceptedFee ==
  ASSUME NEW a \in Answer, Accepted(a),
         trade.source \in Sources,
         ProviderCollects => trade.source \in Collecting
  PROVE  /\ Application(a) \in Amount
         /\ ProviderCollects =>
              /\ ProviderBasis(a.expected, Application(a)) <= MaxAmount
              /\ Application(a) = Fee(ProviderBasis(a.expected, Application(a)))
         /\ ~ProviderCollects => Application(a) = 0
<1>1. CASE ~ProviderCollects
  BY <1>1, ConstantsAssumption DEF Application, Amount
<1>2. CASE ProviderCollects
  <2>1. \/ trade.source = "DFlow" /\ DFlowAccepts(a)
        \/ trade.source = "Bloxroute" /\ BloxrouteAccepts(a)
        \/ trade.source = "Relay" /\ RelayAccepts(a)
    <3>1. trade.source \in {"Bloxroute", "DFlow", "Relay"}
      BY <1>2 DEF Collecting
    <3>2. CASE trade.source = "DFlow"
      BY <3>2 DEF Accepted, Native
    <3>3. CASE trade.source = "Bloxroute"
      BY <3>3 DEF Accepted, Native
    <3>4. CASE trade.source = "Relay"
      BY <3>4 DEF Accepted, Native
    <3>5. QED
      BY <3>1, <3>2, <3>3, <3>4
  <2> DEFINE f == CHOOSE x \in a.fees : TRUE
  <2>2. a.fees # {}
    BY <1>2, <2>1 DEF DFlowAccepts, BloxrouteAccepts, RelayAccepts,
                      ReportedFeeAccepted, RelayFeeAccepted
  <2>3. f \in a.fees
    BY <2>2
  <2>4. f \in [rate : FeeRates, amount : Amount]
    BY <2>3 DEF Answer
  <2> HIDE DEF f
  <2>5. Application(a) = f.amount /\ f.amount \in Amount
    BY <1>2, <2>4 DEF Application, f
  <2>6. CASE trade.source = "Relay"
    <3>1. FeeMatches(a.expected, [rate |-> client.bps, amount |-> f.amount])
      BY <1>2, <2>1, <2>3, <2>6 DEF RelayAccepts, RelayFeeAccepted
    <3>2. QED
      BY <1>2, <2>5, <3>1 DEF FeeMatches
  <2>7. CASE trade.source # "Relay"
    <3>1. FeeMatches(a.expected, f)
      BY <1>2, <2>1, <2>3, <2>7 DEF DFlowAccepts, BloxrouteAccepts,
                                    ReportedFeeAccepted
    <3>2. QED
      BY <1>2, <2>5, <3>1 DEF FeeMatches
  <2>8. QED
    BY <2>6, <2>7
<1>3. QED
  BY <1>1, <1>2

\* An accepted answer is a route of SettlementFees.
LEMMA AcceptedRoutes ==
  ASSUME NEW a \in Answer, NEW kind, Receive(a, kind), Accepted(a),
         trade.source \in Sources, Acceptable, ~Reject
  PROVE  Route(a.expected, a.min, Application(a))
<1>1. /\ stage = "routing" /\ stage' = "quoted"
      /\ candidate' = Candidate(a)
      /\ UNCHANGED <<policy, client, trade, routed, quote, transfer, moved>>
  BY DEF Receive
<1>2. a.in = routed /\ 0 < a.min /\ a.min <= a.expected
  BY DEF Accepted, ValidCandidate, Candidate
<1>3. ProviderCollects => trade.source \in Collecting
  BY DEF Acceptable
<1>4. ProviderCollects /\ trade.source = "Relay" => trade.side = "Buy"
  BY DEF Receive, Requested
<1>5. QED
  BY <1>1, <1>2, <1>3, <1>4, AcceptedFee DEF Route, Candidate

\* Whatever happens to an answer is a step of SettlementFees.
LEMMA ReceiveSteps ==
  ASSUME NEW a \in Answer, NEW kind, Receive(a, kind),
         trade.source \in Sources, Acceptable
  PROVE  Next
<1>1. stage = "routing"
  BY DEF Receive
<1>2. CASE Reject
  BY <1>1, <1>2 DEF Next, RouteFails
<1>3. CASE ~Reject
  <2>1. Accepted(a)
    BY <1>3 DEF Receive
  <2>2. Route(a.expected, a.min, Application(a))
    BY <1>3, <2>1, AcceptedRoutes
  <2>3. /\ a.expected \in Amount /\ a.min \in Amount
        /\ Application(a) \in Amount
    BY <2>1, AcceptedFee DEF Answer, Acceptable
  <2>4. QED
    BY <2>2, <2>3 DEF Next
<1>4. QED
  BY <1>2, <1>3

-----------------------------------------------------------------------------
(* Amounts of documented answers. *)

\* A tolerance leaves at most the output, and no less than nothing.
LEMMA PortionBounds ==
  ASSUME slippage \in Slippages, NEW output \in Nat
  PROVE  Portion(output) \in Nat /\ Portion(output) <= output
<1>1. /\ BasisPoints \in Nat /\ BasisPoints > 0
      /\ slippage \in Nat /\ slippage < BasisPoints
  BY ConstantsAssumption, RequestAssumption
<1> DEFINE keep == BasisPoints - slippage
           p == output * keep
           q == p \div BasisPoints
<1>2. keep \in Nat /\ keep <= BasisPoints
  BY <1>1
<1> HIDE DEF keep
<1>3. p \in Nat /\ p <= output * BasisPoints
  BY <1>1, <1>2
<1>4. q \in Nat /\ BasisPoints * q <= p
  <2> HIDE DEF p
  <2> QED
    BY <1>1, <1>3
<1>5. q <= output
  <2>1. SUFFICES ASSUME q >= output + 1 PROVE FALSE
    BY <1>4
  <2>2. BasisPoints * q >= BasisPoints * (output + 1)
    BY <2>1, <1>1, <1>4
  <2>3. BasisPoints * (output + 1) = output * BasisPoints + BasisPoints
    BY <1>1
  <2> HIDE DEF p, q
  <2>4. QED
    BY <2>2, <2>3, <1>1, <1>3, <1>4
<1>6. QED
  BY <1>4, <1>5 DEF Portion, keep

\* A documented answer in full passes every check of the adapter it is for.
LEMMA DocumentedAccepted ==
  ASSUME NEW gross \in Amount, Documented(gross, 0).min > 0,
         TypeOK, slippage \in Slippages, Acceptable
  PROVE  Accepted(Documented(gross, 0))
<1> DEFINE a == Documented(gross, 0)
           fee == Collected(gross)
           net == gross - (IF trade.side = "Sell" THEN fee ELSE 0)
<1>1. /\ gross \in Nat /\ gross <= MaxAmount /\ MaxAmount \in Nat
      /\ routed \in Nat /\ routed <= MaxAmount
      /\ trade.side \in {"Buy", "Sell"}
      /\ trade.source \in Native \cup Collecting \cup {"Jupiter"}
  BY ConstantsAssumption DEF TypeOK, Amount, Trade
<1>2. /\ fee \in Nat
      /\ ~ProviderCollects => fee = 0
      /\ trade.side = "Buy" /\ ProviderCollects => fee = Fee(routed)
      /\ trade.side = "Sell" /\ ProviderCollects => fee = Fee(gross)
      /\ trade.side = "Sell" => fee <= gross
  <2>1. /\ Fee(routed) \in Nat
        /\ Fee(gross) \in Nat /\ Fee(gross) <= gross
    BY <1>1, FeeBounds
  <2>2. CASE ~ProviderCollects
    BY <2>2, <1>1 DEF Collected
  <2>3. CASE ProviderCollects /\ trade.side = "Buy"
    BY <2>3, <2>1 DEF Collected
  <2>4. CASE ProviderCollects /\ trade.side = "Sell"
    BY <2>4, <2>1 DEF Collected
  <2>5. QED
    BY <2>2, <2>3, <2>4, <1>1
<1> HIDE DEF fee
<1>3. net \in Nat
  BY <1>1, <1>2
<1>4. /\ a.wrong = {} /\ a.in = routed
      /\ a.expected = net - 0 /\ a.min = Portion(net) - 0
      /\ a.fees = IF ProviderCollects
                    THEN {[rate |-> client.bps, amount |-> fee]} ELSE {}
  BY DEF Documented, fee
<1> HIDE DEF net
<1>5. Portion(net) \in Nat /\ Portion(net) <= net
  BY <1>3, PortionBounds
<1>6. a.expected = net /\ a.min = Portion(net)
  BY <1>3, <1>4, <1>5
<1>7. a.min > 0
  OBVIOUS
<1> HIDE DEF a
<1>8. Validated(a)
  BY <1>4, <1>5, <1>6, <1>7 DEF Validated
<1>9. ASSUME ProviderCollects
      PROVE  FeeMatches(a.expected, [rate |-> client.bps, amount |-> fee])
  <2>1. ProviderBasis(a.expected, fee)
          = IF trade.side = "Buy" THEN routed ELSE gross
    BY <1>1, <1>2, <1>3, <1>6 DEF ProviderBasis, net
  <2>2. QED
    BY <2>1, <1>1, <1>2, <1>9 DEF FeeMatches
<1>10. ReportedFeeAccepted(a) /\ RelayFeeAccepted(a)
  <2>1. CASE ProviderCollects
    BY <2>1, <1>4, <1>9 DEF ReportedFeeAccepted, RelayFeeAccepted
  <2>2. CASE ~ProviderCollects
    BY <2>2, <1>4 DEF ReportedFeeAccepted, RelayFeeAccepted
  <2>3. QED
    BY <2>1, <2>2
<1>11. ValidCandidate(Candidate(a))
  BY <1>4, <1>5, <1>6, <1>7 DEF ValidCandidate, Candidate, Application
<1>12. a.wrong \subseteq FeeTerms
  BY <1>4
<1>13. Accepted(a)
  BY <1>1, <1>4, <1>8, <1>10, <1>11, <1>12
     DEF Accepted, Collecting, JupiterAccepts, DFlowAccepts, BloxrouteAccepts,
         RelayAccepts
<1>14. QED
  BY <1>13 DEF a

-----------------------------------------------------------------------------
(* The inductive invariant. *)

\* A route is only asked for if provider_fee and routed_trade let it.
AskedHolds == stage = "routing" => Acceptable

\* Nothing is answered before the request.
UnansweredHolds ==
  stage \in {"configure", "asked", "routing"} => answered = "none"

\* What became a candidate keeps to the tolerance.
ToleranceHolds ==
  stage \in {"quoted", "prepared", "executed"} =>
    candidate.min >= Portion(candidate.expected)

QuotesInv ==
  /\ IndInv
  /\ QuotesTypeOK
  /\ AskedHolds
  /\ UnansweredHolds
  /\ ToleranceHolds
  /\ SlippageKept

\* A response is one of a typed answer, documented in full if it says so.
LEMMA ResponseIsAnswer ==
  ASSUME QuotesInv, Respond
  PROVE  \E a \in Answer, kind \in Kinds :
           /\ Receive(a, kind)
           /\ kind = "in full" =>
                \E gross \in Amount : a = Documented(gross, 0) /\ a.min > 0
           /\ trade.source \in Native => a.min = Portion(a.expected)
<1>1. PICK gross \in Amount, kept \in Kept :
        LET a == Documented(gross, kept)
        IN  \/ /\ a \in Answer /\ a.min > 0
               /\ Receive(a, IF kept = 0 THEN "in full" ELSE "less relayer fee")
            \/ \E b \in Answer \cap (Misleading(a) \cup {c \in {a} : c.min = 0}) :
                 Receive(b, "otherwise")
  BY DEF Respond
<1> DEFINE a == Documented(gross, kept)
<1>2. trade.source \in Native => a.min = Portion(a.expected)
  <2>1. SUFFICES ASSUME trade.source \in Native PROVE a.min = Portion(a.expected)
    OBVIOUS
  <2>2. kept = 0
    BY <2>1 DEF Native, Kept
  <2>3. ~ProviderCollects
    <3>1. stage = "routing"
      BY <1>1 DEF Receive
    <3>2. Acceptable
      BY <3>1 DEF QuotesInv, AskedHolds
    <3>3. QED
      BY <2>1, <3>2 DEF Acceptable, Native, Collecting
  <2>4. gross \in Nat
    BY ConstantsAssumption DEF Amount
  <2>5. Portion(gross) \in Nat
    BY <2>4, PortionBounds DEF QuotesInv, QuotesTypeOK
  <2>6. a.expected = gross /\ a.min = Portion(gross)
    BY <2>2, <2>3, <2>4, <2>5 DEF Documented, Collected
  <2>7. QED
    BY <2>6
<1>3. CASE /\ a \in Answer /\ a.min > 0
           /\ Receive(a, IF kept = 0 THEN "in full" ELSE "less relayer fee")
  <2>1. CASE kept = 0
    BY <1>2, <1>3, <2>1 DEF Kinds
  <2>2. CASE kept # 0
    BY <1>2, <1>3, <2>2 DEF Kinds
  <2>3. QED
    BY <2>1, <2>2
<1>4. ASSUME NEW b \in Answer \cap (Misleading(a) \cup {c \in {a} : c.min = 0}),
             Receive(b, "otherwise")
      PROVE  \E x \in Answer, kind \in Kinds :
               /\ Receive(x, kind)
               /\ kind = "in full" =>
                    \E g \in Amount : x = Documented(g, 0) /\ x.min > 0
               /\ trade.source \in Native => x.min = Portion(x.expected)
  <2>1. trade.source \in Native => b = a
    BY DEF Misleading
  <2>2. trade.source \in Native => b.min = Portion(b.expected)
    BY <1>2, <2>1
  <2> HIDE DEF a
  <2>3. QED
    BY <1>4, <2>2 DEF Kinds
<1>5. QED
  BY <1>1, <1>3, <1>4

\* Every step is one of SettlementFees or changes nothing it is about.
LEMMA StepRefines ==
  ASSUME QuotesInv, [QuotesNext]_allVars
  PROVE  [Next]_vars
<1>1. CASE Configure
  BY <1>1 DEF Configure, Next
<1>2. CASE Begin
  BY <1>2 DEF Begin, Next
<1>3. CASE Respond
  <2>1. PICK a \in Answer, kind \in Kinds : Receive(a, kind)
    BY <1>3, ResponseIsAnswer
  <2>2. stage = "routing"
    BY <2>1 DEF Receive
  <2>3. Acceptable /\ trade.source \in Sources
    BY <2>2 DEF QuotesInv, AskedHolds, IndInv, TypeOK, Trade
  <2>4. QED
    BY <2>1, <2>3, ReceiveSteps
<1>4. CASE NoAnswer
  BY <1>4 DEF NoAnswer, Next
<1>5. CASE Deadline
  BY <1>5 DEF Deadline, Next
<1>6. CASE PoolsRead
  BY <1>6 DEF PoolsRead
<1>7. CASE Finish
  BY <1>7 DEF Finish, Next
<1>8. ASSUME NEW out \in Amount, NEW charge \in Amount, Pay(out, charge)
      PROVE  Next
  BY <1>8 DEF Pay, Next
<1>9. CASE UNCHANGED allVars
  BY <1>9 DEF allVars
<1>10. QED
  BY <1>1, <1>2, <1>3, <1>4, <1>5, <1>6, <1>7, <1>8, <1>9 DEF QuotesNext

\* The settings stay.
LEMMA SettingsStay ==
  ASSUME [QuotesNext]_allVars, [Next]_vars
  PROVE  UNCHANGED <<client, trade, slippage>>
<1>1. UNCHANGED slippage
  BY DEF QuotesNext, Configure, quoteVars, Begin, Respond, Receive, NoAnswer,
         Deadline, PoolsRead, Finish, Pay, allVars
<1>2. UNCHANGED <<client, trade>>
  BY DEF Next, WithLimits, WithServiceFee, Ask, Reserve, Route, RouteFails,
         Settle, Execute, Reject, vars
<1>3. QED
  BY <1>1, <1>2

LEMMA TypesKept ==
  ASSUME QuotesInv, [QuotesNext]_allVars
  PROVE  QuotesTypeOK'
<1>1. QuotesTypeOK
  BY DEF QuotesInv
<1>2. CASE Respond
  <2>1. PICK a \in Answer, kind \in Kinds : Receive(a, kind)
    BY <1>2, ResponseIsAnswer
  <2>2. QED
    BY <1>1, <2>1 DEF Receive, QuotesTypeOK
<1>3. CASE ~Respond
  BY <1>1, <1>3 DEF QuotesTypeOK, QuotesNext, Configure, quoteVars, Begin,
    NoAnswer, Deadline, PoolsRead, Finish, Pay, allVars, Kinds
<1>4. QED
  BY <1>2, <1>3

\* A step that does not change the routed quote does not change its tolerance.
LEMMA CandidateStays ==
  ASSUME QuotesInv, UNCHANGED <<candidate, slippage>>,
         stage' \in {"quoted", "prepared", "executed"} =>
           stage \in {"quoted", "prepared", "executed"}
  PROVE  ToleranceHolds'
BY DEF QuotesInv, ToleranceHolds, Portion

\* What is not executed by a step was executed before it, or never.
LEMMA SlippageStays ==
  ASSUME QuotesInv, UNCHANGED <<client, trade, slippage>>,
         stage' = "executed" =>
           /\ stage = "executed"
           /\ UNCHANGED <<policy, moved, quote, candidate>>
  PROVE  SlippageKept'
BY DEF QuotesInv, SlippageKept, Portion, SellDeduction, TransferFee, Fee,
       ProviderCollects, Reserved, Sponsored

LEMMA ReceiveKeeps ==
  ASSUME QuotesInv, Respond, UNCHANGED <<client, trade, slippage>>
  PROVE  ToleranceHolds' /\ SlippageKept' /\ AskedHolds'
<1>1. PICK a \in Answer, kind \in Kinds :
        /\ Receive(a, kind)
        /\ trade.source \in Native => a.min = Portion(a.expected)
  BY ResponseIsAnswer
<1>2. stage = "routing" /\ stage' \in {"quoted", "rejected"}
  BY <1>1 DEF Receive, Reject
<1>3. SlippageKept' /\ AskedHolds'
  BY <1>2 DEF SlippageKept, AskedHolds
<1>4. CASE stage' = "rejected"
  BY <1>3, <1>4 DEF ToleranceHolds
<1>5. CASE stage' = "quoted"
  <2>1. Accepted(a) /\ candidate' = Candidate(a)
    BY <1>1, <1>5 DEF Receive, Reject
  <2>2. a.min >= Portion(a.expected)
    <3>1. CASE trade.source \in Native
      <4>1. a.min \in Int
        BY ConstantsAssumption DEF Answer, Amount
      <4>2. QED
        BY <1>1, <3>1, <4>1
    <3>2. CASE trade.source \notin Native
      BY <2>1, <3>2 DEF Accepted, JupiterAccepts, DFlowAccepts,
                        BloxrouteAccepts, RelayAccepts, Validated
    <3>3. QED
      BY <3>1, <3>2
  <2>3. candidate'.min = a.min /\ candidate'.expected = a.expected
    BY <2>1 DEF Candidate
  <2>4. QED
    BY <1>3, <2>2, <2>3 DEF ToleranceHolds, Portion
<1>6. QED
  BY <1>2, <1>3, <1>4, <1>5

\* An executed swap gave at least the minimum, and only fees came off it.
LEMMA PayKeeps ==
  ASSUME QuotesInv, NEW out \in Amount, NEW chg \in Amount, Pay(out, chg),
         UNCHANGED <<client, trade, slippage>>
  PROVE  SlippageKept'
<1>1. /\ stage = "prepared"
      /\ out >= candidate.min
      /\ Sponsored => chg <= policy.ceiling
      /\ ~Sponsored => chg = 0
      /\ UNCHANGED <<policy, client, trade, routed, candidate, quote, transfer>>
  BY DEF Pay, Execute
<1>2. /\ candidate.min >= Portion(candidate.expected)
      /\ quote = NetQuote(SellDeduction)
      /\ transfer = quote.application - candidate.application
  BY <1>1 DEF QuotesInv, ToleranceHolds, IndInv, QuoteHolds
<1>3. TypeOK /\ MaxAmount \in Nat
  BY ConstantsAssumption DEF QuotesInv, IndInv
<1>4. /\ candidate.expected \in Nat /\ candidate.min \in Nat
      /\ candidate.application \in Nat /\ transfer \in Nat
      /\ policy.ceiling \in Nat /\ trade.amount \in Nat
      /\ out \in Nat /\ chg \in Nat
  BY <1>3, TradeAmount DEF TypeOK, Quote, Policy, Amount
<1>5. Reserved \in Nat /\ chg <= Reserved
  BY <1>1, <1>4 DEF Reserved
<1>6. /\ TransferFee(trade.amount) \in Nat
      /\ TransferFee(candidate.expected) \in Nat
  BY <1>3, <1>4, TransferFeeBounds
<1>7. Portion(candidate.expected) \in Nat
  BY <1>4, PortionBounds DEF QuotesInv, QuotesTypeOK
<1>8. SellDeduction \in Nat
  BY <1>5, <1>6 DEF SellDeduction
<1>9. quote.expected + SellDeduction = candidate.expected
  BY <1>2, <1>4, <1>8 DEF NetQuote
<1>10. moved'.gained + SellDeduction >= candidate.min
  <2>1. CASE trade.side = "Buy"
    <3>1. moved'.gained = out /\ SellDeduction = 0
      BY <2>1 DEF Pay, Execute, SellDeduction
    <3>2. QED
      BY <3>1, <1>1, <1>4
  <2>2. CASE trade.side # "Buy"
    <3>1. moved'.gained = out - transfer - chg
      BY <2>2 DEF Pay, Execute
    <3>2. trade.side = "Sell"
      BY <2>2, <1>3 DEF TypeOK, Trade
    <3>3. transfer = TransferFee(candidate.expected)
      BY <1>2, <1>4, <1>6, <2>2 DEF NetQuote
    <3>4. SellDeduction = transfer + Reserved
      BY <3>2, <3>3 DEF SellDeduction
    <3>5. QED
      BY <3>1, <3>4, <1>1, <1>4, <1>5
  <2>3. QED
    BY <2>1, <2>2
<1>11. /\ SellDeduction' = SellDeduction
       /\ \A output : Portion(output)' = Portion(output)
       /\ quote' = quote
  BY <1>1 DEF SellDeduction, Portion, TransferFee, Fee, ProviderCollects,
              Reserved, Sponsored
<1>12. moved'.gained \in Int
  <2>1. CASE trade.side = "Buy"
    BY <2>1, <1>4 DEF Pay, Execute
  <2>2. CASE trade.side # "Buy"
    BY <2>2, <1>4 DEF Pay, Execute
  <2>3. QED
    BY <2>1, <2>2
<1>13. moved'.gained + SellDeduction >= Portion(quote.expected + SellDeduction)
  BY <1>2, <1>4, <1>7, <1>8, <1>9, <1>10, <1>12
<1>14. QED
  BY <1>11, <1>13 DEF SlippageKept, Portion

LEMMA QuotesInitInv == QuotesInit => QuotesInv
<1> SUFFICES ASSUME QuotesInit PROVE QuotesInv
  OBVIOUS
<1>1. Init
  BY DEF QuotesInit
<1>2. IndInv
  BY <1>1, InitIndInv
<1>3. stage = "configure"
  BY <1>1 DEF Init
<1>4. QED
  BY <1>2, <1>3 DEF QuotesInv, QuotesInit, QuotesTypeOK, Kinds, AskedHolds,
                    UnansweredHolds, ToleranceHolds, SlippageKept

LEMMA UnansweredKept ==
  ASSUME QuotesInv, [QuotesNext]_allVars
  PROVE  UnansweredHolds'
<1>1. UnansweredHolds
  BY DEF QuotesInv
<1>2. CASE Respond
  <2>1. stage' \in {"quoted", "rejected"}
    BY <1>2 DEF Respond, Receive, Reject
  <2>2. QED
    BY <2>1 DEF UnansweredHolds
<1>3. CASE Finish \/ NoAnswer
  BY <1>3 DEF Finish, NoAnswer, Settle, RouteFails, Reject, UnansweredHolds
<1>4. CASE Configure
  BY <1>1, <1>4 DEF Configure, WithLimits, WithServiceFee, Ask, Reject,
                    quoteVars, UnansweredHolds
<1>5. CASE Begin
  BY <1>1, <1>5 DEF Begin, Reserve, Reject, UnansweredHolds
<1>6. CASE Deadline \/ PoolsRead \/ UNCHANGED allVars
  BY <1>1, <1>6 DEF Deadline, PoolsRead, RouteFails, Reject, vars, allVars,
                    quoteVars, UnansweredHolds
<1>7. ASSUME NEW out \in Amount, NEW charge \in Amount, Pay(out, charge)
      PROVE  UnansweredHolds'
  BY <1>7 DEF Pay, Execute, UnansweredHolds
<1>8. QED
  BY <1>2, <1>3, <1>4, <1>5, <1>6, <1>7 DEF QuotesNext

LEMMA QuotesStepKeeps == QuotesInv /\ [QuotesNext]_allVars => QuotesInv'
<1> SUFFICES ASSUME QuotesInv, [QuotesNext]_allVars PROVE QuotesInv'
  OBVIOUS
<1>1. [Next]_vars
  BY StepRefines
<1>2. IndInv'
  BY <1>1, StepKeeps DEF QuotesInv
<1>3. QuotesTypeOK' /\ UnansweredHolds'
  BY TypesKept, UnansweredKept
<1>4. UNCHANGED <<client, trade, slippage>>
  BY <1>1, SettingsStay
<1>5. AskedHolds' /\ ToleranceHolds' /\ SlippageKept'
  <2>1. CASE Configure
    <3>1. /\ stage' \in {"configure", "asked", "rejected"}
          /\ UNCHANGED <<candidate, slippage>>
      BY <2>1 DEF Configure, WithLimits, WithServiceFee, Ask, Reject, quoteVars
    <3>2. QED
      BY <3>1 DEF AskedHolds, ToleranceHolds, SlippageKept
  <2>2. CASE Begin
    <3>1. /\ stage' \in {"routing", "rejected"}
          /\ stage' = "routing" => Acceptable
      BY <2>2 DEF Begin, Reserve, Reject
    <3>2. Acceptable' = Acceptable
      BY <1>4 DEF Acceptable, ProviderCollects, Sponsored
    <3>3. QED
      BY <3>1, <3>2 DEF AskedHolds, ToleranceHolds, SlippageKept
  <2>3. CASE Respond
    BY <2>3, <1>4, ReceiveKeeps
  <2>4. CASE NoAnswer
    BY <2>4 DEF NoAnswer, RouteFails, Reject, AskedHolds, ToleranceHolds,
                SlippageKept
  <2>5. CASE RouteFails
    BY <2>5 DEF RouteFails, Reject, AskedHolds, ToleranceHolds, SlippageKept
  <2>6. CASE UNCHANGED vars
    <3>1. UNCHANGED <<stage, policy, client, trade, candidate, quote, moved>>
      BY <2>6 DEF vars
    <3>2. AskedHolds'
      BY <3>1 DEF AskedHolds, Acceptable, ProviderCollects, Sponsored, QuotesInv
    <3>3. QED
      BY <3>1, <3>2, <1>4, CandidateStays, SlippageStays
  <2>7. CASE Finish
    <3>1. /\ stage = "quoted" /\ stage' \in {"prepared", "rejected"}
          /\ UNCHANGED candidate
      BY <2>7 DEF Finish, Settle, Reject
    <3>2. QED
      BY <3>1, <1>4, CandidateStays, SlippageStays DEF AskedHolds
  <2>8. ASSUME NEW out \in Amount, NEW chg \in Amount, Pay(out, chg)
        PROVE  AskedHolds' /\ ToleranceHolds' /\ SlippageKept'
    <3>1. /\ stage = "prepared" /\ stage' = "executed"
          /\ UNCHANGED candidate
      BY <2>8 DEF Pay, Execute
    <3>2. QED
      BY <3>1, <2>8, <1>4, CandidateStays, PayKeeps DEF AskedHolds
  <2>9. CASE Deadline \/ PoolsRead \/ UNCHANGED allVars
    BY <2>9, <2>5, <2>6 DEF Deadline, PoolsRead, allVars
  <2>10. QED
    BY <2>1, <2>2, <2>3, <2>4, <2>7, <2>8, <2>9 DEF QuotesNext
<1>6. QED
  BY <1>2, <1>3, <1>5 DEF QuotesInv

-----------------------------------------------------------------------------
(* The theorems. *)

THEOREM QuotesInvariance == QuotesSpec => []QuotesInv
  BY QuotesInitInv, QuotesStepKeeps, PTL DEF QuotesSpec

\* The preparation with the adapters' checks implements the one that takes any
\* quote Route describes: no answer of any provider gets past them otherwise.
THEOREM QuotesImplementSettlement == QuotesSpec => ImplementsSettlement
<1>1. QuotesInit => Init
  BY DEF QuotesInit
<1>2. QuotesInv /\ [QuotesNext]_allVars => [Next]_vars
  BY StepRefines
<1>3. QED
  BY <1>1, <1>2, QuotesInvariance, PTL DEF QuotesSpec, Spec, ImplementsSettlement

\* So the budget, the quoted minimum and the single fee hold with any provider.
THEOREM ProvidersKeepPromises ==
  QuotesSpec => [](NeverOverspent /\ NeverBelowQuote /\ ChargedOnce)
<1>1. QuotesSpec => Spec
  BY QuotesImplementSettlement DEF ImplementsSettlement
<1>2. QED
  BY <1>1, StaysInBudget, QuoteIsNet, FeeIsTakenOnce, PTL

\* A wallet gets what its tolerance leaves of the quoted output.
THEOREM ToleranceKept == QuotesSpec => []SlippageKept
<1>1. QuotesInv => SlippageKept
  BY DEF QuotesInv
<1>2. QED
  BY <1>1, QuotesInvariance, PTL

\* A documented answer in full is never refused, at any rounding.
THEOREM HonestProvidersAccepted == QuotesSpec => HonestAccepted
<1>1. ASSUME QuotesInv, QuotesNext, stage = "routing", answered' = "in full"
      PROVE  stage' = "quoted"
  <2>1. answered = "none"
    BY <1>1 DEF QuotesInv, UnansweredHolds
  <2>2. Respond
    BY <1>1, <2>1 DEF QuotesNext, Configure, quoteVars, Begin, NoAnswer,
                      Deadline, PoolsRead, Finish, Pay
  <2>3. PICK a \in Answer, gross \in Amount :
          Receive(a, "in full") /\ a = Documented(gross, 0) /\ a.min > 0
    <3>1. PICK a \in Answer, kind \in Kinds :
            /\ Receive(a, kind)
            /\ kind = "in full" =>
                 \E gross \in Amount : a = Documented(gross, 0) /\ a.min > 0
      BY <1>1, <2>2, ResponseIsAnswer
    <3>2. kind = "in full"
      BY <1>1, <3>1 DEF Receive
    <3>3. QED
      BY <3>1, <3>2
  <2>4. Acceptable /\ TypeOK /\ slippage \in Slippages
    BY <1>1 DEF QuotesInv, AskedHolds, IndInv, QuotesTypeOK
  <2>5. Accepted(a)
    BY <2>3, <2>4, DocumentedAccepted
  <2>6. QED
    BY <2>3, <2>5 DEF Receive
<1>2. QuotesInv /\ [QuotesNext]_allVars =>
        [stage = "routing" /\ answered' = "in full" => stage' = "quoted"]_allVars
  BY <1>1
<1>3. QED
  BY <1>2, QuotesInvariance, PTL DEF QuotesSpec, HonestAccepted
=============================================================================
