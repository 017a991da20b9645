--------------------------- MODULE SettlementFees ---------------------------
(***************************************************************************)
(* Where the money of one Solana trade goes: the application fee           *)
(* (solana/sdk_fee.rs, solana/provider_fee.rs), the sponsor's reserved     *)
(* ceiling (solana/gas_sponsor/mod.rs) and the checks between them         *)
(* (solana/client/routing.rs), from the builder calls that configure the   *)
(* client to the execution of the transaction.                             *)
(*                                                                         *)
(* The provider answers the trade it is sent with any quote.  Fees are     *)
(* taken before routing on buys and after it on sells; the ceiling is      *)
(* reserved by preparation and lowered to the charge before signing.       *)
(* Amounts are integers in the settlement currency or the token; whatever  *)
(* the code computes in u64 has to stay within 0..MaxAmount.               *)
(***************************************************************************)
EXTENDS Integers

CONSTANTS
  MaxAmount,       \* u64::MAX
  BasisPoints,     \* BASIS_POINTS
  FeeRates,        \* basis points an SDK fee may have
  Sources,         \* quote sources in use
  Amounts,         \* trade amounts
  Limits,          \* amounts given to with_limits and with_service_fee_usdc
  DefaultCeiling,  \* DEFAULT_MAX_FEE_USDC
  DefaultService   \* ONE_USDC

Native     == {"PumpFun", "PumpSwap"}
Collecting == {"Bloxroute", "DFlow", "Relay"}

ASSUME ConstantsAssumption ==
  /\ MaxAmount \in Nat
  /\ BasisPoints \in Nat \ {0}
  /\ FeeRates \subseteq 0..(BasisPoints - 1)
  /\ Sources \subseteq Native \cup Collecting \cup {"Jupiter"}
  /\ Amounts \subseteq 0..MaxAmount
  /\ Limits \subseteq 0..MaxAmount
  /\ DefaultCeiling \in 0..MaxAmount
  /\ DefaultService \in 0..MaxAmount
  /\ DefaultService < DefaultCeiling

VARIABLES
  stage,      \* how far the trade has come
  policy,     \* the sponsor's ceiling (max_fee_usdc) and service fee
  client,     \* SDK fee and sponsor of the client, chosen initially
  trade,      \* the requested trade, chosen initially
  routed,     \* the amount the source was asked to route
  candidate,  \* the source's quote, as validate_candidate accepted it
  quote,      \* the quote of the PreparedSwap
  transfer,   \* amount of the SDK's own fee transfer, 0 if there is none
  moved       \* what the executed transaction took from and gave the wallet

vars == <<stage, policy, client, trade, routed, candidate, quote, transfer,
          moved>>

Amount == 0..MaxAmount
Policy == [ceiling : Amount, service : Amount]
Client == [bps        : FeeRates,
           collection : {"Sdk", "Provider"},
           feeToWallet : BOOLEAN,      \* SDK fee recipient = trading wallet?
           sponsor    : BOOLEAN,       \* is there a gas sponsor?
           sponsorIsWallet : BOOLEAN]  \* ... that pays or is paid as the wallet?
Trade  == [side : {"Buy", "Sell"}, settlement : {"Sol", "Usdc"},
           source : Sources, amount : Amounts]
Quote  == [in : Amount, expected : Amount, min : Amount,
           application : Amount, sponsorship : Amount]
Moved  == [spent : Amount, gained : Amount]

NoQuote == [in |-> 0, expected |-> 0, min |-> 0, application |-> 0,
            sponsorship |-> 0]

TypeOK ==
  /\ stage \in {"configure", "asked", "routing", "quoted", "prepared",
                "executed", "rejected"}
  /\ policy \in Policy
  /\ client \in Client
  /\ trade \in Trade
  /\ routed \in Amount
  /\ candidate \in Quote
  /\ quote \in Quote
  /\ transfer \in Amount
  /\ moved \in Moved

-----------------------------------------------------------------------------
(* The sponsor's builder.  A call that fails consumes the builder. *)

Reject ==
  /\ stage' = "rejected"
  /\ UNCHANGED <<policy, client, trade, routed, candidate, quote, transfer,
                 moved>>

\* with_limits: the ceiling has to exceed the current service fee.
WithLimits(ceiling) ==
  /\ stage = "configure"
  /\ \/ /\ ceiling > policy.service
        /\ policy' = [policy EXCEPT !.ceiling = ceiling]
        /\ UNCHANGED <<stage, client, trade, routed, candidate, quote,
                       transfer, moved>>
     \/ ceiling <= policy.service /\ Reject

\* with_service_fee_usdc: the service fee has to be below the current ceiling.
WithServiceFee(service) ==
  /\ stage = "configure"
  /\ \/ /\ service < policy.ceiling
        /\ policy' = [policy EXCEPT !.service = service]
        /\ UNCHANGED <<stage, client, trade, routed, candidate, quote,
                       transfer, moved>>
     \/ service >= policy.ceiling /\ Reject

\* The caller asks for the trade.
Ask ==
  /\ stage = "configure"
  /\ stage' = "asked"
  /\ UNCHANGED <<policy, client, trade, routed, candidate, quote, transfer,
                 moved>>

-----------------------------------------------------------------------------
(* Fees. *)

\* SdkFee::amount
Fee(basis) == (basis * client.bps) \div BasisPoints

\* sponsor_for: only USDC-settled trades are sponsored.
Sponsored == client.sponsor /\ trade.settlement = "Usdc"
Reserved  == IF Sponsored THEN policy.ceiling ELSE 0

\* The fee a provider collects replaces the SDK transfer.
ProviderCollects == client.collection = "Provider" /\ client.bps > 0

\* Mutant: the SDK transfer is added to a provider-collected fee.
TransferFeeAlways(basis) == Fee(basis)

\* What the SDK's own transfer takes of a basis, if there is one.
TransferFee(basis) == IF ProviderCollects THEN 0 ELSE Fee(basis)

-----------------------------------------------------------------------------
(* Preparation. *)

\* trade.validate, the source's restrictions and the parties' distinctness.
Acceptable ==
  /\ trade.amount > 0
  /\ trade.source \in Native => trade.settlement = "Sol"
  /\ ProviderCollects => trade.source \in Collecting
  /\ client.bps > 0 => ~client.feeToWallet
  /\ Sponsored => ~client.sponsorIsWallet

\* Mutant: the ceiling is not reserved from a buyer's input.
RoutedAmountUnreserved ==
  IF trade.side = "Buy" THEN trade.amount - TransferFee(trade.amount)
                        ELSE trade.amount

\* routed_trade: a buy's transfer fee and ceiling come off its input.
RoutedAmount ==
  IF trade.side = "Buy"
    THEN trade.amount - TransferFee(trade.amount) - Reserved
    ELSE trade.amount

\* provider_fee and routed_trade.
Reserve ==
  /\ stage = "asked"
  /\ \/ /\ Acceptable
        /\ Sponsored => RoutedAmount > 0
        /\ stage' = "routing"
        /\ routed' = RoutedAmount
        /\ UNCHANGED <<policy, client, trade, candidate, quote, transfer,
                       moved>>
     \/ ~Acceptable /\ Reject
     \/ Sponsored /\ RoutedAmount <= 0 /\ Reject

\* ProviderFee::validate_amount: a provider takes the fee from the input of a
\* buy and from the output of a sell, whose quote is already net of it.
ProviderBasis(expected, fee) ==
  IF trade.side = "Buy" THEN routed ELSE expected + fee

\* The source quotes the routed amount.  The adapter and validate_candidate
\* let no other fee pass than the one a provider was asked to collect; Relay is
\* not asked to collect one of a sell.
Route(expected, min, fee) ==
  /\ stage = "routing"
  /\ 0 < min /\ min <= expected
  /\ IF ProviderCollects
       THEN /\ trade.source = "Relay" => trade.side = "Buy"
            /\ ProviderBasis(expected, fee) <= MaxAmount
            /\ fee = Fee(ProviderBasis(expected, fee))
       ELSE fee = 0
  /\ stage' = "quoted"
  /\ candidate' = [in |-> routed, expected |-> expected, min |-> min,
                   application |-> fee, sponsorship |-> 0]
  /\ UNCHANGED <<policy, client, trade, routed, quote, transfer, moved>>

\* Preparation fails or times out, or its quote is refused.
RouteFails == stage = "routing" /\ Reject

\* What the wallet gives up of a sell's output.
SellDeduction ==
  IF trade.side = "Sell" THEN TransferFee(candidate.expected) + Reserved ELSE 0

\* The quote of the PreparedSwap, net of every fee.
NetQuote(deduction) ==
  [in          |-> trade.amount,
   expected    |-> candidate.expected - deduction,
   min         |-> candidate.min - deduction,
   application |-> candidate.application
                   + TransferFee(IF trade.side = "Buy" THEN trade.amount
                                                       ELSE candidate.expected),
   sponsorship |-> Reserved]

\* Mutant: the expected output, not the minimum, has to exceed the sell fees.
SettleOnExpected ==
  /\ stage = "quoted"
  /\ SellDeduction < candidate.expected
  /\ stage' = "prepared"
  /\ quote' = NetQuote(SellDeduction)
  /\ transfer' = quote'.application - candidate.application
  /\ UNCHANGED <<policy, client, trade, routed, candidate, moved>>

\* Mutant: the ceiling is subtracted from the expected output only.
SettleMinimumUnreserved ==
  /\ stage = "quoted"
  /\ SellDeduction < candidate.min
  /\ stage' = "prepared"
  /\ quote' = [NetQuote(SellDeduction) EXCEPT !.min =
                 IF trade.side = "Sell" THEN @ + Reserved ELSE @]
  /\ transfer' = quote'.application - candidate.application
  /\ UNCHANGED <<policy, client, trade, routed, candidate, moved>>

\* append_fees: a sell's minimum has to exceed what is taken from it.
Settle ==
  /\ stage = "quoted"
  /\ \/ /\ SellDeduction < candidate.min
        /\ stage' = "prepared"
        /\ quote' = NetQuote(SellDeduction)
        /\ transfer' = quote'.application - candidate.application
        /\ UNCHANGED <<policy, client, trade, routed, candidate, moved>>
     \/ SellDeduction >= candidate.min /\ Reject

\* The transaction executes: the swap gives at least the route's minimum, the
\* fee transfers follow in the same transaction, and the sponsor is paid a
\* charge between the service fee and the ceiling (finalize_fee).
Execute(out, charge) ==
  /\ stage = "prepared"
  /\ out >= candidate.min
  /\ IF Sponsored THEN policy.service <= charge /\ charge <= policy.ceiling
                  ELSE charge = 0
  /\ stage' = "executed"
  /\ moved' = IF trade.side = "Buy"
       THEN [spent |-> routed + transfer + charge, gained |-> out]
       ELSE [spent |-> routed, gained |-> out - transfer - charge]
  /\ UNCHANGED <<policy, client, trade, routed, candidate, quote, transfer>>

-----------------------------------------------------------------------------
Init ==
  /\ stage = "configure"
  /\ policy = [ceiling |-> DefaultCeiling, service |-> DefaultService]
  /\ client \in Client
  /\ trade \in Trade
  /\ routed = 0
  /\ candidate = NoQuote
  /\ quote = NoQuote
  /\ transfer = 0
  /\ moved = [spent |-> 0, gained |-> 0]

Next ==
  \/ \E a \in Limits : WithLimits(a) \/ WithServiceFee(a)
  \/ Ask
  \/ Reserve
  \/ \E expected, min, fee \in Amount : Route(expected, min, fee)
  \/ RouteFails
  \/ Settle
  \/ \E out, charge \in Amount : Execute(out, charge)

Spec == Init /\ [][Next]_vars

-----------------------------------------------------------------------------
(* Properties. *)

\* Whatever the order of the builder calls, the ceiling exceeds the service
\* fee, so there is room for the sponsor's expenses.
ServiceBelowCeiling == policy.service < policy.ceiling

\* An executed trade takes no more than the trade's amount from the wallet:
\* the swap, the fee transfer and the charge of a buy share its gross input.
NeverOverspent ==
  stage = "executed" => moved.spent <= trade.amount /\ trade.amount = quote.in

\* An executed trade leaves the wallet at least the quoted minimum, which is
\* positive: quotes are net of every fee, at the highest possible charge.
NeverBelowQuote ==
  stage = "executed" => 0 < quote.min /\ quote.min <= moved.gained

\* The application fee is taken once, by the provider or by a transfer, and is
\* what the quote reports (routing.rs: "never charge both").
ChargedOnce ==
  stage \in {"prepared", "executed"} =>
    /\ transfer = 0 \/ candidate.application = 0
    /\ quote.application = transfer + candidate.application
=============================================================================
