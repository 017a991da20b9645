--------------------------- MODULE ProviderQuotes ---------------------------
(***************************************************************************)
(* What the Solana source adapters (solana/sources/) let through of a      *)
(* provider's answer, and the deadline of the preparation that asks for it *)
(* (solana/client/routing.rs, usd_value.rs).                               *)
(*                                                                         *)
(* SettlementFees takes from a source any quote that Route describes.      *)
(* Here a provider sends an answer, each adapter makes its own checks, and *)
(* what they accept has to be such a quote.  A provider answers as it      *)
(* documents, or departs from that in one field.  The pools that price the *)
(* trade in USD are read while the route is prepared.                      *)
(***************************************************************************)
EXTENDS SettlementFees

CONSTANTS
  Slippages,   \* basis points of slippage a trade may have
  RelayerFees  \* what Relay may keep of an output

ASSUME RequestAssumption ==
  /\ Slippages \subseteq 0..(BasisPoints - 1)
  /\ RelayerFees \subseteq Nat

VARIABLES
  slippage,  \* slippage_bps of the trade, chosen initially
  claim,     \* is a relay_fee_recipient configured? chosen initially
  answered,  \* what kind of answer the provider gave
  pricing,   \* pool_prices is still reading
  overdue    \* ROUTE_PREPARATION_TIMEOUT is over and the call has not returned

quoteVars == <<slippage, claim, answered, pricing, overdue>>
allVars   == <<vars, quoteVars>>

Kinds == {"none", "in full", "less relayer fee", "otherwise"}

QuotesTypeOK ==
  /\ slippage \in Slippages
  /\ claim \in BOOLEAN
  /\ answered \in Kinds
  /\ pricing \in BOOLEAN
  /\ overdue \in BOOLEAN

-----------------------------------------------------------------------------
(* The terms of a request an answer echoes, by adapter, and those of them  *)
(* that are about the platform fee.                                        *)

JupiterTerms   == {"mode", "mints"}
DFlowTerms     == {"mints", "slippage", "plan", "threshold", "version",
                   "instructions", "feeAccount"}
BloxrouteTerms == {"mints", "setup", "program", "owner", "feeMint", "feeMode"}
RelayTerms     == {"operation", "wallet", "chain", "mints", "steps",
                   "version", "signer", "feeCurrency"}
FeeTerms       == {"feeAccount", "feeMint", "feeMode", "feeCurrency"}

Terms == CASE trade.source \in Native      -> {}
           [] trade.source = "Jupiter"     -> JupiterTerms
           [] trade.source = "DFlow"       -> DFlowTerms
           [] trade.source = "Bloxroute"   -> BloxrouteTerms
           [] trade.source = "Relay"       -> RelayTerms

\* An answer: the terms that are not those of the request, the amounts, and
\* the platform fee it reports, if it reports one.
Answer == [wrong : SUBSET Terms, in : Amount, expected : Amount, min : Amount,
           fees : SUBSET [rate : FeeRates, amount : Amount]]

-----------------------------------------------------------------------------
(* Providers. *)

\* What a slippage tolerance leaves of an output.
Portion(output) == (output * (BasisPoints - slippage)) \div BasisPoints

\* The fee a provider was asked to collect, of a gross output.
Collected(gross) ==
  IF ProviderCollects THEN Fee(IF trade.side = "Buy" THEN routed ELSE gross)
                      ELSE 0

\* The documented answer for a gross output.  A sell's fee comes off the output
\* before the tolerance; what Relay keeps comes off afterwards.
Documented(gross, kept) ==
  LET net == gross - (IF trade.side = "Sell" THEN Collected(gross) ELSE 0)
  IN  [wrong |-> {}, in |-> routed, expected |-> net - kept,
       min  |-> Portion(net) - kept,
       fees |-> IF ProviderCollects
                  THEN {[rate |-> client.bps, amount |-> Collected(gross)]}
                  ELSE {}]

Kept == IF trade.source = "Relay" THEN RelayerFees ELSE {0}

\* Answers of a provider that differ from its documented one in one field.  A
\* native source builds its quote itself.
Misleading(a) ==
  IF trade.source \in Native THEN {} ELSE
       {[a EXCEPT !.wrong = {t}] : t \in Terms}
  \cup {[a EXCEPT !.in = n] : n \in Amount}
  \cup {[a EXCEPT !.expected = n] : n \in Amount}
  \cup {[a EXCEPT !.min = n] : n \in Amount}
  \cup {[a EXCEPT !.fees = {[rate |-> r, amount |-> n]}] :
          r \in FeeRates, n \in Amount}
  \cup {[a EXCEPT !.fees = {}]}

-----------------------------------------------------------------------------
(* The checks. *)

\* Mutant: the minimum is not held against the trade's slippage.
ValidatedAnyMinimum(a) == a.in = routed /\ 0 < a.min /\ a.min <= a.expected

\* validated_quote.
Validated(a) ==
  /\ a.in = routed
  /\ 0 < a.min /\ a.min <= a.expected
  /\ a.min >= Portion(a.expected)

\* Mutant: a sell's fee is checked against the output that is net of it.
FeeMatchesNet(expected, f) ==
  f.rate = client.bps /\ f.amount = Fee(IF trade.side = "Buy" THEN routed
                                                              ELSE expected)

\* ProviderFee::validate_amount.
FeeMatches(expected, f) ==
  /\ ProviderBasis(expected, f.amount) <= MaxAmount
  /\ f.rate = client.bps
  /\ f.amount = Fee(ProviderBasis(expected, f.amount))

Nothing(f) == f.rate = 0 /\ f.amount = 0

\* The amount that becomes the quote's application_fee.
Application(a) ==
  IF ProviderCollects THEN (CHOOSE f \in a.fees : TRUE).amount ELSE 0

\* Jupiter collects no fee and reports none.
JupiterAccepts(a) == a.wrong = {} /\ Validated(a)

\* Mutant: the reported amount is trusted if its rate is the requested one.
ReportedRateAccepted(a) ==
  IF ProviderCollects
    THEN a.fees # {} /\ a.wrong = {} /\ \A f \in a.fees : f.rate = client.bps
    ELSE \A f \in a.fees : Nothing(f)

\* DFlow and bloXroute report the rate and the amount of a fee, and what says
\* where it goes; a fee nobody asked for may only be nothing.
ReportedFeeAccepted(a) ==
  IF ProviderCollects
    THEN /\ a.fees # {} /\ a.wrong = {}
         /\ \A f \in a.fees : FeeMatches(a.expected, f)
    ELSE \A f \in a.fees : Nothing(f)

DFlowAccepts(a) ==
  a.wrong \subseteq FeeTerms /\ Validated(a) /\ ReportedFeeAccepted(a)

BloxrouteAccepts(a) ==
  a.wrong \subseteq FeeTerms /\ Validated(a) /\ ReportedFeeAccepted(a)

\* Relay reports only the amount of its app fee: app_fee::apply.
RelayFeeAccepted(a) ==
  IF ProviderCollects
    THEN /\ a.fees # {} /\ a.wrong = {}
         /\ \A f \in a.fees :
              FeeMatches(a.expected,
                         [rate |-> client.bps, amount |-> f.amount])
    ELSE \A f \in a.fees : f.amount = 0

RelayAccepts(a) ==
  a.wrong \subseteq FeeTerms /\ Validated(a) /\ RelayFeeAccepted(a)

\* validate_candidate, after the adapter.
ValidCandidate(c) ==
  /\ c.in = routed
  /\ ProviderCollects \/ c.application = 0
  /\ 0 < c.min /\ c.min <= c.expected

Candidate(a) == [in |-> a.in, expected |-> a.expected, min |-> a.min,
                 application |-> Application(a), sponsorship |-> 0]

Accepted(a) ==
  /\ \/ trade.source \in Native
     \/ trade.source = "Jupiter"   /\ JupiterAccepts(a)
     \/ trade.source = "DFlow"     /\ DFlowAccepts(a)
     \/ trade.source = "Bloxroute" /\ BloxrouteAccepts(a)
     \/ trade.source = "Relay"     /\ RelayAccepts(a)
  /\ ValidCandidate(Candidate(a))

-----------------------------------------------------------------------------
(* Preparation. *)

Configure ==
  /\ \/ \E a \in Limits : WithLimits(a) \/ WithServiceFee(a)
     \/ Ask
  /\ UNCHANGED quoteVars

\* prepare_selected_swap up to the join: if USD values are wanted and the
\* trade's pool is known, its price is read while the route is prepared.
Begin ==
  /\ Reserve
  /\ pricing' \in {p \in BOOLEAN : p => stage' = "routing"}
  /\ UNCHANGED <<slippage, claim, answered, overdue>>

\* app_fee::request: Relay is not asked for a fee it could not pay out.
Requested ==
  ProviderCollects /\ trade.source = "Relay" => trade.side = "Buy" /\ claim

\* The answer arrives and is taken or refused.
Receive(a, kind) ==
  /\ stage = "routing" /\ Requested
  /\ answered' = kind
  /\ \/ /\ Accepted(a)
        /\ stage' = "quoted"
        /\ candidate' = Candidate(a)
        /\ UNCHANGED <<policy, client, trade, routed, quote, transfer, moved>>
     \/ ~Accepted(a) /\ Reject
  /\ UNCHANGED <<slippage, claim, pricing, overdue>>

\* A provider's answer for some output: what it documents, with a positive
\* minimum, or what departs from it.  Amounts that are no u64 do not parse.
Respond ==
  \E gross \in Amount, kept \in Kept :
    LET a == Documented(gross, kept)
    IN  \/ /\ a \in Answer /\ a.min > 0
           /\ Receive(a, IF kept = 0 THEN "in full" ELSE "less relayer fee")
        \/ \E b \in Answer \cap (Misleading(a) \cup {c \in {a} : c.min = 0}) :
             Receive(b, "otherwise")

\* The request cannot be made, fails, or has no answer in time.
NoAnswer == RouteFails /\ UNCHANGED quoteVars

\* The deadline: bounded_route gives its route up, pool_prices reads on.
Deadline ==
  /\ ~overdue
  /\ \/ RouteFails
     \/ stage # "routing" /\ pricing /\ UNCHANGED vars
  /\ overdue' = pricing
  /\ UNCHANGED <<slippage, claim, answered, pricing>>

\* pool_prices ends, with prices or without.
PoolsRead ==
  /\ pricing
  /\ pricing' = FALSE /\ overdue' = FALSE
  /\ UNCHANGED <<vars, slippage, claim, answered>>

\* What follows the join.
Finish ==
  /\ ~pricing
  /\ Settle
  /\ answered' = "none"
  /\ UNCHANGED <<slippage, claim, pricing, overdue>>

Pay(out, charge) == Execute(out, charge) /\ UNCHANGED quoteVars

-----------------------------------------------------------------------------
QuotesInit ==
  /\ Init
  /\ slippage \in Slippages
  /\ claim \in BOOLEAN
  /\ claim => ProviderCollects /\ trade.source = "Relay"
  /\ answered = "none"
  /\ pricing = FALSE
  /\ overdue = FALSE

QuotesNext ==
  \/ Configure
  \/ Begin
  \/ Respond
  \/ NoAnswer
  \/ Deadline
  \/ PoolsRead
  \/ Finish
  \/ \E out, charge \in Amount : Pay(out, charge)

QuotesSpec == QuotesInit /\ [][QuotesNext]_allVars

-----------------------------------------------------------------------------
(* Properties. *)

\* What the adapters and validate_candidate accept is a quote SettlementFees
\* allows for, whichever provider it came from and however it lied: the
\* preparation with real adapters is one of that specification.
ImplementsSettlement == Spec

\* A provider that keeps to its documentation and to the request is never
\* refused, at any rounding of fee and tolerance.
HonestAccepted ==
  [][stage = "routing" /\ answered' = "in full" => stage' = "quoted"]_allVars

\* The wallet of an executed trade gets what its slippage tolerance leaves of
\* the quoted output, both before the fees a sell pays out of its proceeds.
SlippageKept ==
  stage = "executed" =>
    moved.gained + SellDeduction >= Portion(quote.expected + SellDeduction)

\* The same of answers from which Relay has kept its own fee (sources/relay of
\* the EVM client, mod.rs:121: "Relay applies slippage to the output before
\* taking its own and the app fee from it").
RelayAccepted ==
  [][stage = "routing" /\ answered' = "less relayer fee" => stage' = "quoted"]_allVars

\* README.md:381: "Preparation has one 15-second deadline."
PreparedInTime == ~overdue
=============================================================================
