----------------------------- MODULE EvmQuotes -----------------------------
(***************************************************************************)
(* Client::prepare_swap of the EVM client (evm/mod.rs): a trade is quoted  *)
(* by the one source it names, Uniswap as in UniswapMarket or Relay, whose *)
(* answer evm/sources/relay/mod.rs checks.                                 *)
(*                                                                         *)
(* Relay answers as it documents (slippage comes off the output it finds,  *)
(* then its own fee and the app fee) or departs from that in one field.    *)
(* The transactions of the answer are those of EvmAllowances.              *)
(***************************************************************************)
EXTENDS UniswapMarket

CONSTANTS
  Outputs,  \* outputs Relay may find, and amounts it may report
  Kept      \* what Relay may keep for itself

ASSUME RelayAssumption == Outputs \subseteq Nat /\ Kept \subseteq Nat

VARIABLES
  source,    \* quote_source_for the trade, chosen initially
  answered,  \* was Relay's answer as it documents?
  offer      \* Relay's answer, once accepted

allVars == <<vars, source, answered, offer>>

\* A fee as Relay reports it: its currency, and whether it is of this chain.
RelayFee == [currency : {"input", "output", "other"}, here : BOOLEAN,
             amount : Nat]

\* The terms of the request an answer echoes.
Terms == {"operation", "wallet", "chain", "currencies"}

\* relayer and app have at most one element.
Answer == [wrong : SUBSET Terms, in : Nat, out : Nat, min : Nat,
           relayer : SUBSET RelayFee, app : SUBSET RelayFee]
NoOffer == [in |-> 0]

\* The Uniswap call's stages, and those of a trade that Relay is asked for.
EvmTypeOK ==
  /\ reserves \in [Pools -> Reserves]
  /\ moved \subseteq Pools
  /\ moves \in 0..MaxMoves
  /\ trade \in Trades
  /\ stage \in {"idle", "resolved", "unresolved", "discover", "probe", "quote",
                "prepared", "landed", "reverted", "error", "asked", "offered",
                "delivered"}
  /\ unread \subseteq Pools /\ found \subseteq Pools
  /\ probed \subseteq Pools \X Nat
  /\ pool \in Pools \cup {NoPool}
  /\ quote \in Quote \cup {NoQuote}
  /\ result \in Result \cup {NoResult}
  /\ source \in {"Uniswap", "Relay"}
  /\ answered \in BOOLEAN
  /\ offer \in Answer \cup {NoOffer}

-----------------------------------------------------------------------------
(* Relay. *)

\* The app fee a documented answer reports, in a currency of Relay's choice.
DocumentedApp(gross, currency) ==
  IF trade.fee = 0 THEN {}
    ELSE {[currency |-> currency, here |-> TRUE,
           amount |-> CASE currency = "input"  -> Portion(trade.amount, trade.fee)
                        [] currency = "output" -> Portion(gross, trade.fee)
                        [] currency = "other"  -> 1]}

\* What fees_from_output counts of one kind of fee.
OutputPart(fees) ==
  IF \E f \in fees : f.currency = "output" /\ f.here
    THEN (CHOOSE f \in fees : TRUE).amount ELSE 0

\* Relay found gross, keeps a fee in one currency and the app's in another.
Documented(gross, relayer, app) ==
  LET taken == OutputPart(relayer) + OutputPart(app)
  IN  [wrong |-> {}, in |-> trade.amount, out |-> gross - taken,
       min |-> MinOut(gross) - taken, relayer |-> relayer, app |-> app]

DocumentedAnswers ==
  {a \in {Documented(gross, relayer, DocumentedApp(gross, c)) :
            gross \in Outputs, c \in {"input", "output", "other"},
            relayer \in {{}} \cup {{[currency |-> k, here |-> TRUE, amount |-> n]} :
                                     k \in {"input", "output"}, n \in Kept}} :
     a.min > 0}

\* One field is not what it should be.
Misleading(a) ==
       {[a EXCEPT !.wrong = {t}] : t \in Terms}
  \cup {[a EXCEPT !.in = n] : n \in Outputs}
  \cup {[a EXCEPT !.out = n] : n \in Outputs}
  \cup {[a EXCEPT !.min = n] : n \in Outputs}
  \cup {[a EXCEPT !.app = fees] :
          fees \in {{}} \cup {{[currency |-> c, here |-> h, amount |-> n]} :
                                c \in {"input", "output"}, h \in BOOLEAN,
                                n \in Outputs}}

-----------------------------------------------------------------------------
(* The checks of sources/relay/mod.rs. *)

\* fees_from_output.
FeesFromOutput(a) == OutputPart(a.relayer) + OutputPart(a.app)

\* Mutant: the tolerance is applied to what is left after the fees.
SlippageFloorOfNet(a) == MinOut(a.out)

\* Mutant: the tolerance is applied twice.
SlippageFloorTwice(a) == MinOut(MinOut(a.out))

\* slippage_floor: the tolerance is that of the output before fees.
SlippageFloor(a) ==
  LET least == MinOut(a.out + FeesFromOutput(a))
  IN  IF least > FeesFromOutput(a) THEN least - FeesFromOutput(a) ELSE 0

\* app_fee: a fee nobody asked for may only be nothing; one charged in the
\* input has to be the requested one.  Conversions are taken as reported.
AppFeeAccepted(a) ==
  IF trade.fee = 0
    THEN \A f \in a.app : f.amount = 0
    ELSE /\ a.app # {}
         /\ \A f \in a.app :
              /\ f.here
              /\ f.currency = "input" =>
                   f.amount = Portion(trade.amount, trade.fee)

RelayAccepts(a) ==
  /\ a.wrong = {}
  /\ a.in = trade.amount
  /\ 0 < a.min /\ a.min <= a.out
  /\ a.min >= SlippageFloor(a)
  /\ AppFeeAccepted(a)

-----------------------------------------------------------------------------
(* The call. *)

\* Trade::validate; any two currencies will do.
RelayValid == trade.amount > 0 /\ trade.slippage < BasisPoints

\* Relay is asked, once.
AskRelay ==
  /\ source = "Relay" /\ stage = "idle"
  /\ stage' = IF RelayValid THEN "asked" ELSE "error"
  /\ UNCHANGED <<reserves, moved, moves, trade, unread, found, probed, pool,
                 quote, result, source, answered, offer>>

\* An answer is taken or refused.
RelayAnswers(a, documented) ==
  /\ answered' = documented
  /\ IF RelayAccepts(a) THEN stage' = "offered" /\ offer' = a
                        ELSE stage' = "error" /\ UNCHANGED offer
  /\ UNCHANGED <<reserves, moved, moves, trade, unread, found, probed, pool,
                 quote, result, source>>

Respond ==
  /\ stage = "asked"
  /\ \E a \in DocumentedAnswers :
       \/ RelayAnswers(a, TRUE)
       \/ \E b \in Misleading(a) : RelayAnswers(b, FALSE)

\* The request fails, or its transactions do not decode.
RelayFails == stage = "asked" /\ Error /\ UNCHANGED <<source, answered, offer>>

\* Relay's router gives at least the minimum of the calldata, or reverts.
RelaySwap ==
  /\ stage = "offered"
  /\ \/ /\ stage' = "delivered"
        /\ \E received \in offer.min..offer.out :
             result' = [received |-> received, fee |-> FeesFromOutput(offer)]
     \/ stage' = "reverted" /\ UNCHANGED result
  /\ UNCHANGED <<reserves, moved, moves, trade, unread, found, probed, pool,
                 quote, source, answered, offer>>

UseUniswap ==
  /\ source = "Uniswap"
  /\ Next
  /\ UNCHANGED <<source, answered, offer>>

EvmInit ==
  /\ Init
  /\ source \in {"Uniswap", "Relay"}
  /\ answered = FALSE
  /\ offer = NoOffer

EvmNext ==
  \/ UseUniswap
  \/ AskRelay
  \/ Respond
  \/ RelayFails
  \/ RelaySwap

EvmSpec == EvmInit /\ [][EvmNext]_allVars

-----------------------------------------------------------------------------
(* Properties. *)

\* An answer as Relay documents it is never refused, whichever currencies its
\* fees are in and however tolerance and fees round.
RelayHonestAccepted ==
  [][stage = "asked" /\ answered' => stage' = "offered"]_allVars

\* However Relay misreports one field, what an offer it delivers on gives the
\* wallet and takes as fees is what the tolerance leaves of the output, and no
\* fee was taken in the input but the one that was asked for.
RelayTolerance ==
  stage = "delivered" =>
    /\ result.received + result.fee
         >= ((offer.out + result.fee) * (BasisPoints - trade.slippage))
              \div BasisPoints
    /\ \A f \in offer.app :
         f.currency = "input" =>
           f.amount = (trade.amount * trade.fee) \div BasisPoints
=============================================================================
