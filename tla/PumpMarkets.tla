---------------------------- MODULE PumpMarkets ----------------------------
(***************************************************************************)
(* The native markets of one Pump token (solana/dexes): finding the one it *)
(* trades on while it may graduate (find_native_market), loading a bonding *)
(* curve (pumpfun) or a graduated pool (pumpswap), whose parts are read at *)
(* different moments, and the quote that is prepared from what was read.   *)
(*                                                                         *)
(* The two programs are external.  A curve is completed by a buy and       *)
(* migrated to a pool by another instruction, in a later slot or the same. *)
(***************************************************************************)
EXTENDS Integers, FiniteSets

CONSTANTS
  Curves,       \* what a bonding curve can hold
  Pools,        \* what a graduated pool can hold
  Fees,         \* fee rates the programs can have
  Trades,       \* trades callers ask for
  OtherCurve,   \* what the curve of another mint holds
  SidePool,     \* what a SOL pool of the mint created outside graduation holds
  BasisPoints,
  MaxMoves      \* bound on trades of others and changes of the fees

\* Markets a trade can name; find_native_market answers "curve" or "pool".
Markets   == {"curve", "pool", "sidePool", "otherCurve", "otherPool", "usdcPool"}
CurveLike == {"curve", "otherCurve"}
PoolLike  == {"pool", "sidePool"}
NoMarket  == "none"

CurveData == [base : Nat, quote : Nat, real : Nat]
PoolData  == [base : Nat, vault : Nat, virtual : Int]
FeeRates  == [lp : Nat, protocol : Nat, creator : Nat]
Trade == [side : {"Buy", "Sell"}, amount : Nat, slippage : Nat,
          settlement : {"Sol", "Usdc"}, named : Markets \cup {NoMarket}]

ASSUME ConstantsAssumption ==
  /\ Curves \subseteq CurveData /\ OtherCurve \in CurveData
  /\ Pools \subseteq PoolData /\ SidePool \in PoolData
  /\ Fees \subseteq FeeRates
  /\ Trades \subseteq Trade
  /\ BasisPoints \in Nat \ {0}
  /\ MaxMoves \in Nat

VARIABLES
  coin,      \* the token's curve: does it trade SOL, has it a creator
  status,    \* of the curve
  curve,     \* what the curve holds
  pool,      \* what the graduated pool holds
  fees,      \* the programs' fee rates
  moves,     \* how many moves there were
  cache,     \* the adapters' fee_settings
  trade,     \* chosen initially
  stage,     \* where the call is
  unread,    \* reads under way
  found,     \* what discovery has found
  truths,    \* answers that were right at some moment of the discovery
  market,    \* the market of the trade
  seen,      \* what was read of it
  changed,   \* did the market change since its first read
  quote      \* the prepared quote

chainVars == <<coin, status, curve, pool, fees, moves>>
callVars == <<cache, trade, stage, unread, found, market, seen, quote>>
vars == <<chainVars, callVars, truths, changed>>

NoData == [base |-> 0, quote |-> 0, real |-> 0, virtual |-> 0]
NoPool == [base |-> 0, vault |-> 0, virtual |-> 0]
NoFees == [lp |-> -1]
NoQuote == [in_amount |-> 0]
Quote == [in_amount : Nat, into : Nat, gross : Nat, fee : Nat,
          expected_out : Nat, min_out : Nat \ {0}, rates : Fees]

TypeOK ==
  /\ coin \in [sol : BOOLEAN, creator : BOOLEAN]
  /\ status \in {"none", "live", "complete", "migrated"}
  /\ curve \in Curves
  /\ pool \in Pools \cup {NoPool}
  /\ fees \in Fees
  /\ moves \in 0..MaxMoves
  /\ cache \in Fees \cup {NoFees}
  /\ trade \in Trades
  /\ stage \in {"idle", "find", "load", "vaults", "fees", "prepared",
                "none", "error"}
  /\ unread \subseteq {"curve", "pool", "base", "vault"}
  /\ found \subseteq Markets
  /\ truths \subseteq Markets \cup {NoMarket}
  /\ market \in Markets \cup {NoMarket}
  /\ seen \in [base : Nat, quote : Int, real : Nat, virtual : Int]
  /\ changed \in BOOLEAN
  /\ quote \in Quote \cup {NoQuote}

-----------------------------------------------------------------------------
(* Arithmetic of dexes/common.rs. *)

CeilDiv(a, b) == (a + b - 1) \div b
Saturating(a) == IF a < 0 THEN 0 ELSE a
AtMost(a, b) == IF a < b THEN a ELSE b

base_out_for_quote_in(q, b, in) ==
  IF in = 0 \/ q = 0 \/ b = 0 THEN 0 ELSE (b * in) \div (q + in)

quote_out_for_base_in(q, b, in) ==
  IF in = 0 \/ q = 0 \/ b = 0 THEN 0 ELSE (q * in) \div (b + in)

fee_floor(amount, bps) == (amount * bps) \div BasisPoints
fee_ceil(amount, bps) == CeilDiv(amount * bps, BasisPoints)

slippage_down(x, bps) == x - (x * bps) \div BasisPoints

-----------------------------------------------------------------------------
(* What is quoted. *)

CreatorRate(f) == IF coin.creator THEN f.creator ELSE 0

\* Mutant: the whole budget is divided, without the unit kept for rounding.
SolIntoCurveWhole(amount, f) ==
  (amount * BasisPoints) \div (f.protocol + CreatorRate(f) + BasisPoints)

\* Mutant: the rates are taken of the budget, not of what enters the curve.
SolIntoCurveOfBudget(amount, f) ==
  Saturating(amount - 1) - fee_ceil(amount, f.protocol + CreatorRate(f))

\* sol_into_curve
SolIntoCurve(amount, f) ==
  (Saturating(amount - 1) * BasisPoints)
    \div (f.protocol + CreatorRate(f) + BasisPoints)

CurveFee(amount, f) == fee_ceil(amount, f.protocol) + fee_ceil(amount, CreatorRate(f))

PoolFee(amount, f) ==
  fee_floor(amount, f.lp) + fee_floor(amount, f.protocol)
    + fee_floor(amount, CreatorRate(f))

\* quote_into_pool, reduced when it and its fees exceed the budget.
QuoteIntoPool(amount, f) ==
  LET into == (amount * BasisPoints)
                \div (BasisPoints + f.lp + f.protocol + CreatorRate(f))
      over == into + PoolFee(into, f) - amount
  IN  IF over > 0 THEN Saturating(into - over) ELSE into

Into(m, f) == IF m \in CurveLike THEN SolIntoCurve(trade.amount, f)
                                 ELSE QuoteIntoPool(trade.amount, f)
FeeOn(m, amount, f) == IF m \in CurveLike THEN CurveFee(amount, f)
                                          ELSE PoolFee(amount, f)

\* What a buy is priced with: of a pool's input one unit is kept back, a curve's
\* is short of one already.
Priced(m, into) == IF m \in CurveLike THEN into ELSE Saturating(into - 1)

BuyOut(m, data, into) ==
  LET out == base_out_for_quote_in(data.quote, data.base, Priced(m, into))
  IN  IF m \in CurveLike THEN AtMost(out, data.real) ELSE out

\* compute_quote of both adapters.
ComputeQuote(m, data, f) ==
  LET into     == IF trade.side = "Buy" THEN Into(m, f) ELSE 0
      gross    == IF trade.side = "Buy"
                    THEN BuyOut(m, data, into)
                    ELSE quote_out_for_base_in(data.quote, data.base, trade.amount)
      fee      == IF trade.side = "Buy" THEN Saturating(trade.amount - into)
                                        ELSE FeeOn(m, gross, f)
      expected == IF trade.side = "Buy" THEN gross ELSE Saturating(gross - fee)
  IN  [in_amount |-> trade.amount, into |-> into, gross |-> gross, fee |-> fee,
       expected_out |-> expected,
       min_out |-> slippage_down(expected, trade.slippage), rates |-> f]

-----------------------------------------------------------------------------
(* The chain. *)

CurveOpen == status = "live" /\ coin.sol

\* Graduation pairs the pool at the canonical address with WSOL.
PoolOpen == status = "migrated" /\ coin.sol

\* Where the token trades.
Tradable ==
  IF CurveOpen THEN {"curve"} ELSE IF PoolOpen THEN {"pool"} ELSE {NoMarket}

Pays(reservesIn, reservesOut, in, out) ==
  out <= reservesOut /\ (reservesIn + in) * (reservesOut - out) >= reservesIn * reservesOut

\* The account of a pool.
Account(m) == IF m = "sidePool" THEN SidePool ELSE pool

\* What the curve or pool holds now.
Held(m) ==
  CASE m = "otherCurve" -> [base |-> OtherCurve.base, quote |-> OtherCurve.quote,
                            real |-> OtherCurve.real]
    [] m = "curve" -> curve
    [] OTHER -> [base |-> Account(m).base,
                 quote |-> Account(m).vault + Account(m).virtual,
                 real |-> Account(m).base]

\* An output the market itself can pay, and it plus one cannot.
MostItPays(m, in, gross) ==
  LET h == Held(m)
      Can(out) == IF trade.side = "Buy"
                    THEN out <= h.real /\ Pays(h.quote, h.base, in, out)
                    ELSE Pays(h.base, h.quote, in, out)
  IN  Can(gross) /\ ~Can(gross + 1)

\* A step of others: truths and changed remember it.
Remember(m) ==
  /\ changed' = (changed \/ market = m)
  /\ truths' = IF stage = "find" THEN truths \cup Tradable' ELSE truths
  /\ UNCHANGED callVars

Moves == stage \notin {"idle", "prepared", "none", "error"} /\ moves < MaxMoves
         /\ moves' = moves + 1

TradeOnCurve ==
  /\ Moves /\ status = "live"
  /\ \E c \in Curves \ {curve} : curve' = c
  /\ UNCHANGED <<coin, status, pool, fees>>
  /\ Remember("curve")

Complete ==
  /\ Moves /\ status = "live"
  /\ status' = "complete"
  /\ UNCHANGED <<coin, curve, pool, fees>>
  /\ Remember("curve")

\* A reader that sees slots does not see a completion that is followed by its
\* migration in the same slot.
Migrate ==
  /\ Moves /\ status \in {"live", "complete"}
  /\ status' = "migrated"
  /\ \E p \in Pools : pool' = p
  /\ UNCHANGED <<coin, curve, fees>>
  /\ Remember(market)

TradeOnPool ==
  /\ Moves /\ status = "migrated"
  /\ \E p \in Pools \ {pool} : pool' = p
  /\ UNCHANGED <<coin, status, curve, fees>>
  /\ Remember("pool")

ChangeFees ==
  /\ Moves
  /\ \E f \in Fees \ {fees} : fees' = f
  /\ UNCHANGED <<coin, status, curve, pool>>
  /\ Remember(NoMarket)

-----------------------------------------------------------------------------
(* The call. *)

Goto(s) == stage' = s

Fail(s) == stage = s /\ Goto("error")
           /\ UNCHANGED <<chainVars, cache, trade, unread, found, market, seen,
                          quote, truths, changed>>

\* validate, and SOL_ONLY of both adapters.
Valid == trade.amount > 0 /\ trade.slippage < BasisPoints /\ trade.settlement = "Sol"

\* The trade names its market, or the caller asks for one first.
Start ==
  /\ stage = "idle" /\ Valid
  /\ \/ /\ trade.named # NoMarket
        /\ market' = trade.named /\ Goto("load")
        /\ UNCHANGED <<unread, truths>>
     \/ /\ trade.named = NoMarket
        /\ Goto("find") /\ unread' = {"curve", "pool"} /\ truths' = Tradable
        /\ UNCHANGED market
  /\ UNCHANGED <<chainVars, cache, trade, found, seen, quote, changed>>

\* Mutant: a curve that is complete is still found.
CurveTradableEver == status # "none" /\ coin.sol

\* tradable, of both find_market.
CurveTradable == CurveOpen
PoolTradable == PoolOpen

\* The two reads of find_native_market run side by side.
FindRead(m) ==
  /\ stage = "find" /\ m \in unread
  /\ unread' = unread \ {m}
  /\ found' = IF IF m = "curve" THEN CurveTradable ELSE PoolTradable
                THEN found \cup {m} ELSE found
  /\ UNCHANGED <<chainVars, cache, trade, stage, market, seen, quote, truths,
                 changed>>

\* The curve takes priority; without a market the caller goes elsewhere.
FindAnswer ==
  /\ stage = "find" /\ unread = {}
  /\ market' = IF "curve" \in found THEN "curve"
               ELSE IF "pool" \in found THEN "pool" ELSE NoMarket
  /\ IF market' = NoMarket THEN Goto("none") ELSE Goto("load")
  /\ UNCHANGED <<chainVars, cache, trade, unread, found, seen, quote, truths,
                 changed>>

\* load_curve: one read; the address is not compared with the mint's.
LoadCurve ==
  /\ stage = "load" /\ market \in CurveLike
  /\ market = "curve" => CurveOpen
  /\ seen' = [base |-> Held(market).base, quote |-> Held(market).quote,
              real |-> Held(market).real, virtual |-> 0]
  /\ changed' = FALSE
  /\ Goto("fees")
  /\ UNCHANGED <<chainVars, cache, trade, unread, found, market, quote, truths>>

\* load_pool wants a pool of the mint, load_sol_pool one in SOL.
PoolAccepted(m) == (m = "pool" /\ PoolOpen) \/ m = "sidePool"

\* load_pool reads the account first.
LoadPoolAccount ==
  /\ stage = "load" /\ PoolAccepted(market)
  /\ seen' = [NoData EXCEPT !.virtual = Account(market).virtual]
  /\ changed' = FALSE
  /\ unread' = {"base", "vault"}
  /\ Goto("vaults")
  /\ UNCHANGED <<chainVars, cache, trade, found, market, quote, truths>>

\* Then both vaults, side by side.
LoadVault(v) ==
  /\ stage = "vaults" /\ v \in unread
  /\ unread' = unread \ {v}
  /\ seen' = IF v = "base" THEN [seen EXCEPT !.base = Account(market).base]
                           ELSE [seen EXCEPT !.quote = Account(market).vault]
  /\ UNCHANGED <<chainVars, cache, trade, stage, found, market, quote, truths,
                 changed>>

\* Mutant: the vault's balance is taken for the reserves.
effective_quote_reserves_vault(balance, virtual) == balance
effective_quote_reserves(balance, virtual) == balance + virtual

\* The virtual reserves are added last; a negative sum is an error.
LoadReserves ==
  /\ stage = "vaults" /\ unread = {}
  /\ effective_quote_reserves(seen.quote, seen.virtual) >= 0
  /\ seen' = [seen EXCEPT !.quote = effective_quote_reserves(@, seen.virtual)]
  /\ Goto("fees")
  /\ UNCHANGED <<chainVars, cache, trade, unread, found, market, quote, truths,
                 changed>>

\* validate_candidate: at least one unit must come out.
MinOutPositive(q) == q.min_out > 0

\* fee_settings: read once and kept, then the quote is computed.
Prepare ==
  /\ stage = "fees"
  /\ cache' = IF cache = NoFees THEN fees ELSE cache
  /\ LET q == ComputeQuote(market, seen, cache')
     IN  IF MinOutPositive(q) THEN quote' = q /\ Goto("prepared")
                              ELSE UNCHANGED quote /\ Goto("error")
  /\ UNCHANGED <<chainVars, trade, unread, found, market, seen, truths, changed>>

\* Any read fails, or the 15 s of bounded_route are over.
CallFails == \E s \in {"find", "load", "vaults", "fees"} : Fail(s)

Init ==
  /\ coin \in [sol : BOOLEAN, creator : BOOLEAN]
  /\ status \in {"none", "live", "complete", "migrated"}
  /\ curve \in Curves
  /\ IF status = "migrated" THEN pool \in Pools ELSE pool = NoPool
  /\ fees \in Fees
  /\ moves = 0
  /\ cache \in Fees \cup {NoFees}
  /\ trade \in Trades
  /\ stage = "idle"
  /\ unread = {} /\ found = {} /\ truths = {}
  /\ market = NoMarket
  /\ seen = NoData
  /\ changed = FALSE
  /\ quote = NoQuote

Next ==
  \/ TradeOnCurve \/ Complete \/ Migrate \/ TradeOnPool \/ ChangeFees
  \/ Start
  \/ \E m \in {"curve", "pool"} : FindRead(m)
  \/ FindAnswer \/ LoadCurve \/ LoadPoolAccount
  \/ \E v \in {"base", "vault"} : LoadVault(v)
  \/ LoadReserves \/ Prepare \/ CallFails

Spec == Init /\ [][Next]_vars

-----------------------------------------------------------------------------
(* Properties. *)

\* Whatever happens while the two reads of find_native_market are under way, a
\* market it answers was the right one at some moment of the call, and a token
\* is only missed if it had no market at some moment or graduated meanwhile.
FoundWasTrue ==
  /\ trade.named = NoMarket /\ stage \in {"load", "vaults", "fees", "prepared"}
       => market \in truths
  /\ stage = "none" => NoMarket \in truths \/ {"curve", "pool"} \subseteq truths

\* What the doc of find_native_market says: None means the token has no tradable
\* market, here at not even one moment of the call.
NoneMeansNoMarket == stage = "none" => NoMarket \in truths

\* What a buy pays into the market and the fees on it, each rounded as the
\* program rounds it, never exceed what the user gave.
BudgetKept ==
  stage = "prepared" /\ trade.side = "Buy" =>
    quote.into + FeeOn(market, quote.into, quote.rates) <= trade.amount

\* net_sol - 1 of the formula the curve's program documents (idl.json:924-928).
IdlNet(amount, f) ==
  LET net  == (amount * BasisPoints) \div (BasisPoints + f.protocol + CreatorRate(f))
      over == net + CurveFee(net, f) - amount
  IN  (IF over > 0 THEN net - over ELSE net) - 1

\* A market that did not change while it was read, virtual reserves included,
\* can pay the quoted output, before the fees of a sale, and not one unit more.
\* A curve's buy is quoted what it can pay for the documented net_sol - 1 or for
\* one lamport more.  The limit given to the program is within the slippage.
QuoteIsExact ==
  stage = "prepared" /\ ~changed =>
    /\ IF trade.side = "Sell" THEN MostItPays(market, trade.amount, quote.gross)
       ELSE IF market \notin CurveLike
         THEN MostItPays(market, Priced(market, quote.into), quote.gross)
         ELSE \E more \in {0, 1} :
                MostItPays(market, IdlNet(trade.amount, quote.rates) + more, quote.gross)
    /\ quote.min_out * BasisPoints
         >= quote.expected_out * (BasisPoints - trade.slippage)

\* The SDK's own formula for a curve stays within one lamport of the documented
\* one, never below it.
NearDocumentedNet ==
  stage = "prepared" /\ market \in CurveLike /\ trade.side = "Buy" =>
    quote.into - IdlNet(trade.amount, quote.rates) \in 0..1
=============================================================================
