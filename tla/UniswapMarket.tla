--------------------------- MODULE UniswapMarket ---------------------------
(***************************************************************************)
(* Swaps of ETH pairs through one Uniswap pool (evm/dexes/uniswap): how a  *)
(* pool the user names is checked (eth_pool), how the deepest one is found *)
(* (find_market), what a trade is quoted (quote_trade, v2, v3, v4), and    *)
(* what the router then does with it on a chain that has moved meanwhile.  *)
(*                                                                         *)
(* A pool is a record of what its contracts answer; reserves stand for the *)
(* liquidity of all three versions.  The factories, the v3 and v4 quoters  *)
(* and CswapRouter are external: they follow the README and the calls.     *)
(***************************************************************************)
EXTENDS Integers, FiniteSets

CONSTANTS
  Tokens,
  WethFirst,    \* tokens whose address is above WETH's
  Pools,        \* the pools on the chain
  Reserves,     \* pairs of reserves a pool can have
  Markets,      \* reserves of all pools a run may begin with
  Trades,       \* trades callers ask for
  Probe,        \* DISCOVERY_PROBE_WEI
  BasisPoints,
  PerMille,     \* PER_MILLE
  InputKept,    \* INPUT_KEPT_PER_MILLE
  RouterFees,   \* fee rates CswapRouter accepts
  MaxMoves      \* bound on changes of pools by others

Directions == {"Buy", "Sell"}

\* eth: the currency beside the token; "both" is a pool of ETH and WETH, "none"
\* one of two tokens.  official: the factory's pool; v4 has no other.
\* standard: a tier find looks at.  minted: known to the PositionManager.
\* kept: what the pool's fee leaves of every PerMille of an input.
Pool == [version : {"V2", "V3", "V4"}, token : Tokens,
         eth : {"WETH", "native", "both", "none"}, kept : 1..PerMille,
         hookless : BOOLEAN, official : BOOLEAN, standard : BOOLEAN,
         minted : BOOLEAN]

NoPool == [version |-> "none"]

Trade == [direction : Directions \cup {"Neither"}, token : Tokens,
          amount : Nat, slippage : Nat, fee : 0..BasisPoints - 1,
          pool : Pools \cup {NoPool}]

\* One official v2 pair for each token, one official v3 pool for each tier.
ASSUME ConstantsAssumption ==
  /\ Pools \subseteq Pool /\ IsFiniteSet(Pools)
  /\ Reserves \subseteq [r0 : Nat, r1 : Nat]
  /\ Markets \subseteq [Pools -> Reserves]
  /\ Trades \subseteq Trade
  /\ {Probe, BasisPoints, PerMille} \subseteq Nat \ {0}
  /\ InputKept \in 1..PerMille
  /\ MaxMoves \in Nat
  /\ \A p \in Pools :
       /\ p.version = "V4" => p.official
       /\ p.version # "V4" => p.eth \in {"WETH", "none"}
       /\ p.version = "V2" => p.kept = InputKept
       /\ \A q \in Pools :
            /\ p # q /\ p.official /\ q.official /\ p.eth = q.eth
            /\ p.version = q.version /\ p.version # "V4" /\ p.token = q.token
            => p.kept # q.kept

VARIABLES
  reserves,  \* of every pool
  moved,     \* pools that changed since the call began
  moves,     \* how many changes there were
  trade,     \* chosen initially
  stage,     \* where the call is
  unread,    \* pools whose reads are under way
  found,     \* pools discovery has found
  probed,    \* what a probe buy returns, for each pool that was quoted
  pool,      \* the pool of the route
  quote,     \* the quote of the prepared swap
  result     \* what the router did

vars == <<reserves, moved, moves, trade, stage, unread, found, probed, pool,
          quote, result>>
callVars == <<trade, stage, unread, found, probed, pool, quote, result>>

Quote == [in_amount : Nat, expected_out : Nat, min_out : Nat \ {0},
          application_fee : Nat, seen : Reserves]
NoQuote == [in_amount |-> 0]
Result == [received : Nat, fee : Nat]
NoResult == [received |-> -1]

TypeOK ==
  /\ reserves \in [Pools -> Reserves]
  /\ moved \subseteq Pools
  /\ moves \in 0..MaxMoves
  /\ trade \in Trades
  /\ stage \in {"idle", "resolved", "unresolved", "discover", "probe", "quote",
                "prepared", "landed", "reverted", "error"}
  /\ unread \subseteq Pools
  /\ found \subseteq Pools
  /\ probed \subseteq Pools \X Nat
  /\ pool \in Pools \cup {NoPool}
  /\ quote \in Quote \cup {NoQuote}
  /\ result \in Result \cup {NoResult}

-----------------------------------------------------------------------------
(* The pools. *)

\* Currencies are ordered by address; native ETH is address zero.
EthFirst(p) == p.eth = "native" \/ p.token \in WethFirst

Liquid(p) == reserves[p].r0 > 0 /\ reserves[p].r1 > 0
Initialized(p) == reserves[p].r0 > 0 \/ reserves[p].r1 > 0

\* A pool parts with at most what keeps the product of its reserves, counting
\* the kept part of the input only.
Fills(rin, rout, kept, amount, out) ==
  (rin * PerMille + amount * kept) * (rout - out) >= rin * rout * PerMille

\* The most a pool gives for amount.
PoolOut(p, zeroForOne, amount) ==
  LET rin  == IF zeroForOne THEN reserves[p].r0 ELSE reserves[p].r1
      rout == IF zeroForOne THEN reserves[p].r1 ELSE reserves[p].r0
  IN  CHOOSE out \in 0..rout : /\ Fills(rin, rout, p.kept, amount, out)
                               /\ ~Fills(rin, rout, p.kept, amount, out + 1)

\* getPair and getPool: the official pools of a token and WETH.
EthPair(p, token) ==
  p.version = "V2" /\ p.official /\ p.token = token /\ p.eth = "WETH"
EthPool(p, token) ==
  p.version = "V3" /\ p.official /\ p.token = token /\ p.eth = "WETH"

\* PoolKey::eth_side: exactly one currency is ETH.
EthSide(p) == p.eth \in {"native", "WETH"}

\* address_eth_pool: exactly one token is WETH, and the v3 factory, or else the
\* v2 factory, knows the pool.
OfficialPool(p) ==
  p.version \in {"V2", "V3"} /\ p.eth = "WETH"
  /\ (EthPool(p, p.token) \/ EthPair(p, p.token))

\* eth_pool of a v4 id.
ResolvedKey(p) ==
  p.version = "V4" /\ p.minted /\ p.hookless /\ EthSide(p) /\ Initialized(p)

Resolved(p) == OfficialPool(p) \/ ResolvedKey(p)

\* quote of v2, v3 and v4: a pool of another token, or not Uniswap's, or with
\* hooks is refused.
Accepted(p, token) ==
  \/ EthPair(p, token)
  \/ EthPool(p, token)
  \/ p.version = "V4" /\ EthSide(p) /\ p.token = token /\ p.hookless

\* find of v2, v3 and v4.
Candidates(token) ==
  {p \in Pools : \/ EthPair(p, token)
                 \/ EthPool(p, token) /\ p.standard
                 \/ /\ p.version = "V4" /\ p.token = token
                    /\ p.eth \in {"native", "WETH"}
                    /\ p.hookless /\ p.standard}
Found(p) == p.version = "V4" => Initialized(p)

-----------------------------------------------------------------------------
(* What a pool is quoted. *)

\* Mutant: the reserves are read in the other order.
EthReserveSwapped(p) == IF EthFirst(p) THEN reserves[p].r1 ELSE reserves[p].r0

\* v2 reserves, ordered by address.
EthReserve(p)   == IF EthFirst(p) THEN reserves[p].r0 ELSE reserves[p].r1
TokenReserve(p) == IF EthFirst(p) THEN reserves[p].r1 ELSE reserves[p].r0

\* The formula of v2::quote.
V2Out(rin, rout, amount) ==
  (amount * InputKept * rout) \div (rin * PerMille + amount * InputKept)

V2Quote(p, direction, amount) ==
  IF direction = "Buy" THEN V2Out(EthReserve(p), TokenReserve(p), amount)
                       ELSE V2Out(TokenReserve(p), EthReserve(p), amount)

\* Which way the v3 and v4 quoters are asked to swap.
ZeroForOne(p, direction) == (direction = "Buy") = EthFirst(p)

AmountOut(p, direction, amount) ==
  IF p.version = "V2" THEN V2Quote(p, direction, amount)
                      ELSE PoolOut(p, ZeroForOne(p, direction), amount)

\* portion: amount times bps over BasisPoints, without the large product.
Portion(amount, bps) ==
  (amount \div BasisPoints) * bps + ((amount % BasisPoints) * bps) \div BasisPoints

\* Mutant: one basis point more than the slippage asked for.
MinOutWider(expected) == Portion(expected, BasisPoints - trade.slippage - 1)
MinOut(expected) == Portion(expected, BasisPoints - trade.slippage)

\* quote_trade: the fee is on the ETH side, off the input of a buy and off the
\* output of a sale.
NetQuote(p) ==
  LET fee_in   == IF trade.direction = "Buy" THEN Portion(trade.amount, trade.fee)
                                             ELSE 0
      out      == AmountOut(p, trade.direction, trade.amount - fee_in)
      fee_out  == IF trade.direction = "Sell" THEN Portion(out, trade.fee) ELSE 0
      expected == out - fee_out
  IN  [in_amount |-> trade.amount, expected_out |-> expected,
       min_out |-> MinOut(expected), application_fee |-> fee_in + fee_out,
       seen |-> reserves[p]]

-----------------------------------------------------------------------------
(* The call. *)

Error ==
  /\ stage' = "error"
  /\ UNCHANGED <<reserves, moved, moves, trade, unread, found, probed, pool,
                 quote, result>>

\* Before the trade: eth_pool says what a pool is, and the caller trades the token
\* it names through it, or asks another source.
ResolvePool ==
  /\ stage = "idle"
  /\ trade.pool # NoPool /\ trade.token = trade.pool.token
  /\ stage' = IF Resolved(trade.pool) THEN "resolved" ELSE "unresolved"
  /\ UNCHANGED <<reserves, moved, moves, trade, unread, found, probed, pool,
                 quote, result>>

\* Trade::validate and eth_pair.
Valid == trade.direction \in Directions /\ trade.amount > 0
         /\ trade.slippage < BasisPoints

\* The trade's own pool, resolved or not, or discovery: all reads start at once.
Start ==
  /\ stage \in {"idle", "resolved"}
  /\ moved' = {}
  /\ \/ ~Valid /\ stage' = "error" /\ UNCHANGED <<pool, unread>>
     \/ /\ Valid /\ trade.pool # NoPool
        /\ stage' = "quote" /\ pool' = trade.pool /\ UNCHANGED unread
     \/ /\ Valid /\ trade.pool = NoPool
        /\ stage' = "discover" /\ unread' = Candidates(trade.token)
        /\ UNCHANGED pool
  /\ UNCHANGED <<reserves, moves, trade, found, probed, quote, result>>

\* One of the reads of find_market answers; in_parallel takes any order.
Discover(p) ==
  /\ stage = "discover" /\ p \in unread
  /\ unread' = unread \ {p}
  /\ found' = IF Found(p) THEN found \cup {p} ELSE found
  /\ UNCHANGED <<reserves, moved, moves, trade, stage, probed, pool, quote,
                 result>>

\* A failed read fails discovery.
DiscoverFails == stage = "discover" /\ Error

\* The probes start when all pools are known.
StartProbes ==
  /\ stage = "discover" /\ unread = {}
  /\ stage' = "probe"
  /\ unread' = found
  /\ UNCHANGED <<reserves, moved, moves, trade, found, probed, pool, quote,
                 result>>

\* A pool that cannot be quoted, for whatever reason, is dropped.
ProbePool(p) ==
  /\ stage = "probe" /\ p \in unread
  /\ unread' = unread \ {p}
  /\ \/ Liquid(p) /\ probed' = probed \cup {<<p, AmountOut(p, "Buy", Probe)>>}
     \/ UNCHANGED probed
  /\ UNCHANGED <<reserves, moved, moves, trade, stage, found, pool, quote,
                 result>>

\* Mutant: the first pool quoted is taken.
DeepestAny(entry) == entry \in probed
Deepest(entry) == entry \in probed /\ \A other \in probed : other[2] <= entry[2]

\* The pool that returns the most; among equals, the last to answer.
ChooseMarket ==
  /\ stage = "probe" /\ unread = {}
  /\ \/ probed = {} /\ stage' = "error" /\ UNCHANGED pool
     \/ \E entry \in probed :
          Deepest(entry) /\ pool' = entry[1] /\ stage' = "quote"
  /\ UNCHANGED <<reserves, moved, moves, trade, unread, found, probed, quote,
                 result>>

\* quote_trade; an empty pool, or an output of zero, is an error.
QuoteTrade ==
  /\ stage = "quote"
  /\ Accepted(pool, trade.token) /\ Liquid(pool)
  /\ NetQuote(pool).min_out > 0
  /\ quote' = NetQuote(pool)
  /\ stage' = "prepared"
  /\ UNCHANGED <<reserves, moved, moves, trade, unread, found, probed, pool,
                 result>>

QuoteFails == stage = "quote" /\ Error

\* CswapRouter checks the pool again, takes its fee and sends the rest.
RouterTrusts(p, token) ==
  IF p.version = "V4" THEN /\ p.token = token /\ p.hookless
                           /\ p.eth \in {"native", "WETH"}
                      ELSE EthPair(p, token) \/ EthPool(p, token)

RouterResult(p) ==
  IF trade.direction = "Buy"
    THEN LET fee == (trade.amount * trade.fee) \div BasisPoints
         IN  [received |-> PoolOut(p, EthFirst(p), trade.amount - fee), fee |-> fee]
    ELSE LET out == PoolOut(p, ~EthFirst(p), trade.amount)
             fee == (out * trade.fee) \div BasisPoints
         IN  [received |-> out - fee, fee |-> fee]

RouterAccepts ==
  /\ RouterTrusts(pool, trade.token)
  /\ trade.fee \in RouterFees
  /\ Liquid(pool)
  /\ RouterResult(pool).received >= quote.min_out

\* The swap is mined, on the reserves of that moment.
Swap ==
  /\ stage = "prepared"
  /\ IF RouterAccepts
       THEN stage' = "landed" /\ result' = RouterResult(pool)
       ELSE stage' = "reverted" /\ UNCHANGED result
  /\ UNCHANGED <<reserves, moved, moves, trade, unread, found, probed, pool,
                 quote>>

\* Somebody trades, or adds or removes liquidity; only in a pool that matters.
Move(p) ==
  /\ p \in IF trade.pool = NoPool THEN Candidates(trade.token) ELSE {trade.pool}
  /\ stage \notin {"idle", "unresolved", "landed", "reverted", "error"}
  /\ moves < MaxMoves
  /\ \E r \in Reserves : r # reserves[p] /\ reserves' = [reserves EXCEPT ![p] = r]
  /\ moved' = moved \cup {p}
  /\ moves' = moves + 1
  /\ UNCHANGED callVars

Init ==
  /\ reserves \in Markets
  /\ moved = {} /\ moves = 0
  /\ trade \in Trades
  /\ stage = "idle"
  /\ unread = {} /\ found = {} /\ probed = {}
  /\ pool = NoPool
  /\ quote = NoQuote
  /\ result = NoResult

Next ==
  \/ ResolvePool \/ Start
  \/ \E p \in Pools : Discover(p) \/ ProbePool(p) \/ Move(p)
  \/ DiscoverFails \/ StartProbes \/ ChooseMarket
  \/ QuoteTrade \/ QuoteFails \/ Swap

Spec == Init /\ [][Next]_vars

-----------------------------------------------------------------------------
(* Properties. *)

\* If the pool has not changed since it was quoted, the swap lands and gives
\* exactly the quoted output and takes exactly the quoted fee.
QuoteIsExact ==
  stage = "prepared" /\ reserves[pool] = quote.seen /\ trade.fee \in RouterFees =>
    /\ RouterAccepts
    /\ RouterResult(pool)
         = [received |-> quote.expected_out, fee |-> quote.application_fee]

\* However the pool has changed, a swap that lands gives at least the expected
\* output less the slippage, to the unit, after the fee.
SlippageHonoured ==
  stage = "landed" =>
    result.received >= (quote.expected_out * (BasisPoints - trade.slippage))
                         \div BasisPoints

\* Without changes and dropped reads, the pool of a trade that names none gives
\* the most for a probe buy of all that discovery looks at.
AllProbed == \A p \in Candidates(trade.token) :
               Liquid(p) => \E entry \in probed : entry[1] = p
DeepestWhenQuiet ==
  (/\ stage \in {"quote", "prepared"}
   /\ trade.pool = NoPool
   /\ moved = {} /\ AllProbed)
  => \A p \in Candidates(trade.token) :
       Liquid(p) => AmountOut(p, "Buy", Probe) <= AmountOut(pool, "Buy", Probe)
=============================================================================
