--------------------------- MODULE EvmQuotesProofs ---------------------------
(***************************************************************************)
(* Proofs about EvmQuotes and the UniswapMarket it extends, for any pools, *)
(* reserves, fees and tolerances, and any outputs Relay may find: a quote  *)
(* is exact while its pool stands still, what lands is within the          *)
(* tolerance, discovery takes the deepest pool, and Relay's answers are    *)
(* taken as documented and checked as received.                            *)
(*                                                                         *)
(* The invariant states a quote by the reserves it was read from, because  *)
(* the pool can change and change back before the swap lands.              *)
(***************************************************************************)
EXTENDS EvmQuotes, TLAPS

-----------------------------------------------------------------------------
(* Quotients and portions. *)

\* A quotient of natural numbers, by its product with the divisor.
LEMMA Quotient ==
  ASSUME NEW a \in Nat, NEW d \in Nat, d > 0
  PROVE  /\ a \div d \in Nat
         /\ d * (a \div d) <= a
         /\ a < d * (a \div d) + d
         /\ (a % d) \in Nat /\ a = d * (a \div d) + (a % d)
<1>1. a \div d \in Nat
  BY Z3
<1>2. d * (a \div d) <= a /\ a < d * (a \div d) + d
  BY Z3
<1>3. (a % d) \in Nat
  BY Z3
<1>4. a = d * (a \div d) + (a % d)
  BY Z3
<1> QED
  BY <1>1, <1>2, <1>3, <1>4

LEMMA Cancel ==
  ASSUME NEW x \in Int, NEW y \in Int, NEW d \in Nat, d > 0, d * x < d * y
  PROVE  x < y
BY Z3

\* These bounds determine it.
LEMMA QuotientIs ==
  ASSUME NEW a \in Nat, NEW d \in Nat, d > 0, NEW q \in Int, d * q <= a, a < d * q + d
  PROVE  q = a \div d
<1> DEFINE r == a \div d
<1>1. r \in Nat /\ d * r <= a /\ a < d * r + d
  BY Quotient
<1> HIDE DEF r
<1>2. d * q \in Int /\ d * r \in Int /\ d * (q + 1) = d * q + d /\ d * (r + 1) = d * r + d
  BY <1>1
<1>3. d * q < d * (r + 1) /\ d * r < d * (q + 1)
  BY <1>1, <1>2
<1>4. q < r + 1 /\ r < q + 1
  BY <1>1, <1>3, Cancel
<1> QED
  BY <1>1, <1>4 DEF r

\* A portion is what the large product would give, and no more than the whole.
LEMMA PortionIs ==
  ASSUME NEW amount \in Nat, NEW bps \in Nat
  PROVE  /\ Portion(amount, bps) = (amount * bps) \div BasisPoints
         /\ Portion(amount, bps) \in Nat
         /\ bps <= BasisPoints => Portion(amount, bps) <= amount
<1> DEFINE B == BasisPoints
           q == amount \div B
           r == amount % B
           t == (r * bps) \div B
<1>1. B \in Nat /\ B > 0
  BY ConstantsAssumption
<1>2. q \in Nat /\ r \in Nat /\ amount = B * q + r
  BY <1>1, Quotient
<1> HIDE DEF q, r, B
<1>3. t \in Nat /\ B * t <= r * bps /\ r * bps < B * t + B
  BY <1>1, <1>2, Quotient
<1> HIDE DEF t
<1>4. Portion(amount, bps) = q * bps + t
  BY DEF Portion, q, r, t, B
<1>5. amount * bps = B * (q * bps) + r * bps
  BY <1>1, <1>2
<1>6. /\ q * bps \in Nat /\ amount * bps \in Nat /\ r * bps \in Nat
      /\ B * (q * bps) \in Nat /\ B * t \in Nat
  BY <1>1, <1>2, <1>3
<1>7. B * (q * bps + t) = B * (q * bps) + B * t
  BY <1>1, <1>3, <1>6
<1>8. B * (q * bps + t) <= amount * bps /\ amount * bps < B * (q * bps + t) + B
  <2> DEFINE v == B * (q * bps)
             w == r * bps
             y == B * t
  <2>1. v \in Nat /\ w \in Nat /\ y \in Nat /\ y <= w /\ w < y + B
    BY <1>3, <1>6
  <2>2. amount * bps = v + w /\ B * (q * bps + t) = v + y
    BY <1>5, <1>7
  <2> HIDE DEF v, w, y
  <2>3. v + y <= v + w /\ v + w < (v + y) + B
    BY <1>1, <2>1
  <2> QED
    BY <2>2, <2>3
<1>9. q * bps + t \in Nat
  BY <1>3, <1>6
<1>10. q * bps + t = (amount * bps) \div B
  BY <1>1, <1>6, <1>8, <1>9, QuotientIs
<1>11. ASSUME bps <= B PROVE q * bps + t <= amount
  <2>1. amount * bps <= amount * B
    BY <1>1, <1>11
  <2>2. B * (q * bps + t) < B * (amount + 1)
    <3>1. B * (amount + 1) = amount * B + B /\ amount * B \in Nat
      BY <1>1
    <3>2. B * (q * bps + t) \in Int
      BY <1>1, <1>9
    <3> QED
      BY <1>1, <1>6, <1>8, <2>1, <3>1, <3>2
  <2>3. q * bps + t < amount + 1
    BY <1>1, <1>9, <2>2, Cancel
  <2> QED
    BY <1>9, <2>3
<1> QED
  BY <1>4, <1>9, <1>10, <1>11 DEF B

\* The least output a tolerance leaves.
LEMMA MinOutIs ==
  ASSUME NEW expected \in Nat, trade \in Trade, trade.slippage < BasisPoints
  PROVE  /\ MinOut(expected) = (expected * (BasisPoints - trade.slippage)) \div BasisPoints
         /\ MinOut(expected) \in Nat /\ MinOut(expected) <= expected
<1>1. trade.slippage \in Nat /\ BasisPoints \in Nat
  BY ConstantsAssumption DEF Trade
<1>2. BasisPoints - trade.slippage \in Nat /\ BasisPoints - trade.slippage <= BasisPoints
  BY <1>1
<1> QED
  BY <1>2, PortionIs DEF MinOut

-----------------------------------------------------------------------------
(* What a pool gives. *)

ReserveIn(r, zeroForOne)  == IF zeroForOne THEN r.r0 ELSE r.r1
ReserveOut(r, zeroForOne) == IF zeroForOne THEN r.r1 ELSE r.r0

\* The formula of v2::quote for the pools of all versions: the output of p at
\* the reserves r.
OutOn(r, p, direction, amount) ==
  LET zeroForOne == ZeroForOne(p, direction)
  IN  (amount * p.kept * ReserveOut(r, zeroForOne))
        \div (ReserveIn(r, zeroForOne) * PerMille + amount * p.kept)

\* An output is within what the pool's product allows if the formula gives as
\* much.
LEMMA FillsIs ==
  ASSUME NEW rin \in Nat, NEW rout \in Nat, NEW kept \in Nat, NEW amount \in Nat,
         NEW out \in Int, PerMille \in Nat
  PROVE  Fills(rin, rout, kept, amount, out)
           <=> (rin * PerMille + amount * kept) * out <= amount * kept * rout
<1> DEFINE a == rin * PerMille
           b == amount * kept
<1>1. a \in Nat /\ b \in Nat
  OBVIOUS
<1>2. rin * rout * PerMille = a * rout
  OBVIOUS
<1> HIDE DEF a, b
<1>3. (a + b) * (rout - out) = a * rout + b * rout - (a + b) * out
  BY <1>1
<1>4. a * rout \in Int /\ b * rout \in Int /\ (a + b) * out \in Int
  BY <1>1
<1>5. (a + b) * (rout - out) >= a * rout <=> (a + b) * out <= b * rout
  BY <1>3, <1>4
<1> QED
  BY <1>2, <1>5 DEF Fills, a, b

LEMMA PoolOutIs ==
  ASSUME NEW p \in Pools, NEW zeroForOne \in BOOLEAN, NEW amount \in Nat,
         reserves[p] \in Reserves, Liquid(p)
  PROVE  LET rin  == ReserveIn(reserves[p], zeroForOne)
             rout == ReserveOut(reserves[p], zeroForOne)
         IN  /\ PoolOut(p, zeroForOne, amount)
                  = (amount * p.kept * rout) \div (rin * PerMille + amount * p.kept)
             /\ PoolOut(p, zeroForOne, amount) \in Nat
<1> DEFINE rin  == ReserveIn(reserves[p], zeroForOne)
           rout == ReserveOut(reserves[p], zeroForOne)
           d == rin * PerMille + amount * p.kept
           n == amount * p.kept * rout
           q == n \div d
<1>1. rin \in Nat /\ rout \in Nat /\ rin > 0
  BY ConstantsAssumption DEF Liquid, ReserveIn, ReserveOut
<1>2. p.kept \in Nat /\ PerMille \in Nat /\ PerMille > 0
  BY ConstantsAssumption DEF Pool
<1> HIDE DEF rin, rout
<1>3. d \in Nat /\ d > 0 /\ n \in Nat /\ n <= d * rout
  <2> DEFINE a == rin * PerMille
             b == amount * p.kept
  <2>1. a \in Nat /\ a > 0 /\ b \in Nat
    BY <1>1, <1>2
  <2> HIDE DEF a, b
  <2>2. (a + b) * rout = a * rout + b * rout /\ a * rout \in Nat /\ b * rout \in Nat
    BY <1>1, <2>1
  <2>3. a + b \in Nat /\ a + b > 0 /\ b * rout <= (a + b) * rout
    BY <2>1, <2>2
  <2> QED
    BY <2>2, <2>3 DEF a, b
<1>4. \A out \in Int : Fills(rin, rout, p.kept, amount, out) <=> d * out <= n
  BY <1>1, <1>2, FillsIs
<1> HIDE DEF d, n
<1>5. q \in Nat /\ d * q <= n /\ n < d * q + d
  BY <1>3, Quotient
<1> HIDE DEF q
<1>6. q <= rout
  <2>1. d * (rout + 1) = d * rout + d /\ d * rout \in Nat /\ d * q \in Nat
    BY <1>1, <1>3, <1>5
  <2>2. d * q < d * (rout + 1)
    BY <1>3, <1>5, <2>1
  <2> QED
    BY <1>1, <1>3, <1>5, <2>2, Cancel
<1>7. \A out \in 0..rout :
        /\ Fills(rin, rout, p.kept, amount, out)
        /\ ~Fills(rin, rout, p.kept, amount, out + 1)
        <=> out = q
  <2> SUFFICES ASSUME NEW out \in 0..rout
               PROVE  d * out <= n /\ ~(d * (out + 1) <= n) <=> out = q
    BY <1>1, <1>4
  <2>1. out \in Int /\ d * out \in Int /\ d * (out + 1) = d * out + d
    BY <1>1, <1>3
  <2>2. d * out <= n /\ ~(d * (out + 1) <= n) <=> d * out <= n /\ n < d * out + d
    BY <1>3, <2>1
  <2>3. d * out <= n /\ n < d * out + d => out = n \div d
    BY <1>3, <2>1, QuotientIs
  <2> QED
    BY <1>5, <2>2, <2>3 DEF q
<1>8. q \in 0..rout
  BY <1>1, <1>5, <1>6
<1>9. PoolOut(p, zeroForOne, amount)
        = CHOOSE out \in 0..rout : /\ Fills(rin, rout, p.kept, amount, out)
                                   /\ ~Fills(rin, rout, p.kept, amount, out + 1)
  BY DEF PoolOut, rin, rout, ReserveIn, ReserveOut
<1>10. PoolOut(p, zeroForOne, amount) = q
  BY <1>7, <1>8, <1>9
<1> QED
  BY <1>5, <1>10 DEF q, d, n, rin, rout

\* Every version is quoted what the pool then gives.
LEMMA AmountOutIs ==
  ASSUME NEW p \in Pools, NEW direction \in Directions, NEW amount \in Nat,
         reserves[p] \in Reserves, Liquid(p)
  PROVE  /\ AmountOut(p, direction, amount) = OutOn(reserves[p], p, direction, amount)
         /\ AmountOut(p, direction, amount) \in Nat
         /\ PoolOut(p, ZeroForOne(p, direction), amount)
              = OutOn(reserves[p], p, direction, amount)
<1> DEFINE z == ZeroForOne(p, direction)
<1>1. z \in BOOLEAN /\ EthFirst(p) \in BOOLEAN
  BY DEF ZeroForOne, EthFirst
<1>2. /\ PoolOut(p, z, amount) = OutOn(reserves[p], p, direction, amount)
      /\ PoolOut(p, z, amount) \in Nat
  <2> HIDE DEF z
  <2> QED
    BY <1>1, PoolOutIs DEF OutOn, z
<1>3. CASE p.version # "V2"
  BY <1>2, <1>3 DEF AmountOut
<1>4. CASE p.version = "V2"
  <2>1. p.kept = InputKept
    BY <1>4, ConstantsAssumption
  <2>2. V2Quote(p, direction, amount)
          = V2Out(ReserveIn(reserves[p], z), ReserveOut(reserves[p], z), amount)
    BY <1>1 DEF V2Quote, EthReserve, TokenReserve, ReserveIn, ReserveOut, ZeroForOne, Directions
  <2>3. V2Quote(p, direction, amount) = OutOn(reserves[p], p, direction, amount)
    BY <2>1, <2>2 DEF V2Out, OutOn
  <2> QED
    BY <1>2, <1>4, <2>3 DEF AmountOut
<1> QED
  BY <1>2, <1>3, <1>4


-----------------------------------------------------------------------------
(* The invariant. *)

\* The terms of the trade at the reserves r of its pool: the fee taken off the
\* input, the output, and the fee taken off it.
FeeIn == IF trade.direction = "Buy" THEN Portion(trade.amount, trade.fee) ELSE 0
OutFor(r) == OutOn(r, pool, trade.direction, trade.amount - FeeIn)
FeeOut(r) == IF trade.direction = "Sell" THEN Portion(OutFor(r), trade.fee) ELSE 0

\* What a stage says of the trade and of the pool.
StageInv ==
  /\ stage \in {"discover", "probe", "quote", "prepared", "landed"} => Valid
  /\ stage \in {"quote", "prepared", "landed"} => pool \in Pools
  /\ stage \in {"asked", "offered", "delivered"} => RelayValid
  /\ stage \in {"idle", "resolved", "asked"} => ~answered

\* A quote is what its pool gives at the reserves it was read from, however the
\* pool has changed since.
QuotedBy(r) ==
  /\ r.r0 > 0 /\ r.r1 > 0
  /\ quote.expected_out = OutFor(r) - FeeOut(r)
  /\ quote.application_fee = FeeIn + FeeOut(r)
  /\ quote.min_out = MinOut(quote.expected_out)

QuoteInv ==
  /\ stage \in {"prepared", "landed"} =>
       Accepted(pool, trade.token) /\ quote \in Quote /\ QuotedBy(quote.seen)
  /\ stage = "landed" => result \in Result /\ result.received >= quote.min_out

\* Probes are current while nothing has moved, and the pool chosen is the one
\* whose probe returned the most.
ProbeInv ==
  /\ stage \in {"idle", "resolved"} => probed = {}
  /\ moved = {} => \A entry \in probed : entry[2] = AmountOut(entry[1], "Buy", Probe)
  /\ stage \in {"quote", "prepared"} /\ trade.pool = NoPool =>
       \E entry \in probed : Deepest(entry) /\ pool = entry[1]

\* An offer was accepted, and what is delivered is within it.
OfferInv ==
  /\ stage \in {"offered", "delivered"} => offer \in Answer /\ RelayAccepts(offer)
  /\ stage = "delivered" =>
       /\ result \in Result
       /\ result.received >= offer.min /\ result.fee = FeesFromOutput(offer)

IndInv == EvmTypeOK /\ StageInv /\ QuoteInv /\ ProbeInv /\ OfferInv

LEMMA Reads ==
  ASSUME EvmTypeOK, NEW p \in Pools
  PROVE  /\ reserves[p] \in Reserves /\ p \in Pool
         /\ reserves[p].r0 \in Nat /\ reserves[p].r1 \in Nat
         /\ reserves[p] \in [r0 : Nat, r1 : Nat]
BY ConstantsAssumption DEF EvmTypeOK

LEMMA TradeIs ==
  ASSUME EvmTypeOK
  PROVE  /\ trade \in Trade /\ trade.amount \in Nat /\ trade.fee \in Nat
         /\ trade.fee <= BasisPoints /\ trade.slippage \in Nat
         /\ trade.pool \in Pools \cup {NoPool}
         /\ BasisPoints \in Nat /\ BasisPoints > 0
BY ConstantsAssumption DEF EvmTypeOK, Trade

\* The fee of the input leaves an input.
LEMMA FeeInIs ==
  ASSUME EvmTypeOK
  PROVE  FeeIn \in Nat /\ trade.amount - FeeIn \in Nat
<1>1. Portion(trade.amount, trade.fee) \in Nat /\ Portion(trade.amount, trade.fee) <= trade.amount
  BY TradeIs, PortionIs
<1> QED
  BY <1>1, TradeIs DEF FeeIn

\* Output and fee of the trade at reserves that are liquid.
LEMMA FeeOutIs ==
  ASSUME EvmTypeOK, Valid, pool \in Pools, Liquid(pool)
  PROVE  LET r == reserves[pool]
         IN  /\ AmountOut(pool, trade.direction, trade.amount - FeeIn) = OutFor(r)
             /\ PoolOut(pool, ZeroForOne(pool, trade.direction), trade.amount - FeeIn) = OutFor(r)
             /\ OutFor(r) \in Nat /\ FeeOut(r) \in Nat /\ FeeOut(r) <= OutFor(r)
<1> DEFINE r == reserves[pool]
<1>1. trade.direction \in Directions
  BY DEF Valid
<1>2. trade.amount - FeeIn \in Nat /\ r \in Reserves
  BY FeeInIs, Reads
<1>3. /\ AmountOut(pool, trade.direction, trade.amount - FeeIn) = OutFor(r)
      /\ AmountOut(pool, trade.direction, trade.amount - FeeIn) \in Nat
      /\ PoolOut(pool, ZeroForOne(pool, trade.direction), trade.amount - FeeIn) = OutFor(r)
  BY <1>1, <1>2, AmountOutIs DEF OutFor
<1>4. OutFor(r) \in Nat
  BY <1>3
<1>5. Portion(OutFor(r), trade.fee) \in Nat /\ Portion(OutFor(r), trade.fee) <= OutFor(r)
  BY <1>4, TradeIs, PortionIs
<1>6. FeeOut(r) \in Nat /\ FeeOut(r) <= OutFor(r)
  BY <1>4, <1>5 DEF FeeOut
<1> QED
  BY <1>3, <1>4, <1>6

\* The quote of a liquid pool.
LEMMA NetQuoteIs ==
  ASSUME EvmTypeOK, Valid, pool \in Pools, Liquid(pool)
  PROVE  LET r == reserves[pool]
             expected == OutFor(r) - FeeOut(r)
         IN  /\ expected \in Nat /\ FeeIn + FeeOut(r) \in Nat /\ MinOut(expected) \in Nat
             /\ NetQuote(pool) = [in_amount |-> trade.amount, expected_out |-> expected,
                                  min_out |-> MinOut(expected),
                                  application_fee |-> FeeIn + FeeOut(r), seen |-> r]
<1> DEFINE r == reserves[pool]
           expected == OutFor(r) - FeeOut(r)
<1>1. /\ AmountOut(pool, trade.direction, trade.amount - FeeIn) = OutFor(r)
      /\ OutFor(r) \in Nat /\ FeeOut(r) \in Nat /\ FeeOut(r) <= OutFor(r)
  BY FeeOutIs
<1>2. expected \in Nat /\ FeeIn + FeeOut(r) \in Nat
  BY <1>1, FeeInIs
<1>3. MinOut(expected) \in Nat
  BY <1>2, TradeIs, MinOutIs DEF Valid
<1>4. NetQuote(pool) = [in_amount |-> trade.amount, expected_out |-> expected,
                        min_out |-> MinOut(expected),
                        application_fee |-> FeeIn + FeeOut(r), seen |-> r]
  BY <1>1 DEF NetQuote, FeeIn, FeeOut
<1> QED
  BY <1>2, <1>3, <1>4

\* The router takes its fee by the large product, and gives what was quoted.
LEMMA RouterIs ==
  ASSUME EvmTypeOK, Valid, pool \in Pools, Liquid(pool)
  PROVE  LET r == reserves[pool]
         IN  /\ RouterResult(pool) = [received |-> OutFor(r) - FeeOut(r), fee |-> FeeIn + FeeOut(r)]
             /\ OutFor(r) - FeeOut(r) \in Nat /\ FeeIn + FeeOut(r) \in Nat
<1> DEFINE r == reserves[pool]
<1>1. /\ PoolOut(pool, ZeroForOne(pool, trade.direction), trade.amount - FeeIn) = OutFor(r)
      /\ OutFor(r) \in Nat /\ FeeOut(r) \in Nat /\ FeeOut(r) <= OutFor(r)
  BY FeeOutIs
<1>2. OutFor(r) - FeeOut(r) \in Nat /\ FeeIn + FeeOut(r) \in Nat /\ FeeIn \in Nat
  BY <1>1, FeeInIs
<1>3. CASE trade.direction = "Buy"
  <2>1. ZeroForOne(pool, "Buy") = EthFirst(pool)
    BY DEF ZeroForOne, EthFirst
  <2>2. FeeIn = (trade.amount * trade.fee) \div BasisPoints /\ FeeOut(r) = 0
    BY <1>3, TradeIs, PortionIs DEF FeeIn, FeeOut
  <2>3. RouterResult(pool)
          = [received |-> PoolOut(pool, EthFirst(pool), trade.amount - FeeIn), fee |-> FeeIn]
    BY <1>3, <2>2 DEF RouterResult
  <2> QED
    BY <1>1, <1>2, <1>3, <2>1, <2>2, <2>3
<1>4. CASE trade.direction = "Sell"
  <2>1. ZeroForOne(pool, "Sell") = ~EthFirst(pool)
    BY DEF ZeroForOne, EthFirst
  <2>2. FeeIn = 0 /\ trade.amount - FeeIn = trade.amount
    BY <1>4, TradeIs DEF FeeIn
  <2>3. FeeOut(r) = (OutFor(r) * trade.fee) \div BasisPoints
    BY <1>1, <1>4, TradeIs, PortionIs DEF FeeOut
  <2>4. PoolOut(pool, ~EthFirst(pool), trade.amount) = OutFor(r)
    BY <1>1, <1>4, <2>1, <2>2
  <2>5. RouterResult(pool) = [received |-> OutFor(r) - FeeOut(r), fee |-> FeeOut(r)]
    BY <1>4, <2>3, <2>4 DEF RouterResult
  <2> QED
    BY <1>1, <1>2, <2>2, <2>5
<1> QED
  BY <1>3, <1>4 DEF Valid, Directions


\* What a documented answer or a misleading one can be, before it is checked.
Raw == [wrong : SUBSET Terms, in : Nat, out : Int, min : Int,
        relayer : SUBSET RelayFee, app : SUBSET RelayFee]

LEMMA OutputPartIs ==
  ASSUME NEW fees \in SUBSET RelayFee
  PROVE  OutputPart(fees) \in Nat
BY DEF OutputPart, RelayFee

LEMMA AcceptedIs ==
  ASSUME EvmTypeOK, NEW a \in Raw, RelayAccepts(a)
  PROVE  a \in Answer
<1>1. a.out \in Nat /\ a.min \in Nat
  BY DEF RelayAccepts, Raw
<1> QED
  BY <1>1 DEF Raw, Answer

LEMMA DocumentedAppIs ==
  ASSUME EvmTypeOK, NEW gross \in Nat, NEW c \in {"input", "output", "other"}
  PROVE  DocumentedApp(gross, c) \in SUBSET RelayFee
<1>1. trade.amount \in Nat /\ trade.fee \in Nat
  BY TradeIs
<1>2. Portion(trade.amount, trade.fee) \in Nat
  BY <1>1, PortionIs
<1>3. Portion(gross, trade.fee) \in Nat
  BY <1>1, PortionIs
<1> QED
  BY <1>2, <1>3 DEF DocumentedApp, RelayFee

LEMMA DocumentedIs ==
  ASSUME EvmTypeOK, RelayValid, NEW a \in DocumentedAnswers
  PROVE  /\ a \in Raw
         /\ \E gross \in Nat :
              /\ a.wrong = {} /\ a.in = trade.amount
              /\ a.out = gross - FeesFromOutput(a)
              /\ a.min = MinOut(gross) - FeesFromOutput(a) /\ a.min > 0
              /\ \E c \in {"input", "output", "other"} : a.app = DocumentedApp(gross, c)
<1>1. PICK gross \in Outputs, c \in {"input", "output", "other"},
           relayer \in {{}} \cup {{[currency |-> k, here |-> TRUE, amount |-> n]} :
                                    k \in {"input", "output"}, n \in Kept} :
        a = Documented(gross, relayer, DocumentedApp(gross, c)) /\ a.min > 0
  BY DEF DocumentedAnswers
<1>2. gross \in Nat /\ Kept \subseteq Nat
  BY RelayAssumption
<1>3. relayer \in SUBSET RelayFee
  <2>1. CASE relayer = {}
    BY <2>1
  <2>2. ASSUME NEW k \in {"input", "output"}, NEW n \in Kept,
               relayer = {[currency |-> k, here |-> TRUE, amount |-> n]}
        PROVE  relayer \in SUBSET RelayFee
    <3>1. n \in Nat
      BY <1>2
    <3>2. [currency |-> k, here |-> TRUE, amount |-> n] \in RelayFee
      BY <3>1 DEF RelayFee
    <3> QED
      BY <2>2, <3>2
  <2> QED
    BY <2>1, <2>2
<1> DEFINE app == DocumentedApp(gross, c)
<1>4. app \in SUBSET RelayFee
  BY <1>2, DocumentedAppIs
<1> HIDE DEF app
<1> DEFINE taken == OutputPart(relayer) + OutputPart(app)
<1>5. taken \in Nat /\ MinOut(gross) \in Nat
  BY <1>2, <1>3, <1>4, OutputPartIs, TradeIs, MinOutIs DEF RelayValid
<1>6. a = [wrong |-> {}, in |-> trade.amount, out |-> gross - taken,
           min |-> MinOut(gross) - taken, relayer |-> relayer, app |-> app]
  BY <1>1 DEF Documented, app
<1>7. FeesFromOutput(a) = taken
  BY <1>6 DEF FeesFromOutput
<1> HIDE DEF taken
<1>8. a \in Raw
  BY <1>2, <1>3, <1>4, <1>5, <1>6, TradeIs DEF Raw
<1>9. /\ a.wrong = {} /\ a.in = trade.amount
      /\ a.out = gross - FeesFromOutput(a) /\ a.min = MinOut(gross) - FeesFromOutput(a)
      /\ a.app = DocumentedApp(gross, c)
  BY <1>6, <1>7 DEF app
<1> QED
  BY <1>1, <1>2, <1>8, <1>9

LEMMA MisleadingIs ==
  ASSUME NEW a \in Raw, NEW b \in Misleading(a)
  PROVE  b \in Raw
<1> DEFINE fees == {{}} \cup {{[currency |-> c, here |-> h, amount |-> n]} :
                             c \in {"input", "output"}, h \in BOOLEAN, n \in Outputs}
           wrong == {[a EXCEPT !.wrong = {t}] : t \in Terms}
           in == {[a EXCEPT !.in = n] : n \in Outputs}
           out == {[a EXCEPT !.out = n] : n \in Outputs}
           min == {[a EXCEPT !.min = n] : n \in Outputs}
           app == {[a EXCEPT !.app = taken] : taken \in fees}
<1>1. Outputs \subseteq Nat
  BY RelayAssumption
<1>2. wrong \subseteq Raw
  BY DEF Raw
<1>3. in \subseteq Raw
  BY <1>1 DEF Raw
<1>4. out \subseteq Raw
  BY <1>1 DEF Raw
<1>5. min \subseteq Raw
  BY <1>1 DEF Raw
<1>6. app \subseteq Raw
  <2>1. fees \subseteq SUBSET RelayFee
    BY <1>1 DEF RelayFee
  <2> HIDE DEF fees
  <2> QED
    BY <2>1 DEF Raw
<1>7. Misleading(a) = wrong \cup in \cup out \cup min \cup app
  BY DEF Misleading
<1> HIDE DEF wrong, in, out, min, app
<1> QED
  BY <1>2, <1>3, <1>4, <1>5, <1>6, <1>7

\* What Respond does: an answer is accepted, or the call ends in an error.
LEMMA RespondIs ==
  ASSUME EvmTypeOK, StageInv, Respond
  PROVE  /\ answered' \in BOOLEAN
         /\ UNCHANGED <<reserves, moved, moves, trade, unread, found, probed, pool,
                        quote, result, source>>
         /\ \/ stage' = "offered" /\ offer' \in Answer /\ RelayAccepts(offer')
            \/ stage' = "error" /\ offer' = offer
<1>1. stage = "asked" /\ RelayValid
  BY DEF Respond, StageInv
<1>2. PICK a \in DocumentedAnswers :
        RelayAnswers(a, TRUE) \/ \E b \in Misleading(a) : RelayAnswers(b, FALSE)
  BY DEF Respond
<1>3. \E b \in Raw, documented \in BOOLEAN : RelayAnswers(b, documented)
  BY <1>1, <1>2, DocumentedIs, MisleadingIs
<1>4. PICK b \in Raw, documented \in BOOLEAN : RelayAnswers(b, documented)
  BY <1>3
<1>5. RelayAccepts(b) => b \in Answer
  BY AcceptedIs
<1> QED
  BY <1>4, <1>5 DEF RelayAnswers

\* What the pools give depends on their reserves alone.
LEMMA ReservesKept ==
  ASSUME reserves' = reserves, NEW p, NEW direction, NEW amount
  PROVE  AmountOut(p, direction, amount)' = AmountOut(p, direction, amount)
BY DEF AmountOut, V2Quote, EthReserve, TokenReserve, PoolOut

\* What a quote is when it is made.
LEMMA QuotedIs ==
  ASSUME EvmTypeOK, StageInv, QuoteTrade
  PROVE  quote' \in Quote /\ QuotedBy(quote.seen)'
<1>1. Valid /\ pool \in Pools /\ Liquid(pool) /\ UNCHANGED <<trade, pool>>
  BY DEF QuoteTrade, StageInv
<1>2. PICK r \in Reserves : r = reserves[pool]
  BY <1>1, Reads
<1> DEFINE expected == OutFor(r) - FeeOut(r)
           fee == FeeIn + FeeOut(r)
           least == MinOut(expected)
<1>3. /\ expected \in Nat /\ fee \in Nat /\ least \in Nat
      /\ NetQuote(pool) = [in_amount |-> trade.amount, expected_out |-> expected,
                           min_out |-> least, application_fee |-> fee, seen |-> r]
  BY <1>1, <1>2, NetQuoteIs
<1> HIDE DEF expected, fee, least
<1>4. /\ quote'.in_amount = trade.amount /\ quote'.expected_out = expected
      /\ quote'.min_out = least /\ quote'.application_fee = fee /\ quote'.seen = r
      /\ least > 0
  BY <1>3 DEF QuoteTrade
<1>5. quote' \in Quote
  BY <1>3, <1>4, TradeIs DEF QuoteTrade, Quote
<1>6. r.r0 > 0 /\ r.r1 > 0
  BY <1>1, <1>2 DEF Liquid
<1>7. QuotedBy(quote.seen)'
  BY <1>1, <1>4, <1>6 DEF QuotedBy, OutFor, FeeOut, FeeIn, MinOut, expected, fee, least
<1> QED
  BY <1>5, <1>7

\* A quote stays what it is while the call stands still.
LEMMA QuoteKept ==
  ASSUME QuoteInv,
         \/ stage' \notin {"prepared", "landed"}
         \/ stage' = stage /\ UNCHANGED <<trade, pool, quote, result>>
  PROVE  QuoteInv'
<1>1. CASE stage' \notin {"prepared", "landed"}
  BY <1>1 DEF QuoteInv
<1>2. CASE stage' = stage /\ UNCHANGED <<trade, pool, quote, result>>
  <2>1. Accepted(pool, trade.token) => Accepted(pool, trade.token)'
    BY <1>2 DEF Accepted, EthPair, EthPool, EthSide
  <2>2. QuotedBy(quote.seen) => QuotedBy(quote.seen)'
    BY <1>2 DEF QuotedBy, OutFor, FeeOut, FeeIn, MinOut
  <2> QED
    BY <1>2, <2>1, <2>2 DEF QuoteInv
<1> QED
  BY <1>1, <1>2

\* Probes stay current while no pool moves.
LEMMA ProbeKept ==
  ASSUME ProbeInv, UNCHANGED <<probed, pool, trade>>,
         UNCHANGED <<reserves, moved>> \/ moved' # {},
         stage' \in {"idle", "resolved"} => stage \in {"idle", "resolved"},
         stage' \in {"quote", "prepared"} => stage \in {"quote", "prepared"}
  PROVE  ProbeInv'
<1>1. stage' \in {"idle", "resolved"} => probed' = {}
  BY DEF ProbeInv
<1>2. moved' = {} => \A entry \in probed' : entry[2] = AmountOut(entry[1], "Buy", Probe)'
  <2> SUFFICES ASSUME moved' = {}, NEW entry \in probed
               PROVE  entry[2] = AmountOut(entry[1], "Buy", Probe)'
    OBVIOUS
  <2>1. reserves' = reserves /\ moved = {}
    OBVIOUS
  <2>2. AmountOut(entry[1], "Buy", Probe)' = AmountOut(entry[1], "Buy", Probe)
    BY <2>1, ReservesKept
  <2> QED
    BY <2>1, <2>2 DEF ProbeInv
<1>3. stage' \in {"quote", "prepared"} /\ trade'.pool = NoPool =>
        \E entry \in probed' : Deepest(entry)' /\ pool' = entry[1]
  BY DEF ProbeInv, Deepest
<1> QED
  BY <1>1, <1>2, <1>3 DEF ProbeInv

\* An offer stays what it is while the call stands still.
LEMMA OfferKept ==
  ASSUME OfferInv,
         \/ stage' \notin {"offered", "delivered"}
         \/ stage' = stage /\ UNCHANGED <<trade, offer, result>>
  PROVE  OfferInv'
<1>1. CASE stage' \notin {"offered", "delivered"}
  BY <1>1 DEF OfferInv
<1>2. CASE stage' = stage /\ UNCHANGED <<trade, offer, result>>
  <2>1. RelayAccepts(offer) => RelayAccepts(offer)'
    BY <1>2 DEF RelayAccepts, SlippageFloor, AppFeeAccepted, MinOut
  <2>2. FeesFromOutput(offer)' = FeesFromOutput(offer)
    BY <1>2
  <2> QED
    BY <1>2, <2>1, <2>2 DEF OfferInv
<1> QED
  BY <1>1, <1>2

\* Type correctness.
LEMMA StepType ==
  ASSUME EvmTypeOK, StageInv, OfferInv, [EvmNext]_allVars
  PROVE  EvmTypeOK'
<1>1. CASE UNCHANGED allVars
  BY <1>1 DEF EvmTypeOK, allVars, vars
<1>2. CASE UseUniswap /\ Start
  <2>1. Candidates(trade.token) \subseteq Pools
    BY DEF Candidates
  <2>2. unread' \subseteq Pools /\ pool' \in Pools \cup {NoPool}
    BY <1>2, <2>1, TradeIs DEF Start, EvmTypeOK
  <2>3. stage' \in {"error", "quote", "discover"} /\ moved' = {}
    BY <1>2 DEF Start
  <2> QED
    BY <1>2, <2>2, <2>3 DEF UseUniswap, Start, EvmTypeOK
<1>3. ASSUME UseUniswap, NEW p \in Pools, Discover(p) PROVE EvmTypeOK'
  BY <1>3 DEF UseUniswap, Discover, EvmTypeOK
<1>4. ASSUME UseUniswap, NEW p \in Pools, ProbePool(p) PROVE EvmTypeOK'
  <2>1. Probe \in Nat /\ "Buy" \in Directions
    BY ConstantsAssumption DEF Directions
  <2>2. Liquid(p) => AmountOut(p, "Buy", Probe) \in Nat
    BY <2>1, Reads, AmountOutIs
  <2>3. probed' \subseteq Pools \X Nat
    BY <1>4, <2>2 DEF ProbePool, EvmTypeOK
  <2> QED
    BY <1>4, <2>3 DEF UseUniswap, ProbePool, EvmTypeOK
<1>5. ASSUME UseUniswap, NEW p \in Pools, Move(p) PROVE EvmTypeOK'
  <2>1. PICK r \in Reserves : reserves' = [reserves EXCEPT ![p] = r]
    BY <1>5 DEF Move
  <2>2. reserves' \in [Pools -> Reserves]
    BY <2>1 DEF EvmTypeOK
  <2>3. moves' \in 0..MaxMoves
    BY <1>5, ConstantsAssumption DEF Move, EvmTypeOK
  <2> QED
    BY <1>5, <2>2, <2>3 DEF UseUniswap, Move, callVars, EvmTypeOK
<1>6. CASE UseUniswap /\ DiscoverFails
  BY <1>6 DEF UseUniswap, DiscoverFails, Error, EvmTypeOK
<1>7. CASE UseUniswap /\ StartProbes
  BY <1>7 DEF UseUniswap, StartProbes, EvmTypeOK
<1>8. CASE UseUniswap /\ ChooseMarket
  BY <1>8 DEF UseUniswap, ChooseMarket, EvmTypeOK
<1>9. CASE UseUniswap /\ QuoteTrade
  <2>1. quote' \in Quote
    BY <1>9, QuotedIs
  <2> QED
    BY <1>9, <2>1 DEF UseUniswap, QuoteTrade, EvmTypeOK
<1>10. CASE UseUniswap /\ QuoteFails
  BY <1>10 DEF UseUniswap, QuoteFails, Error, EvmTypeOK
<1>11. CASE UseUniswap /\ Swap
  <2>1. Valid /\ pool \in Pools
    BY <1>11 DEF Swap, StageInv
  <2>2. RouterAccepts => RouterResult(pool) \in Result
    <3> SUFFICES ASSUME RouterAccepts PROVE RouterResult(pool) \in Result
      OBVIOUS
    <3>1. Liquid(pool)
      BY DEF RouterAccepts
    <3> QED
      BY <2>1, <3>1, RouterIs DEF Result
  <2> QED
    BY <1>11, <2>2 DEF UseUniswap, Swap, EvmTypeOK
<1>12. CASE AskRelay
  BY <1>12 DEF AskRelay, EvmTypeOK
<1>13. CASE Respond
  BY <1>13, RespondIs DEF EvmTypeOK
<1>14. CASE RelayFails
  BY <1>14 DEF RelayFails, Error, EvmTypeOK
<1>15. CASE RelaySwap
  <2>1. offer \in Answer
    BY <1>15 DEF RelaySwap, OfferInv
  <2>2. FeesFromOutput(offer) \in Nat
    BY <2>1, OutputPartIs DEF FeesFromOutput, Answer
  <2>3. result' \in Result \cup {NoResult}
    BY <1>15, <2>1, <2>2 DEF RelaySwap, Answer, Result, EvmTypeOK
  <2> QED
    BY <1>15, <2>3 DEF RelaySwap, EvmTypeOK
<1>16. CASE UseUniswap /\ ResolvePool
  BY <1>16 DEF UseUniswap, ResolvePool, EvmTypeOK
<1> QED
  BY <1>1, <1>2, <1>3, <1>4, <1>5, <1>6, <1>7, <1>8, <1>9, <1>10, <1>11, <1>12, <1>13, <1>14, <1>15, <1>16 DEF EvmNext, UseUniswap, Next

\* What a stage says of the trade.
LEMMA StepStage ==
  ASSUME EvmTypeOK, StageInv, [EvmNext]_allVars
  PROVE  StageInv'
<1>1. CASE UNCHANGED allVars
  BY <1>1 DEF StageInv, Valid, RelayValid, allVars, vars
<1>2. CASE UseUniswap /\ Start
  BY <1>2, TradeIs DEF UseUniswap, Start, StageInv, Valid, RelayValid, Directions
<1>3. ASSUME UseUniswap, NEW p \in Pools, Discover(p) PROVE StageInv'
  BY <1>3 DEF UseUniswap, Discover, StageInv, Valid, RelayValid
<1>4. ASSUME UseUniswap, NEW p \in Pools, ProbePool(p) PROVE StageInv'
  BY <1>4 DEF UseUniswap, ProbePool, StageInv, Valid, RelayValid
<1>5. ASSUME UseUniswap, NEW p \in Pools, Move(p) PROVE StageInv'
  BY <1>5 DEF UseUniswap, Move, callVars, StageInv, Valid, RelayValid
<1>6. CASE UseUniswap /\ DiscoverFails
  BY <1>6 DEF UseUniswap, DiscoverFails, Error, StageInv, Valid, RelayValid
<1>7. CASE UseUniswap /\ StartProbes
  BY <1>7 DEF UseUniswap, StartProbes, StageInv, Valid, RelayValid
<1>8. CASE UseUniswap /\ ChooseMarket
  BY <1>8 DEF UseUniswap, ChooseMarket, Deepest, EvmTypeOK, StageInv, Valid, RelayValid
<1>9. CASE UseUniswap /\ QuoteTrade
  BY <1>9 DEF UseUniswap, QuoteTrade, StageInv, Valid, RelayValid
<1>10. CASE UseUniswap /\ QuoteFails
  BY <1>10 DEF UseUniswap, QuoteFails, Error, StageInv, Valid, RelayValid
<1>11. CASE UseUniswap /\ Swap
  BY <1>11 DEF UseUniswap, Swap, StageInv, Valid, RelayValid
<1>12. CASE AskRelay
  BY <1>12 DEF AskRelay, StageInv, Valid, RelayValid
<1>13. CASE Respond
  <2>1. stage = "asked"
    BY <1>13 DEF Respond
  <2> QED
    BY <2>1, <1>13, RespondIs DEF StageInv, Valid, RelayValid
<1>14. CASE RelayFails
  BY <1>14 DEF RelayFails, Error, StageInv, Valid, RelayValid
<1>15. CASE RelaySwap
  BY <1>15 DEF RelaySwap, StageInv, Valid, RelayValid
<1>16. CASE UseUniswap /\ ResolvePool
  BY <1>16 DEF UseUniswap, ResolvePool, StageInv, Valid, RelayValid
<1> QED
  BY <1>1, <1>2, <1>3, <1>4, <1>5, <1>6, <1>7, <1>8, <1>9, <1>10, <1>11, <1>12, <1>13, <1>14, <1>15, <1>16 DEF EvmNext, UseUniswap, Next

\* What is prepared is what its pool gave.
LEMMA StepQuote ==
  ASSUME EvmTypeOK, StageInv, QuoteInv, [EvmNext]_allVars
  PROVE  QuoteInv'
<1>1. CASE UNCHANGED allVars
  BY <1>1, QuoteKept DEF allVars, vars
<1>2. CASE UseUniswap /\ Start
  BY <1>2, QuoteKept DEF UseUniswap, Start
<1>3. ASSUME UseUniswap, NEW p \in Pools, Discover(p) PROVE QuoteInv'
  BY <1>3, QuoteKept DEF UseUniswap, Discover
<1>4. ASSUME UseUniswap, NEW p \in Pools, ProbePool(p) PROVE QuoteInv'
  BY <1>4, QuoteKept DEF UseUniswap, ProbePool
<1>5. ASSUME UseUniswap, NEW p \in Pools, Move(p) PROVE QuoteInv'
  BY <1>5, QuoteKept DEF UseUniswap, Move, callVars
<1>6. CASE UseUniswap /\ DiscoverFails
  BY <1>6, QuoteKept DEF UseUniswap, DiscoverFails, Error
<1>7. CASE UseUniswap /\ StartProbes
  BY <1>7, QuoteKept DEF UseUniswap, StartProbes
<1>8. CASE UseUniswap /\ ChooseMarket
  BY <1>8, QuoteKept DEF UseUniswap, ChooseMarket
<1>9. CASE UseUniswap /\ QuoteTrade
  <2>1. quote' \in Quote /\ QuotedBy(quote.seen)'
    BY <1>9, QuotedIs
  <2>2. Accepted(pool, trade.token)'
    BY <1>9 DEF QuoteTrade, Accepted, EthPair, EthPool, EthSide
  <2>3. stage' = "prepared"
    BY <1>9 DEF QuoteTrade
  <2> QED
    BY <2>1, <2>2, <2>3 DEF QuoteInv
<1>10. CASE UseUniswap /\ QuoteFails
  BY <1>10, QuoteKept DEF UseUniswap, QuoteFails, Error
<1>11. CASE UseUniswap /\ Swap
  <2>1. stage = "prepared" /\ Valid /\ pool \in Pools /\ UNCHANGED <<trade, pool, quote>>
    BY <1>11 DEF Swap, StageInv
  <2>2. CASE RouterAccepts
    <3>1. RouterResult(pool) \in Result
      BY <2>1, <2>2, RouterIs DEF RouterAccepts, Result
    <3>2. stage' = "landed" /\ result' \in Result /\ result'.received >= quote'.min_out
      BY <1>11, <2>1, <2>2, <3>1 DEF Swap, RouterAccepts
    <3>3. Accepted(pool, trade.token)'
      BY <2>1 DEF QuoteInv, Accepted, EthPair, EthPool, EthSide
    <3>4. QuotedBy(quote.seen)'
      BY <2>1 DEF QuoteInv, QuotedBy, OutFor, FeeOut, FeeIn, MinOut
    <3>5. quote' \in Quote
      BY <2>1 DEF QuoteInv
    <3> QED
      BY <3>2, <3>3, <3>4, <3>5 DEF QuoteInv
  <2>3. CASE ~RouterAccepts
    BY <1>11, <2>3, QuoteKept DEF Swap
  <2> QED
    BY <2>2, <2>3
<1>12. CASE AskRelay
  BY <1>12, QuoteKept DEF AskRelay
<1>13. CASE Respond
  BY <1>13, RespondIs, QuoteKept
<1>14. CASE RelayFails
  BY <1>14, QuoteKept DEF RelayFails, Error
<1>15. CASE RelaySwap
  BY <1>15, QuoteKept DEF RelaySwap
<1>16. CASE UseUniswap /\ ResolvePool
  BY <1>16, QuoteKept DEF UseUniswap, ResolvePool
<1> QED
  BY <1>1, <1>2, <1>3, <1>4, <1>5, <1>6, <1>7, <1>8, <1>9, <1>10, <1>11, <1>12, <1>13, <1>14, <1>15, <1>16 DEF EvmNext, UseUniswap, Next

\* Probes are current, and the deepest pool is chosen.
LEMMA StepProbe ==
  ASSUME EvmTypeOK, StageInv, ProbeInv, [EvmNext]_allVars
  PROVE  ProbeInv'
<1>1. CASE UNCHANGED allVars
  BY <1>1, ProbeKept DEF allVars, vars
<1>2. CASE UseUniswap /\ Start
  <2>1. probed' = {}
    BY <1>2 DEF Start, ProbeInv
  <2>2. stage' \in {"error", "quote", "discover"} /\ (stage' = "quote" => trade'.pool # NoPool)
    BY <1>2 DEF Start
  <2> QED
    BY <2>1, <2>2 DEF ProbeInv
<1>3. ASSUME UseUniswap, NEW p \in Pools, Discover(p) PROVE ProbeInv'
  BY <1>3, ProbeKept DEF UseUniswap, Discover
<1>4. ASSUME UseUniswap, NEW p \in Pools, ProbePool(p) PROVE ProbeInv'
  <2>1. stage' = "probe" /\ UNCHANGED <<reserves, moved>>
    BY <1>4 DEF ProbePool
  <2>2. AmountOut(p, "Buy", Probe)' = AmountOut(p, "Buy", Probe)
    BY <2>1, ReservesKept
  <2>3. \A entry \in probed : AmountOut(entry[1], "Buy", Probe)' = AmountOut(entry[1], "Buy", Probe)
    BY <2>1, ReservesKept
  <2>4. probed' \subseteq probed \cup {<<p, AmountOut(p, "Buy", Probe)>>}
    BY <1>4 DEF ProbePool
  <2>5. ASSUME moved' = {}, NEW entry \in probed'
        PROVE  entry[2] = AmountOut(entry[1], "Buy", Probe)'
    <3>1. CASE entry \in probed
      BY <2>1, <2>3, <2>5, <3>1 DEF ProbeInv
    <3>2. CASE entry = <<p, AmountOut(p, "Buy", Probe)>>
      <4>1. entry[1] = p /\ entry[2] = AmountOut(p, "Buy", Probe)
        BY <3>2
      <4> QED
        BY <2>2, <4>1
    <3> QED
      BY <2>4, <2>5, <3>1, <3>2
  <2> QED
    BY <2>1, <2>5 DEF ProbeInv
<1>5. ASSUME UseUniswap, NEW p \in Pools, Move(p) PROVE ProbeInv'
  BY <1>5, ProbeKept DEF UseUniswap, Move, callVars
<1>6. CASE UseUniswap /\ DiscoverFails
  BY <1>6, ProbeKept DEF UseUniswap, DiscoverFails, Error
<1>7. CASE UseUniswap /\ StartProbes
  BY <1>7, ProbeKept DEF UseUniswap, StartProbes
<1>8. CASE UseUniswap /\ ChooseMarket
  <2>1. CASE stage' = "error"
    BY <1>8, <2>1, ReservesKept DEF ChooseMarket, ProbeInv
  <2>2. ASSUME NEW entry \in probed, Deepest(entry), pool' = entry[1], stage' = "quote"
        PROVE  ProbeInv'
    <3>1. UNCHANGED <<reserves, moved, probed>>
      BY <1>8 DEF ChooseMarket
    <3>2. \A other \in probed : AmountOut(other[1], "Buy", Probe)' = AmountOut(other[1], "Buy", Probe)
      BY <3>1, ReservesKept
    <3>3. Deepest(entry)'
      BY <2>2, <3>1 DEF Deepest
    <3>4. moved' = {} => \A other \in probed' : other[2] = AmountOut(other[1], "Buy", Probe)'
      BY <3>1, <3>2 DEF ProbeInv
    <3> QED
      BY <2>2, <3>1, <3>3, <3>4 DEF ProbeInv
  <2> QED
    BY <1>8, <2>1, <2>2 DEF ChooseMarket
<1>9. CASE UseUniswap /\ QuoteTrade
  BY <1>9, ProbeKept DEF UseUniswap, QuoteTrade
<1>10. CASE UseUniswap /\ QuoteFails
  BY <1>10, ProbeKept DEF UseUniswap, QuoteFails, Error
<1>11. CASE UseUniswap /\ Swap
  BY <1>11, ProbeKept DEF UseUniswap, Swap
<1>12. CASE AskRelay
  BY <1>12, ProbeKept DEF AskRelay
<1>13. CASE Respond
  BY <1>13, RespondIs, ProbeKept
<1>14. CASE RelayFails
  BY <1>14, ProbeKept DEF RelayFails, Error
<1>15. CASE RelaySwap
  BY <1>15, ProbeKept DEF RelaySwap
<1>16. CASE UseUniswap /\ ResolvePool
  BY <1>16, ProbeKept DEF UseUniswap, ResolvePool
<1> QED
  BY <1>1, <1>2, <1>3, <1>4, <1>5, <1>6, <1>7, <1>8, <1>9, <1>10, <1>11, <1>12, <1>13, <1>14, <1>15, <1>16 DEF EvmNext, UseUniswap, Next

\* An offer was accepted, and what is delivered is within it.
LEMMA StepOffer ==
  ASSUME EvmTypeOK, StageInv, OfferInv, [EvmNext]_allVars
  PROVE  OfferInv'
<1>1. CASE UNCHANGED allVars
  BY <1>1, OfferKept DEF allVars, vars
<1>2. CASE UseUniswap /\ Start
  BY <1>2, OfferKept DEF UseUniswap, Start
<1>3. ASSUME UseUniswap, NEW p \in Pools, Discover(p) PROVE OfferInv'
  BY <1>3, OfferKept DEF UseUniswap, Discover
<1>4. ASSUME UseUniswap, NEW p \in Pools, ProbePool(p) PROVE OfferInv'
  BY <1>4, OfferKept DEF UseUniswap, ProbePool
<1>5. ASSUME UseUniswap, NEW p \in Pools, Move(p) PROVE OfferInv'
  BY <1>5, OfferKept DEF UseUniswap, Move, callVars
<1>6. CASE UseUniswap /\ DiscoverFails
  BY <1>6, OfferKept DEF UseUniswap, DiscoverFails, Error
<1>7. CASE UseUniswap /\ StartProbes
  BY <1>7, OfferKept DEF UseUniswap, StartProbes
<1>8. CASE UseUniswap /\ ChooseMarket
  BY <1>8, OfferKept DEF UseUniswap, ChooseMarket
<1>9. CASE UseUniswap /\ QuoteTrade
  BY <1>9, OfferKept DEF UseUniswap, QuoteTrade
<1>10. CASE UseUniswap /\ QuoteFails
  BY <1>10, OfferKept DEF UseUniswap, QuoteFails, Error
<1>11. CASE UseUniswap /\ Swap
  BY <1>11, OfferKept DEF UseUniswap, Swap
<1>12. CASE AskRelay
  BY <1>12, OfferKept DEF AskRelay
<1>13. CASE Respond
  <2>1. trade' = trade
    BY <1>13, RespondIs
  <2>2. CASE stage' = "error"
    BY <2>2, OfferKept
  <2>3. CASE stage' = "offered" /\ offer' \in Answer /\ RelayAccepts(offer')
    <3>1. RelayAccepts(offer)'
      BY <2>1, <2>3 DEF RelayAccepts, SlippageFloor, AppFeeAccepted, MinOut
    <3> QED
      BY <2>3, <3>1 DEF OfferInv
  <2> QED
    BY <1>13, <2>2, <2>3, RespondIs
<1>14. CASE RelayFails
  BY <1>14, OfferKept DEF RelayFails, Error
<1>15. CASE RelaySwap
  <2>1. offer \in Answer /\ RelayAccepts(offer) /\ UNCHANGED <<trade, offer>>
    BY <1>15 DEF RelaySwap, OfferInv
  <2>2. CASE stage' = "reverted"
    BY <2>2, OfferKept
  <2>3. CASE stage' # "reverted"
    <3>1. PICK received \in offer.min..offer.out :
            result' = [received |-> received, fee |-> FeesFromOutput(offer)]
      BY <1>15, <2>3 DEF RelaySwap
    <3>2. FeesFromOutput(offer) \in Nat /\ offer.min \in Nat /\ offer.out \in Nat
      BY <2>1, OutputPartIs DEF FeesFromOutput, Answer
    <3>3. received \in Nat /\ received >= offer.min
      BY <3>2
    <3>4. FeesFromOutput(offer)' = FeesFromOutput(offer)
      BY <2>1
    <3>5. /\ result' \in Result /\ result'.received >= offer'.min
          /\ result'.fee = FeesFromOutput(offer)'
      BY <2>1, <3>1, <3>2, <3>3, <3>4 DEF Result
    <3>6. RelayAccepts(offer)'
      BY <2>1 DEF RelayAccepts, SlippageFloor, AppFeeAccepted, MinOut
    <3> QED
      BY <2>1, <3>5, <3>6 DEF OfferInv
  <2> QED
    BY <2>2, <2>3
<1>16. CASE UseUniswap /\ ResolvePool
  BY <1>16, OfferKept DEF UseUniswap, ResolvePool
<1> QED
  BY <1>1, <1>2, <1>3, <1>4, <1>5, <1>6, <1>7, <1>8, <1>9, <1>10, <1>11, <1>12, <1>13, <1>14, <1>15, <1>16 DEF EvmNext, UseUniswap, Next

-----------------------------------------------------------------------------
(* The theorems. *)

LEMMA Starts == EvmInit => IndInv
<1> SUFFICES ASSUME EvmInit PROVE IndInv
  OBVIOUS
<1>1. EvmTypeOK
  <2>1. reserves \in [Pools -> Reserves] /\ moves \in 0..MaxMoves
    BY ConstantsAssumption DEF EvmInit, Init
  <2> QED
    BY <2>1 DEF EvmInit, Init, EvmTypeOK
<1>2. StageInv /\ QuoteInv /\ ProbeInv /\ OfferInv
  BY DEF EvmInit, Init, StageInv, QuoteInv, ProbeInv, OfferInv
<1> QED
  BY <1>1, <1>2 DEF IndInv

LEMMA Invariance == EvmSpec => []IndInv
<1>1. IndInv /\ [EvmNext]_allVars => IndInv'
  <2> SUFFICES ASSUME IndInv, [EvmNext]_allVars PROVE IndInv'
    OBVIOUS
  <2>1. EvmTypeOK /\ StageInv /\ QuoteInv /\ ProbeInv /\ OfferInv
    BY DEF IndInv
  <2>2. EvmTypeOK'
    BY <2>1, StepType
  <2>3. StageInv'
    BY <2>1, StepStage
  <2>4. QuoteInv'
    BY <2>1, StepQuote
  <2>5. ProbeInv'
    BY <2>1, StepProbe
  <2>6. OfferInv'
    BY <2>1, StepOffer
  <2> QED
    BY <2>2, <2>3, <2>4, <2>5, <2>6 DEF IndInv
<1> QED
  BY <1>1, Starts, PTL DEF EvmSpec

\* Every variable has its type in every reachable state, through both sources.
THEOREM TypeCorrect == EvmSpec => []EvmTypeOK
<1>1. IndInv => EvmTypeOK
  BY DEF IndInv
<1> QED
  BY <1>1, Invariance, PTL

\* If the pool has not changed since it was quoted, or is back where it was, the
\* router accepts the swap and gives exactly the quoted output for the quoted
\* fee: quote_trade subtracts its fee by quotient and remainder, the router by
\* the product, and v2::quote has a formula where the pool has an inequality.
THEOREM QuotesAreExact == EvmSpec => []QuoteIsExact
<1>1. IndInv => QuoteIsExact
  <2> SUFFICES ASSUME IndInv, stage = "prepared", reserves[pool] = quote.seen,
                      trade.fee \in RouterFees
               PROVE  /\ RouterAccepts
                      /\ RouterResult(pool)
                           = [received |-> quote.expected_out, fee |-> quote.application_fee]
    BY DEF QuoteIsExact
  <2>1. EvmTypeOK /\ Valid /\ pool \in Pools
    BY DEF IndInv, StageInv
  <2>2. Accepted(pool, trade.token) /\ quote \in Quote /\ QuotedBy(quote.seen)
    BY DEF IndInv, QuoteInv
  <2>3. Liquid(pool)
    BY <2>2 DEF QuotedBy, Liquid
  <2>4. RouterResult(pool) = [received |-> quote.expected_out, fee |-> quote.application_fee]
    BY <2>1, <2>2, <2>3, RouterIs DEF QuotedBy
  <2>5. quote.expected_out \in Nat
    BY <2>2 DEF Quote
  <2>6. MinOut(quote.expected_out) \in Nat /\ MinOut(quote.expected_out) <= quote.expected_out
    BY <2>1, <2>5, TradeIs, MinOutIs DEF Valid
  <2>7. RouterResult(pool).received >= quote.min_out
    BY <2>2, <2>4, <2>5, <2>6 DEF QuotedBy
  <2>8. RouterTrusts(pool, trade.token)
    BY <2>2 DEF Accepted, RouterTrusts, EthSide, EthPair, EthPool
  <2> QED
    BY <2>3, <2>4, <2>7, <2>8 DEF RouterAccepts
<1> QED
  BY <1>1, Invariance, PTL

\* However the pool has moved, a swap that lands gives the expected output less
\* the tolerance, rounded once: portion loses nothing to the large product.
THEOREM LandsWithinTolerance == EvmSpec => []SlippageHonoured
<1>1. IndInv => SlippageHonoured
  <2> SUFFICES ASSUME IndInv, stage = "landed"
               PROVE  result.received
                        >= (quote.expected_out * (BasisPoints - trade.slippage)) \div BasisPoints
    BY DEF SlippageHonoured
  <2>1. EvmTypeOK /\ Valid
    BY DEF IndInv, StageInv
  <2>2. /\ quote.expected_out \in Nat /\ quote.min_out = MinOut(quote.expected_out)
        /\ result.received >= quote.min_out
    BY DEF IndInv, QuoteInv, QuotedBy, Quote
  <2>3. MinOut(quote.expected_out)
          = (quote.expected_out * (BasisPoints - trade.slippage)) \div BasisPoints
    BY <2>1, <2>2, TradeIs, MinOutIs DEF Valid
  <2> QED
    BY <2>2, <2>3
<1> QED
  BY <1>1, Invariance, PTL

\* While no pool moves and no read is dropped, find_market takes a pool that
\* returns the most for the probe, in whatever order the probes come back.
THEOREM FindsDeepest == EvmSpec => []DeepestWhenQuiet
<1>1. IndInv => DeepestWhenQuiet
  <2> SUFFICES ASSUME IndInv, stage \in {"quote", "prepared"}, trade.pool = NoPool,
                      moved = {}, AllProbed,
                      NEW p \in Candidates(trade.token), Liquid(p)
               PROVE  AmountOut(p, "Buy", Probe) <= AmountOut(pool, "Buy", Probe)
    BY DEF DeepestWhenQuiet
  <2>1. PICK best \in probed : Deepest(best) /\ pool = best[1]
    BY DEF IndInv, ProbeInv
  <2>2. PICK entry \in probed : entry[1] = p
    BY DEF AllProbed
  <2>3. entry[2] <= best[2]
    BY <2>1, <2>2 DEF Deepest
  <2>4. /\ entry[2] = AmountOut(entry[1], "Buy", Probe)
        /\ best[2] = AmountOut(best[1], "Buy", Probe)
    BY DEF IndInv, ProbeInv
  <2> QED
    BY <2>1, <2>2, <2>3, <2>4
<1> QED
  BY <1>1, Invariance, PTL

\* Whatever Relay reports, an offer that was accepted and delivered leaves the
\* wallet, with the fees taken from the output, what the tolerance allows of the
\* output before fees, and charged in the input no fee but the one asked for.
THEOREM OffersWithinTolerance == EvmSpec => []RelayTolerance
<1>1. IndInv => RelayTolerance
  <2> SUFFICES ASSUME IndInv, stage = "delivered" PROVE RelayTolerance
    BY DEF RelayTolerance
  <2> DEFINE fees == FeesFromOutput(offer)
  <2>1. EvmTypeOK /\ RelayValid
    BY DEF IndInv, StageInv
  <2>2. /\ offer \in Answer /\ RelayAccepts(offer) /\ result \in Result
        /\ result.received >= offer.min /\ result.fee = fees
    BY DEF IndInv, OfferInv
  <2>3. fees \in Nat /\ offer.out \in Nat /\ offer.min \in Nat /\ result.received \in Nat
    BY <2>2, OutputPartIs DEF FeesFromOutput, Answer, Result
  <2>4. offer.min >= SlippageFloor(offer)
    BY <2>2 DEF RelayAccepts
  <2>5. SlippageFloor(offer) = IF MinOut(offer.out + fees) > fees
                                 THEN MinOut(offer.out + fees) - fees ELSE 0
    BY DEF SlippageFloor
  <2> HIDE DEF fees
  <2>6. offer.out + fees \in Nat
    BY <2>3
  <2>7. /\ MinOut(offer.out + fees)
             = ((offer.out + fees) * (BasisPoints - trade.slippage)) \div BasisPoints
        /\ MinOut(offer.out + fees) \in Nat
    BY <2>1, <2>6, TradeIs, MinOutIs DEF RelayValid
  <2>8. result.received + fees >= MinOut(offer.out + fees)
    BY <2>2, <2>3, <2>4, <2>5, <2>7
  <2>9. \A f \in offer.app :
          f.currency = "input" => f.amount = (trade.amount * trade.fee) \div BasisPoints
    <3> SUFFICES ASSUME NEW f \in offer.app, f.currency = "input"
                 PROVE  f.amount = (trade.amount * trade.fee) \div BasisPoints
      OBVIOUS
    <3>1. trade.amount \in Nat /\ trade.fee \in Nat
      BY <2>1, TradeIs
    <3>2. Portion(trade.amount, trade.fee) = (trade.amount * trade.fee) \div BasisPoints
      BY <3>1, PortionIs
    <3>3. CASE trade.fee # 0
      BY <2>2, <3>2, <3>3 DEF RelayAccepts, AppFeeAccepted
    <3>4. CASE trade.fee = 0
      <4>1. f.amount = 0
        BY <2>2, <3>4 DEF RelayAccepts, AppFeeAccepted
      <4>2. (trade.amount * trade.fee) \div BasisPoints = 0
        <5>1. trade.amount * trade.fee = 0
          BY <3>1, <3>4
        <5>2. BasisPoints \in Nat /\ BasisPoints > 0 /\ BasisPoints * 0 = 0
          BY <2>1, TradeIs
        <5> QED
          BY <5>1, <5>2, QuotientIs
      <4> QED
        BY <4>1, <4>2
    <3> QED
      BY <3>3, <3>4
  <2> QED
    BY <2>2, <2>7, <2>8, <2>9 DEF RelayTolerance
<1> QED
  BY <1>1, Invariance, PTL

\* An answer as Relay documents it is never refused, for any output it finds
\* and any fee it keeps: the floor of slippage_floor is the minimum Relay
\* computes, because both round the tolerance of the same output once.
THEOREM DocumentedAccepted == EvmSpec => RelayHonestAccepted
<1>1. IndInv /\ [EvmNext]_allVars
        => [stage = "asked" /\ answered' => stage' = "offered"]_allVars
  <2> SUFFICES ASSUME IndInv, EvmNext, stage = "asked", answered'
               PROVE  stage' = "offered"
    OBVIOUS
  <2>1. EvmTypeOK /\ RelayValid /\ ~answered
    BY DEF IndInv, StageInv
  <2>2. Respond
    BY <2>1 DEF EvmNext, UseUniswap, AskRelay, RelayFails, RelaySwap
  <2>3. PICK a \in DocumentedAnswers : RelayAnswers(a, TRUE)
    BY <2>2 DEF Respond, RelayAnswers
  <2> DEFINE fees == FeesFromOutput(a)
  <2>4. a \in Raw
    BY <2>1, DocumentedIs
  <2>5. PICK gross \in Nat :
          /\ a.wrong = {} /\ a.in = trade.amount
          /\ a.out = gross - fees /\ a.min = MinOut(gross) - fees /\ a.min > 0
          /\ \E c \in {"input", "output", "other"} : a.app = DocumentedApp(gross, c)
    BY <2>1, DocumentedIs
  <2>6. fees \in Nat
    BY <2>4, OutputPartIs DEF FeesFromOutput, Raw
  <2>7. MinOut(gross) \in Nat /\ MinOut(gross) <= gross
    BY <2>1, TradeIs, MinOutIs DEF RelayValid
  <2>8. SlippageFloor(a) = IF MinOut(a.out + fees) > fees
                             THEN MinOut(a.out + fees) - fees ELSE 0
    BY DEF SlippageFloor
  <2> HIDE DEF fees
  <2>9. a.out + fees = gross
    BY <2>5, <2>6
  <2>10. a.min >= SlippageFloor(a) /\ 0 < a.min /\ a.min <= a.out
    BY <2>5, <2>6, <2>7, <2>8, <2>9
  <2>11. AppFeeAccepted(a)
    <3>1. PICK c \in {"input", "output", "other"} : a.app = DocumentedApp(gross, c)
      BY <2>5
    <3>2. CASE trade.fee = 0
      BY <3>1, <3>2 DEF DocumentedApp, AppFeeAccepted
    <3>3. CASE trade.fee # 0
      <4> DEFINE n == CASE c = "input"  -> Portion(trade.amount, trade.fee)
                        [] c = "output" -> Portion(gross, trade.fee)
                        [] c = "other"  -> 1
      <4>1. a.app = {[currency |-> c, here |-> TRUE, amount |-> n]}
        BY <3>1, <3>3 DEF DocumentedApp
      <4>2. c = "input" => n = Portion(trade.amount, trade.fee)
        OBVIOUS
      <4> HIDE DEF n
      <4> QED
        BY <3>3, <4>1, <4>2 DEF AppFeeAccepted
    <3> QED
      BY <3>2, <3>3
  <2>12. RelayAccepts(a)
    BY <2>5, <2>10, <2>11 DEF RelayAccepts
  <2> QED
    BY <2>3, <2>12 DEF RelayAnswers
<1> QED
  BY <1>1, Invariance, PTL DEF EvmSpec, RelayHonestAccepted
=============================================================================
