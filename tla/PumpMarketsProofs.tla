------------------------- MODULE PumpMarketsProofs -------------------------
(***************************************************************************)
(* Proofs about PumpMarkets, for every budget, fee rate and denominator of *)
(* the rates: what a buy puts into a market and the fees on it fit in the  *)
(* budget, and the formula of the SDK stays within one lamport of the one  *)
(* the bonding curve's program documents.                                  *)
(*                                                                         *)
(* The arithmetic multiplies every quotient by its divisor, once, and goes *)
(* on with the products; the invariant says which numbers a prepared quote *)
(* was computed from.                                                      *)
(***************************************************************************)
EXTENDS PumpMarkets, TLAPS

-----------------------------------------------------------------------------
(* Quotients. *)

\* A quotient of natural numbers, by its product with the divisor.
LEMMA Quotient ==
  ASSUME NEW a \in Nat, NEW d \in Nat, d > 0
  PROVE  /\ a \div d \in Nat
         /\ (a \div d) * d <= a
         /\ a < (a \div d) * d + d
BY Z3

\* The same of a quotient that is rounded up.
LEMMA QuotientUp ==
  ASSUME NEW a \in Nat, NEW d \in Nat, d > 0
  PROVE  /\ CeilDiv(a, d) \in Nat
         /\ a <= CeilDiv(a, d) * d
         /\ CeilDiv(a, d) * d <= a + d - 1
<1> DEFINE b == a + d - 1
<1>1. b \in Nat
  OBVIOUS
<1>2. b \div d \in Nat /\ (b \div d) * d <= b /\ b < (b \div d) * d + d
  <2> HIDE DEF b
  <2> QED
    BY <1>1, Quotient
<1>3. CeilDiv(a, d) = b \div d
  BY DEF CeilDiv
<1> DEFINE q == (b \div d) * d
<1>4. q \in Int
  <2> HIDE DEF b
  <2> QED
    BY <1>2
<1> HIDE DEF q
<1>5. q <= a + d - 1 /\ a + d - 1 < q + d
  BY <1>2 DEF q
<1>6. a <= q
  BY <1>4, <1>5
<1> QED
  BY <1>2, <1>3, <1>5, <1>6 DEF q

\* A product with a positive factor orders the other factors.
LEMMA Cancel ==
  ASSUME NEW x \in Int, NEW y \in Int, NEW d \in Nat, d > 0, x * d < y * d
  PROVE  x < y
BY Z3

-----------------------------------------------------------------------------
(* The rates. *)

\* The state the formulas read.
Rated == coin \in [sol : BOOLEAN, creator : BOOLEAN]

LEMMA RatesAreNatural ==
  ASSUME Rated, NEW f \in Fees
  PROVE  /\ f.lp \in Nat /\ f.protocol \in Nat /\ CreatorRate(f) \in Nat
         /\ BasisPoints \in Nat /\ BasisPoints > 0
BY ConstantsAssumption DEF Rated, FeeRates, CreatorRate

\* Two fees rounded up exceed the exact ones by less than two units.
LEMMA CurveFeeBound ==
  ASSUME Rated, NEW f \in Fees, NEW n \in Nat
  PROVE  /\ CurveFee(n, f) \in Nat
         /\ CurveFee(n, f) * BasisPoints
              <= n * (f.protocol + CreatorRate(f)) + 2 * BasisPoints - 2
<1> DEFINE p == f.protocol
           c == CreatorRate(f)
           B == BasisPoints
           x == CeilDiv(n * p, B)
           y == CeilDiv(n * c, B)
<1>1. p \in Nat /\ c \in Nat /\ B \in Nat /\ B > 0
  BY RatesAreNatural
<1>2. n * p \in Nat /\ n * c \in Nat
  <2> HIDE DEF p, c
  <2> QED
    BY <1>1
<1>3. x \in Nat /\ x * B <= n * p + B - 1
  <2> HIDE DEF p, B
  <2> QED
    BY <1>1, <1>2, QuotientUp
<1>4. y \in Nat /\ y * B <= n * c + B - 1
  <2> HIDE DEF c, B
  <2> QED
    BY <1>1, <1>2, QuotientUp
<1>5. CurveFee(n, f) = x + y
  BY DEF CurveFee, fee_ceil
<1> HIDE DEF p, c, B, x, y
<1>6. (x + y) * B = x * B + y * B /\ n * (p + c) = n * p + n * c
  BY <1>1, <1>3, <1>4
<1>7. (x + y) * B <= n * (p + c) + 2 * B - 2
  <2> DEFINE xB == x * B
             yB == y * B
             np == n * p
             nc == n * c
  <2>1. xB \in Int /\ yB \in Int /\ np \in Int /\ nc \in Int
    BY <1>1, <1>2, <1>3, <1>4
  <2>2. xB <= np + B - 1 /\ yB <= nc + B - 1
    BY <1>3, <1>4
  <2> HIDE DEF xB, yB, np, nc
  <2>3. xB + yB <= np + nc + 2 * B - 2
    BY <2>1, <2>2, <1>1
  <2> QED
    BY <2>3, <1>6 DEF xB, yB, np, nc
<1> QED
  BY <1>3, <1>4, <1>5, <1>7 DEF p, c, B

\* Three fees rounded down do not exceed the exact ones.
LEMMA PoolFeeBound ==
  ASSUME Rated, NEW f \in Fees, NEW n \in Nat
  PROVE  /\ PoolFee(n, f) \in Nat
         /\ PoolFee(n, f) * BasisPoints
              <= n * (f.lp + f.protocol + CreatorRate(f))
<1> DEFINE l == f.lp
           p == f.protocol
           c == CreatorRate(f)
           B == BasisPoints
           x == (n * l) \div B
           y == (n * p) \div B
           z == (n * c) \div B
<1>1. l \in Nat /\ p \in Nat /\ c \in Nat /\ B \in Nat /\ B > 0
  BY RatesAreNatural
<1>2. n * l \in Nat /\ n * p \in Nat /\ n * c \in Nat
  <2> HIDE DEF l, p, c
  <2> QED
    BY <1>1
<1>3. x \in Nat /\ x * B <= n * l
  <2> HIDE DEF l, B
  <2> QED
    BY <1>1, <1>2, Quotient
<1>4. y \in Nat /\ y * B <= n * p
  <2> HIDE DEF p, B
  <2> QED
    BY <1>1, <1>2, Quotient
<1>5. z \in Nat /\ z * B <= n * c
  <2> HIDE DEF c, B
  <2> QED
    BY <1>1, <1>2, Quotient
<1>6. PoolFee(n, f) = x + y + z
  BY DEF PoolFee, fee_floor
<1> HIDE DEF l, p, c, B, x, y, z
<1>7. /\ (x + y + z) * B = x * B + y * B + z * B
      /\ n * (l + p + c) = n * l + n * p + n * c
  BY <1>1, <1>3, <1>4, <1>5
<1>8. x * B \in Int /\ y * B \in Int /\ z * B \in Int
  BY <1>1, <1>3, <1>4, <1>5
<1>9. (x + y + z) * B <= n * (l + p + c)
  <2> DEFINE xB == x * B
             yB == y * B
             zB == z * B
             nl == n * l
             np == n * p
             nc == n * c
  <2>1. /\ xB \in Int /\ yB \in Int /\ zB \in Int
        /\ nl \in Int /\ np \in Int /\ nc \in Int
        /\ xB <= nl /\ yB <= np /\ zB <= nc
    BY <1>2, <1>3, <1>4, <1>5, <1>8
  <2> HIDE DEF xB, yB, zB, nl, np, nc
  <2>2. xB + yB + zB <= nl + np + nc
    BY <2>1
  <2> QED
    BY <2>2, <1>7 DEF xB, yB, zB, nl, np, nc
<1> QED
  BY <1>3, <1>4, <1>5, <1>6, <1>9 DEF l, p, c, B

-----------------------------------------------------------------------------
(* Budgets. *)

\* What goes into a curve, and by how little a unit more would be too much.
LEMMA IntoCurveBound ==
  ASSUME Rated, NEW f \in Fees, NEW a \in Nat, a > 0
  PROVE  LET D == f.protocol + CreatorRate(f) + BasisPoints
             n == SolIntoCurve(a, f)
         IN  /\ n \in Nat
             /\ n * D <= (a - 1) * BasisPoints
             /\ (a - 1) * BasisPoints < n * D + D
<1> DEFINE D == f.protocol + CreatorRate(f) + BasisPoints
           b == (a - 1) * BasisPoints
<1>1. D \in Nat /\ D > 0
  BY RatesAreNatural
<1>2. a - 1 \in Nat /\ BasisPoints \in Nat
  BY RatesAreNatural
<1>3. b \in Nat
  BY <1>2
<1>4. SolIntoCurve(a, f) = b \div D
  BY DEF SolIntoCurve, Saturating
<1> HIDE DEF D, b
<1>5. b \div D \in Nat /\ (b \div D) * D <= b /\ b < (b \div D) * D + D
  BY <1>1, <1>3, Quotient
<1> QED
  BY <1>4, <1>5 DEF D, b

\* A buy on a curve.
LEMMA CurveBudget ==
  ASSUME Rated, NEW f \in Fees, NEW a \in Nat, a > 0
  PROVE  SolIntoCurve(a, f) + CurveFee(SolIntoCurve(a, f), f) <= a
<1> DEFINE t == f.protocol + CreatorRate(f)
           B == BasisPoints
           n == SolIntoCurve(a, f)
           fee == CurveFee(n, f)
<1>1. t \in Nat /\ B \in Nat /\ B > 0
  BY RatesAreNatural
<1>2. n \in Nat /\ n * (t + B) <= (a - 1) * B
  BY IntoCurveBound, RatesAreNatural
<1>3. fee \in Nat /\ fee * B <= n * t + 2 * B - 2
  BY <1>2, CurveFeeBound
<1> HIDE DEF t, B, n, fee
<1>4. /\ n * (t + B) = n * t + n * B
      /\ (n + fee) * B = n * B + fee * B
      /\ (a - 1) * B = a * B - B
      /\ (a + 1) * B = a * B + B
  BY <1>1, <1>2, <1>3
<1>5. n * t \in Int /\ n * B \in Int /\ fee * B \in Int /\ a * B \in Int
  BY <1>1, <1>2, <1>3
<1>6. (n + fee) * B < (a + 1) * B
  <2> DEFINE nt == n * t
             nB == n * B
             fB == fee * B
             aB == a * B
  <2>1. /\ nt \in Int /\ nB \in Int /\ fB \in Int /\ aB \in Int
        /\ nt + nB <= aB - B /\ fB <= nt + 2 * B - 2
    BY <1>2, <1>3, <1>4, <1>5
  <2> HIDE DEF nt, nB, fB, aB
  <2>2. nB + fB < aB + B
    BY <2>1, <1>1
  <2> QED
    BY <2>2, <1>4 DEF nt, nB, fB, aB
<1>7. n + fee < a + 1
  BY <1>1, <1>2, <1>3, <1>6, Cancel
<1> QED
  BY <1>2, <1>3, <1>7 DEF n, fee

\* A buy on a pool: the branch that reduces it is never needed.
LEMMA PoolBudget ==
  ASSUME Rated, NEW f \in Fees, NEW a \in Nat
  PROVE  /\ QuoteIntoPool(a, f) \in Nat
         /\ QuoteIntoPool(a, f) + PoolFee(QuoteIntoPool(a, f), f) <= a
<1> DEFINE t == f.lp + f.protocol + CreatorRate(f)
           B == BasisPoints
           D == B + f.lp + f.protocol + CreatorRate(f)
           b == a * B
           n == b \div D
           fee == PoolFee(n, f)
<1>1. t \in Nat /\ B \in Nat /\ B > 0 /\ D \in Nat /\ D > 0 /\ D = t + B
  BY RatesAreNatural
<1>2. b \in Nat
  <2> HIDE DEF B
  <2> QED
    BY <1>1
<1>3. n \in Nat /\ n * D <= b
  <2> HIDE DEF b, D
  <2> QED
    BY <1>1, <1>2, Quotient
<1>4. fee \in Nat /\ fee * B <= n * t
  <2> HIDE DEF n
  <2> QED
    BY <1>3, PoolFeeBound
<1>5. n + fee <= a
  <2> HIDE DEF t, B, D, n, fee
  <2>1. /\ n * D = n * t + n * B
        /\ (n + fee) * B = n * B + fee * B
        /\ (a + 1) * B = a * B + B
    BY <1>1, <1>3, <1>4
  <2>2. n * t \in Int /\ n * B \in Int /\ fee * B \in Int
    BY <1>1, <1>3, <1>4
  <2>3. (n + fee) * B <= a * B
    <3> DEFINE nt == n * t
               nB == n * B
               fB == fee * B
    <3>1. nt \in Int /\ nB \in Int /\ fB \in Int /\ b \in Nat
          /\ nt + nB <= b /\ fB <= nt
      BY <1>2, <1>3, <1>4, <2>1, <2>2
    <3> HIDE DEF nt, nB, fB, b
    <3>2. nB + fB <= b
      BY <3>1
    <3> QED
      BY <3>2, <2>1 DEF nt, nB, fB, b
  <2>4. (n + fee) * B < (a + 1) * B
    <3> DEFINE s == (n + fee) * B
               r == a * B
    <3>1. s \in Int /\ r \in Int /\ s <= r
      BY <1>1, <1>2, <1>3, <1>4, <2>3 DEF b
    <3> HIDE DEF s, r
    <3>2. s < r + B
      BY <3>1, <1>1
    <3> QED
      BY <3>2, <2>1 DEF s, r
  <2>5. n + fee < a + 1
    BY <1>1, <1>3, <1>4, <2>4, Cancel
  <2> QED
    BY <1>3, <1>4, <2>5
<1>6. QuoteIntoPool(a, f) = n
  <2>1. ~(n + fee - a > 0)
    BY <1>3, <1>4, <1>5
  <2> QED
    BY <2>1 DEF QuoteIntoPool
<1> QED
  BY <1>3, <1>5, <1>6

-----------------------------------------------------------------------------
(* The documented formula. *)

LEMMA NearIdlNet ==
  ASSUME Rated, NEW f \in Fees, NEW a \in Nat, a > 0
  PROVE  SolIntoCurve(a, f) - IdlNet(a, f) \in 0..1
<1> DEFINE t == f.protocol + CreatorRate(f)
           B == BasisPoints
           D == B + f.protocol + CreatorRate(f)
           n == SolIntoCurve(a, f)
           b == a * B
           N == b \div D
           fee == CurveFee(N, f)
<1>1. t \in Nat /\ B \in Nat /\ B > 0 /\ D \in Nat /\ D > 0 /\ D = t + B
  BY RatesAreNatural
<1>2. n \in Nat /\ n * D <= (a - 1) * B /\ (a - 1) * B < n * D + D
  <2>1. D = f.protocol + CreatorRate(f) + BasisPoints
    BY RatesAreNatural
  <2> QED
    BY <2>1, IntoCurveBound
<1>3. b \in Nat
  <2> HIDE DEF B
  <2> QED
    BY <1>1
<1>4. N \in Nat /\ N * D <= b /\ b < N * D + D
  <2> HIDE DEF b, D
  <2> QED
    BY <1>1, <1>3, Quotient
<1>5. fee \in Nat /\ fee * B <= N * t + 2 * B - 2
  <2> HIDE DEF N
  <2> QED
    BY <1>4, CurveFeeBound
<1>6. IdlNet(a, f) = (IF N + fee - a > 0 THEN N - (N + fee - a) ELSE N) - 1
  BY DEF IdlNet
<1> HIDE DEF t, B, D, n, N, fee
<1> DEFINE nD == n * D
           ND == N * D
<1>7. nD \in Int /\ ND \in Int /\ (a - 1) * B = b - B
  BY <1>1, <1>2, <1>4 DEF b
<1>8. /\ (n + 1) * D = nD + D /\ (N + 1) * D = ND + D
      /\ (n + 2) * D = nD + D + D
  BY <1>1, <1>2, <1>4
<1>9. n < N + 1 /\ N < n + 2
  <2>1. nD < ND + D /\ ND < nD + D + D
    <3>1. nD <= b - B /\ b - B < nD + D /\ ND <= b /\ b < ND + D
      BY <1>2, <1>4, <1>7
    <3> HIDE DEF nD, ND, b
    <3> QED
      BY <3>1, <1>1, <1>3, <1>7
  <2>2. n * D < (N + 1) * D /\ N * D < (n + 2) * D
    BY <2>1, <1>8
  <2> QED
    BY <2>2, <1>1, <1>2, <1>4, Cancel
<1>10. /\ N * t + N * B = ND /\ N * t \in Int /\ N * B \in Int /\ fee * B \in Int
       /\ (N + fee) * B = N * B + fee * B
  BY <1>1, <1>4, <1>5
<1>11. (N + fee) * B <= ND + 2 * B - 2
  <2> DEFINE Nt == N * t
             NB == N * B
             fB == fee * B
  <2>1. Nt + NB = ND /\ Nt \in Int /\ NB \in Int /\ fB \in Int /\ fB <= Nt + 2 * B - 2
    BY <1>5, <1>10
  <2> HIDE DEF Nt, NB, fB, ND
  <2>2. NB + fB <= ND + 2 * B - 2
    BY <2>1, <1>1
  <2> QED
    BY <2>2, <1>10 DEF NB, fB
<1> DEFINE s == (N + fee) * B
<1>12. s \in Int /\ s <= ND + 2 * B - 2
  BY <1>10, <1>11
<1>13. N + fee < a + 2
  <2>1. (a + 2) * B = b + 2 * B
    BY <1>1 DEF b
  <2>2. s < b + 2 * B
    <3>1. ND <= b
      BY <1>4
    <3> HIDE DEF s, ND, b
    <3> QED
      BY <3>1, <1>1, <1>3, <1>7, <1>12
  <2>3. (N + fee) * B < (a + 2) * B
    BY <2>1, <2>2
  <2> QED
    BY <2>3, <1>1, <1>4, <1>5, Cancel
<1>14. CASE N + fee - a > 0
  <2>1. N + fee = a + 1
    BY <1>4, <1>5, <1>13, <1>14
  <2>2. s = b + B
    BY <2>1, <1>1 DEF b
  <2>3. nD < ND
    <3>1. nD <= b - B
      BY <1>2, <1>7
    <3> HIDE DEF s, ND, nD, b
    <3> QED
      BY <3>1, <2>2, <1>1, <1>3, <1>7, <1>12
  <2>4. n < N
    BY <2>3, <1>1, <1>2, <1>4, Cancel
  <2> QED
    BY <2>1, <2>4, <1>2, <1>4, <1>5, <1>6, <1>9, <1>14 DEF n
<1>15. CASE ~(N + fee - a > 0)
  BY <1>2, <1>4, <1>6, <1>9, <1>15 DEF n
<1> QED
  BY <1>14, <1>15

LEMMA IdlNetIs ==
  ASSUME Rated, NEW f \in Fees, NEW a \in Nat
  PROVE  IdlNet(a, f) \in Int
<1> DEFINE D == BasisPoints + f.protocol + CreatorRate(f)
           N == (a * BasisPoints) \div D
<1>1. D \in Nat /\ D > 0 /\ a * BasisPoints \in Nat
  BY RatesAreNatural
<1>2. N \in Nat
  <2> HIDE DEF D
  <2> QED
    BY <1>1, Quotient
<1>3. CurveFee(N, f) \in Nat
  <2> HIDE DEF N
  <2> QED
    BY <1>2, CurveFeeBound
<1> QED
  BY <1>2, <1>3 DEF IdlNet

-----------------------------------------------------------------------------
(* The call. *)

\* A prepared quote was computed from the trade and rates it records.
IInv ==
  /\ Rated
  /\ fees \in Fees
  /\ cache \in Fees \cup {NoFees}
  /\ trade \in Trades
  /\ stage # "idle" => trade.amount > 0
  /\ stage = "prepared" =>
       /\ quote.rates \in Fees
       /\ trade.side = "Buy" => quote.into = Into(market, quote.rates)

LEMMA NoFeesIsNoRate == NoFees \notin Fees
BY ConstantsAssumption DEF FeeRates, NoFees

LEMMA Initially == Init => IInv
BY DEF Init, IInv, Rated

LEMMA Inductive == IInv /\ [Next]_vars => IInv'
<1> SUFFICES ASSUME IInv, [Next]_vars PROVE IInv'
  OBVIOUS
<1> USE DEF IInv, Rated
<1>1. CASE UNCHANGED vars
  BY <1>1 DEF vars, chainVars, callVars, Into, SolIntoCurve, QuoteIntoPool,
              PoolFee, CreatorRate
<1>2. CASE TradeOnCurve \/ Complete \/ Migrate \/ TradeOnPool
  BY <1>2 DEF TradeOnCurve, Complete, Migrate, TradeOnPool, Moves, Remember, callVars
<1>3. CASE ChangeFees
  BY <1>3 DEF ChangeFees, Moves, Remember, callVars
<1>4. CASE Start
  BY <1>4 DEF Start, Valid, Goto, chainVars
<1>5. CASE \E m \in {"curve", "pool"} : FindRead(m)
  BY <1>5 DEF FindRead, chainVars
<1>6. CASE FindAnswer \/ LoadCurve \/ LoadPoolAccount
  BY <1>6 DEF FindAnswer, LoadCurve, LoadPoolAccount, Goto, chainVars
<1>7. CASE (\E v \in {"base", "vault"} : LoadVault(v)) \/ LoadReserves
  BY <1>7 DEF LoadVault, LoadReserves, Goto, chainVars
<1>8. CASE Prepare
  <2>1. cache' \in Fees
    BY <1>8, NoFeesIsNoRate DEF Prepare
  <2>2. UNCHANGED <<coin, fees, trade, market>>
    BY <1>8 DEF Prepare, chainVars
  <2>3. stage' = "prepared" =>
          /\ quote'.rates = cache'
          /\ trade.side = "Buy" => quote'.into = Into(market, cache')
    BY <1>8 DEF Prepare, Goto, ComputeQuote
  <2>4. stage' # "idle" => trade'.amount > 0
    BY <1>8, <2>2 DEF Prepare
  <2> QED
    BY <2>1, <2>2, <2>3, <2>4
       DEF Into, SolIntoCurve, QuoteIntoPool, PoolFee, CreatorRate
<1>9. CASE CallFails
  BY <1>9 DEF CallFails, Fail, Goto, chainVars
<1> QED
  BY <1>1, <1>2, <1>3, <1>4, <1>5, <1>6, <1>7, <1>8, <1>9 DEF Next

LEMMA Invariance == Spec => []IInv
BY Initially, Inductive, PTL DEF Spec

LEMMA AmountIsNatural == IInv => trade.amount \in Nat
BY ConstantsAssumption DEF IInv, Trade

\* A prepared buy and its fees fit in the budget, for every budget and rate.
THEOREM BudgetIsKept == Spec => []BudgetKept
<1>1. IInv => BudgetKept
  <2> SUFFICES ASSUME IInv, stage = "prepared", trade.side = "Buy"
               PROVE  quote.into + FeeOn(market, quote.into, quote.rates) <= trade.amount
    BY DEF BudgetKept
  <2>1. /\ Rated /\ quote.rates \in Fees /\ quote.into = Into(market, quote.rates)
        /\ trade.amount \in Nat /\ trade.amount > 0
    BY AmountIsNatural DEF IInv
  <2>2. CASE market \in CurveLike
    BY <2>1, <2>2, CurveBudget DEF Into, FeeOn
  <2>3. CASE market \notin CurveLike
    BY <2>1, <2>3, PoolBudget DEF Into, FeeOn
  <2> QED
    BY <2>2, <2>3
<1> QED
  BY <1>1, Invariance, PTL

\* What the SDK computes to go into a curve is what the curve's program
\* documents, or one lamport more.
THEOREM NearDocumented == Spec => []NearDocumentedNet
<1>1. IInv => NearDocumentedNet
  BY AmountIsNatural, NearIdlNet DEF IInv, NearDocumentedNet, Into
<1> QED
  BY <1>1, Invariance, PTL

-----------------------------------------------------------------------------
(* Discovery. *)

\* What a read that found no market, and one that found one, show of the
\* moments of the call.
Missed(m) == m \notin unread /\ m \notin found

DInv ==
  /\ stage = "idle" => found = {}
  /\ stage = "find" =>
       /\ trade.named = NoMarket
       /\ Tradable \subseteq truths
       /\ found \subseteq truths
       /\ Missed("curve") => "pool" \in truths \/ NoMarket \in truths
       /\ Missed("pool") => "curve" \in truths \/ NoMarket \in truths
  /\ trade.named = NoMarket /\ stage \in {"load", "vaults", "fees", "prepared"}
       => market \in truths
  /\ stage = "none" => NoMarket \in truths \/ {"curve", "pool"} \subseteq truths

LEMMA DiscoveryInductive == DInv /\ [Next]_vars => DInv'
<1> SUFFICES ASSUME DInv, [Next]_vars PROVE DInv'
  OBVIOUS
<1>1. CASE UNCHANGED vars
  BY <1>1 DEF DInv, Missed, Tradable, CurveOpen, PoolOpen, vars, chainVars, callVars
<1>2. CASE TradeOnCurve \/ Complete \/ Migrate \/ TradeOnPool \/ ChangeFees
  <2>1. /\ UNCHANGED callVars
        /\ truths' = IF stage = "find" THEN truths \cup Tradable' ELSE truths
    BY <1>2 DEF TradeOnCurve, Complete, Migrate, TradeOnPool, ChangeFees, Remember
  <2>2. truths \subseteq truths' /\ (stage = "find" => Tradable' \subseteq truths')
    BY <2>1
  <2> QED
    BY <2>1, <2>2 DEF DInv, Missed, callVars
<1>3. CASE Start
  BY <1>3 DEF DInv, Missed, Start, Goto, Tradable, CurveOpen, PoolOpen, chainVars
<1>4. ASSUME NEW m \in {"curve", "pool"}, FindRead(m)
      PROVE  DInv'
  <2>1. /\ stage = "find" /\ UNCHANGED <<chainVars, trade, stage, truths, market>>
        /\ unread' = unread \ {m}
        /\ found' = IF IF m = "curve" THEN CurveTradable ELSE PoolTradable
                      THEN found \cup {m} ELSE found
    BY <1>4 DEF FindRead
  <2>2. Tradable' = Tradable
    BY <2>1 DEF Tradable, CurveOpen, PoolOpen, chainVars
  <2>3. found' \subseteq truths
    BY <2>1 DEF DInv, CurveTradable, PoolTradable, Tradable, CurveOpen, PoolOpen
  <2>4. CASE m = "curve"
    BY <2>1, <2>2, <2>3, <2>4
       DEF DInv, Missed, CurveTradable, Tradable, CurveOpen, PoolOpen, NoMarket
  <2>5. CASE m = "pool"
    BY <2>1, <2>2, <2>3, <2>5
       DEF DInv, Missed, PoolTradable, Tradable, CurveOpen, PoolOpen, NoMarket
  <2> QED
    BY <2>4, <2>5
<1>5. CASE FindAnswer
  BY <1>5 DEF DInv, Missed, FindAnswer, Goto, NoMarket
<1>6. CASE LoadCurve \/ LoadPoolAccount \/ LoadReserves
  BY <1>6 DEF DInv, LoadCurve, LoadPoolAccount, LoadReserves, Goto, chainVars
<1>7. CASE \E v \in {"base", "vault"} : LoadVault(v)
  BY <1>7 DEF DInv, LoadVault, chainVars
<1>8. CASE Prepare
  BY <1>8 DEF DInv, Prepare, Goto, chainVars
<1>9. CASE CallFails
  BY <1>9 DEF DInv, CallFails, Fail, Goto, chainVars
<1> QED
  BY <1>1, <1>2, <1>3, <1>4, <1>5, <1>6, <1>7, <1>8, <1>9 DEF Next

\* Discovery answers what was right at some moment of the call, and misses a
\* token that always had a market only if it graduates between its two reads.
THEOREM DiscoveryIsTrue == Spec => []FoundWasTrue
<1>1. Init => DInv
  BY DEF Init, DInv
<1>2. DInv => FoundWasTrue
  BY DEF DInv, FoundWasTrue
<1> QED
  BY <1>1, <1>2, DiscoveryInductive, PTL DEF Spec

-----------------------------------------------------------------------------
(* What a market pays. *)

\* A positive output of the constant product formula is the most the market can
\* pay: it pays what is no more, and nothing that is.
LEMMA OutIsMost ==
  ASSUME NEW q \in Nat, NEW b \in Nat, NEW in \in Nat,
         base_out_for_quote_in(q, b, in) > 0
  PROVE  \A n \in Nat : Pays(q, b, in, n) <=> n <= base_out_for_quote_in(q, b, in)
<1> DEFINE d == q + in
           m == b * in
           out == m \div d
<1>1. q > 0 /\ b > 0 /\ in > 0 /\ base_out_for_quote_in(q, b, in) = out
  BY DEF base_out_for_quote_in
<1>2. d \in Nat /\ d > 0 /\ m \in Nat
  BY <1>1
<1>3. b * d = q * b + m /\ q * b \in Nat
  OBVIOUS
<1>4. m <= b * d /\ b * d \in Nat
  BY <1>2, <1>3
<1>5. out \in Nat /\ out * d <= m /\ m < out * d + d
  <2> HIDE DEF d, m
  <2> QED
    BY <1>2, Quotient
<1> HIDE DEF d, m, out
<1>6. SUFFICES ASSUME NEW n \in Nat
               PROVE  Pays(q, b, in, n) <=> n <= out
  BY <1>1
<1>7. n * d \in Nat /\ out * d \in Nat /\ (n + 1) * d = n * d + d /\ (out + 1) * d = out * d + d
  BY <1>2, <1>5
<1>8. n <= out <=> n * d <= m
  <2>1. ASSUME n <= out PROVE n * d <= m
    <3>1. n * d <= out * d
      BY <1>2, <1>5, <2>1
    <3> QED
      BY <1>2, <1>5, <1>7, <3>1
  <2>2. ASSUME n * d <= m PROVE n <= out
    <3>1. n * d < (out + 1) * d
      BY <1>2, <1>5, <1>7, <2>2
    <3>2. n < out + 1
      BY <1>2, <1>5, <3>1, Cancel
    <3> QED
      BY <1>5, <3>2
  <2> QED
    BY <2>1, <2>2
<1>9. n * d <= m => n <= b
  <2> SUFFICES ASSUME n * d <= m PROVE n <= b
    OBVIOUS
  <2>1. (b + 1) * d = b * d + d
    BY <1>2
  <2>2. n * d < (b + 1) * d
    BY <1>2, <1>4, <1>7, <2>1
  <2>3. n < b + 1
    BY <1>2, <2>2, Cancel
  <2> QED
    BY <2>3
<1>10. (q + in) * (b - n) >= q * b <=> n * d <= m
  <2>1. (q + in) * (b - n) = b * d - n * d
    BY DEF d
  <2> DEFINE x == b * d
             y == q * b
             z == n * d
  <2>2. x \in Nat /\ y \in Nat /\ z \in Nat /\ x = y + m
    BY <1>3, <1>4, <1>7
  <2> HIDE DEF x, y, z
  <2>3. x - z >= y <=> z <= m
    BY <1>2, <2>2
  <2> QED
    BY <2>1, <2>3 DEF x, y, z
<1> QED
  BY <1>8, <1>9, <1>10 DEF Pays

\* A sale is priced by the same formula, with the reserves changed over.
LEMMA SaleIsBuy ==
  ASSUME NEW q \in Nat, NEW b \in Nat, NEW in \in Nat
  PROVE  /\ quote_out_for_base_in(q, b, in) = base_out_for_quote_in(b, q, in)
         /\ quote_out_for_base_in(q, b, in) \in Nat
<1>1. quote_out_for_base_in(q, b, in) = base_out_for_quote_in(b, q, in)
  BY DEF quote_out_for_base_in, base_out_for_quote_in
<1>2. CASE in = 0 \/ q = 0 \/ b = 0
  BY <1>1, <1>2 DEF quote_out_for_base_in
<1>3. CASE ~(in = 0 \/ q = 0 \/ b = 0)
  <2> DEFINE m == q * in
             d == b + in
  <2>1. m \in Nat /\ d \in Nat /\ d > 0
    BY <1>3
  <2>2. quote_out_for_base_in(q, b, in) = m \div d
    BY <1>3 DEF quote_out_for_base_in
  <2> HIDE DEF m, d
  <2> QED
    BY <1>1, <2>1, <2>2, Quotient
<1> QED
  BY <1>2, <1>3

\* The limit is within the slippage of what is expected.
LEMMA LimitBound ==
  ASSUME NEW x \in Nat, NEW bps \in Nat
  PROVE  /\ slippage_down(x, bps) \in Int
         /\ slippage_down(x, bps) <= x
         /\ slippage_down(x, bps) * BasisPoints >= x * (BasisPoints - bps)
<1> DEFINE B == BasisPoints
           m == x * bps
           k == m \div B
<1>1. B \in Nat /\ B > 0 /\ m \in Nat
  BY ConstantsAssumption
<1>2. k \in Nat /\ k * B <= m
  <2> HIDE DEF m, B
  <2> QED
    BY <1>1, Quotient
<1>3. slippage_down(x, bps) = x - k
  BY DEF slippage_down
<1> HIDE DEF B, k
<1>4. (x - k) * B = x * B - k * B /\ x * (B - bps) = x * B - m
  BY <1>1, <1>2
<1>5. (x - k) * B >= x * (B - bps)
  <2> DEFINE u == x * B
             w == k * B
  <2>1. u \in Int /\ w \in Int /\ w <= m
    BY <1>1, <1>2
  <2> HIDE DEF u, w, m
  <2>2. u - w >= u - m
    BY <1>1, <2>1
  <2> QED
    BY <1>4, <2>2 DEF u, w
<1> QED
  BY <1>2, <1>3, <1>5 DEF B

-----------------------------------------------------------------------------
(* Reading a market and quoting it. *)

\* What was read is what the market holds.
SeenIs(held) ==
  /\ seen.base = held.base /\ seen.quote = held.quote
  /\ market \in CurveLike => seen.real = held.real

\* The quote is that of what was read.
QuotedFrom(data) ==
  /\ quote.gross = IF trade.side = "Buy"
                     THEN BuyOut(market, data, quote.into)
                     ELSE quote_out_for_base_in(data.quote, data.base, trade.amount)
  /\ quote.expected_out = IF trade.side = "Buy" THEN quote.gross
                                                ELSE Saturating(quote.gross - quote.fee)
  /\ quote.min_out = slippage_down(quote.expected_out, trade.slippage)

\* The parts of a pool are what they were as long as it has not changed since
\* its account was read; the virtual reserves are added when both vaults are.
RInv ==
  /\ stage = "vaults" =>
       /\ market \in PoolLike
       /\ ~changed => /\ seen.virtual = Account(market).virtual
                      /\ "base" \in unread \/ seen.base = Account(market).base
                      /\ "vault" \in unread \/ seen.quote = Account(market).vault
  /\ stage \in {"fees", "prepared"} =>
       /\ market \in CurveLike \cup PoolLike
       /\ seen.quote \in Nat
       /\ ~changed => SeenIs(Held(market))
  /\ stage = "prepared" => quote \in Quote /\ QuotedFrom(seen)

LEMMA TradeIs ==
  ASSUME TypeOK
  PROVE  /\ trade.amount \in Nat /\ trade.slippage \in Nat /\ trade.side \in {"Buy", "Sell"}
         /\ trade.named \in Markets \cup {NoMarket}
BY ConstantsAssumption DEF TypeOK, Trade

LEMMA HeldIs ==
  ASSUME TypeOK
  PROVE  /\ curve.base \in Nat /\ curve.quote \in Nat /\ curve.real \in Nat
         /\ pool.base \in Nat /\ pool.vault \in Nat /\ pool.virtual \in Int
         /\ OtherCurve.base \in Nat /\ OtherCurve.quote \in Nat /\ OtherCurve.real \in Nat
         /\ \A m : /\ Account(m).base \in Nat /\ Account(m).vault \in Nat
                   /\ Account(m).virtual \in Int
<1>1. curve \in CurveData /\ OtherCurve \in CurveData
  BY ConstantsAssumption DEF TypeOK
<1>2. pool \in PoolData /\ SidePool \in PoolData
  BY ConstantsAssumption DEF TypeOK, NoPool, PoolData
<1>3. \A m : Account(m) \in PoolData
  BY <1>2 DEF Account
<1> QED
  BY <1>1, <1>2, <1>3 DEF CurveData, PoolData

\* A quote of what was read is a quote once at least a unit comes out.
LEMMA QuoteIsTyped ==
  ASSUME TypeOK, trade.amount > 0, seen.quote \in Nat, NEW f \in Fees,
         MinOutPositive(ComputeQuote(market, seen, f))
  PROVE  ComputeQuote(market, seen, f) \in Quote
<1> DEFINE into     == IF trade.side = "Buy" THEN Into(market, f) ELSE 0
           gross    == IF trade.side = "Buy"
                         THEN BuyOut(market, seen, into)
                         ELSE quote_out_for_base_in(seen.quote, seen.base, trade.amount)
           fee      == IF trade.side = "Buy" THEN Saturating(trade.amount - into)
                                             ELSE FeeOn(market, gross, f)
           expected == IF trade.side = "Buy" THEN gross ELSE Saturating(gross - fee)
           least    == slippage_down(expected, trade.slippage)
<1>1. ComputeQuote(market, seen, f)
        = [in_amount |-> trade.amount, into |-> into, gross |-> gross, fee |-> fee,
           expected_out |-> expected, min_out |-> least, rates |-> f]
  BY DEF ComputeQuote
<1>2. Rated /\ trade.amount \in Nat /\ trade.slippage \in Nat
  BY TradeIs DEF TypeOK, Rated
<1>3. seen.base \in Nat /\ seen.real \in Nat /\ seen.quote \in Nat
  BY DEF TypeOK
<1>4. into \in Nat
  <2>1. SolIntoCurve(trade.amount, f) \in Nat
    BY <1>2, IntoCurveBound
  <2>2. QuoteIntoPool(trade.amount, f) \in Nat
    BY <1>2, PoolBudget
  <2> QED
    BY <2>1, <2>2 DEF Into
<1> HIDE DEF into
<1>5. gross \in Nat
  <2>1. Priced(market, into) \in Nat
    BY <1>4 DEF Priced, Saturating
  <2>2. base_out_for_quote_in(seen.quote, seen.base, Priced(market, into)) \in Nat
    <3>1. /\ quote_out_for_base_in(seen.base, seen.quote, Priced(market, into))
               = base_out_for_quote_in(seen.quote, seen.base, Priced(market, into))
          /\ quote_out_for_base_in(seen.base, seen.quote, Priced(market, into)) \in Nat
      BY <1>3, <2>1, SaleIsBuy
    <3> QED
      BY <3>1
  <2>3. quote_out_for_base_in(seen.quote, seen.base, trade.amount) \in Nat
    BY <1>2, <1>3, SaleIsBuy
  <2>4. BuyOut(market, seen, into) \in Nat
    BY <1>3, <2>2 DEF BuyOut, AtMost
  <2> QED
    BY <2>3, <2>4
<1> HIDE DEF gross
<1>6. fee \in Nat
  <2>1. CurveFee(gross, f) \in Nat
    BY <1>2, <1>5, CurveFeeBound
  <2>2. PoolFee(gross, f) \in Nat
    BY <1>2, <1>5, PoolFeeBound
  <2> QED
    BY <1>2, <1>4, <2>1, <2>2 DEF FeeOn, Saturating
<1> HIDE DEF fee
<1>7. expected \in Nat
  BY <1>5, <1>6 DEF Saturating
<1> HIDE DEF expected
<1>8. least \in Int
  BY <1>2, <1>7, LimitBound
<1> HIDE DEF least
<1>9. least > 0
  BY <1>1 DEF MinOutPositive
<1> QED
  BY <1>1, <1>2, <1>4, <1>5, <1>6, <1>7, <1>8, <1>9 DEF Quote

\* What Prepare makes of the trade.
LEMMA PreparedIs ==
  ASSUME TypeOK, IInv, RInv, Prepare
  PROVE  /\ cache' \in Fees /\ UNCHANGED <<chainVars, trade, unread, found, market, seen,
                                           truths, changed>>
         /\ \/ stage' = "error" /\ quote' = quote
            \/ stage' = "prepared" /\ quote' \in Quote /\ QuotedFrom(seen)'
<1> DEFINE q == ComputeQuote(market, seen, cache')
<1>1. cache' \in Fees
  BY NoFeesIsNoRate DEF Prepare, IInv
<1>2. UNCHANGED <<chainVars, trade, unread, found, market, seen, truths, changed>>
  BY DEF Prepare
<1>3. trade.amount > 0 /\ seen.quote \in Nat /\ stage = "fees"
  BY DEF Prepare, IInv, RInv
<1>4. MinOutPositive(q) => q \in Quote
  BY <1>1, <1>3, QuoteIsTyped
<1>5. CASE ~MinOutPositive(q)
  BY <1>1, <1>2, <1>5 DEF Prepare, Goto
<1>6. CASE MinOutPositive(q)
  <2>1. quote' = q /\ stage' = "prepared"
    BY <1>6 DEF Prepare, Goto
  <2>2. QuotedFrom(seen)'
    BY <1>2, <2>1 DEF QuotedFrom, ComputeQuote
  <2> QED
    BY <1>1, <1>2, <1>4, <1>6, <2>1, <2>2
<1> QED
  BY <1>5, <1>6

LEMMA TypeInductive ==
  ASSUME TypeOK, IInv, RInv, [Next]_vars
  PROVE  TypeOK'
<1>1. CASE UNCHANGED vars
  BY <1>1 DEF TypeOK, vars, chainVars, callVars
<1>2. ASSUME Moves PROVE moves' \in 0..MaxMoves
  BY <1>2, ConstantsAssumption DEF Moves, TypeOK
<1>3. Tradable \subseteq Markets \cup {NoMarket} /\ Tradable' \subseteq Markets \cup {NoMarket}
  BY DEF Tradable, Markets
<1>4. ASSUME NEW m, Remember(m)
      PROVE  /\ changed' \in BOOLEAN /\ truths' \subseteq Markets \cup {NoMarket}
             /\ UNCHANGED callVars
  BY <1>3, <1>4 DEF Remember, TypeOK
<1>5. CASE TradeOnCurve
  <2>1. changed' \in BOOLEAN /\ truths' \subseteq Markets \cup {NoMarket} /\ UNCHANGED callVars
    BY <1>4, <1>5 DEF TradeOnCurve
  <2> QED
    BY <1>2, <1>5, <2>1 DEF TradeOnCurve, callVars, TypeOK
<1>6. CASE Complete
  <2>1. changed' \in BOOLEAN /\ truths' \subseteq Markets \cup {NoMarket} /\ UNCHANGED callVars
    BY <1>4, <1>6 DEF Complete
  <2> QED
    BY <1>2, <1>6, <2>1 DEF Complete, callVars, TypeOK
<1>7. CASE Migrate
  <2>1. changed' \in BOOLEAN /\ truths' \subseteq Markets \cup {NoMarket} /\ UNCHANGED callVars
    BY <1>4, <1>7 DEF Migrate
  <2> QED
    BY <1>2, <1>7, <2>1 DEF Migrate, callVars, TypeOK
<1>8. CASE TradeOnPool
  <2>1. changed' \in BOOLEAN /\ truths' \subseteq Markets \cup {NoMarket} /\ UNCHANGED callVars
    BY <1>4, <1>8 DEF TradeOnPool
  <2> QED
    BY <1>2, <1>8, <2>1 DEF TradeOnPool, callVars, TypeOK
<1>9. CASE ChangeFees
  <2>1. changed' \in BOOLEAN /\ truths' \subseteq Markets \cup {NoMarket} /\ UNCHANGED callVars
    BY <1>4, <1>9 DEF ChangeFees
  <2> QED
    BY <1>2, <1>9, <2>1 DEF ChangeFees, callVars, TypeOK
<1>10. CASE Start
  BY <1>3, <1>10, TradeIs DEF Start, Goto, chainVars, TypeOK
<1>11. CASE \E m \in {"curve", "pool"} : FindRead(m)
  BY <1>11 DEF FindRead, chainVars, TypeOK, Markets
<1>12. CASE FindAnswer
  BY <1>12 DEF FindAnswer, Goto, chainVars, TypeOK, Markets
<1>13. CASE LoadCurve
  <2>1. market = "curve" \/ market = "otherCurve"
    BY <1>13 DEF LoadCurve, CurveLike
  <2>2. Held(market).base \in Nat /\ Held(market).quote \in Nat /\ Held(market).real \in Nat
    BY <2>1, HeldIs DEF Held
  <2>3. seen' \in [base : Nat, quote : Int, real : Nat, virtual : Int]
    BY <1>13, <2>2 DEF LoadCurve
  <2> QED
    BY <1>13, <2>3 DEF LoadCurve, Goto, chainVars, TypeOK
<1>14. CASE LoadPoolAccount
  <2>1. seen' = [base |-> 0, quote |-> 0, real |-> 0, virtual |-> Account(market).virtual]
    BY <1>14 DEF LoadPoolAccount, NoData
  <2>2. seen' \in [base : Nat, quote : Int, real : Nat, virtual : Int]
    BY <2>1, HeldIs
  <2> QED
    BY <1>14, <2>2 DEF LoadPoolAccount, Goto, chainVars, TypeOK
<1>15. ASSUME NEW v \in {"base", "vault"}, LoadVault(v) PROVE TypeOK'
  <2>1. seen' \in [base : Nat, quote : Int, real : Nat, virtual : Int]
    BY <1>15, HeldIs DEF LoadVault, TypeOK
  <2> QED
    BY <1>15, <2>1 DEF LoadVault, chainVars, TypeOK
<1>16. CASE LoadReserves
  <2>1. seen' \in [base : Nat, quote : Int, real : Nat, virtual : Int]
    BY <1>16 DEF LoadReserves, effective_quote_reserves, TypeOK
  <2> QED
    BY <1>16, <2>1 DEF LoadReserves, Goto, chainVars, TypeOK
<1>17. CASE Prepare
  BY <1>17, PreparedIs DEF chainVars, TypeOK
<1>18. CASE CallFails
  BY <1>18 DEF CallFails, Fail, Goto, chainVars, TypeOK
<1> QED
  BY <1>1, <1>5, <1>6, <1>7, <1>8, <1>9, <1>10, <1>11, <1>12, <1>13, <1>14, <1>15, <1>16,
     <1>17, <1>18 DEF Next

\* A move of the market under way is remembered; others leave it as it was.
LEMMA MoveKeepsReading ==
  ASSUME RInv, NEW m, Remember(m), Moves,
         m # market => (m = "curve" \/ curve' = curve) /\ (m = "pool" \/ pool' = pool)
  PROVE  RInv'
<1>1. UNCHANGED callVars /\ changed' = (changed \/ market = m) /\ stage # "prepared"
  BY DEF Remember, Moves
<1>2. CASE changed'
  BY <1>1, <1>2 DEF RInv, callVars
<1>3. CASE ~changed'
  <2>1. ~changed /\ market # m /\ market' = market
    BY <1>1, <1>3 DEF callVars
  <2>2. market \in PoolLike => Account(market)' = Account(market)
    BY <2>1 DEF PoolLike, Account
  <2>3. market \in CurveLike \cup PoolLike => Held(market)' = Held(market)
    <3>1. CASE market = "curve"
      BY <2>1, <3>1 DEF Held
    <3>2. CASE market = "otherCurve"
      BY <2>1, <3>2 DEF Held
    <3>3. CASE market \in PoolLike
      BY <2>1, <2>2, <3>3 DEF Held, PoolLike
    <3> QED
      BY <3>1, <3>2, <3>3 DEF CurveLike
  <2>4. stage' = "vaults" =>
          /\ market' \in PoolLike /\ seen'.virtual = Account(market)'.virtual
          /\ "base" \in unread' \/ seen'.base = Account(market)'.base
          /\ "vault" \in unread' \/ seen'.quote = Account(market)'.vault
    BY <1>1, <2>1, <2>2 DEF RInv, callVars
  <2>5. stage' = "fees" =>
          /\ market' \in CurveLike \cup PoolLike /\ seen'.quote \in Nat
          /\ SeenIs(Held(market))'
    BY <1>1, <2>1, <2>3 DEF RInv, callVars, SeenIs
  <2> QED
    BY <1>1, <2>4, <2>5 DEF RInv, callVars
<1> QED
  BY <1>2, <1>3

LEMMA ReadingInductive ==
  ASSUME TypeOK, IInv, RInv, [Next]_vars
  PROVE  RInv'
<1>1. CASE UNCHANGED vars
  BY <1>1 DEF RInv, SeenIs, QuotedFrom, Held, Account, vars, chainVars, callVars
<1>2. CASE TradeOnCurve
  BY <1>2, MoveKeepsReading DEF TradeOnCurve
<1>3. CASE Complete
  BY <1>3, MoveKeepsReading DEF Complete
<1>4. CASE Migrate
  BY <1>4, MoveKeepsReading DEF Migrate
<1>5. CASE TradeOnPool
  BY <1>5, MoveKeepsReading DEF TradeOnPool
<1>6. CASE ChangeFees
  BY <1>6, MoveKeepsReading DEF ChangeFees
<1>7. CASE Start \/ (\E m \in {"curve", "pool"} : FindRead(m)) \/ FindAnswer
  <2>1. stage' \notin {"vaults", "fees", "prepared"}
    BY <1>7 DEF Start, FindRead, FindAnswer, Goto
  <2> QED
    BY <2>1 DEF RInv
<1>8. CASE LoadCurve
  <2>1. /\ market \in CurveLike /\ stage' = "fees"
        /\ UNCHANGED <<market, curve, pool>>
        /\ seen' = [base |-> Held(market).base, quote |-> Held(market).quote,
                    real |-> Held(market).real, virtual |-> 0]
    BY <1>8 DEF LoadCurve, Goto, chainVars
  <2>2. Held(market)' = Held(market) /\ Held(market).quote \in Nat
    BY <2>1, HeldIs DEF Held, Account, CurveLike
  <2>3. SeenIs(Held(market))' /\ seen'.quote \in Nat
    BY <2>1, <2>2 DEF SeenIs
  <2> QED
    BY <2>1, <2>3 DEF RInv
<1>9. CASE LoadPoolAccount
  <2>1. seen'.virtual = Account(market)'.virtual
    BY <1>9 DEF LoadPoolAccount, Account, NoData, chainVars
  <2>2. stage' = "vaults" /\ market' \in PoolLike /\ unread' = {"base", "vault"}
    BY <1>9 DEF LoadPoolAccount, PoolAccepted, PoolLike, Goto
  <2> QED
    BY <2>1, <2>2 DEF RInv
<1>10. ASSUME NEW v \in {"base", "vault"}, LoadVault(v) PROVE RInv'
  <2>1. /\ stage = "vaults" /\ stage' = "vaults" /\ unread' = unread \ {v}
        /\ UNCHANGED <<market, pool, changed>> /\ Account(market)' = Account(market)
        /\ seen' = IF v = "base" THEN [seen EXCEPT !.base = Account(market).base]
                                 ELSE [seen EXCEPT !.quote = Account(market).vault]
    BY <1>10 DEF LoadVault, Account, chainVars
  <2>2. seen \in [base : Nat, quote : Int, real : Nat, virtual : Int]
    BY DEF TypeOK
  <2>3. CASE v = "base"
    <3>1. /\ seen'.base = Account(market).base /\ seen'.quote = seen.quote
          /\ seen'.virtual = seen.virtual
      BY <2>1, <2>2, <2>3
    <3> QED
      BY <2>1, <2>3, <3>1 DEF RInv
  <2>4. CASE v = "vault"
    <3>1. /\ seen'.quote = Account(market).vault /\ seen'.base = seen.base
          /\ seen'.virtual = seen.virtual
      BY <2>1, <2>2, <2>4
    <3> QED
      BY <2>1, <2>4, <3>1 DEF RInv
  <2> QED
    BY <2>3, <2>4
<1>11. CASE LoadReserves
  <2>1. /\ stage = "vaults" /\ stage' = "fees" /\ unread = {}
        /\ UNCHANGED <<market, curve, pool, changed>>
        /\ seen.quote + seen.virtual >= 0
        /\ seen' = [seen EXCEPT !.quote = seen.quote + seen.virtual]
    BY <1>11 DEF LoadReserves, effective_quote_reserves, Goto, chainVars
  <2>2. seen \in [base : Nat, quote : Int, real : Nat, virtual : Int]
    BY DEF TypeOK
  <2>3. seen'.quote = seen.quote + seen.virtual /\ seen'.base = seen.base
    BY <2>1, <2>2
  <2>4. seen'.quote \in Nat /\ market \in PoolLike
    BY <2>1, <2>2, <2>3 DEF RInv
  <2>5. ~changed => SeenIs(Held(market))'
    BY <2>1, <2>3, <2>4 DEF RInv, SeenIs, Held, Account, CurveLike, PoolLike
  <2> QED
    BY <2>1, <2>4, <2>5 DEF RInv
<1>12. CASE Prepare
  <2>1. /\ UNCHANGED <<curve, pool, market, seen, changed>>
        /\ \/ stage' = "error"
           \/ stage' = "prepared" /\ quote' \in Quote /\ QuotedFrom(seen)'
    BY <1>12, PreparedIs DEF chainVars
  <2>2. stage = "fees"
    BY <1>12 DEF Prepare
  <2>3. Held(market)' = Held(market)
    BY <2>1 DEF Held, Account
  <2>4. /\ market' \in CurveLike \cup PoolLike /\ seen'.quote \in Nat
        /\ ~changed' => SeenIs(Held(market))'
    BY <2>1, <2>2, <2>3 DEF RInv, SeenIs
  <2> QED
    BY <2>1, <2>4 DEF RInv
<1>13. CASE CallFails
  <2>1. stage' = "error"
    BY <1>13 DEF CallFails, Fail, Goto
  <2> QED
    BY <2>1 DEF RInv
<1> QED
  BY <1>1, <1>2, <1>3, <1>4, <1>5, <1>6, <1>7, <1>8, <1>9, <1>10, <1>11, <1>12, <1>13
     DEF Next

LEMMA ReadingInvariance == Spec => [](TypeOK /\ IInv /\ RInv)
<1>1. Init => TypeOK /\ RInv
  <2> SUFFICES ASSUME Init PROVE TypeOK /\ RInv
    OBVIOUS
  <2>1. moves \in 0..MaxMoves /\ seen \in [base : Nat, quote : Int, real : Nat, virtual : Int]
    BY ConstantsAssumption DEF Init, NoData
  <2> QED
    BY <2>1 DEF Init, TypeOK, RInv
<1>2. TypeOK /\ IInv /\ RInv /\ [Next]_vars => TypeOK' /\ RInv'
  BY TypeInductive, ReadingInductive
<1> QED
  BY <1>1, <1>2, Initially, Inductive, PTL DEF Spec

\* Every variable has its type: no quote is negative, though a pool's virtual
\* reserves are and a buy of one unit has nothing left to pay in.
THEOREM TypeCorrect == Spec => []TypeOK
BY ReadingInvariance, PTL

\* A market that did not change while its parts were read pays what was quoted
\* and not a unit more, whatever it holds: a sale, a buy from a pool, and a buy
\* from a curve for the documented net_sol - 1 or one lamport more.  The limit
\* sent with the swap is within the slippage.
THEOREM QuotesAreExact == Spec => []QuoteIsExact
<1>1. TypeOK /\ IInv /\ RInv => QuoteIsExact
  <2> DEFINE net == IdlNet(trade.amount, quote.rates)
             paid == Priced(market, quote.into)
  <2> SUFFICES ASSUME TypeOK, IInv, RInv, stage = "prepared", ~changed
               PROVE  /\ trade.side = "Sell" => MostItPays(market, trade.amount, quote.gross)
                      /\ trade.side = "Buy" =>
                           /\ MostItPays(market, paid, quote.gross)
                           /\ market \in CurveLike =>
                                \E more \in {0, 1} : paid = net + more
                      /\ quote.min_out * BasisPoints
                           >= quote.expected_out * (BasisPoints - trade.slippage)
    <3> HIDE DEF net, paid
    <3> QED
      BY TradeIs DEF QuoteIsExact, net, paid
  <2>1. /\ market \in CurveLike \cup PoolLike /\ SeenIs(Held(market))
        /\ quote \in Quote /\ QuotedFrom(seen)
    BY DEF RInv
  <2>2. /\ quote.into \in Nat /\ quote.gross \in Nat /\ quote.fee \in Nat
        /\ quote.expected_out \in Nat /\ quote.min_out \in Nat /\ quote.min_out > 0
    BY <2>1 DEF Quote
  <2>3. trade.amount \in Nat /\ trade.slippage \in Nat /\ trade.side \in {"Buy", "Sell"}
    BY TradeIs
  <2>4. /\ quote.min_out = slippage_down(quote.expected_out, trade.slippage)
        /\ quote.min_out <= quote.expected_out
        /\ quote.min_out * BasisPoints >= quote.expected_out * (BasisPoints - trade.slippage)
    <3>1. quote.min_out = slippage_down(quote.expected_out, trade.slippage)
      BY <2>1 DEF QuotedFrom
    <3> QED
      BY <2>2, <2>3, <3>1, LimitBound
  <2>5. quote.gross > 0
    BY <2>1, <2>2, <2>3, <2>4 DEF QuotedFrom, Saturating
  <2> DEFINE h == Held(market)
  <2>6. /\ seen.base = h.base /\ seen.quote = h.quote
        /\ market \in CurveLike => seen.real = h.real
        /\ market \in PoolLike => h.real = h.base
        /\ seen.base \in Nat /\ seen.quote \in Nat /\ seen.real \in Nat
    BY <2>1 DEF SeenIs, Held, CurveLike, PoolLike, RInv, TypeOK
  <2>7. CASE trade.side = "Buy"
    <3> DEFINE in == Priced(market, quote.into)
               out == base_out_for_quote_in(seen.quote, seen.base, in)
    <3>1. in \in Nat
      BY <2>2 DEF Priced, Saturating
    <3>2. quote.gross = IF market \in CurveLike THEN AtMost(out, seen.real) ELSE out
      BY <2>1, <2>7 DEF QuotedFrom, BuyOut
    <3>3. out \in Nat
      <4> HIDE DEF in
      <4>1. /\ quote_out_for_base_in(seen.base, seen.quote, in) = out
            /\ quote_out_for_base_in(seen.base, seen.quote, in) \in Nat
        BY <2>6, <3>1, SaleIsBuy
      <4> QED
        BY <4>1
    <3> HIDE DEF out
    <3>4. out > 0
      BY <2>2, <2>5, <2>6, <3>2, <3>3 DEF AtMost
    <3>5. \A n \in Nat : Pays(seen.quote, seen.base, in, n) <=> n <= out
      <4> HIDE DEF in
      <4> QED
        BY <2>6, <3>1, <3>4, OutIsMost DEF out
    <3> HIDE DEF in
    <3>6. quote.gross <= seen.base
      <4>1. Pays(seen.quote, seen.base, in, out)
        BY <3>3, <3>5
      <4>2. out <= seen.base
        BY <4>1 DEF Pays
      <4> QED
        BY <2>2, <2>6, <3>2, <3>3, <4>2 DEF AtMost
    <3>7. quote.gross + 1 \in Nat
      BY <2>2
    <3>8. Pays(seen.quote, seen.base, in, quote.gross) <=> quote.gross <= out
      BY <2>2, <3>5
    <3>9. Pays(seen.quote, seen.base, in, quote.gross + 1) <=> quote.gross + 1 <= out
      BY <3>5, <3>7
    <3>10. quote.gross <= h.real /\ Pays(h.quote, h.base, in, quote.gross)
      BY <2>1, <2>2, <2>6, <3>2, <3>3, <3>6, <3>8 DEF AtMost
    <3>11. ~(quote.gross + 1 <= h.real /\ Pays(h.quote, h.base, in, quote.gross + 1))
      BY <2>1, <2>2, <2>6, <3>2, <3>3, <3>9 DEF AtMost
    <3>12. MostItPays(market, in, quote.gross)
      BY <2>7, <3>10, <3>11 DEF MostItPays
    <3>13. ASSUME market \in CurveLike PROVE \E more \in {0, 1} : paid = net + more
      <4>1. /\ Rated /\ quote.rates \in Fees
            /\ quote.into = SolIntoCurve(trade.amount, quote.rates) /\ trade.amount > 0
        BY <2>7, <3>13 DEF IInv, Into
      <4>2. quote.into - net \in 0..1 /\ paid = quote.into
        BY <2>3, <3>13, <4>1, NearIdlNet DEF Priced
      <4>3. net \in Int
        BY <2>3, <4>1, IdlNetIs
      <4> HIDE DEF net, paid
      <4> QED
        BY <2>2, <4>2, <4>3
    <3> QED
      BY <2>4, <2>7, <3>12, <3>13 DEF in
  <2>8. CASE trade.side = "Sell"
    <3> DEFINE out == base_out_for_quote_in(seen.base, seen.quote, trade.amount)
    <3>1. quote.gross = out
      <4>1. quote.gross = quote_out_for_base_in(seen.quote, seen.base, trade.amount)
        BY <2>1, <2>8 DEF QuotedFrom
      <4> QED
        BY <2>3, <2>6, <4>1, SaleIsBuy
    <3>2. \A n \in Nat : Pays(seen.base, seen.quote, trade.amount, n) <=> n <= out
      BY <2>3, <2>5, <2>6, <3>1, OutIsMost
    <3> HIDE DEF out
    <3>3. quote.gross + 1 \in Nat /\ ~(quote.gross + 1 <= out) /\ quote.gross <= out
      BY <2>2, <3>1
    <3>4. /\ Pays(seen.base, seen.quote, trade.amount, quote.gross)
          /\ ~Pays(seen.base, seen.quote, trade.amount, quote.gross + 1)
      BY <2>2, <3>2, <3>3
    <3>5. MostItPays(market, trade.amount, quote.gross)
      BY <2>6, <2>8, <3>4 DEF MostItPays
    <3> QED
      BY <2>4, <2>8, <3>5
  <2> QED
    BY <2>3, <2>7, <2>8
<1> QED
  BY <1>1, ReadingInvariance, PTL
=============================================================================
