--------------------------- MODULE MCPumpMarkets ---------------------------
(* An instance of PumpMarkets for TLC. *)
EXTENDS PumpMarkets

Curve(b, q, r) == [base |-> b, quote |-> q, real |-> r]
PoolOf(b, v, virtual) == [base |-> b, vault |-> v, virtual |-> virtual]
Rates(lp, protocol, creator) ==
  [lp |-> lp, protocol |-> protocol, creator |-> creator]

\* The second curve has few real tokens left.
CurveSet == {Curve(100, 30, 80), Curve(60, 50, 12)}
OtherMintCurve == Curve(70, 40, 60)
SidePoolOf == PoolOf(45, 20, 0)

\* Older pools have no virtual reserves; the last one's are not covered.
PoolSet == {PoolOf(50, 40, 0), PoolOf(70, 25, 12), PoolOf(40, 30, -8),
            PoolOf(40, 5, -9)}
FeeSet == {Rates(1, 1, 1), Rates(0, 2, 1)}

TradeSet ==
  {[side |-> side, amount |-> amount, slippage |-> s, settlement |-> "Sol",
    named |-> m] :
     side \in {"Buy", "Sell"}, amount \in {1, 2, 17, 24}, s \in {0, 3},
     m \in {"curve", "pool"}}
  \cup
  {[side |-> side, amount |-> 24, slippage |-> 3, settlement |-> "Sol",
    named |-> m] :
     side \in {"Buy", "Sell"}, m \in Markets \cup {NoMarket}}
  \cup
  {[side |-> "Buy", amount |-> amount, slippage |-> s, settlement |-> settlement,
    named |-> "curve"] :
     amount \in {0, 24}, s \in {0, 10}, settlement \in {"Sol", "Usdc"}}
=============================================================================
