---------------------------- MODULE MCEvmQuotes ----------------------------
(* An instance of EvmQuotes for TLC. *)
EXTENDS EvmQuotes

At(version, token, eth, kept) ==
  [version |-> version, token |-> token, eth |-> eth, kept |-> kept,
   hookless |-> TRUE, official |-> TRUE, standard |-> TRUE, minted |-> TRUE]

\* Official pools of both orders, and for each check a pool that fails it.
V2Pair   == At("V2", "a", "WETH", 9)
V3Pool   == At("V3", "a", "WETH", 8)
V4Native == At("V4", "a", "native", 10)
V4Weth   == [At("V4", "a", "WETH", 8) EXCEPT !.minted = FALSE]
PoolSet ==
  {V2Pair, V3Pool, V4Native, V4Weth,
   At("V2", "b", "WETH", 9), At("V3", "b", "WETH", 10),
   [At("V4", "b", "native", 9) EXCEPT !.standard = FALSE],
   [At("V2", "a", "WETH", 9) EXCEPT !.official = FALSE],
   At("V3", "a", "none", 8), At("V4", "a", "both", 8),
   [At("V4", "a", "native", 8) EXCEPT !.hookless = FALSE]}

R(r0, r1) == [r0 |-> r0, r1 |-> r1]
ReserveSet == {R(0, 0), R(20, 60), R(50, 30), R(40, 40)}
MarketSet ==
  {[p \in PoolSet |-> R(40, 40)],
   [p \in PoolSet |-> IF p.version = "V3" THEN R(20, 60) ELSE R(50, 30)],
   [p \in PoolSet |-> CASE p \in {V4Weth, At("V2", "b", "WETH", 9)} -> R(0, 0)
                        [] p = V2Pair -> R(20, 60)
                        [] OTHER -> R(40, 40)]}

UniswapTrades ==
  {[direction |-> d, token |-> t, amount |-> amount, slippage |-> s,
    fee |-> f, pool |-> p] :
     d \in Directions, t \in {"a", "b"}, amount \in {7, 24}, s \in {0, 2},
     f \in {0, 1, 3}, p \in PoolSet}
  \cup
  {[direction |-> d, token |-> t, amount |-> 24, slippage |-> 2,
    fee |-> 1, pool |-> NoPool] :
     d \in Directions, t \in {"a", "b"}}
  \cup
  {[direction |-> d, token |-> "a", amount |-> amount, slippage |-> s,
    fee |-> 0, pool |-> V2Pair] :
     d \in {"Buy", "Neither"}, amount \in {0, 1}, s \in {0, 10}}

RelayTrades ==
  {[direction |-> d, token |-> "a", amount |-> amount, slippage |-> s,
    fee |-> f, pool |-> NoPool] :
     d \in {"Buy", "Neither"}, amount \in {0, 7}, s \in {0, 3, 10},
     f \in {0, 3}}
TradeSet == UniswapTrades \cup RelayTrades

OutputSet == 0..8

\* Relay reads neither pools nor the pool of a trade.
MCInit ==
  /\ EvmInit
  /\ IF source = "Relay"
       THEN trade \in RelayTrades /\ reserves = [p \in PoolSet |-> R(40, 40)]
       ELSE trade \in UniswapTrades

MCSpec == MCInit /\ [][EvmNext]_allVars
=============================================================================
