--------------------------- MODULE MC_OrderBook ----------------------------
(* An instance of OrderBook for TLC: all orders are alice's.               *)
EXTENDS OrderBook, TLC

CONSTANTS alice, weth, usdc

AliceOwns == [o \in Orders |-> alice]

\* Orders of other pairs are never candidates for one request.
OneWay == {<<weth, usdc>>}

Symmetry == Permutations(Orders)
=============================================================================
