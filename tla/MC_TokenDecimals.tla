-------------------------- MODULE MC_TokenDecimals --------------------------
(* An instance of TokenDecimals for TLC: the restore asks for both tokens, *)
(* and two handlers for one of them, in two spellings.                     *)
EXTENDS TokenDecimals, TLC

CONSTANTS weth, usdc, restore1, restore2, handler1, handler2

Addresses ==
    (restore1 :> [token |-> weth, spelling |-> "checksum"]) @@
    (restore2 :> [token |-> usdc, spelling |-> "checksum"]) @@
    (handler1 :> [token |-> weth, spelling |-> "checksum"]) @@
    (handler2 :> [token |-> weth, spelling |-> "lower"])

Retries == [c \in Callers |-> IF c \in {restore1, restore2} THEN 3 ELSE 1]
=============================================================================
