--------------------------- MODULE MCChainSizing ---------------------------
(* Every triangular chain over small volumes, prices and balances, most of   *)
(* them between the lots and ticks of their market, which differ by market.  *)
EXTENDS ChainSizing

CONSTANTS A, B, C

MCCoins == <<A, B, C>>
MCVolumes == {3, 10}
MCPrices == {1, 5}
MCRois == {1}
MCAmounts == {0, 2, 5, 8, 24}
MCLimits ==
  [m \in {A, B, C} \X {A, B, C} |->
     [MIN_PRICE_STEP |-> IF m[2] = A THEN 4 ELSE 2,
      MIN_VOLUME_STEP |-> IF m[1] = C THEN 1 ELSE 4,
      MIN_NOTIONAL |-> 0]]
=============================================================================
