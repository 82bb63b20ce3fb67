--------------------------- MODULE MCTradeManager ---------------------------
(* Three chains over a triangle of coins.  c1 and c2 are two sightings of    *)
(* one opportunity (same markets, same roi), but c2's volume is too small to *)
(* be worth it; c1 is cut by the balances; c3 goes round the triangle the    *)
(* other way and takes as much of each coin as a single order may, so that   *)
(* the second of the two gets its orders only if a refresh comes between.    *)
EXTENDS TradeManager, TLC

CONSTANTS A, B, C

MCCoins == {A, B, C}

Sell(base_, quote_, price, volume) ==
  [base |-> base_, quote |-> quote_, buy |-> FALSE, price |-> price, volume |-> volume]
Buy(base_, quote_, price, volume) ==
  [base |-> base_, quote |-> quote_, buy |-> TRUE, price |-> price, volume |-> volume]

Chain(uid, path, roi, profit, profitable, steps) ==
  [uid |-> uid, path |-> path, roi |-> roi, profit |-> profit,
   profitable |-> profitable, steps |-> steps]

Round(volume) == <<Sell(A, B, 2, volume), Buy(C, B, 2, volume), Sell(C, A, 1, volume)>>
c1 == Chain("c1", "ABC", 1, 3, TRUE, Round(20))
c2 == Chain("c2", "ABC", 1, 2, FALSE, Round(2))
c3 == Chain("c3", "ACB", 2, 1, TRUE, <<Buy(C, A, 1, 9), Sell(C, B, 2, 9), Buy(A, B, 2, 9)>>)

MCKeys == {<<"ABC", 1>>, <<"ACB", 2>>}
MCLimits ==
  [m \in MCCoins \X MCCoins |->
     [MIN_PRICE_STEP |-> 1, MIN_VOLUME_STEP |-> IF m[1] = A THEN 2 ELSE 1, MIN_NOTIONAL |-> 2]]
MCMarketOrders == {[spends |-> B, spend |-> 8, gets |-> A, gain |-> 4]}
MCDeposit == (A :> 10 @@ B :> 20 @@ C :> 10)

TwoSightings == {c1, c2}
Opposite == {c1, c3}
=============================================================================
