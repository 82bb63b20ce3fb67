------------------------- MODULE MCBalancesChecker -------------------------
(* A USD coin and one other, worth 10 together at the start; the other coin    *)
(* halves or doubles.  A fall by a fifth, to 8, is the threshold.              *)
EXTENDS BalancesChecker, TLC

CONSTANTS BUSD, BTC

MCCoins == {BUSD, BTC}
MCUsdCoins == {BUSD}
MCTraded == {BTC}
MCDeposit == (BUSD :> 6 @@ BTC :> 2)
Rate(r) == (BUSD :> 1 @@ BTC :> r)
MCQuotes == {Rate(1), Rate(2), Rate(4)}
MCOpening == Rate(2)
=============================================================================
