------------------------ MODULE MCBalancesRebalancer ------------------------
(* A USD coin, a coin others are quoted in and are sold for, and one bought for both. *)
EXTENDS BalancesRebalancer, TLC

CONSTANTS BUSD, EUR, BTC

MCCoins == {BUSD, EUR, BTC}
MCUsdCoins == {BUSD}
MCMarkets == {<<EUR, BUSD>>, <<BTC, BUSD>>, <<BTC, EUR>>}
Prices(eur, btc) == (BUSD :> 1 @@ EUR :> eur @@ BTC :> btc)
MCDeposit == (BUSD :> 8 @@ EUR :> 2 @@ BTC :> 0)
MCOpening == Prices(2, 4)
MCQuotes == {Prices(2, 4), Prices(2, 1)}
=============================================================================
