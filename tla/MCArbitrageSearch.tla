------------------------- MODULE MCArbitrageSearch -------------------------
(* The triangle USD-BTC-ETH, a market with a coin that is not traded, and a  *)
(* symbol listed after the start.  Every market shows the same book, on      *)
(* which it is profitable to be paid twice and pay once.                     *)
EXTENDS ChainStore

Market(base_, quote_) == [base |-> base_, quote |-> quote_]

OneTriangle ==
  "BTCUSD" :> Market("BTC", "USD") @@ "ETHBTC" :> Market("ETH", "BTC")
    @@ "ETHUSD" :> Market("ETH", "USD") @@ "TRYUSD" :> Market("TRY", "USD")

MCCoins == {"BTC", "ETH", "USD"}
MCUsd == {"USD"}

MCBooks == {[bid |-> <<8, 1>>, bidQuantity |-> <<2, 1>>,
             ask |-> <<10, 1>>, askQuantity |-> <<2, 1>>]}

NoFees == << >>
HalfFee == <<1, 2>>
New == {"NEW"}
=============================================================================
