-------------------------- MODULE MCTriangleVolume --------------------------
(* Narrow and wide spreads, empty and thin sides of the book, a fee of 1/2    *)
(* (large, to keep the numbers small).                                        *)
EXTENDS TriangleVolume

Ticker(bid, bidQuantity, ask, askQuantity) ==
  [bid |-> <<bid, 1>>, bidQuantity |-> <<bidQuantity, 1>>,
   ask |-> <<ask, 1>>, askQuantity |-> <<askQuantity, 1>>]

MCTickers ==
  {Ticker(p[1], q[1], p[2], q[2]) :
     p \in {<<1, 2>>, <<2, 3>>, <<6, 7>>}, q \in {<<0, 2>>, <<1, 1>>, <<3, 2>>}}

NoFees == << >>
HalfFee == <<1, 2>>
MCUsdPrices == {<<2, 1>>}
=============================================================================
