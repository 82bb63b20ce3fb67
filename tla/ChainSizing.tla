---------------------------- MODULE ChainSizing ----------------------------
(***************************************************************************)
(* One chain of TradeManager sized against balances that do not move while *)
(* it is (TradeManager.tla lets them move): _shrink_volumes_according_to_  *)
(* balances, _create_orders and the rounding to ticks and lots, for every  *)
(* chain and every balances of a small range, on the grid or off it.       *)
(***************************************************************************)
EXTENDS OrderSizing

CONSTANTS Coins,                \* of the triangle, three of them, as a sequence
          Volumes, Prices, Rois, Amounts   \* ranges of the inputs

ASSUME InputAssumption ==
  /\ Coins \in Seq({Coins[i] : i \in DOMAIN Coins})
  /\ Volumes \subseteq Nat \ {0} /\ Prices \subseteq Nat \ {0}
  /\ Rois \subseteq 1..RoiDen    /\ Amounts \subseteq Nat
  /\ \A i, j \in DOMAIN Coins : <<Coins[i], Coins[j]>> \in DOMAIN Limits

Legs == DOMAIN Coins

VARIABLES steps, roi, balances,  \* the inputs
          scanned,               \* how many legs the shrink loop has looked at
          worst,                 \* max_step_volume_to_balance_ratio
          orders                 \* << >> until they are created

vars == <<steps, roi, balances, scanned, worst, orders>>

\* Leg i of a triangular chain spends coin i and gets the next one.
Leg(i, buy, price, volume) ==
  LET spent == Coins[i]
      got == Coins[(i % Len(Coins)) + 1]
  IN [base |-> IF buy THEN got ELSE spent, quote |-> IF buy THEN spent ELSE got,
      buy |-> buy, price |-> price, volume |-> volume]

Init ==
  /\ \E buy \in [Legs -> BOOLEAN], price \in [Legs -> Prices], volume \in [Legs -> Volumes] :
       steps = [i \in Legs |-> Leg(i, buy[i], price[i], volume[i])]
  /\ roi \in Rois
  /\ balances \in [{Coins[i] : i \in Legs} -> Amounts]
  /\ scanned = 0
  /\ worst = NoRatio
  /\ orders = << >>

Scan ==
  /\ scanned < Len(steps)
  /\ scanned' = scanned + 1
  /\ worst' = Binding(worst, steps[scanned'], balances[SpendingCoin(steps[scanned'])])
  /\ UNCHANGED <<steps, roi, balances, orders>>

Create ==
  /\ scanned = Len(steps) /\ orders = << >>
  /\ orders' = OrdersFor(steps, roi, worst)
  /\ UNCHANGED <<steps, roi, balances, scanned, worst>>

Next == Scan \/ Create

Spec == Init /\ [][Next]_vars

-----------------------------------------------------------------------------
Created == orders # << >>
BalanceOf(i) == balances[SpendingCoin(steps[i])]
Lot(i) == LimitsOf(steps[i]).MIN_VOLUME_STEP
PriceTick(i) == LimitsOf(steps[i]).MIN_PRICE_STEP
\* What a quantity of leg i spends at the price the chain was found with.
AtQuote(i, quantity) == IF steps[i].buy THEN quantity * steps[i].price ELSE quantity

\* Measured at the price the chain was found with, no order proposes more than the
\* allowed share of its balance, but for the half lot the rounding may add.  (A
\* balance of 0 is not looked at: the loop "hopes for the better".)
WithinRatioAtQuote ==
  Created => \A i \in Legs :
    BalanceOf(i) > 0 =>
      2 * RatioDen * AtQuote(i, orders[i].quantity)
        <= 2 * RatioNum * BalanceOf(i) + RatioDen * AtQuote(i, Lot(i))

\* All legs are cut by one and the same factor: the quantities keep the
\* proportions of the volumes the chain was found with, up to half a lot each.
LegsStayMatched ==
  Created => \A i, j \in Legs :
    2 * (orders[i].quantity * steps[j].volume - orders[j].quantity * steps[i].volume)
      <= Lot(i) * steps[j].volume + Lot(j) * steps[i].volume

\* The cut is no deeper than the scarcest balance demands: when a quantity is
\* reduced by more than the rounding to the lot may, some leg was over its share
\* and now uses it up to half a lot.
CutIsNeeded ==
  Created /\ (\E i \in Legs : 2 * orders[i].quantity + Lot(i) < 2 * steps[i].volume)
    => \E i \in Legs :
         /\ RatioDen * Propose(steps[i]) > RatioNum * BalanceOf(i)
         /\ RatioDen * AtQuote(i, 2 * orders[i].quantity + Lot(i)) >= 2 * RatioNum * BalanceOf(i)

\* The break-even heuristic gives away no more than the roi of the chain on each
\* leg, and asks for no better price than the chain was found with, up to the half
\* tick the rounding moves the price either way.
PriceConcedesAtMostRoi ==
  Created => \A i \in Legs :
    LET conceded == IF steps[i].buy THEN orders[i].price - steps[i].price
                                    ELSE steps[i].price - orders[i].price
    IN /\ 2 * conceded >= -PriceTick(i)
       /\ 2 * RoiDen * conceded <= 2 * roi * steps[i].price + RoiDen * PriceTick(i)
=============================================================================
