---------------------------- MODULE OrderSizing ----------------------------
(***************************************************************************)
(* How TradeManager turns an arbitrage chain into limit orders: shrink all *)
(* volumes by the scarcest balance, move every price to the break-even     *)
(* one, round to the market's tick and lot, refuse orders too small.       *)
(*                                                                         *)
(* Volumes, balances and prices are counted in one small unit each, of     *)
(* which a market's tick and lot are multiples: the volumes the search     *)
(* finds are on no lot, nor are its prices on a tick, as they hold the fee *)
(* (arby.py:131).  The code divides floats; here a ratio is a pair [n, d]  *)
(* of integers with d > 0: nothing is lost before the code itself rounds.  *)
(***************************************************************************)
EXTENDS Rounding, Sequences

CONSTANTS RatioNum, RatioDen,  \* MAX_BALANCE_RATIO_PER_SINGLE_ORDER (9 and 10)
          RoiDen,              \* a chain's roi is chain.roi / RoiDen
          Limits               \* <<base, quote>> -> BinanceExchangeLimitations.limits

ASSUME SizingAssumption ==
  /\ RatioNum \in Nat \ {0} /\ RatioDen \in Nat /\ RatioNum <= RatioDen
  /\ RoiDen \in Nat \ {0}
  /\ \A market \in DOMAIN Limits :
       /\ Limits[market].MIN_PRICE_STEP \in Nat \ {0}
       /\ Limits[market].MIN_VOLUME_STEP \in Nat \ {0}
       /\ Limits[market].MIN_NOTIONAL \in Nat

\* On market base/quote a BUY spends the quote coin, a SELL the base coin.
SpendingCoin(step) == IF step.buy THEN step.quote ELSE step.base

GettingCoin(step) == IF step.buy THEN step.base ELSE step.quote

\* AChainStep.get_what_we_propose_volume: volumes are in base coin.
Propose(step) == IF step.buy THEN step.volume * step.price ELSE step.volume

NoRatio == [n |-> 0, d |-> 1]
Ratio(step, balance) == [n |-> Propose(step), d |-> balance]
Exceeds(r, s) == r.n * s.d > s.n * r.d
MaxRatio == [n |-> RatioNum, d |-> RatioDen]

\* Mutant of Binding: the last step over the limit instead of the worst one.
BindingLast(worst, step, balance) ==
  IF balance > 0 /\ Exceeds(Ratio(step, balance), MaxRatio)
  THEN Ratio(step, balance) ELSE worst

\* One round of the loop that looks for the largest ratio of proposed volume to
\* balance, among those over the limit.  A balance of 0 is skipped ("hope for
\* the better"), one below 0 gives a ratio below the limit.
Binding(worst, step, balance) ==
  IF /\ balance > 0
     /\ Exceeds(Ratio(step, balance), MaxRatio)
     /\ Exceeds(Ratio(step, balance), worst)
  THEN Ratio(step, balance) ELSE worst

\* What the volumes are divided by, worst / MaxRatio, upside down.
ShrinkFactor(worst) ==
  IF worst.n = 0 THEN [n |-> 1, d |-> 1]
  ELSE [n |-> RatioNum * worst.d, d |-> RatioDen * worst.n]

LimitsOf(x) == Limits[<<x.base, x.quote>>]

\* n / d to the nearest multiple of a unit.  to_decimal keeps the digits the step is
\* written with, so the units in Limits are powers of ten: the step where it is one
\* and below 1, a tenth where it is whole ("1.0").
ToStep(n, d, unit) == unit * RoundHalfEven(n, d * unit)

\* The volume, cut or not, to the lot of the market.
Quantity(step, worst) ==
  ToStep(step.volume * ShrinkFactor(worst).n, ShrinkFactor(worst).d, LimitsOf(step).MIN_VOLUME_STEP)

\* Mutant of BreakEvenPrice: the sides swapped.
BreakEvenPriceSwapped(step, roi) ==
  ToStep(step.price * (IF step.buy THEN RoiDen - roi ELSE RoiDen + roi), RoiDen,
         LimitsOf(step).MIN_PRICE_STEP)

\* _calc_break_even_price, pay more, ask for less, to the tick of the market.
BreakEvenPrice(step, roi) ==
  ToStep(step.price * (IF step.buy THEN RoiDen + roi ELSE RoiDen - roi), RoiDen,
         LimitsOf(step).MIN_PRICE_STEP)

OrderFor(step, roi, worst) ==
  [base |-> step.base, quote |-> step.quote, buy |-> step.buy,
   price |-> BreakEvenPrice(step, roi), quantity |-> Quantity(step, worst)]

OrdersFor(steps, roi, worst) == [i \in DOMAIN steps |-> OrderFor(steps[i], roi, worst)]

\* Order.get_what_we_propose_volume, and what a full fill brings in.
Spend(order) == IF order.buy THEN order.quantity * order.price ELSE order.quantity
Gain(order) == IF order.buy THEN order.quantity ELSE order.quantity * order.price

\* check_meets_exchange_filters, for all orders of the chain.
MeetFilters(orders) ==
  \A i \in DOMAIN orders : orders[i].quantity * orders[i].price >= LimitsOf(orders[i]).MIN_NOTIONAL
=============================================================================
