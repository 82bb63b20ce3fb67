---------------------------- MODULE TriangleMath ----------------------------
(***************************************************************************)
(* How PetroniusArbiter prices a triangle A -> B -> C -> A from the best   *)
(* bid and ask of its three markets: one AChainStep per market with the    *)
(* trade fee in its price, the roi, and the volumes ArbyUtils brings into  *)
(* line with each other.                                                   *)
(*                                                                         *)
(* The code computes in floats; here a number is a pair <<n, d>>, n / d in *)
(* lowest terms with d > 0: equal numbers are equal pairs.                 *)
(***************************************************************************)
EXTENDS Integers, Sequences

CONSTANTS Fees,       \* get_trade_fees(): some markets |-> their fee
          DefaultFee  \* get_default_trade_fee()

\* A function, so that TLC computes an argument once however often it is used.
Number == Int \X (Nat \ {0})
\* The least k for which x is m / k for some m.
IsDenominator(x, k) == (x[1] * k) % x[2] = 0
denominator[x \in Number] ==
  CHOOSE k \in 1..x[2] : IsDenominator(x, k) /\ \A j \in 1..(k - 1) : ~IsDenominator(x, j)
reduced[x \in Number] == <<(x[1] * denominator[x]) \div x[2], denominator[x]>>
LowestTerms == {x \in Number : reduced[x] = x}

Zero == <<0, 1>>
One == <<1, 1>>
Times(x, y) == reduced[<<x[1] * y[1], x[2] * y[2]>>]
Over(x, y) == reduced[<<x[1] * y[2], x[2] * y[1]>>]
Minus(x, y) == reduced[<<x[1] * y[2] - y[1] * x[2], x[2] * y[2]>>]
Plus(x, y) == Minus(x, Minus(Zero, y))
Below(x, y) == x[1] * y[2] < y[1] * x[2]
AtMost(x, y) == ~Below(y, x)
Least(x, y) == IF Below(y, x) THEN y ELSE x

\* A fee is taken out of what is traded: less than the whole of it.
ASSUME FeesAssumption ==
  \A fee \in {DefaultFee} \cup {Fees[m] : m \in DOMAIN Fees} :
    fee \in LowestTerms /\ AtMost(Zero, fee) /\ Below(fee, One)

\* What an exchange shows of a market, Ticker in the code: best bid and ask.
IsTicker(t) ==
  /\ {t.bid, t.ask, t.bidQuantity, t.askQuantity} \subseteq LowestTerms
  /\ Below(Zero, t.bid) /\ Below(t.bid, t.ask)
  /\ AtMost(Zero, t.bidQuantity) /\ AtMost(Zero, t.askQuantity)

-----------------------------------------------------------------------------
TradeFee(market) == IF market \in DOMAIN Fees THEN Fees[market] ELSE DefaultFee

\* Mutant of ChainStep: the fee makes both prices better instead of worse.
ChainStepFeeGained(market, ticker, coin) ==
  LET buy == coin = market.base
      price == IF buy THEN Times(ticker.ask, Minus(One, TradeFee(market)))
                      ELSE Times(ticker.bid, Plus(One, TradeFee(market)))
  IN [market |-> market, buy |-> buy, price |-> price,
      volume |-> IF buy THEN ticker.askQuantity ELSE Times(ticker.bidQuantity, price)]

\* _create_chain_step: the step on this market that obtains coin.  The volume of
\* a SELL is counted in the quote coin here, though AChainStep reads it as base.
ChainStep(market, ticker, coin) ==
  LET buy == coin = market.base
      price == IF buy THEN Times(ticker.ask, Plus(One, TradeFee(market)))
                      ELSE Times(ticker.bid, Minus(One, TradeFee(market)))
  IN [market |-> market, buy |-> buy, price |-> price,
      volume |-> IF buy THEN ticker.askQuantity ELSE Times(ticker.bidQuantity, price)]

\* AChainStep.get_what_we_propose_volume and get_what_we_get_volume.
Proposes(step) == IF step.buy THEN Times(step.volume, step.price) ELSE step.volume
Gets(step) == IF step.buy THEN step.volume ELSE Times(step.volume, step.price)

PriceFactor(step) == IF step.buy THEN step.price ELSE Over(One, step.price)

\* Mutant of Roi: the last step left out.
RoiOfTwo(steps) == Minus(One, Times(PriceFactor(steps[1]), PriceFactor(steps[2])))

\* _calculate_triangle_roi
Roi(steps) ==
  Minus(One, Times(PriceFactor(steps[1]), Times(PriceFactor(steps[2]), PriceFactor(steps[3]))))

\* _adjust_step_volume: the step that spends this much.
AdjustedStep(step, spent) ==
  [step EXCEPT !.volume = IF step.buy THEN Over(spent, step.price) ELSE spent]

\* Mutant of MaxAvailable: the third market forgotten in the minimum.
MaxAvailableOfTwo(steps) ==
  Least(Proposes(steps[1]),
        Times(Proposes(steps[2]), Over(Proposes(steps[1]), Gets(steps[1]))))

\* coinA_max_available: what each market can take, converted to the first coin.
MaxAvailable(steps) ==
  LET aPerB == Over(Proposes(steps[1]), Gets(steps[1]))
      bPerC == Over(Proposes(steps[2]), Gets(steps[2]))
      aAt2 == Times(Proposes(steps[2]), aPerB)
      aAt3 == Times(Times(Proposes(steps[3]), bPerC), aPerB)
  IN Least(Proposes(steps[1]), Least(aAt2, aAt3))

\* calc_and_return_max_available_triangle_volume
Matched(steps) ==
  IF \E i \in 1..3 : steps[i].volume = Zero
  THEN [i \in 1..3 |-> [steps[i] EXCEPT !.volume = Zero]]
  ELSE LET one == AdjustedStep(steps[1], MaxAvailable(steps))
           two == AdjustedStep(steps[2], Gets(one))
       IN <<one, two, AdjustedStep(steps[3], Gets(two))>>

\* The profit of find: the volume of the first step, whatever coin that step
\* counts it in, times the roi.
Profit(steps) == Times(Matched(steps)[1].volume, Roi(steps))

\* _get_profit_in_usd: a price of Zero stands for "not found".
ProfitUsd(isUsd, profit, usdPrice) ==
  IF isUsd THEN profit
  ELSE IF usdPrice = Zero THEN <<-1, 1>> ELSE Times(profit, usdPrice)
=============================================================================
