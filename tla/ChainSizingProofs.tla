-------------------------- MODULE ChainSizingProofs --------------------------
(***************************************************************************)
(* What sizing makes of a chain, for any volumes, prices, rois, balances   *)
(* and balance ratio, and however many legs.                               *)
(***************************************************************************)
EXTENDS ChainSizing, CommonLemmas

\* What a leg spends for one lot of its volume.
UnitCost(i) == IF steps[i].buy THEN steps[i].price ELSE 1

Typed ==
  /\ steps = [i \in Legs |-> steps[i]]
  /\ \A i \in Legs : /\ steps[i].price \in Nat \ {0} /\ steps[i].volume \in Nat \ {0}
                     /\ steps[i].buy \in BOOLEAN
                     /\ BalanceOf(i) \in Nat
                     /\ Lot(i) \in Nat \ {0} /\ PriceTick(i) \in Nat \ {0}
  /\ roi \in 1..RoiDen
  /\ scanned \in 0..Len(Coins)
  /\ worst.n \in Nat /\ worst.d \in Nat \ {0}

Over(i) == BalanceOf(i) > 0 /\ Exceeds(Ratio(steps[i], BalanceOf(i)), MaxRatio)

\* The ratio found so far is the largest of the legs scanned that are over their share,
\* and that of one of them.
WorstInv ==
  /\ worst.n = 0 => \A i \in 1..scanned : ~Over(i)
  /\ worst.n # 0 =>
       /\ \E i \in 1..scanned : Over(i) /\ worst = Ratio(steps[i], BalanceOf(i))
       /\ \A i \in 1..scanned :
            Over(i) => ~Exceeds(Ratio(steps[i], BalanceOf(i)), worst)

\* Orders are created from what the whole scan has found.
OrdersInv ==
  Created => /\ scanned = Len(Coins)
             /\ \A i \in Legs : /\ orders[i].quantity = Quantity(steps[i], worst)
                                /\ orders[i].price = BreakEvenPrice(steps[i], roi)

SizingInv == Typed /\ WorstInv /\ OrdersInv

-----------------------------------------------------------------------------
(* Arithmetic. *)

\* A positive factor common to both sides may be dropped.
LEMMA FactorDropped ==
  ASSUME NEW a \in Int, NEW b \in Int, NEW c \in Nat \ {0}, a * c <= b * c
  PROVE  a <= b
<1> SUFFICES ASSUME b + 1 <= a PROVE FALSE
  OBVIOUS
<1>1. (b + 1) * c <= a * c
  BY ProductGrows
<1>2. (b + 1) * c = b * c + c
  OBVIOUS
<1> QED
  BY <1>1, <1>2

\* What the provers need said of a product of three.
LEMMA Associated ==
  ASSUME NEW a \in Int, NEW b \in Int, NEW c \in Int
  PROVE  a * b \in Int /\ a * (b * c) = (a * b) * c /\ a * b = b * a
OBVIOUS

\* A product of natural numbers is one, and 0 only by a factor.
LEMMA Natural ==
  ASSUME NEW a \in Nat, NEW b \in Nat
  PROVE  a * b \in Nat /\ (a # 0 /\ b # 0 => a * b # 0)
OBVIOUS

-----------------------------------------------------------------------------
(* The scan for the scarcest balance. *)

\* The constants are numbers as the code has them.
LEMMA Constants ==
  /\ RatioNum \in Nat \ {0} /\ RatioDen \in Nat \ {0}
  /\ RoiDen \in Nat \ {0}
  /\ Len(Coins) \in Nat /\ Legs = 1..Len(Coins)
<1>1. RatioNum \in Nat \ {0} /\ RatioDen \in Nat /\ RatioNum <= RatioDen /\ RoiDen \in Nat \ {0}
  BY SizingAssumption
<1>2. Coins \in Seq({Coins[i] : i \in DOMAIN Coins})
  BY InputAssumption
<1> QED
  BY <1>1, <1>2 DEF Legs

\* The chains sized are those of the inputs.
LEMMA SizingInitially == ASSUME Init PROVE SizingInv
<1>1. PICK buy \in [Legs -> BOOLEAN], price \in [Legs -> Prices], volume \in [Legs -> Volumes] :
        steps = [i \in Legs |-> Leg(i, buy[i], price[i], volume[i])]
  BY DEF Init
<1>2. /\ roi \in Rois /\ balances \in [{Coins[i] : i \in Legs} -> Amounts]
      /\ scanned = 0 /\ worst = NoRatio /\ orders = << >>
  BY DEF Init
<1>3. /\ Volumes \subseteq Nat \ {0} /\ Prices \subseteq Nat \ {0}
      /\ Rois \subseteq 1..RoiDen /\ Amounts \subseteq Nat
  BY InputAssumption
<1>4. ASSUME NEW i \in Legs
      PROVE  /\ steps[i].price \in Nat \ {0} /\ steps[i].volume \in Nat \ {0}
             /\ steps[i].buy \in BOOLEAN
             /\ BalanceOf(i) \in Nat
             /\ Lot(i) \in Nat \ {0} /\ PriceTick(i) \in Nat \ {0}
  <2>1. steps[i] = Leg(i, buy[i], price[i], volume[i])
    BY <1>1
  <2>2. /\ steps[i].price = price[i] /\ steps[i].volume = volume[i] /\ steps[i].buy = buy[i]
        /\ SpendingCoin(steps[i]) = Coins[i]
    BY <2>1 DEF Leg, SpendingCoin
  <2>3. price[i] \in Prices /\ volume[i] \in Volumes /\ buy[i] \in BOOLEAN
    OBVIOUS
  <2>4. balances[Coins[i]] \in Amounts
    BY <1>2
  <2>5. (i % Len(Coins)) + 1 \in DOMAIN Coins /\ i \in DOMAIN Coins
    <3>1. Len(Coins) \in Nat /\ Legs = 1..Len(Coins) /\ DOMAIN Coins = 1..Len(Coins)
      BY Constants, InputAssumption DEF Legs
    <3> QED
      BY <3>1
  <2>6. <<steps[i].base, steps[i].quote>> \in DOMAIN Limits
    BY <2>1, <2>5, InputAssumption DEF Leg
  <2>7. Lot(i) \in Nat \ {0} /\ PriceTick(i) \in Nat \ {0}
    BY <2>6, SizingAssumption DEF Lot, PriceTick, LimitsOf
  <2> QED
    BY <1>3, <2>2, <2>3, <2>4, <2>7 DEF BalanceOf
<1>5. steps = [i \in Legs |-> steps[i]]
  BY <1>1
<1>6. worst.n = 0 /\ worst.d = 1
  BY <1>2 DEF NoRatio
<1>7. Typed
  BY <1>2, <1>3, <1>4, <1>5, <1>6, Constants DEF Typed
<1>8. WorstInv
  BY <1>2, <1>6 DEF WorstInv
<1>9. OrdersInv
  BY <1>2 DEF OrdersInv, Created
<1> QED
  BY <1>7, <1>8, <1>9 DEF SizingInv

\* The scan goes through all the legs.
LEMMA LegsAreSteps ==
  ASSUME Typed
  PROVE  Len(steps) = Len(Coins)
<1> DEFINE S == {steps[i] : i \in Legs}
<1>1. Legs = 1..Len(Coins) /\ Len(Coins) \in Nat
  BY Constants
<1>2. steps = [i \in 1..Len(Coins) |-> steps[i]]
  BY <1>1 DEF Typed
<1>3. \A i \in 1..Len(Coins) : steps[i] \in S
  BY <1>1
<1> HIDE DEF S
<1>4. steps \in Seq(S)
  BY <1>1, <1>2, <1>3
<1> QED
  BY <1>1, <1>2, <1>4

\* What a leg proposes is its volume times what a lot costs it.
LEMMA ProposedVolume ==
  ASSUME Typed, NEW i \in Legs
  PROVE  /\ UnitCost(i) \in Nat \ {0}
         /\ Propose(steps[i]) = steps[i].volume * UnitCost(i)
         /\ Propose(steps[i]) \in Nat \ {0}
<1>1. /\ steps[i].price \in Nat \ {0} /\ steps[i].volume \in Nat \ {0}
      /\ steps[i].buy \in BOOLEAN
  BY DEF Typed
<1>2. CASE steps[i].buy
  <2>1. UnitCost(i) = steps[i].price /\ Propose(steps[i]) = steps[i].volume * steps[i].price
    BY <1>2 DEF UnitCost, Propose
  <2> QED
    BY <1>1, <2>1, Natural
<1>3. CASE ~steps[i].buy
  <2>1. UnitCost(i) = 1 /\ Propose(steps[i]) = steps[i].volume
    BY <1>3 DEF UnitCost, Propose
  <2> QED
    BY <1>1, <2>1
<1> QED
  BY <1>2, <1>3

\* A ratio no larger than one that is no larger than a third.
LEMMA RatioTransitive ==
  ASSUME NEW n1 \in Nat, NEW d1 \in Nat, NEW n2 \in Nat, NEW d2 \in Nat \ {0},
         NEW n3 \in Nat, NEW d3 \in Nat,
         n1 * d2 <= n2 * d1, n2 * d3 <= n3 * d2
  PROVE  n1 * d3 <= n3 * d1
<1>1. (n1 * d2) * d3 <= (n2 * d1) * d3
  BY ProductGrows, Natural
<1>2. (n2 * d3) * d1 <= (n3 * d2) * d1
  BY ProductGrows, Natural
<1>3. (n1 * d2) * d3 = (n1 * d3) * d2
  OBVIOUS
<1>4. (n2 * d1) * d3 = (n2 * d3) * d1
  OBVIOUS
<1>5. (n3 * d2) * d1 = (n3 * d1) * d2
  OBVIOUS
<1>6. (n1 * d3) * d2 <= (n3 * d1) * d2
  <2>1. /\ (n1 * d3) * d2 \in Nat /\ (n2 * d3) * d1 \in Nat /\ (n3 * d1) * d2 \in Nat
    BY Natural
  <2> QED
    BY <1>1, <1>2, <1>3, <1>4, <1>5, <2>1
<1> QED
  BY <1>6, FactorDropped, Natural

\* The loop keeps the largest of the ratios over the limit.
LEMMA ScanStep ==
  ASSUME SizingInv, Scan
  PROVE  SizingInv'
<1> DEFINE leg == scanned + 1
           P(i) == Propose(steps[i])
           B(i) == BalanceOf(i)
<1>a. Typed /\ WorstInv /\ OrdersInv
  BY DEF SizingInv
<1>b. /\ Len(Coins) \in Nat /\ Legs = 1..Len(Coins) /\ RatioNum \in Nat /\ RatioDen \in Nat
  BY Constants
<1>c. /\ scanned \in Nat /\ scanned < Len(Coins) /\ scanned' = leg
      /\ steps' = steps /\ roi' = roi /\ balances' = balances /\ orders' = orders
      /\ worst' = Binding(worst, steps[leg], B(leg))
  BY <1>a, <1>b, LegsAreSteps DEF Scan, Typed, BalanceOf
<1>d. leg \in Legs /\ leg \in 1..leg /\ \A i \in 1..leg : i = leg \/ i \in 1..scanned
  BY <1>b, <1>c
<1>e. \A i \in Legs : P(i) \in Nat \ {0} /\ B(i) \in Nat
  BY <1>a, ProposedVolume DEF Typed
<1>f. \A i : Over(i)' <=> Over(i)
  BY <1>c DEF Over, BalanceOf
<1>g. worst.n \in Nat /\ worst.d \in Nat \ {0}
  BY <1>a DEF Typed
<1>h. \A i \in Legs : Exceeds(Ratio(steps[i], B(i)), worst) <=> P(i) * worst.d > worst.n * B(i)
  BY DEF Exceeds, Ratio
<1>i. \A i \in 1..scanned : i \in Legs
  BY <1>b, <1>c
<1>j. ~Created
  <2>1. scanned # Len(Coins)
    BY <1>b, <1>c
  <2> QED
    BY <1>a, <2>1 DEF OrdersInv
<1>k. OrdersInv'
  BY <1>c, <1>j DEF OrdersInv, Created
<1> HIDE DEF leg, P, B
<1>1. CASE Over(leg) /\ Exceeds(Ratio(steps[leg], B(leg)), worst)
  <2>1. worst' = Ratio(steps[leg], B(leg)) /\ B(leg) > 0
    BY <1>1, <1>c DEF Binding, Over, B
  <2>2. worst'.n = P(leg) /\ worst'.d = B(leg)
    BY <2>1 DEF Ratio, P
  <2>3. Typed'
    BY <1>a, <1>b, <1>c, <1>d, <1>e, <2>1, <2>2 DEF Typed, BalanceOf, Lot, PriceTick
  <2>4. ASSUME NEW i \in 1..leg, Over(i) PROVE ~Exceeds(Ratio(steps[i], B(i)), worst')
    <3>1. CASE i = leg
      BY <1>d, <1>e, <2>2, <3>1 DEF Exceeds, Ratio, P
    <3>2. CASE i # leg
      <4>1. i \in 1..scanned /\ i \in Legs
        BY <1>d, <1>i, <3>2
      <4>2. worst.n # 0 /\ ~Exceeds(Ratio(steps[i], B(i)), worst)
        BY <1>a, <2>4, <4>1 DEF WorstInv, B
      <4>3. P(i) * worst.d <= worst.n * B(i)
        BY <1>e, <1>g, <1>h, <4>1, <4>2, Natural
      <4>4. worst.n * B(leg) <= P(leg) * worst.d
        BY <1>1, <1>d, <1>e, <1>g, <1>h, Natural
      <4>5. P(i) * B(leg) <= P(leg) * B(i)
        BY <1>d, <1>e, <1>g, <4>1, <4>3, <4>4, RatioTransitive
      <4>6. P(i) * B(leg) \in Nat /\ P(leg) * B(i) \in Nat
        BY <1>d, <1>e, <4>1, Natural
      <4> QED
        BY <2>2, <4>5, <4>6 DEF Exceeds, Ratio, P
    <3> QED
      BY <3>1, <3>2
  <2>5. worst'.n # 0
    BY <1>d, <1>e, <2>2
  <2>6. WorstInv'
    BY <1>1, <1>c, <1>d, <1>f, <2>1, <2>4, <2>5 DEF WorstInv, BalanceOf, B
  <2> QED
    BY <1>k, <2>3, <2>6 DEF SizingInv
<1>2. CASE ~(Over(leg) /\ Exceeds(Ratio(steps[leg], B(leg)), worst))
  <2>1. worst' = worst
    BY <1>2, <1>c DEF Binding, Over, B
  <2>2. Typed'
    BY <1>a, <1>b, <1>c, <1>d, <2>1 DEF Typed, BalanceOf, Lot, PriceTick
  <2>3. CASE worst.n = 0
    <3>1. Exceeds(Ratio(steps[leg], B(leg)), worst)
      <4>1. P(leg) * worst.d \in Nat /\ P(leg) * worst.d # 0
        BY <1>d, <1>e, <1>g, Natural
      <4>2. worst.n * B(leg) = 0
        BY <1>d, <1>e, <2>3
      <4> QED
        BY <1>d, <1>h, <4>1, <4>2
    <3>2. \A i \in 1..leg : ~Over(i)
      BY <1>2, <1>a, <1>d, <2>3, <3>1 DEF WorstInv
    <3>3. WorstInv'
      BY <1>c, <1>f, <2>1, <2>3, <3>2 DEF WorstInv
    <3> QED
      BY <1>k, <2>2, <3>3 DEF SizingInv
  <2>4. CASE worst.n # 0
    <3>1. PICK k \in 1..scanned : Over(k) /\ worst = Ratio(steps[k], BalanceOf(k))
      BY <1>a, <2>4 DEF WorstInv
    <3>2. k \in 1..leg
      BY <1>c DEF leg
    <3>3. \A i \in 1..leg : Over(i) => ~Exceeds(Ratio(steps[i], BalanceOf(i)), worst)
      BY <1>2, <1>a, <1>d, <2>4 DEF WorstInv, B
    <3>4. WorstInv'
      BY <1>c, <1>f, <2>1, <2>4, <3>1, <3>2, <3>3 DEF WorstInv, BalanceOf
    <3> QED
      BY <1>k, <2>2, <3>4 DEF SizingInv
  <2> QED
    BY <2>3, <2>4
<1> QED
  BY <1>1, <1>2

\* The orders are those of the whole scan; then nothing moves.
LEMMA CreateStep ==
  ASSUME SizingInv, Create
  PROVE  SizingInv'
<1>a. Typed /\ WorstInv
  BY DEF SizingInv
<1>b. DOMAIN steps = Legs
  BY <1>a DEF Typed
<1>1. /\ scanned = Len(Coins) /\ orders' = OrdersFor(steps, roi, worst)
      /\ UNCHANGED <<steps, roi, balances, scanned, worst>>
  BY <1>a, LegsAreSteps DEF Create
<1>2. ASSUME NEW i \in Legs
      PROVE  /\ orders'[i].quantity = Quantity(steps[i], worst)
             /\ orders'[i].price = BreakEvenPrice(steps[i], roi)
  BY <1>1, <1>b DEF OrdersFor, OrderFor
<1>3. OrdersInv'
  BY <1>1, <1>2 DEF OrdersInv
<1>4. Typed' /\ WorstInv'
  BY <1>1, <1>a DEF Typed, WorstInv, Over, BalanceOf, Lot, PriceTick
<1> QED
  BY <1>3, <1>4 DEF SizingInv

\* The invariant holds of every sizing.
LEMMA SizingInductive == Spec => []SizingInv
<1>1. SizingInv /\ [Next]_vars => SizingInv'
  <2> SUFFICES ASSUME SizingInv, [Next]_vars PROVE SizingInv'
    OBVIOUS
  <2>1. CASE UNCHANGED vars
    BY <2>1 DEF vars, SizingInv, Typed, WorstInv, OrdersInv, Over, BalanceOf, Created, Lot, PriceTick
  <2> QED
    BY <2>1, ScanStep, CreateStep DEF Next
<1> QED
  BY <1>1, SizingInitially, PTL DEF Spec

-----------------------------------------------------------------------------
(* What the orders are like. *)

\* Bounds on a difference, written with the factor in front of each product.
LEMMA HalfTick ==
  ASSUME NEW D \in Nat \ {0}, NEW x \in Int, NEW y \in Nat, NEW z \in Nat, NEW t \in Nat,
         2 * (D * x) <= 2 * (z * y) + D * t, 0 <= 2 * (D * x) + D * t
  PROVE  2 * x >= -t /\ 2 * D * x <= 2 * y * z + D * t
<1>1. 2 * x >= -t
  <2>1. (2 * x + t) * D = 2 * (D * x) + D * t
    OBVIOUS
  <2>2. 0 * D <= (2 * x + t) * D
    BY <2>1
  <2>3. 0 <= 2 * x + t
    BY <2>2, FactorDropped
  <2> QED
    BY <2>3
<1>2. 2 * D * x = 2 * (D * x) /\ 2 * y * z = 2 * (z * y)
  OBVIOUS
<1> QED
  BY <1>1, <1>2

\* A number to the nearest multiple of a tick or lot is off by half of it at most.
LEMMA NearestStep ==
  ASSUME NEW n \in Nat, NEW d \in Nat \ {0}, NEW unit \in Nat \ {0}
  PROVE  /\ ToStep(n, d, unit) \in Nat
         /\ 2 * (d * ToStep(n, d, unit)) <= 2 * n + d * unit
         /\ 2 * n <= 2 * (d * ToStep(n, d, unit)) + d * unit
<1> DEFINE k == RoundHalfEven(n, d * unit)
<1>1. d * unit \in Nat \ {0}
  BY Natural
<1>2. /\ k \in Nat
      /\ 2 * ((d * unit) * k) <= 2 * n + d * unit
      /\ 2 * n <= 2 * ((d * unit) * k) + d * unit
  BY <1>1, RoundedByHalf
<1>3. ToStep(n, d, unit) = unit * k
  BY DEF ToStep
<1> HIDE DEF k
<1>4. unit * k \in Nat
  BY <1>2, Natural
<1>5. (d * unit) * k = d * (unit * k)
  BY <1>2
<1> QED
  BY <1>2, <1>3, <1>4, <1>5

\* The price of an order is better than the one the chain was found with by half a tick
\* at most, and worse by the roi and half a tick.
LEMMA PriceNearQuote ==
  ASSUME SizingInv, Created, NEW i \in Legs
  PROVE  LET conceded == IF steps[i].buy THEN orders[i].price - steps[i].price
                                         ELSE steps[i].price - orders[i].price
         IN /\ 2 * conceded >= -PriceTick(i)
            /\ 2 * RoiDen * conceded <= 2 * roi * steps[i].price + RoiDen * PriceTick(i)
<1> DEFINE p == steps[i].price
           r == orders[i].price
           t == PriceTick(i)
           D == RoiDen
<1>1. /\ p \in Nat \ {0} /\ steps[i].buy \in BOOLEAN /\ roi \in 1..D /\ t \in Nat \ {0}
      /\ D \in Nat \ {0} /\ r = BreakEvenPrice(steps[i], roi)
  BY Constants DEF SizingInv, Typed, OrdersInv
<1>2. p * roi \in Nat /\ D * p \in Nat /\ p * roi = roi * p /\ D * t \in Nat
  BY <1>1
<1>3. CASE steps[i].buy
  <2>1. r = ToStep(p * (D + roi), D, t)
    BY <1>1, <1>3 DEF BreakEvenPrice, PriceTick
  <2>2. p * (D + roi) = D * p + p * roi /\ p * (D + roi) \in Nat
    BY <1>1, <1>2
  <2>3. /\ r \in Nat
        /\ 2 * (D * r) <= 2 * (p * (D + roi)) + D * t
        /\ 2 * (p * (D + roi)) <= 2 * (D * r) + D * t
    BY <1>1, <2>1, <2>2, NearestStep
  <2> HIDE DEF p, r, t, D
  <2>4. D * r \in Nat /\ D * (r - p) = D * r - D * p
    BY <1>1, <2>3
  <2>5. 2 * (D * (r - p)) <= 2 * (p * roi) + D * t /\ 0 <= 2 * (D * (r - p)) + D * t
    BY <1>2, <2>2, <2>3, <2>4
  <2> QED
    BY <1>1, <1>2, <1>3, <2>3, <2>5, HalfTick DEF p, r, t, D
<1>4. CASE ~steps[i].buy
  <2>1. r = ToStep(p * (D - roi), D, t)
    BY <1>1, <1>4 DEF BreakEvenPrice, PriceTick
  <2>2. p * (D - roi) = D * p - p * roi /\ p * (D - roi) \in Nat
    <3>1. D - roi \in Nat
      BY <1>1
    <3>2. p * (D - roi) \in Nat
      BY <1>1, <3>1, Natural
    <3>3. p * (D - roi) = D * p - p * roi
      BY <1>1
    <3> QED
      BY <3>2, <3>3
  <2>3. /\ r \in Nat
        /\ 2 * (D * r) <= 2 * (p * (D - roi)) + D * t
        /\ 2 * (p * (D - roi)) <= 2 * (D * r) + D * t
    BY <1>1, <2>1, <2>2, NearestStep
  <2> HIDE DEF p, r, t, D
  <2>4. D * r \in Nat /\ D * (p - r) = D * p - D * r
    BY <1>1, <2>3
  <2>5. 2 * (D * (p - r)) <= 2 * (p * roi) + D * t /\ 0 <= 2 * (D * (p - r)) + D * t
    BY <1>2, <2>2, <2>3, <2>4
  <2> QED
    BY <1>1, <1>2, <1>4, <2>3, <2>5, HalfTick DEF p, r, t, D
<1> QED
  BY <1>3, <1>4

\* The common factor, as the provers need it said: what the volumes are multiplied with
\* and what they are divided by.
Share == ShrinkFactor(worst).n
Whole == ShrinkFactor(worst).d

\* They are 1 when nothing is cut.
LEMMA FactorTyped ==
  ASSUME Typed
  PROVE  /\ Share \in Nat /\ Whole \in Nat \ {0}
         /\ worst.n = 0 => Share = 1 /\ Whole = 1
         /\ worst.n # 0 => Share = RatioNum * worst.d /\ Whole = RatioDen * worst.n
<1>1. /\ worst.d \in Nat /\ worst.n \in Nat
      /\ RatioNum \in Nat /\ RatioDen \in Nat \ {0}
  BY Constants DEF Typed
<1>2. CASE worst.n = 0
  BY <1>2 DEF Share, Whole, ShrinkFactor
<1>3. CASE worst.n # 0
  <2>1. Share = RatioNum * worst.d /\ Whole = RatioDen * worst.n
    BY <1>3 DEF Share, Whole, ShrinkFactor
  <2> QED
    BY <1>1, <1>3, <2>1, Natural
<1> QED
  BY <1>2, <1>3

\* The quantity of an order is the volume by the common factor, to half a lot.
LEMMA QuantityNearShare ==
  ASSUME SizingInv, Created, NEW i \in Legs
  PROVE  /\ orders[i].quantity \in Nat
         /\ 2 * (Whole * orders[i].quantity) <= 2 * (steps[i].volume * Share) + Whole * Lot(i)
         /\ 2 * (steps[i].volume * Share) <= 2 * (Whole * orders[i].quantity) + Whole * Lot(i)
<1>1. /\ steps[i].volume \in Nat /\ Lot(i) \in Nat \ {0}
      /\ Share \in Nat /\ Whole \in Nat \ {0}
  BY FactorTyped DEF SizingInv, Typed
<1>2. steps[i].volume * Share \in Nat
  BY <1>1, Natural
<1>3. orders[i].quantity = ToStep(steps[i].volume * Share, Whole, Lot(i))
  BY DEF SizingInv, OrdersInv, Quantity, Share, Whole, Lot
<1> QED
  BY <1>1, <1>2, <1>3, NearestStep

\* A leg over its share of the balance, or not, has a ratio no larger than the worst.
LEMMA WorstIsLargest ==
  ASSUME SizingInv, Created, NEW i \in Legs, BalanceOf(i) > 0
  PROVE  IF worst.n = 0
         THEN RatioDen * Propose(steps[i]) <= RatioNum * BalanceOf(i)
         ELSE Propose(steps[i]) * (RatioNum * worst.d) <= (RatioNum * BalanceOf(i)) * worst.n
<1> DEFINE P == Propose(steps[i])
           B == BalanceOf(i)
<1>1. Typed /\ WorstInv /\ i \in 1..scanned
  BY Constants DEF SizingInv, OrdersInv
<1>2. /\ P \in Nat \ {0} /\ B \in Nat /\ RatioNum \in Nat \ {0} /\ RatioDen \in Nat \ {0}
      /\ worst.n \in Nat /\ worst.d \in Nat \ {0}
  BY <1>1, Constants, ProposedVolume DEF Typed
<1>3. Over(i) <=> P * RatioDen > RatioNum * B
  BY DEF Over, Exceeds, Ratio, MaxRatio
<1>4. ~Over(i) => P * RatioDen <= RatioNum * B
  BY <1>2, <1>3, Natural
<1>5. CASE worst.n = 0
  BY <1>1, <1>2, <1>4, <1>5, Associated DEF WorstInv
<1>6. CASE worst.n # 0
  <2>1. P * worst.d <= worst.n * B
    <3>1. CASE Over(i)
      <4>1. ~Exceeds(Ratio(steps[i], B), worst)
        BY <1>1, <1>6, <3>1 DEF WorstInv
      <4>2. ~(P * worst.d > worst.n * B)
        BY <4>1 DEF Exceeds, Ratio
      <4> QED
        BY <1>2, <4>2, Natural
    <3>2. CASE ~Over(i)
      <4>1. PICK k \in 1..scanned : Over(k) /\ worst = Ratio(steps[k], BalanceOf(k))
        BY <1>1, <1>6 DEF WorstInv
      <4>2. worst.n * RatioDen > RatioNum * worst.d
        BY <4>1 DEF Over, Exceeds, Ratio, MaxRatio
      <4>3. RatioNum * worst.d <= worst.n * RatioDen
        BY <1>2, <4>2, Natural
      <4> QED
        BY <1>2, <1>4, <3>2, <4>3, RatioTransitive
    <3> QED
      BY <3>1, <3>2
  <2>2. (P * worst.d) * RatioNum <= (worst.n * B) * RatioNum
    BY <1>2, <2>1, ProductGrows, Natural
  <2>3. (P * worst.d) * RatioNum = P * (RatioNum * worst.d)
        /\ (worst.n * B) * RatioNum = (RatioNum * B) * worst.n
    BY <1>2
  <2> HIDE DEF P, B
  <2>4. P * (RatioNum * worst.d) <= (RatioNum * B) * worst.n
    BY <2>2, <2>3
  <2> QED
    BY <1>6, <2>4 DEF P, B
<1> QED
  BY <1>5, <1>6

\* At the price of the chain no order proposes more than its share of the balance and half
\* a lot.
LEMMA WithinShare ==
  ASSUME SizingInv, Created, NEW i \in Legs, BalanceOf(i) > 0
  PROVE  2 * RatioDen * AtQuote(i, orders[i].quantity)
           <= 2 * RatioNum * BalanceOf(i) + RatioDen * AtQuote(i, Lot(i))
<1> DEFINE v == steps[i].volume
           a == UnitCost(i)
           q == orders[i].quantity
           l == Lot(i)
           rb == RatioNum * BalanceOf(i)
           f == Share
           w == Whole
           R == RatioDen
<1>1. /\ v \in Nat /\ a \in Nat \ {0} /\ BalanceOf(i) \in Nat /\ l \in Nat
      /\ RatioNum \in Nat /\ R \in Nat \ {0}
      /\ f \in Nat /\ w \in Nat \ {0}
      /\ worst.n \in Nat /\ worst.d \in Nat
      /\ Propose(steps[i]) = v * a
  BY Constants, ProposedVolume, FactorTyped DEF SizingInv, Typed
<1>2. rb \in Nat /\ 2 * RatioNum * BalanceOf(i) = 2 * rb
  BY <1>1, Natural
<1>3. /\ q \in Nat
      /\ 2 * (w * q) <= 2 * (v * f) + w * l
  BY QuantityNearShare
<1>4. AtQuote(i, q) = q * a /\ AtQuote(i, l) = l * a
  BY <1>1, <1>3 DEF AtQuote, UnitCost
\* What the leg would spend of its volume, times the factor, is its share of the balance.
<1>5. R * ((v * f) * a) <= rb * w
  <2>1. CASE worst.n = 0
    <3>1. R * (v * a) <= rb
      BY <1>1, <2>1, WorstIsLargest
    <3>2. f = 1 /\ w = 1
      BY <2>1, FactorTyped DEF SizingInv
    <3> QED
      BY <1>1, <1>2, <3>1, <3>2
  <2>2. CASE worst.n # 0
    <3>1. (v * a) * (RatioNum * worst.d) <= rb * worst.n
      BY <1>1, <2>2, WorstIsLargest
    <3>2. f = RatioNum * worst.d /\ w = R * worst.n
      BY <2>2, FactorTyped DEF SizingInv
    <3> HIDE DEF v, a, rb, f, w, R
    <3>3. (v * a) * f = (v * f) * a
      BY <1>1
    <3>4. (v * f) * a <= rb * worst.n
      BY <3>1, <3>2, <3>3
    <3>5. (v * f) * a \in Nat /\ rb * worst.n \in Nat
      BY <1>1, <1>2, Natural
    <3>6. ((v * f) * a) * R <= (rb * worst.n) * R
      BY <1>1, <3>4, <3>5, ProductGrows
    <3>7. (rb * worst.n) * R = rb * w /\ ((v * f) * a) * R = R * ((v * f) * a)
      BY <1>1, <1>2, <3>2, <3>5
    <3> QED
      BY <3>6, <3>7
  <2> QED
    BY <2>1, <2>2
<1> HIDE DEF v, a, q, l, rb, f, w, R
<1> DEFINE spent == (2 * (R * (q * a))) * w
           shared == R * ((v * f) * a)
           extra == (R * (l * a)) * w
           allowed == rb * w
<1>6. spent <= 2 * shared + extra
  <2>1. v * f \in Nat /\ w * l \in Nat /\ w * q \in Nat /\ R * a \in Nat
    BY <1>1, <1>3, Natural
  <2>2. (2 * (w * q)) * (R * a) <= (2 * (v * f) + w * l) * (R * a)
    <3>1. 2 * (w * q) \in Int /\ 2 * (v * f) + w * l \in Int
      BY <2>1
    <3> QED
      BY <1>3, <2>1, <3>1, ProductGrows
  <2>3. (2 * (w * q)) * (R * a) = spent
    BY <1>1, <1>3
  <2>4. (2 * (v * f) + w * l) * (R * a) = 2 * shared + extra
    BY <1>1
  <2> QED
    BY <2>2, <2>3, <2>4
<1>7. (2 * rb + R * (l * a)) * w = 2 * allowed + extra
  BY <1>1, <1>2
<1>8. /\ 2 * (R * (q * a)) \in Int /\ 2 * rb + R * (l * a) \in Int
      /\ spent \in Int /\ shared \in Int /\ extra \in Int /\ allowed \in Int
  <2>1. q * a \in Nat /\ l * a \in Nat /\ v * f \in Nat
    BY <1>1, <1>3, Natural
  <2>2. R * (q * a) \in Nat /\ R * (l * a) \in Nat /\ (v * f) * a \in Nat
    BY <1>1, <2>1, Natural
  <2>3. 2 * (R * (q * a)) \in Nat /\ 2 * rb + R * (l * a) \in Nat
    BY <1>2, <2>2
  <2> QED
    BY <1>1, <1>2, <2>2, <2>3, Natural
<1>9. spent <= 2 * allowed + extra
  <2>1. shared <= allowed
    BY <1>5
  <2> HIDE DEF spent, shared, extra, allowed
  <2> QED
    BY <1>6, <1>8, <2>1
<1>10. 2 * (R * (q * a)) <= 2 * rb + R * (l * a)
  <2>1. (2 * (R * (q * a))) * w <= (2 * rb + R * (l * a)) * w
    BY <1>7, <1>9
  <2> QED
    BY <1>1, <1>8, <2>1, FactorDropped
<1>11. 2 * R * (q * a) = 2 * (R * (q * a))
  BY <1>1, <1>3
<1>12. 2 * R * AtQuote(i, q) <= 2 * RatioNum * BalanceOf(i) + R * AtQuote(i, l)
  BY <1>2, <1>4, <1>10, <1>11
<1> QED
  BY <1>12 DEF q, l, R

\* The quantities of two legs keep the proportion of their volumes, to half a lot each.
LEMMA PairMatched ==
  ASSUME SizingInv, Created, NEW i \in Legs, NEW j \in Legs
  PROVE  2 * (orders[i].quantity * steps[j].volume - orders[j].quantity * steps[i].volume)
           <= Lot(i) * steps[j].volume + Lot(j) * steps[i].volume
<1> DEFINE v == steps[i].volume
           u == steps[j].volume
           q == orders[i].quantity
           s == orders[j].quantity
           l == Lot(i)
           m == Lot(j)
           f == Share
           w == Whole
<1>1. /\ v \in Nat /\ u \in Nat /\ l \in Nat /\ m \in Nat /\ f \in Nat /\ w \in Nat \ {0}
  BY FactorTyped DEF SizingInv, Typed
<1>2. /\ q \in Nat /\ s \in Nat
      /\ 2 * (w * q) <= 2 * (v * f) + w * l
      /\ 2 * (u * f) <= 2 * (w * s) + w * m
  BY QuantityNearShare
<1> HIDE DEF v, u, q, s, l, m, f, w
<1> DEFINE qu == (q * u) * w
           sv == (s * v) * w
           vuf == (v * u) * f
           lu == (l * u) * w
           mv == (m * v) * w
<1>3. qu \in Int /\ sv \in Int /\ vuf \in Int /\ lu \in Int /\ mv \in Int
  BY <1>1, <1>2, Natural
<1>4. 2 * qu <= 2 * vuf + lu
  <2>1. 2 * (w * q) \in Int /\ 2 * (v * f) + w * l \in Int
    BY <1>1, <1>2, Natural
  <2>2. (2 * (w * q)) * u <= (2 * (v * f) + w * l) * u
    BY <1>1, <1>2, <2>1, ProductGrows
  <2>3. (2 * (w * q)) * u = 2 * qu
    BY <1>1, <1>2
  <2>4. (2 * (v * f) + w * l) * u = 2 * vuf + lu
    BY <1>1
  <2> QED
    BY <2>2, <2>3, <2>4
<1>5. 2 * vuf <= 2 * sv + mv
  <2>1. 2 * (u * f) \in Int /\ 2 * (w * s) + w * m \in Int
    BY <1>1, <1>2, Natural
  <2>2. (2 * (u * f)) * v <= (2 * (w * s) + w * m) * v
    BY <1>1, <1>2, <2>1, ProductGrows
  <2>3. (2 * (u * f)) * v = 2 * vuf
    BY <1>1
  <2>4. (2 * (w * s) + w * m) * v = 2 * sv + mv
    BY <1>1, <1>2
  <2> QED
    BY <2>2, <2>3, <2>4
<1>6. (2 * (q * u - s * v)) * w = 2 * qu - 2 * sv
  BY <1>1, <1>2
<1>7. (l * u + m * v) * w = lu + mv
  BY <1>1
<1> HIDE DEF qu, sv, vuf, lu, mv
<1>8. 2 * qu - 2 * sv <= lu + mv
  BY <1>3, <1>4, <1>5
<1>9. (2 * (q * u - s * v)) * w <= (l * u + m * v) * w
  BY <1>6, <1>7, <1>8
<1>10. 2 * (q * u - s * v) \in Int /\ l * u + m * v \in Int
  <2>1. q * u \in Nat /\ s * v \in Nat /\ l * u \in Nat /\ m * v \in Nat
    BY <1>1, <1>2, Natural
  <2> QED
    BY <2>1
<1>11. 2 * (q * u - s * v) <= l * u + m * v
  BY <1>1, <1>9, <1>10, FactorDropped
<1> QED
  BY <1>11 DEF v, u, q, s, l, m

\* When the volumes are cut the leg with the worst ratio is over its share, and uses it up.
LEMMA WorstUsesShare ==
  ASSUME SizingInv, Created, worst.n # 0
  PROVE  \E i \in Legs :
           /\ RatioDen * Propose(steps[i]) > RatioNum * BalanceOf(i)
           /\ RatioDen * AtQuote(i, 2 * orders[i].quantity + Lot(i)) >= 2 * RatioNum * BalanceOf(i)
<1>1. PICK i \in 1..scanned : Over(i) /\ worst = Ratio(steps[i], BalanceOf(i))
  BY DEF SizingInv, WorstInv
<1>2. i \in Legs
  BY Constants DEF SizingInv, OrdersInv
<1> DEFINE v == steps[i].volume
           a == UnitCost(i)
           q == orders[i].quantity
           l == Lot(i)
           B == BalanceOf(i)
           rb == RatioNum * B
           R == RatioDen
           g == 2 * q + l
<1>3. /\ v \in Nat \ {0} /\ a \in Nat \ {0} /\ B \in Nat /\ l \in Nat
      /\ RatioNum \in Nat /\ R \in Nat
      /\ Propose(steps[i]) = v * a /\ v * a \in Nat
  BY <1>2, Constants, ProposedVolume DEF SizingInv, Typed
<1>4. worst.n = v * a /\ worst.d = B
  BY <1>1, <1>3 DEF Ratio
<1>5. R * Propose(steps[i]) > RatioNum * B
  <2>1. (v * a) * R > RatioNum * B
    BY <1>1, <1>3 DEF Over, Exceeds, Ratio, MaxRatio
  <2>2. (v * a) * R = R * (v * a)
    BY <1>3
  <2> HIDE DEF v, a, B
  <2>3. R * (v * a) > RatioNum * B
    BY <2>1, <2>2
  <2> QED
    BY <1>3, <2>3 DEF v, a, B
<1>6. Share = rb /\ Whole = R * (v * a)
  BY <1>4, FactorTyped DEF SizingInv
<1>7. q \in Nat /\ 2 * (v * rb) <= 2 * ((R * (v * a)) * q) + (R * (v * a)) * l
  BY <1>2, <1>6, QuantityNearShare
<1>8. g \in Nat /\ AtQuote(i, g) = a * g
  BY <1>3, <1>7 DEF AtQuote, UnitCost
<1>9. rb \in Nat /\ 2 * RatioNum * B = 2 * rb
  BY <1>3, Natural
<1> HIDE DEF v, a, q, l, B, rb, R
<1>10. (2 * rb) * v = 2 * (v * rb)
  BY <1>3, <1>9
<1>11. (R * (a * g)) * v = 2 * ((R * (v * a)) * q) + (R * (v * a)) * l
  <2>1. (R * (a * g)) * v = (R * (v * a)) * g
    BY <1>3, <1>8
  <2>2. R * (v * a) \in Nat
    BY <1>3, Natural
  <2>3. (R * (v * a)) * g = 2 * ((R * (v * a)) * q) + (R * (v * a)) * l
    BY <1>3, <1>7, <2>2
  <2> QED
    BY <2>1, <2>3
<1> HIDE DEF g
<1>12. (2 * rb) * v <= (R * (a * g)) * v
  BY <1>7, <1>10, <1>11
<1>13. 2 * rb \in Int /\ R * (a * g) \in Int
  BY <1>3, <1>8, <1>9, Natural
<1>14. 2 * rb <= R * (a * g)
  BY <1>3, <1>12, <1>13, FactorDropped
<1>15. R * AtQuote(i, g) >= 2 * RatioNum * B
  BY <1>8, <1>9, <1>13, <1>14
<1> QED
  BY <1>2, <1>5, <1>15 DEF q, B, R, g, l

-----------------------------------------------------------------------------
(* The theorems. *)

\* The break-even price (_calc_break_even_price, manager.py), rounded to the tick of the
\* market, gives away no more than the roi of the chain on any leg and asks for no better
\* price than the chain was found with, up to half a tick either way, for prices on the
\* tick or off it.
THEOREM PricesConcedeAtMostRoi == Spec => []PriceConcedesAtMostRoi
<1>1. SizingInv => PriceConcedesAtMostRoi
  BY PriceNearQuote DEF PriceConcedesAtMostRoi
<1> QED
  BY <1>1, SizingInductive, PTL

\* No order proposes, at the price the chain was found with, more than MAX_BALANCE_RATIO_PER_SINGLE_ORDER
\* of a balance there is, but for the half lot rounding may add.
THEOREM OrdersWithinRatio == Spec => []WithinRatioAtQuote
<1>1. SizingInv => WithinRatioAtQuote
  BY WithinShare DEF WithinRatioAtQuote
<1> QED
  BY <1>1, SizingInductive, PTL

\* All legs are cut by the same factor: none brings in much more than the next takes.
THEOREM LegsMatched == Spec => []LegsStayMatched
<1>1. SizingInv => LegsStayMatched
  BY PairMatched DEF LegsStayMatched
<1> QED
  BY <1>1, SizingInductive, PTL

\* A quantity is below the volume by more than half a lot only when a leg is over its
\* share, and no deeper than that leg demands.
THEOREM CutsAreNeeded == Spec => []CutIsNeeded
<1>1. SizingInv => CutIsNeeded
  <2> SUFFICES ASSUME SizingInv, Created, NEW i \in Legs,
                      2 * orders[i].quantity + Lot(i) < 2 * steps[i].volume
               PROVE  worst.n # 0
    BY WorstUsesShare DEF CutIsNeeded
  <2> SUFFICES ASSUME worst.n = 0 PROVE FALSE
    OBVIOUS
  <2>1. Share = 1 /\ Whole = 1
    BY FactorTyped DEF SizingInv
  <2>2. orders[i].quantity \in Nat /\ steps[i].volume \in Nat /\ Lot(i) \in Nat
    BY QuantityNearShare DEF SizingInv, Typed
  <2>3. 2 * (steps[i].volume * 1) <= 2 * (1 * orders[i].quantity) + 1 * Lot(i)
    BY <2>1, QuantityNearShare
  <2> QED
    BY <2>2, <2>3
<1> QED
  BY <1>1, SizingInductive, PTL
=============================================================================
