---------------------------- MODULE StreamsProofs ----------------------------
(***************************************************************************)
(* That the streams of Streams fit and leave few markets out, for any      *)
(* number of markets and any limit of at least two subscriptions per       *)
(* stream.                                                                 *)
(***************************************************************************)
EXTENDS Streams, TLAPS

\* What the division rounded up amounts to.
LEMMA CeilDivBounds ==
  ASSUME NEW a \in Nat, NEW b \in Nat \ {0}
  PROVE  /\ CeilDiv(a, b) \in Nat
         /\ a <= CeilDiv(a, b) * b
         /\ CeilDiv(a, b) * b <= a + b - 1
<1> DEFINE q == (a + b - 1) \div b
           r == (a + b - 1) % b
<1>1. a + b - 1 \in Nat
  OBVIOUS
<1>2. q \in Int /\ r \in 0..(b - 1) /\ a + b - 1 = b * q + r
  BY <1>1
<1>3. q >= 0
  BY <1>1, <1>2
<1> QED
  BY <1>2, <1>3 DEF CeilDiv

\* The larger of two numbers has the larger product.
LEMMA ProductMonotonic ==
  ASSUME NEW a \in Nat, NEW b \in Nat, NEW c \in Nat, a <= b
  PROVE  a * c <= b * c
OBVIOUS

\* Many streams are needed only when each may take two markets: no stream takes
\* more than the limit, and two or more streams take two or more each.
LEMMA Subscriptions ==
  ASSUME markets \in Nat \ {0}, limit \in Nat \ {0, 1}
  PROVE  /\ max_subscriptions \in 1..limit
         /\ markets > max_subscriptions => max_subscriptions >= 2
<1>1. /\ divisor \in Nat /\ markets <= divisor * limit
      /\ divisor * limit <= markets + limit - 1
  BY CeilDivBounds DEF divisor
<1>2. divisor >= 1
  <2> SUFFICES ASSUME divisor = 0 PROVE FALSE
    BY <1>1
  <2> QED
    BY <1>1
<1>3. /\ max_subscriptions \in Nat /\ markets <= max_subscriptions * divisor
      /\ max_subscriptions * divisor <= markets + divisor - 1
  BY <1>1, <1>2, CeilDivBounds DEF max_subscriptions
<1>4. max_subscriptions >= 1
  <2> SUFFICES ASSUME max_subscriptions = 0 PROVE FALSE
    BY <1>3
  <2> QED
    BY <1>1, <1>3
<1>5. max_subscriptions <= limit
  <2> SUFFICES ASSUME limit + 1 <= max_subscriptions PROVE FALSE
    BY <1>3
  <2>1. (limit + 1) * divisor <= max_subscriptions * divisor
    BY <1>1, <1>3, ProductMonotonic
  <2>2. (limit + 1) * divisor = divisor * limit + divisor
    BY <1>1
  <2> QED
    BY <1>1, <1>3, <2>1, <2>2
<1>6. ASSUME max_subscriptions = 1 PROVE markets <= 1
  <2>1. markets <= divisor
    BY <1>1, <1>3, <1>6
  <2>2. markets * limit <= divisor * limit
    BY <1>1, <2>1, ProductMonotonic
  <2>3. markets * limit <= markets + limit - 1
    BY <1>1, <2>2
  <2>4. (markets - 1) * (limit - 1) = markets * limit - markets - limit + 1
    OBVIOUS
  <2>5. (markets - 1) * (limit - 1) <= 0
    BY <1>1, <2>3, <2>4
  <2> SUFFICES ASSUME markets - 1 >= 1 PROVE FALSE
    OBVIOUS
  <2>6. 1 * (limit - 1) <= (markets - 1) * (limit - 1)
    BY ProductMonotonic
  <2> QED
    BY <2>5, <2>6
<1> QED
  BY <1>3, <1>4, <1>5, <1>6

-----------------------------------------------------------------------------
Typed ==
  /\ markets \in Nat \ {0} /\ limit \in Nat \ {0, 1}
  /\ market \in Nat \ {0} /\ markets_sub \in Nat \ {0} /\ i \in Nat
  /\ streams \in Seq(Nat \X Nat)

\* Where the loop is: until the first stream i counts the markets gathered, after
\* it i is one more than that; it never passes the number that fills a stream.
LoopInv ==
  IF markets <= max_subscriptions
  THEN market = 1 \/ streams = << <<1, markets>> >>
  ELSE /\ markets_sub <= market /\ i <= max_subscriptions
       /\ streams = << >> => markets_sub = 1 /\ i = market
       /\ streams # << >> => /\ markets_sub = streams[Len(streams)][2] + 1
                             /\ i = market - markets_sub + 2

Inv == Typed /\ LoopInv /\ StreamsFit /\ (market = 1 => streams = << >>)

\* The inputs are those assumed.
LEMMA Constants == ASSUME Typed PROVE markets \in Nat \ {0} /\ limit \in Nat \ {0, 1}
BY DEF Typed

\* Before the loop there is no stream.
LEMMA Initially == Init => Inv
<1> SUFFICES ASSUME Init PROVE Inv
  OBVIOUS
<1>1. Typed
  BY DEF Init, Typed
<1> QED
  BY <1>1, Constants, Subscriptions DEF Init, Inv, LoopInv, StreamsFit

\* The one stream takes no more than the limit.
LEMMA CreateOnlyStep == ASSUME Inv, CreateOnly PROVE Inv'
<1> USE DEF Inv
<1>1. markets \in Nat \ {0} /\ limit \in Nat \ {0, 1}
  BY Constants
<1>2. max_subscriptions \in 1..limit
  BY <1>1, Subscriptions
<1>3. streams' = << <<1, markets>> >> /\ market' = markets + 1 /\ UNCHANGED <<markets, limit, i>>
  BY DEF CreateOnly
<1>4. markets <= limit
  BY <1>1, <1>2 DEF CreateOnly
<1>5. Typed'
  BY <1>1, <1>3 DEF Typed, CreateOnly
<1>6. max_subscriptions' = max_subscriptions
  BY <1>3 DEF max_subscriptions, divisor
<1>7. LoopInv'
  BY <1>3, <1>6 DEF LoopInv, CreateOnly
<1>8. StreamsFit'
  BY <1>1, <1>3, <1>4 DEF StreamsFit
<1> QED
  BY <1>1, <1>3, <1>5, <1>7, <1>8

\* A round that only counts, and one that creates a stream.
LEMMA GatherStep == ASSUME Inv, Gather PROVE Inv'
<1> USE DEF Inv
<1>1. markets \in Nat \ {0} /\ limit \in Nat \ {0, 1}
  BY Constants
<1>2. max_subscriptions \in 2..limit
  BY <1>1, Subscriptions DEF Gather
<1>3. /\ market' = market + 1 /\ UNCHANGED <<markets, limit>>
      /\ ~(markets <= max_subscriptions)
  BY <1>1, <1>2 DEF Gather
<1>4. max_subscriptions' = max_subscriptions
  BY <1>3 DEF max_subscriptions, divisor
<1>5. CASE ~IsFull
  <2>1. i' = i + 1 /\ UNCHANGED <<markets_sub, streams>>
    BY <1>5 DEF Gather
  <2>2. i # max_subscriptions
    BY <1>5 DEF IsFull
  <2>3. Typed'
    BY <1>3, <2>1 DEF Typed
  <2>4. LoopInv'
    BY <1>2, <1>3, <1>4, <2>1, <2>2 DEF LoopInv, Typed
  <2>5. StreamsFit'
    <3>1. market \in Nat /\ limit \in Nat /\ streams \in Seq(Nat \X Nat)
      BY DEF Typed
    <3>2. \A s \in DOMAIN streams : streams[s] \in Nat \X Nat
      BY <3>1
    <3> QED
      BY <3>1, <3>2, <1>3, <2>1 DEF StreamsFit
  <2> QED
    BY <1>3, <2>3, <2>4, <2>5 DEF Typed
<1>6. CASE IsFull
  <2> DEFINE new == <<markets_sub, market>>
  <2>1. /\ streams' = Append(streams, new)
        /\ markets_sub' = market + 1 /\ i' = 2
    BY <1>6 DEF Gather
  <2>2. new \in Nat \X Nat /\ new[1] = markets_sub /\ new[2] = market
    BY DEF Typed
  <2> HIDE DEF new
  <2>3. /\ streams' \in Seq(Nat \X Nat) /\ Len(streams') = Len(streams) + 1
        /\ Len(streams) \in Nat
        /\ \A s \in 1..Len(streams) : streams'[s] = streams[s]
        /\ streams'[Len(streams) + 1] = new
        /\ DOMAIN streams = 1..Len(streams) /\ DOMAIN streams' = 1..(Len(streams) + 1)
    BY <2>1, <2>2 DEF Typed
  <2>4. Typed'
    BY <1>3, <2>1, <2>3 DEF Typed
  <2>5. LoopInv'
    <3>1. streams' # << >> /\ streams'[Len(streams')][2] = market
      BY <2>2, <2>3
    <3> QED
      BY <1>2, <1>3, <1>4, <2>1, <3>1 DEF LoopInv, Typed
  <2>6. market - markets_sub + 1 \in 1..limit
    BY <1>1, <1>2, <1>3 DEF LoopInv, Typed
  <2>7. markets_sub = IF Len(streams) = 0 THEN 1 ELSE streams[Len(streams)][2] + 1
    BY <1>3 DEF LoopInv, Typed
  <2>8. StreamsFit'
    <3> DEFINE n == Len(streams)
               fits(s, seq, end) ==
                 /\ seq[s][2] < end
                 /\ seq[s][2] - seq[s][1] + 1 \in 1..limit
                 /\ seq[s][1] = IF s = 1 THEN 1 ELSE seq[s - 1][2] + 1
    <3>1. fits(n + 1, streams', market')
      <4>1. n + 1 - 1 = n /\ (n + 1 = 1 <=> n = 0) /\ market < market'
        BY <1>3, <2>3 DEF Typed
      <4>2. n # 0 => streams'[n] = streams[n]
        BY <2>3
      <4> QED
        BY <2>2, <2>3, <2>6, <2>7, <4>1, <4>2
    <3>2. ASSUME NEW s \in 1..n PROVE fits(s, streams', market')
      <4>1. fits(s, streams, market) /\ streams'[s] = streams[s]
        BY <2>3 DEF StreamsFit
      <4>2. s # 1 => s - 1 \in 1..n
        BY <2>3
      <4>3. s # 1 => streams'[s - 1] = streams[s - 1]
        BY <2>3, <4>2
      <4>4. streams[s][2] \in Nat
        BY <2>3 DEF Typed
      <4>5. streams[s][2] < market'
        BY <1>3, <4>1, <4>4 DEF Typed
      <4> QED
        BY <4>1, <4>3, <4>5
    <3>3. \A s \in 1..(n + 1) : s = n + 1 \/ s \in 1..n
      BY <2>3
    <3> HIDE DEF fits, n
    <3>4. \A s \in 1..(n + 1) : fits(s, streams', market')
      BY <3>1, <3>2, <3>3
    <3> QED
      BY <1>3, <2>3, <3>4 DEF StreamsFit, fits, n
  <2> QED
    BY <1>3, <2>4, <2>5, <2>8 DEF Typed
<1> QED
  BY <1>5, <1>6

\* The invariant holds of every run of the loop.
LEMMA LoopInductive == Spec => []Inv
<1>1. Inv /\ [Next]_vars => Inv'
  <2> SUFFICES ASSUME Inv, [Next]_vars PROVE Inv'
    OBVIOUS
  <2>1. CASE CreateOnly
    BY <2>1, CreateOnlyStep
  <2>2. CASE Gather
    BY <2>2, GatherStep
  <2>3. CASE UNCHANGED vars
    BY <2>3 DEF vars, Inv, Typed, LoopInv, StreamsFit, max_subscriptions, divisor
  <2> QED
    BY <2>1, <2>2, <2>3 DEF Next
<1> QED
  BY Initially, <1>1, PTL DEF Spec

\* Whatever the numbers of markets and the limits, every stream stays within the
\* limit and the streams are consecutive pieces of the list (listener.py:70-89).
THEOREM StreamsAlwaysFit == Spec => []StreamsFit
<1>1. Inv => StreamsFit
  BY DEF Inv
<1> QED
  BY <1>1, LoopInductive, PTL

-----------------------------------------------------------------------------
(* What is left out. *)

counted == loops * max_subscriptions

\* Markets short of what the counter would have, had the first stream been as the others.
Gap == counted - max_subscriptions + i - market - loops + 1

\* The loop creates full streams until the counter hits the number of markets (the
\* stream of that moment is the only short one) or jumps over it.
Ahead == counted + i <= markets /\ Gap = 0
JumpedOver ==
  /\ counted + i > markets /\ Gap = 0
  /\ \E k \in 1..(divisor - 1) : markets = k * max_subscriptions + 1
Hit ==
  /\ counted + i > markets
  /\ \E k \in 1..divisor : Gap = k * max_subscriptions - markets

CounterInv ==
  /\ loops \in Nat \ {0} /\ i # 0 /\ market <= markets + 1
  /\ markets <= max_subscriptions => markets_sub = market
  /\ ~(markets <= max_subscriptions) => Ahead \/ JumpedOver \/ Hit

\* The streams planned hold all the markets.
LEMMA StreamsPlanned ==
  ASSUME markets \in Nat \ {0}, limit \in Nat \ {0, 1}
  PROVE  /\ divisor \in Nat \ {0} /\ max_subscriptions \in Nat \ {0}
         /\ markets <= max_subscriptions * divisor
<1>1. divisor \in Nat /\ markets <= divisor * limit
  BY CeilDivBounds DEF divisor
<1>2. divisor # 0
  <2> SUFFICES ASSUME divisor = 0 PROVE FALSE
    OBVIOUS
  <2> QED
    BY <1>1
<1>3. markets <= max_subscriptions * divisor
  BY <1>1, <1>2, CeilDivBounds DEF max_subscriptions
<1> QED
  BY <1>1, <1>2, <1>3, Subscriptions

\* More than k streams are needed when k full ones do not take all markets.
LEMMA FullStreams ==
  ASSUME markets \in Nat \ {0}, limit \in Nat \ {0, 1}, NEW k \in Nat,
         k * max_subscriptions < markets
  PROVE  k < divisor
<1>1. divisor \in Nat /\ max_subscriptions \in Nat /\ markets <= max_subscriptions * divisor
  BY StreamsPlanned
<1> SUFFICES ASSUME divisor <= k PROVE FALSE
  BY <1>1
<1>2. divisor * max_subscriptions <= k * max_subscriptions
  BY <1>1, ProductMonotonic
<1>3. divisor * max_subscriptions = max_subscriptions * divisor
  BY <1>1
<1>4. k * max_subscriptions \in Nat /\ max_subscriptions * divisor \in Nat
  BY <1>1
<1> QED
  BY <1>1, <1>2, <1>3, <1>4

\* A round of the loop keeps to the three cases.
LEMMA CounterStep ==
  ASSUME Inv, CounterInv, Gather
  PROVE  CounterInv'
<1> DEFINE m == max_subscriptions
           c == counted
<1>1. markets \in Nat \ {0} /\ limit \in Nat \ {0, 1}
  BY Constants DEF Inv
<1>2. m \in Nat \ {0} /\ divisor \in Nat \ {0} /\ markets > m
  BY <1>1, StreamsPlanned DEF Gather
<1>a. m > 0 /\ ~(markets <= m)
  BY <1>1, <1>2
<1>3. /\ market \in Nat /\ market <= markets /\ market' = market + 1
      /\ markets' = markets /\ limit' = limit /\ loops \in Nat \ {0}
      /\ i \in Nat /\ i # 0 /\ i <= m
  <2>1. market \in Nat /\ i \in Nat /\ loops \in Nat \ {0} /\ i # 0
    BY DEF Inv, Typed, CounterInv
  <2>2. market <= markets /\ market' = market + 1 /\ markets' = markets /\ limit' = limit
    BY DEF Gather
  <2>3. i <= m
    BY <1>a DEF Inv, LoopInv
  <2> QED
    BY <2>1, <2>2, <2>3
<1>4. m' = m /\ divisor' = divisor
  BY <1>3 DEF max_subscriptions, divisor
<1>5. Ahead \/ JumpedOver \/ Hit
  BY <1>a DEF CounterInv
<1>6. c \in Nat /\ c = loops * m
  BY <1>2, <1>3 DEF counted
<1>7. market' <= markets' + 1
  BY <1>1, <1>3
<1>b. ASSUME loops' \in Nat \ {0}, i' # 0, Ahead' \/ JumpedOver' \/ Hit'
      PROVE  CounterInv'
  <2>1. ~(markets' <= max_subscriptions')
    BY <1>a, <1>3, <1>4
  <2> QED
    BY <1>b, <1>7, <2>1 DEF CounterInv
<1>8. Gap = c - m + i - market - loops + 1
  BY DEF Gap
<1>9. CASE ~IsFull
  <2>1. i' = i + 1 /\ loops' = loops
    BY <1>9 DEF Gather
  <2>2. i # m /\ c + i # markets
    BY <1>9 DEF IsFull, counted
  <2>3. c' = c /\ Gap' = Gap
    <3>1. c' = c
      BY <1>4, <2>1 DEF counted
    <3>2. Gap' = c - m + (i + 1) - (market + 1) - loops + 1
      BY <1>3, <1>4, <2>1, <3>1 DEF Gap
    <3> HIDE DEF c, m
    <3> QED
      BY <1>2, <1>3, <1>6, <1>8, <3>1, <3>2
  <2>4. Ahead => Ahead'
    BY <1>1, <1>3, <1>6, <2>1, <2>2, <2>3 DEF Ahead
  <2>5. JumpedOver => JumpedOver'
    BY <1>1, <1>3, <1>4, <1>6, <2>1, <2>3 DEF JumpedOver
  <2>6. Hit => Hit'
    BY <1>1, <1>3, <1>4, <1>6, <2>1, <2>3 DEF Hit
  <2> QED
    BY <1>3, <1>5, <1>b, <2>1, <2>4, <2>5, <2>6
<1>10. CASE IsFull
  <2>1. i' = 2 /\ loops' = loops + 1
    BY <1>10 DEF Gather
  <2>2. c' = c + m
    <3>1. c' = (loops + 1) * m
      BY <1>4, <2>1 DEF counted
    <3> QED
      BY <1>2, <1>3, <1>6, <3>1
  <2>3. Gap' = Gap + m - i
    <3>1. Gap' = (c + m) - m + 2 - (market + 1) - (loops + 1) + 1
      BY <1>3, <1>4, <2>1, <2>2 DEF Gap
    <3> HIDE DEF c, m
    <3> QED
      BY <1>2, <1>3, <1>6, <1>8, <3>1
  <2>4. i = m \/ c + i = markets
    BY <1>10 DEF IsFull, counted
  <2>5. c' + i' > c + i
    BY <1>2, <1>3, <1>6, <2>1, <2>2
  <2>6. CASE Ahead /\ c + i = markets
    <3>1. c' + i' > markets'
      BY <1>3, <2>5, <2>6
    <3>2. loops + 1 \in 1..divisor
      <4>1. loops * m < markets
        BY <1>1, <1>3, <1>6, <2>6
      <4>2. loops < divisor
        BY <1>1, <1>3, <4>1, FullStreams
      <4> QED
        BY <1>2, <1>3, <4>2
    <3>3. Gap' = (loops + 1) * m' - markets'
      <4>1. Gap' = m - i /\ (loops + 1) * m = c + m
        BY <1>2, <1>3, <1>6, <2>3, <2>6 DEF Ahead
      <4> HIDE DEF c, m
      <4> QED
        BY <1>2, <1>3, <1>4, <1>6, <2>6, <4>1 DEF m
    <3>4. Hit'
      BY <1>4, <3>1, <3>2, <3>3 DEF Hit
    <3> QED
      BY <1>3, <1>b, <2>1, <3>4
  <2>7. CASE Ahead /\ c + i # markets
    <3>1. i = m /\ Gap' = 0
      BY <1>2, <1>3, <2>3, <2>4, <2>7 DEF Ahead
    <3>2. c + m + 1 <= markets
      BY <1>1, <1>2, <1>6, <2>7, <3>1 DEF Ahead
    <3>3. CASE c + m + 1 = markets
      <4>1. markets = (loops + 1) * m + 1
        BY <1>2, <1>3, <1>6, <3>3
      <4>2. loops + 1 < divisor
        <5>1. (loops + 1) * m < markets
          BY <1>2, <1>3, <1>6, <3>3
        <5> QED
          BY <1>1, <1>3, <5>1, FullStreams
      <4>3. loops + 1 \in 1..(divisor - 1)
        BY <1>2, <1>3, <4>2
      <4>4. c' + i' > markets'
        BY <1>1, <1>2, <1>3, <1>6, <2>1, <2>2, <3>3
      <4>5. JumpedOver'
        BY <1>3, <1>4, <3>1, <4>1, <4>3, <4>4 DEF JumpedOver
      <4> QED
        BY <1>3, <1>b, <2>1, <4>5
    <3>4. CASE c + m + 1 # markets
      <4>1. Ahead'
        BY <1>1, <1>2, <1>3, <1>6, <2>1, <2>2, <3>1, <3>2, <3>4 DEF Ahead
      <4> QED
        BY <1>3, <1>b, <2>1, <4>1
    <3> QED
      BY <3>3, <3>4
  <2>8. CASE JumpedOver \/ Hit
    <3>1. c + i > markets
      BY <2>8 DEF JumpedOver, Hit
    <3>2. i = m
      BY <1>1, <1>3, <1>6, <2>4, <3>1
    <3>3. Gap' = Gap
      <4>1. Gap \in Int
        BY <1>2, <1>3, <1>6, <1>8
      <4> QED
        BY <1>2, <2>3, <3>2, <4>1
    <3>4. c' + i' > markets'
      BY <1>1, <1>2, <1>3, <1>6, <2>1, <2>2, <3>1
    <3>5. JumpedOver => JumpedOver'
      BY <1>3, <1>4, <3>3, <3>4 DEF JumpedOver
    <3>6. Hit => Hit'
      BY <1>3, <1>4, <3>3, <3>4 DEF Hit
    <3> QED
      BY <1>3, <1>b, <2>1, <2>8, <3>5, <3>6
  <2> QED
    BY <1>5, <2>6, <2>7, <2>8
<1> QED
  BY <1>9, <1>10

\* Before the loop the counter is ahead; the one stream leaves nothing over.
LEMMA CounterInitially == ASSUME Init PROVE CounterInv
<1>1. markets \in Nat \ {0} /\ limit \in Nat \ {0, 1}
  BY DEF Init
<1>2. market = 1 /\ markets_sub = 1 /\ i = 1 /\ loops = 1
  BY DEF Init
<1>3. max_subscriptions \in Nat \ {0}
  BY <1>1, StreamsPlanned
<1>4. CASE markets <= max_subscriptions
  BY <1>1, <1>2, <1>4 DEF CounterInv
<1>5. CASE ~(markets <= max_subscriptions)
  <2>1. counted = max_subscriptions
    BY <1>2, <1>3 DEF counted
  <2>2. Ahead
    BY <1>1, <1>2, <1>3, <1>5, <2>1 DEF Ahead, Gap
  <2> QED
    BY <1>1, <1>2, <1>5, <2>2 DEF CounterInv
<1> QED
  BY <1>4, <1>5

\* The invariant of the counter holds of every run of the loop.
LEMMA CounterInductive == Spec => []CounterInv
<1>1. CounterInv /\ Inv /\ [Next]_vars => CounterInv'
  <2> SUFFICES ASSUME CounterInv, Inv, [Next]_vars PROVE CounterInv'
    OBVIOUS
  <2>1. CASE CreateOnly
    <3>1. /\ markets \in Nat /\ markets' = markets /\ market' = markets + 1
          /\ markets_sub' = markets + 1 /\ i' = i /\ loops' = loops
          /\ markets <= max_subscriptions
      BY <2>1, Constants DEF CreateOnly, Inv
    <3>2. max_subscriptions' = max_subscriptions
      BY <2>1 DEF CreateOnly, max_subscriptions, divisor
    <3> QED
      BY <3>1, <3>2 DEF CounterInv
  <2>2. CASE Gather
    BY <2>2, CounterStep
  <2>3. CASE UNCHANGED vars
    <3>1. /\ markets' = markets /\ limit' = limit /\ market' = market
          /\ markets_sub' = markets_sub /\ i' = i /\ loops' = loops
      BY <2>3 DEF vars
    <3>2. max_subscriptions' = max_subscriptions /\ divisor' = divisor
      BY <3>1 DEF max_subscriptions, divisor
    <3>3. counted' = counted /\ Gap' = Gap
      BY <3>1, <3>2 DEF counted, Gap
    <3>4. (Ahead' <=> Ahead) /\ (JumpedOver' <=> JumpedOver) /\ (Hit' <=> Hit)
      BY <3>1, <3>2, <3>3 DEF Ahead, JumpedOver, Hit
    <3> QED
      BY <3>1, <3>2, <3>4 DEF CounterInv
  <2> QED
    BY <2>1, <2>2, <2>3 DEF Next
<1> QED
  BY CounterInitially, LoopInductive, <1>1, PTL DEF Spec

\* A remainder short of a stream stays below the number of streams it is counted from.
LEMMA Remainder ==
  ASSUME NEW m \in Nat \ {0, 1}, NEW n \in Nat, NEW over \in Int, NEW left \in Nat,
         left = over * (m - 1) + n, left <= m - 2
  PROVE  left <= n
<1> SUFFICES ASSUME over >= 1 PROVE FALSE
  <2>1. CASE over <= 0
    <3>1. over * (m - 1) <= 0 * (m - 1)
      <4>1. (0 - over) * (m - 1) >= 0
        BY <2>1
      <4> QED
        BY <4>1
    <3> QED
      BY <3>1
  <2> QED
    BY <2>1
<1>1. 1 * (m - 1) <= over * (m - 1)
  BY ProductMonotonic
<1> QED
  BY <1>1

\* However many markets there are, fewer stay without a stream than streams were
\* planned, and never as many as a stream takes (listener.py:70-89).
THEOREM FewMarketsLeftOut == Spec => []FewLeftOut
<1>1. Inv /\ CounterInv => FewLeftOut
  <2> SUFFICES ASSUME Inv, CounterInv, Done
               PROVE  /\ LeftOut < divisor
                      /\ markets > max_subscriptions => LeftOut <= max_subscriptions - 2
    BY DEF FewLeftOut
  <2> DEFINE m == max_subscriptions
             c == counted
  <2>1. markets \in Nat \ {0} /\ limit \in Nat \ {0, 1}
    BY Constants DEF Inv
  <2>2. m \in Nat \ {0} /\ divisor \in Nat \ {0}
    BY <2>1, StreamsPlanned
  <2>3. /\ market = markets + 1 /\ loops \in Nat \ {0} /\ i \in Nat
        /\ markets_sub \in Nat
    BY <2>1 DEF Done, CounterInv, Inv, Typed
  <2>4. CASE markets <= m
    <3>1. markets_sub = market
      BY <2>4 DEF CounterInv
    <3> QED
      BY <2>2, <2>1, <2>3, <2>4, <3>1 DEF LeftOut
  <2>5. CASE ~(markets <= m)
    <3>1. m \in Nat \ {0, 1}
      BY <2>1, <2>2, <2>5, Subscriptions
    <3>2. i <= m /\ LeftOut = i - 2 /\ LeftOut \in Nat
      <4>1. /\ markets_sub <= market /\ i <= m
            /\ streams = << >> => i = market
            /\ streams # << >> => i = market - markets_sub + 2
        BY <2>5 DEF Inv, LoopInv
      <4>2. streams # << >>
        BY <2>1, <2>2, <2>3, <2>5, <4>1
      <4> QED
        BY <2>3, <4>1, <4>2 DEF LeftOut
    <3>3. c \in Nat /\ c = loops * m
      BY <2>2, <2>3 DEF counted
    <3>4. Gap = c - m + i - market - loops + 1
      BY DEF Gap
    <3>5. JumpedOver \/ Hit
      <4>1. ~Ahead
        <5> HIDE DEF c, m
        <5>1. c + i <= markets /\ Gap = 0 => FALSE
          BY <2>1, <2>2, <2>3, <3>3, <3>4
        <5> QED
          BY <5>1 DEF Ahead, c
      <4> QED
        BY <2>5, <4>1 DEF CounterInv
    <3>6. LeftOut < divisor
      <4>1. CASE JumpedOver
        <5>1. PICK k \in 1..(divisor - 1) : markets = k * m + 1
          BY <4>1 DEF JumpedOver
        <5>2. i = k * m + 1 + 1 - c + m + loops - 1
          <6>1. Gap = 0
            BY <4>1 DEF JumpedOver
          <6>2. k * m \in Nat
            BY <2>2, <5>1
          <6> HIDE DEF c, m
          <6> QED
            BY <2>2, <2>3, <3>3, <3>4, <5>1, <6>1, <6>2
        <5>3. (k + 1 - loops) * (m - 1) = k * m + m - c - k - 1 + loops
          BY <2>2, <2>3, <3>3
        <5>4. LeftOut = (k + 1 - loops) * (m - 1) + k
          <6>1. k * m \in Nat
            BY <2>2, <5>1
          <6> HIDE DEF c, m
          <6> QED
            BY <2>2, <2>3, <3>2, <3>3, <5>2, <5>3, <6>1
        <5>5. k \in Nat /\ k + 1 - loops \in Int /\ LeftOut <= m - 2
          BY <2>2, <2>3, <3>2
        <5>6. LeftOut <= k
          BY <3>1, <3>2, <5>4, <5>5, Remainder
        <5> QED
          BY <2>2, <3>2, <5>6
      <4>2. CASE Hit
        <5>1. PICK k \in 1..divisor : Gap = k * m - markets
          BY <4>2 DEF Hit
        <5>2. i = k * m + 1 - c + m + loops - 1
          <6>1. k * m \in Nat
            BY <2>2, <5>1
          <6> HIDE DEF c, m
          <6> QED
            BY <2>1, <2>2, <2>3, <3>3, <3>4, <5>1, <6>1
        <5>3. (k + 1 - loops) * (m - 1) = k * m + m - c - k - 1 + loops
          BY <2>2, <2>3, <3>3
        <5>4. LeftOut = (k + 1 - loops) * (m - 1) + (k - 1)
          <6>1. k * m \in Nat
            BY <2>2, <5>1
          <6> HIDE DEF c, m
          <6> QED
            BY <2>2, <2>3, <3>2, <3>3, <5>2, <5>3, <6>1
        <5>5. k - 1 \in Nat /\ k + 1 - loops \in Int /\ LeftOut <= m - 2
          BY <2>2, <2>3, <3>2
        <5>6. LeftOut <= k - 1
          BY <3>1, <3>2, <5>4, <5>5, Remainder
        <5> QED
          BY <2>2, <3>2, <5>6
      <4> QED
        BY <3>5, <4>1, <4>2
    <3> QED
      BY <2>2, <2>3, <3>2, <3>6
  <2> QED
    BY <2>4, <2>5
<1> QED
  BY <1>1, LoopInductive, CounterInductive, PTL
=============================================================================
