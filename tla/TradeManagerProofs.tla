------------------------- MODULE TradeManagerProofs -------------------------
(***************************************************************************)
(* What TradeManager guarantees for any chains, coins, balances and        *)
(* bounds, with the thread that records chains (ChainRecords) or without.  *)
(***************************************************************************)
EXTENDS ChainRecords, CommonLemmas

Batches == (SUBSET Chains) \ {{}}
Busy == {"examine", "check", "shrink", "put", "reduce", "write", "store"}
Firing == {"put", "reduce", "write"}

QueuesTyped ==
  /\ positive_arbitrages_queue \in Seq(Batches \union {SENTINEL})
  /\ store_positive_arbitrages_queue \in Seq(Chains)

\* The thread's place in its loops: the index of a chain in a batch without
\* repetitions, and that of a leg.
PlaceTyped ==
  /\ pc \in Busy \union {"get", "ended"}
  /\ pc \notin Busy => batch = << >>
  /\ pc \in Busy => /\ batch \in Seq(Chains) /\ at \in 1..Len(batch)
                    /\ \A i, j \in 1..Len(batch) : batch[i] = batch[j] => i = j
                    /\ FireOnlyTop => at = 1
  /\ leg \in Legs /\ unput \subseteq Legs
  /\ pc \in {"get", "examine", "put", "store", "ended"} => leg = 1

\* What the thread computes with: the balances are known once it has checked one.
LocalsTyped ==
  /\ worst \in [n : Nat, d : Nat \ {0}]
  /\ pc \in Firing =>
       orders \in [Legs -> [base : Coins, quote : Coins, buy : BOOLEAN,
                            price : Nat, quantity : Nat]]
  /\ pc \in Firing \union {"shrink"} \/ (pc = "check" /\ leg # 1) => balances \in [Coins -> Int]
  /\ pc = "write" => amount \in Int

InFlight == [uid : {c.uid : c \in Chains}, leg : Legs, spends : Coins, spend : Nat,
             gets : Coins, gain : Nat]

BalancesTyped ==
  /\ balances = NoBalances \/ balances \in [Coins -> Int]
  /\ snapshot = NoBalances \/ snapshot \in [Coins -> Int]
  /\ base \in [Coins -> Int] /\ since \in [Coins -> Int] /\ account \in [Coins -> Int]
  /\ fire_orders_queue \subseteq InFlight

TypeInv == QueuesTyped /\ PlaceTyped /\ LocalsTyped /\ BalancesTyped

-----------------------------------------------------------------------------
Queued(c) ==
  \E i \in DOMAIN positive_arbitrages_queue :
    positive_arbitrages_queue[i] # SENTINEL /\ c \in positive_arbitrages_queue[i]
InBatch(c) == \E i \in DOMAIN batch : batch[i] = c
PutToStore(c) ==
  \E i \in DOMAIN store_positive_arbitrages_queue : store_positive_arbitrages_queue[i] = c

\* A chain is in one place: not found yet, in one batch of the queue, in the batch in
\* hand, or put to be stored.
OnePlace ==
  /\ \A c \in Chains : Queued(c) \/ InBatch(c) \/ PutToStore(c) => c \in arrived
  /\ \A c \in Chains : /\ ~(Queued(c) /\ InBatch(c))
                       /\ ~(Queued(c) /\ PutToStore(c))
                       /\ ~(InBatch(c) /\ PutToStore(c))
  /\ \A i, j \in DOMAIN positive_arbitrages_queue : \A c \in Chains :
       /\ positive_arbitrages_queue[i] # SENTINEL /\ c \in positive_arbitrages_queue[i]
       /\ positive_arbitrages_queue[j] # SENTINEL /\ c \in positive_arbitrages_queue[j]
       => i = j

Untouched(c) == \A i \in Legs : <<c, i>> \notin fired

\* Nothing was fired of a chain the thread has not come to.
AheadUntouched ==
  /\ \A c \in Chains : c \notin arrived \/ Queued(c) => Untouched(c)
  /\ \A i \in DOMAIN batch :
       i > at \/ (i = at /\ pc \in {"examine", "check", "shrink"}) => Untouched(batch[i])

\* The legs of the chain being fired: which are put, which are reserved.
FiringInv ==
  /\ pc = "put" => /\ unput # {}
                   /\ \A i \in Legs : <<chain, i>> \in fired <=> i \notin unput
                   /\ \A i \in Legs : <<chain, i>> \notin reserved
  /\ pc \in {"reduce", "write"} =>
       \A i \in Legs : /\ <<chain, i>> \in fired
                       /\ <<chain, i>> \in reserved <=> i < leg

\* What became of a chain, once the thread is done with it.
Decided(c) ==
  /\ \A i \in Legs : <<c, i>> \in reserved <=> <<c, i>> \in fired
  /\ \A i, j \in Legs : <<c, i>> \in fired <=> <<c, j>> \in fired
  /\ comment[c] = "created" <=> <<c, 1>> \in fired

OthersDecided ==
  /\ fired \subseteq Chains \X Legs /\ reserved \subseteq Chains \X Legs
  /\ \A c \in Chains : Decided(c) \/ (pc \in Firing /\ c = chain)

FateInv == OnePlace /\ AheadUntouched /\ FiringInv /\ OthersDecided

\* Between reduce_balance's read and its write nothing but a refresh changes the cache.
ReadIsCurrent == pc = "write" /\ ~split => amount = balances[coin]

CacheInv == CacheAccounting /\ ReadIsCurrent

\* The stop flag was raised behind the back of the chain in hand only.
FlagInv == stop_trading /\ pc \in PastTheFlag => chain \in inHand

\* A chain the store thread has written is done with: its comment stays.
RecordInv ==
  /\ \A c \in Chains : record[c] # "none" => PutToStore(c) /\ record[c] = comment[c]
  /\ DOMAIN record = Chains /\ DOMAIN comment = Chains
  /\ taken \in Nat
  /\ spc = "put" => taken \in DOMAIN store_positive_arbitrages_queue

-----------------------------------------------------------------------------
\* Taking the head of a queue: what was in it is the head or still in it.
LEMMA HeadOrTail ==
  ASSUME NEW S, NEW q \in Seq(S), q # << >>
  PROVE  /\ Head(q) \in S /\ Tail(q) \in Seq(S)
         /\ Len(q) \in Nat \ {0} /\ Head(q) = q[1]
         /\ DOMAIN q = 1..Len(q) /\ DOMAIN Tail(q) = 1..(Len(q) - 1)
         /\ \A i \in DOMAIN Tail(q) : Tail(q)[i] = q[i + 1]
OBVIOUS

\* Appending to a queue: what was in it stays where it was, the new comes last.
LEMMA AppendedLast ==
  ASSUME NEW S, NEW q \in Seq(S), NEW x \in S
  PROVE  /\ Append(q, x) \in Seq(S)
         /\ Len(q) \in Nat
         /\ DOMAIN q = 1..Len(q) /\ DOMAIN Append(q, x) = 1..(Len(q) + 1)
         /\ \A i \in DOMAIN q : Append(q, x)[i] = q[i]
         /\ Append(q, x)[Len(q) + 1] = x
OBVIOUS

\* Putting a batch at the end of a queue, chain by chain.
LEMMA Concatenated ==
  ASSUME NEW S, NEW s \in Seq(S), NEW t \in Seq(S)
  PROVE  /\ s \o t \in Seq(S) /\ Len(s) \in Nat /\ Len(t) \in Nat
         /\ DOMAIN (s \o t) = 1..(Len(s) + Len(t))
         /\ \A i \in 1..Len(s) : (s \o t)[i] = s[i]
         /\ \A i \in 1..(Len(s) + Len(t)) :
              i > Len(s) => i - Len(s) \in 1..Len(t) /\ (s \o t)[i] = t[i - Len(s)]
OBVIOUS

\* A batch comes out of the sort with each of its chains once, and not empty.
LEMMA SortedBatch ==
  ASSUME NEW S \in Batches, NEW b \in Sorted(S)
  PROVE  /\ b \in Seq(Chains) /\ Len(b) \in Nat \ {0} /\ DOMAIN b = 1..Len(b)
         /\ \A i \in 1..Len(b) : b[i] \in S
         /\ \A i, j \in 1..Len(b) : b[i] = b[j] => i = j
<1>1. IsFiniteSet(S) /\ S # {}
  <2>1. IsFiniteSet(Chains)
    BY ChainsAssumption
  <2>2. S \in SUBSET Chains /\ S # {}
    BY DEF Batches
  <2> QED
    BY <2>1, <2>2, FS_Subset
<1>2. Cardinality(S) \in Nat \ {0}
  BY <1>1, FS_CardinalityType, FS_EmptySet
<1>3. b \in [1..Cardinality(S) -> S]
  BY DEF Sorted
<1>4. b \in Seq(S) /\ Len(b) = Cardinality(S)
  BY <1>2, <1>3
<1>5. \A i, j \in 1..Len(b) : b[i] = b[j] => i = j
  BY <1>3, <1>4 DEF Sorted
<1> QED
  BY <1>1, <1>2, <1>3, <1>4, <1>5 DEF Batches

\* Rounding a natural ratio gives a natural.
LEMMA RoundedNatural ==
  ASSUME NEW n \in Nat, NEW d \in Nat \ {0} PROVE RoundHalfEven(n, d) \in Nat
<1>1. n \div d \in Nat /\ n % d \in Nat
  OBVIOUS
<1> QED
  BY <1>1 DEF RoundHalfEven

\* Products of naturals are naturals ...
LEMMA ProductNatural == ASSUME NEW n \in Nat, NEW m \in Nat PROVE n * m \in Nat
OBVIOUS

\* ... and of positive ones positive.
LEMMA ProductPositive ==
  ASSUME NEW n \in Nat \ {0}, NEW m \in Nat \ {0} PROVE n * m \in Nat \ {0}
OBVIOUS

\* A number brought to a tick or a lot is a natural.
LEMMA ToStepTyped ==
  ASSUME NEW n \in Nat, NEW d \in Nat \ {0}, NEW unit \in Nat \ {0}
  PROVE  ToStep(n, d, unit) \in Nat
<1>1. d * unit \in Nat \ {0}
  BY ProductPositive
<1>2. RoundHalfEven(n, d * unit) \in Nat
  BY <1>1, RoundedNatural
<1> QED
  BY <1>2, ProductNatural DEF ToStep

\* The chain in hand is one of Chains, the leg in hand a step over known coins.
LEMMA ChainInHand ==
  ASSUME PlaceTyped, pc \in Busy
  PROVE  /\ chain \in Chains /\ DOMAIN batch = 1..Len(batch) /\ Len(batch) \in Nat
         /\ at \in Nat /\ at \in DOMAIN batch
         /\ Key(chain) \in Keys /\ chain.roi \in 0..RoiDen
         /\ DOMAIN chain.steps = Legs /\ \A i \in Legs : IsStep(chain.steps[i])
         /\ IsStep(step) /\ coin \in Coins
<1>1. chain \in Chains /\ DOMAIN batch = 1..Len(batch) /\ Len(batch) \in Nat
  BY DEF PlaceTyped, chain
<1>2. /\ Key(chain) \in Keys /\ chain.roi \in 0..RoiDen
      /\ DOMAIN chain.steps = Legs /\ \A i \in Legs : IsStep(chain.steps[i])
  BY <1>1, ChainsAssumption
<1>3. IsStep(step)
  BY <1>2 DEF step, PlaceTyped
<1>4. coin \in Coins
  BY <1>3 DEF coin, SpendingCoin, IsStep
<1>5. at \in Nat /\ at \in DOMAIN batch
  BY <1>1 DEF PlaceTyped
<1> QED
  BY <1>1, <1>2, <1>3, <1>4, <1>5

\* The ratio the volumes are divided by is one of naturals (manager.py:168-187).
LEMMA BindingTyped ==
  ASSUME NEW w \in [n : Nat, d : Nat \ {0}], NEW s, IsStep(s), NEW bal \in Int
  PROVE  Binding(w, s, bal) \in [n : Nat, d : Nat \ {0}]
<1>1. Propose(s) \in Nat
  BY ProductNatural DEF Propose, IsStep
<1> QED
  BY <1>1 DEF Binding, Ratio

\* The orders made of a chain's steps (manager.py:189-220): naturals, whatever the
\* ratio and the roi, on the market and the side of the step.
LEMMA OrderTyped ==
  ASSUME NEW s, IsStep(s), NEW roi \in 0..RoiDen, NEW w \in [n : Nat, d : Nat \ {0}]
  PROVE  OrderFor(s, roi, w) \in [base : Coins, quote : Coins, buy : BOOLEAN,
                                  price : Nat, quantity : Nat]
<1>0. /\ LimitsOf(s).MIN_PRICE_STEP \in Nat \ {0} /\ LimitsOf(s).MIN_VOLUME_STEP \in Nat \ {0}
      /\ s.price \in Nat /\ s.volume \in Nat
  BY SizingAssumption DEF IsStep, LimitsOf
<1>1. BreakEvenPrice(s, roi) \in Nat
  <2>1. RoiDen \in Nat \ {0} /\ RoiDen + roi \in Nat /\ RoiDen - roi \in Nat
    BY SizingAssumption
  <2>2. s.price * (RoiDen + roi) \in Nat /\ s.price * (RoiDen - roi) \in Nat
    BY <1>0, <2>1, ProductNatural
  <2> QED
    BY <1>0, <2>1, <2>2, ToStepTyped DEF BreakEvenPrice
<1>2. Quantity(s, w) \in Nat
  <2>1. ShrinkFactor(w).n \in Nat /\ ShrinkFactor(w).d \in Nat \ {0}
    <3>1. CASE w.n # 0
      <4>1. w.n \in Nat \ {0} /\ w.d \in Nat /\ RatioNum \in Nat /\ RatioDen \in Nat \ {0}
        BY <3>1, SizingAssumption
      <4>2. RatioNum * w.d \in Nat /\ RatioDen * w.n \in Nat \ {0}
        BY <4>1, ProductNatural, ProductPositive
      <4> QED
        BY <3>1, <4>2 DEF ShrinkFactor
    <3> QED
      BY <3>1 DEF ShrinkFactor
  <2>2. s.volume * ShrinkFactor(w).n \in Nat
    BY <1>0, <2>1, ProductNatural
  <2> QED
    BY <1>0, <2>1, <2>2, ToStepTyped DEF Quantity
<1> QED
  BY <1>1, <1>2 DEF OrderFor, IsStep

\* An order that is put to the executors spends and brings naturals of known coins.
LEMMA FiredTyped ==
  ASSUME PlaceTyped, LocalsTyped, pc \in Firing, NEW i \in Legs
  PROVE  /\ Fired(i) \in InFlight /\ Spend(orders[i]) \in Nat
         /\ Fired(i).spends = SpendingCoin(chain.steps[i]) /\ Fired(i).spend = Spend(orders[i])
<1>1. pc \in Busy
  BY DEF Firing, Busy
<1>2. chain \in Chains /\ IsStep(chain.steps[i])
  BY <1>1, ChainInHand
<1>3. orders[i].price \in Nat /\ orders[i].quantity \in Nat
  BY DEF LocalsTyped
<1>4. Spend(orders[i]) \in Nat /\ Gain(orders[i]) \in Nat
  BY <1>3, ProductNatural DEF Spend, Gain
<1>5. SpendingCoin(chain.steps[i]) \in Coins /\ GettingCoin(chain.steps[i]) \in Coins
  BY <1>2 DEF IsStep, SpendingCoin, GettingCoin
<1> QED
  BY <1>2, <1>4, <1>5 DEF Fired, InFlight

-----------------------------------------------------------------------------
\* A chain that is done with leaves the thread at the next chain of the batch or at
\* its end (manager.py:65-74).
LEMMA ConcludeTyped ==
  ASSUME PlaceTyped, pc \in Busy, NEW text, Conclude(text), UNCHANGED batch,
         unput' \subseteq Legs
  PROVE  /\ PlaceTyped' /\ LocalsTyped'
         /\ leg' = 1 /\ at' \in DOMAIN batch
         /\ \/ pc' = "examine" /\ at' = at + 1
            \/ pc' = "store" /\ at' = at
<1>1. at \in 1..Len(batch) /\ Len(batch) \in Nat /\ DOMAIN batch = 1..Len(batch)
  BY DEF PlaceTyped
<1>2. /\ leg' = 1 /\ worst' = NoRatio
      /\ \/ pc' = "examine" /\ at' = at + 1 /\ ~FireOnlyTop /\ at < Len(batch)
         \/ pc' = "store" /\ at' = at
  BY DEF Conclude, MoreChains
<1>3. at' \in 1..Len(batch)
  BY <1>1, <1>2
<1>4. PlaceTyped'
  BY <1>2, <1>3 DEF PlaceTyped, Legs, Busy
<1>5. LocalsTyped'
  BY <1>2 DEF LocalsTyped, Firing, NoRatio
<1> QED
  BY <1>1, <1>2, <1>3, <1>4, <1>5

\* A coin the cache has a balance of: then it has one of every coin.
LEMMA BalancesKnown ==
  ASSUME BalancesTyped, NEW c \in DOMAIN balances PROVE balances \in [Coins -> Int]
BY DEF BalancesTyped, NoBalances

(* Each step of the thread keeps every variable in its type. *)

\* Taking a batch starts the loop over its chains (manager.py:51-63).
LEMMA GetTyped == ASSUME TypeInv, Get PROVE TypeInv'
<1>1. /\ Head(positive_arbitrages_queue) \in Batches
      /\ Tail(positive_arbitrages_queue) \in Seq(Batches \union {SENTINEL})
  BY HeadOrTail DEF Get, TypeInv, QueuesTyped
<1>2. /\ batch' \in Seq(Chains) /\ Len(batch') \in Nat \ {0}
      /\ \A i, j \in 1..Len(batch') : batch'[i] = batch'[j] => i = j
  BY <1>1, SortedBatch DEF Get
<1>3. PlaceTyped'
  BY <1>2 DEF Get, TypeInv, PlaceTyped, Busy
<1>4. QueuesTyped'
  BY <1>1 DEF Get, TypeInv, QueuesTyped
<1>5. LocalsTyped'
  BY DEF Get, TypeInv, LocalsTyped, Firing, cache
<1>6. BalancesTyped'
  BY DEF Get, TypeInv, BalancesTyped, cache, updater
<1> QED
  BY <1>3, <1>4, <1>5, <1>6 DEF TypeInv

\* The shutdown message ends the thread with no batch in hand (manager.py:52-54).
LEMMA GetSentinelTyped == ASSUME TypeInv, GetSentinel PROVE TypeInv'
<1>1. Tail(positive_arbitrages_queue) \in Seq(Batches \union {SENTINEL})
  BY HeadOrTail DEF GetSentinel, TypeInv, QueuesTyped
<1>2. QueuesTyped'
  BY <1>1 DEF GetSentinel, TypeInv, QueuesTyped
<1>3. PlaceTyped'
  BY DEF GetSentinel, TypeInv, PlaceTyped, Busy, locals
<1>4. LocalsTyped'
  BY DEF GetSentinel, TypeInv, LocalsTyped, Firing, locals, cache
<1>5. BalancesTyped'
  BY DEF GetSentinel, TypeInv, BalancesTyped, cache, updater
<1> QED
  BY <1>2, <1>3, <1>4, <1>5 DEF TypeInv

\* The look at the flag, the filter and the threshold (manager.py:81-99).
LEMMA ExamineTyped == ASSUME TypeInv, Examine PROVE TypeInv'
<1>1. QueuesTyped' /\ BalancesTyped'
  BY DEF Examine, TypeInv, QueuesTyped, BalancesTyped, bus, cache, updater
<1>2. pc \in Busy /\ batch' = batch /\ unput' \subseteq Legs
  BY DEF Examine, TypeInv, PlaceTyped, Busy
<1>3. CASE \E text : Conclude(text)
  BY <1>1, <1>2, <1>3, ConcludeTyped DEF TypeInv
<1>4. CASE pc' = "check" /\ UNCHANGED <<at, leg, worst, orders, amount, comment>>
  <2>1. leg = 1
    BY DEF Examine, TypeInv, PlaceTyped
  <2>2. PlaceTyped'
    BY <1>2, <1>4, <2>1 DEF TypeInv, PlaceTyped, Busy
  <2>3. LocalsTyped'
    BY <1>4, <2>1 DEF Examine, TypeInv, LocalsTyped, Firing, cache
  <2> QED
    BY <1>1, <2>2, <2>3 DEF TypeInv
<1> QED
  BY <1>3, <1>4 DEF Examine

\* A balance that was found positive is known, and so are all (manager.py:155-160).
LEMMA CheckTyped == ASSUME TypeInv, Check PROVE TypeInv'
<1>1. QueuesTyped' /\ BalancesTyped'
  BY DEF Check, TypeInv, QueuesTyped, BalancesTyped, bus, cache, updater
<1>2. pc \in Busy /\ batch' = batch /\ unput' \subseteq Legs
  BY DEF Check, TypeInv, PlaceTyped, Busy
<1>3. CASE \E text : Conclude(text)
  BY <1>1, <1>2, <1>3, ConcludeTyped DEF TypeInv
<1>4. CASE /\ coin \in DOMAIN balances
           /\ IF MoreLegs THEN leg' = leg + 1 /\ pc' = pc ELSE leg' = 1 /\ pc' = "shrink"
           /\ UNCHANGED <<at, worst, orders, amount, comment>>
  <2>1. balances' \in [Coins -> Int]
    BY <1>4, BalancesKnown DEF Check, TypeInv, cache
  <2>2. leg' \in Legs /\ pc' \in {"check", "shrink"}
    <3>1. pc = "check" /\ leg \in Legs
      BY DEF Check, TypeInv, PlaceTyped
    <3> QED
      BY <1>4, <3>1 DEF MoreLegs, Legs
  <2>3. PlaceTyped'
    BY <1>2, <1>4, <2>2 DEF TypeInv, PlaceTyped, Busy
  <2>4. LocalsTyped'
    BY <1>4, <2>1, <2>2 DEF TypeInv, LocalsTyped, Firing
  <2> QED
    BY <1>1, <2>3, <2>4 DEF TypeInv
<1> QED
  BY <1>3, <1>4 DEF Check

\* The ratio, and the orders made with it, are of naturals (manager.py:162-220).
LEMMA ShrinkTyped == ASSUME TypeInv, Shrink PROVE TypeInv'
<1> DEFINE w == Binding(worst, step, balances[coin])
           os == OrdersFor(chain.steps, chain.roi, w)
<1>1. QueuesTyped' /\ BalancesTyped' /\ balances' = balances
  BY DEF Shrink, TypeInv, QueuesTyped, BalancesTyped, bus, cache, updater
<1>2. pc \in Busy /\ batch' = batch /\ unput' \subseteq Legs
  BY DEF Shrink, TypeInv, PlaceTyped, Busy
<1>3. balances \in [Coins -> Int] /\ worst \in [n : Nat, d : Nat \ {0}] /\ leg \in Legs
  BY DEF Shrink, TypeInv, LocalsTyped, PlaceTyped
<1>4. w \in [n : Nat, d : Nat \ {0}]
  BY <1>2, <1>3, ChainInHand, BindingTyped DEF TypeInv
<1> HIDE DEF w
<1>5. os \in [Legs -> [base : Coins, quote : Coins, buy : BOOLEAN, price : Nat, quantity : Nat]]
  BY <1>2, <1>4, ChainInHand, OrderTyped DEF TypeInv, OrdersFor
<1> HIDE DEF os
<1>6. CASE \E text : Conclude(text)
  BY <1>1, <1>2, <1>6, ConcludeTyped DEF TypeInv
<1>7. CASE /\ MoreLegs /\ worst' = w /\ leg' = leg + 1
           /\ UNCHANGED <<pc, at, orders, unput, amount, comment>>
  <2>1. leg' \in Legs /\ pc' = "shrink"
    BY <1>3, <1>7 DEF Shrink, MoreLegs, Legs
  <2>2. PlaceTyped'
    BY <1>2, <1>7, <2>1 DEF TypeInv, PlaceTyped, Busy
  <2>3. LocalsTyped'
    BY <1>1, <1>3, <1>4, <1>7, <2>1 DEF TypeInv, LocalsTyped, Firing
  <2> QED
    BY <1>1, <2>2, <2>3 DEF TypeInv
<1>8. CASE /\ worst' = w /\ leg' = 1 /\ orders' = os /\ unput' = Legs /\ pc' = "put"
           /\ UNCHANGED <<at, amount, comment>>
  <2>1. PlaceTyped'
    BY <1>2, <1>8 DEF TypeInv, PlaceTyped, Busy, Legs
  <2>2. LocalsTyped'
    BY <1>1, <1>3, <1>4, <1>5, <1>8 DEF TypeInv, LocalsTyped, Firing
  <2> QED
    BY <1>1, <2>1, <2>2 DEF TypeInv
<1> QED
  BY <1>6, <1>7, <1>8 DEF Shrink, w, os

\* What is put to the executors is a well-typed order (manager.py:121-130).
LEMMA PutOrderTyped == ASSUME TypeInv, PutOrder PROVE TypeInv'
<1>1. PICK i \in unput : /\ fire_orders_queue' = fire_orders_queue \union {Fired(i)}
                         /\ unput' = unput \ {i}
  BY DEF PutOrder
<1>2. i \in Legs /\ pc \in Firing /\ pc = "put"
  BY DEF PutOrder, TypeInv, PlaceTyped, Firing
<1>3. BalancesTyped'
  <2>1. Fired(i) \in InFlight
    BY <1>2, FiredTyped DEF TypeInv
  <2> QED
    BY <1>1, <2>1 DEF PutOrder, TypeInv, BalancesTyped, cache
<1>4. QueuesTyped'
  BY DEF PutOrder, TypeInv, QueuesTyped
<1>5. pc' \in {"put", "reduce"}
  BY <1>2 DEF PutOrder
<1>6. PlaceTyped'
  BY <1>1, <1>2, <1>5 DEF PutOrder, TypeInv, PlaceTyped, Busy
<1>7. LocalsTyped'
  BY <1>2, <1>5 DEF PutOrder, TypeInv, LocalsTyped, Firing, cache
<1> QED
  BY <1>3, <1>4, <1>6, <1>7 DEF TypeInv

\* What is read of the cache is a number (registry.py:62-76).
LEMMA ReduceReadTyped == ASSUME TypeInv, ReduceRead PROVE TypeInv'
<1>1. QueuesTyped' /\ BalancesTyped'
  BY DEF ReduceRead, TypeInv, QueuesTyped, BalancesTyped, bus, updater
<1>2. PlaceTyped'
  BY DEF ReduceRead, TypeInv, PlaceTyped, Busy
<1>3. amount' \in Int
  <2>1. coin \in Coins
    BY ChainInHand DEF ReduceRead, TypeInv, Busy
  <2>2. balances \in [Coins -> Int]
    BY DEF ReduceRead, TypeInv, LocalsTyped, Firing
  <2> QED
    BY <2>1, <2>2 DEF ReduceRead
<1>4. LocalsTyped'
  BY <1>3 DEF ReduceRead, TypeInv, LocalsTyped, Firing
<1> QED
  BY <1>1, <1>2, <1>4 DEF TypeInv

\* What is written to it is one too (registry.py:62-76).
LEMMA ReduceWriteTyped == ASSUME TypeInv, ReduceWrite PROVE TypeInv'
<1>1. /\ pc = "write" /\ pc \in Busy /\ pc \in Firing /\ batch' = batch /\ unput' \subseteq Legs
      /\ leg \in Legs
  BY DEF ReduceWrite, TypeInv, PlaceTyped, Busy, Firing
<1>2. coin \in Coins /\ Spend(orders[leg]) \in Nat /\ amount \in Int /\ balances \in [Coins -> Int]
  BY <1>1, ChainInHand, FiredTyped DEF TypeInv, LocalsTyped, Firing
<1>3. balances' \in [Coins -> Int] /\ since' \in [Coins -> Int]
  <2>1. NewAmount \in Int
    BY <1>2 DEF NewAmount
  <2>2. since \in [Coins -> Int]
    BY DEF TypeInv, BalancesTyped
  <2> QED
    BY <1>2, <2>1, <2>2 DEF ReduceWrite
<1>4. BalancesTyped'
  BY <1>3 DEF ReduceWrite, TypeInv, BalancesTyped, bus, updater
<1>5. QueuesTyped'
  BY DEF ReduceWrite, TypeInv, QueuesTyped, bus
<1>6. CASE Conclude("created")
  BY <1>1, <1>4, <1>5, <1>6, ConcludeTyped DEF TypeInv
<1>7. CASE /\ MoreLegs /\ leg' = leg + 1 /\ pc' = "reduce"
           /\ UNCHANGED <<at, worst, orders, comment>>
  <2>1. leg' \in Legs
    BY <1>1, <1>7 DEF MoreLegs, Legs
  <2>2. PlaceTyped'
    BY <1>1, <1>7, <2>1 DEF TypeInv, PlaceTyped, Busy
  <2>3. LocalsTyped'
    BY <1>1, <1>3, <1>7 DEF TypeInv, LocalsTyped, Firing
  <2> QED
    BY <1>4, <1>5, <2>2, <2>3 DEF TypeInv
<1> QED
  BY <1>6, <1>7 DEF ReduceWrite

\* Only chains are put to be stored (manager.py:76-77).
LEMMA StoreTyped == ASSUME TypeInv, Store PROVE TypeInv'
<1>1. pc \in Busy
  BY DEF Store, Busy
<1>2. QueuesTyped'
  BY <1>1, Concatenated DEF Store, TypeInv, QueuesTyped, PlaceTyped
<1>3. PlaceTyped'
  BY DEF Store, TypeInv, PlaceTyped, Busy
<1>4. LocalsTyped'
  BY DEF Store, TypeInv, LocalsTyped, Firing, cache
<1>5. BalancesTyped'
  BY DEF Store, TypeInv, BalancesTyped, cache, updater
<1> QED
  BY <1>2, <1>3, <1>4, <1>5 DEF TypeInv

(* Each step of the world around the thread keeps the types. *)

\* What the search puts on the bus is a batch.
LEMMA FindChainsTyped == ASSUME TypeInv, FindChains PROVE TypeInv'
<1>1. PICK chains \in SUBSET (Chains \ arrived) :
        /\ chains # {}
        /\ positive_arbitrages_queue' = Append(positive_arbitrages_queue, chains)
  BY DEF FindChains
<1>2. chains \in Batches
  BY <1>1 DEF Batches
<1>3. QueuesTyped'
  BY <1>1, <1>2, AppendedLast DEF FindChains, TypeInv, QueuesTyped
<1>4. PlaceTyped' /\ LocalsTyped'
  BY DEF FindChains, TypeInv, PlaceTyped, LocalsTyped, thread, locals, cache
<1>5. BalancesTyped'
  BY DEF FindChains, TypeInv, BalancesTyped, cache, updater
<1> QED
  BY <1>3, <1>4, <1>5 DEF TypeInv

\* The only other message on the bus is the shutdown.
LEMMA ShutdownTyped == ASSUME TypeInv, Shutdown PROVE TypeInv'
<1>1. QueuesTyped'
  BY AppendedLast DEF Shutdown, TypeInv, QueuesTyped
<1>2. PlaceTyped' /\ LocalsTyped'
  BY DEF Shutdown, TypeInv, PlaceTyped, LocalsTyped, thread, locals, cache
<1>3. BalancesTyped'
  BY DEF Shutdown, TypeInv, BalancesTyped, cache, updater
<1> QED
  BY <1>1, <1>2, <1>3 DEF TypeInv

\* The flag and the clock concern no other variable.
LEMMA FlagAndClockTyped == ASSUME TypeInv, SetStopTrading \/ Tick PROVE TypeInv'
<1>1. QueuesTyped' /\ BalancesTyped'
  BY DEF SetStopTrading, Tick, TypeInv, QueuesTyped, BalancesTyped, bus, cache, updater
<1>2. PlaceTyped' /\ LocalsTyped'
  BY DEF SetStopTrading, Tick, TypeInv, PlaceTyped, LocalsTyped, thread, locals, cache
<1> QED
  BY <1>1, <1>2 DEF TypeInv

\* What the account shows is a number for every coin.
LEMMA FetchBalancesTyped == ASSUME TypeInv, FetchBalances PROVE TypeInv'
<1>1. QueuesTyped'
  BY DEF FetchBalances, TypeInv, QueuesTyped, bus
<1>2. PlaceTyped' /\ LocalsTyped'
  BY DEF FetchBalances, TypeInv, PlaceTyped, LocalsTyped, thread, locals, cache
<1>3. BalancesTyped'
  BY DEF FetchBalances, TypeInv, BalancesTyped, cache, bus
<1> QED
  BY <1>1, <1>2, <1>3 DEF TypeInv

\* The refresh swaps in a number for every coin (registry.py:59-60).
LEMMA UpdateBalancesTyped == ASSUME TypeInv, UpdateBalances PROVE TypeInv'
<1>1. balances' \in [Coins -> Int] /\ base' \in [Coins -> Int]
  BY DEF UpdateBalances, TypeInv, BalancesTyped
<1>2. QueuesTyped'
  BY DEF UpdateBalances, TypeInv, QueuesTyped, bus
<1>3. PlaceTyped' /\ LocalsTyped'
  BY <1>1 DEF UpdateBalances, TypeInv, PlaceTyped, LocalsTyped, thread, locals
<1>4. BalancesTyped'
  BY <1>1 DEF UpdateBalances, TypeInv, BalancesTyped, bus, Nothing
<1> QED
  BY <1>2, <1>3, <1>4 DEF TypeInv

\* A filled order moves naturals between known coins.
LEMMA FillTyped == ASSUME TypeInv, Fill PROVE TypeInv'
<1>1. PICK o \in fire_orders_queue :
        /\ account' = [account EXCEPT ![o.spends] = @ - o.spend, ![o.gets] = @ + o.gain]
        /\ fire_orders_queue' = fire_orders_queue \ {o}
  BY DEF Fill
<1>2. /\ o.spends \in Coins /\ o.gets \in Coins /\ o.spend \in Nat /\ o.gain \in Nat
      /\ account \in [Coins -> Int]
  BY DEF TypeInv, BalancesTyped, InFlight
<1>3. account' \in [Coins -> Int]
  BY <1>1, <1>2
<1>4. QueuesTyped'
  BY DEF Fill, TypeInv, QueuesTyped
<1>5. PlaceTyped' /\ LocalsTyped'
  BY DEF Fill, TypeInv, PlaceTyped, LocalsTyped, thread, locals, cache
<1>6. BalancesTyped'
  BY <1>1, <1>3 DEF Fill, TypeInv, BalancesTyped, cache, updater
<1> QED
  BY <1>4, <1>5, <1>6 DEF TypeInv

\* So does a market order of the rebalancer (balances_rebalancer.py:68-75).
LEMMA RebalanceTyped == ASSUME TypeInv, Rebalance PROVE TypeInv'
<1>1. PICK o \in MarketOrders :
        account' = [account EXCEPT ![o.spends] = @ - o.spend, ![o.gets] = @ + o.gain]
  BY DEF Rebalance
<1>2. /\ o.spends \in Coins /\ o.gets \in Coins /\ o.spend \in Nat /\ o.gain \in Nat
      /\ account \in [Coins -> Int]
  BY SettingsAssumption DEF TypeInv, BalancesTyped
<1>3. account' \in [Coins -> Int]
  BY <1>1, <1>2
<1>4. QueuesTyped'
  BY DEF Rebalance, TypeInv, QueuesTyped, bus
<1>5. PlaceTyped' /\ LocalsTyped'
  BY DEF Rebalance, TypeInv, PlaceTyped, LocalsTyped, thread, locals
<1>6. BalancesTyped'
  BY <1>3 DEF Rebalance, TypeInv, BalancesTyped, bus
<1> QED
  BY <1>4, <1>5, <1>6 DEF TypeInv

\* An order not filled is gone from flight, no more.
LEMMA ExpireTyped == ASSUME TypeInv, Expire PROVE TypeInv'
<1>1. QueuesTyped' /\ BalancesTyped'
  BY DEF Expire, TypeInv, QueuesTyped, BalancesTyped, cache, updater
<1>2. PlaceTyped' /\ LocalsTyped'
  BY DEF Expire, TypeInv, PlaceTyped, LocalsTyped, thread, locals, cache
<1> QED
  BY <1>1, <1>2 DEF TypeInv

\* The program starts in its types.
LEMMA TypeInitially == Init => TypeInv
<1> SUFFICES ASSUME Init PROVE TypeInv
  OBVIOUS
<1>0. /\ positive_arbitrages_queue = << >> /\ store_positive_arbitrages_queue = << >>
      /\ fire_orders_queue = {} /\ unput = {}
      /\ pc = "get" /\ batch = << >> /\ leg = 1 /\ worst = NoRatio
      /\ balances = NoBalances /\ snapshot = NoBalances /\ account = Deposit
      /\ base = [c \in Coins |-> 0] /\ since = [c \in Coins |-> 0]
  BY DEF Init, Nothing
<1>1. QueuesTyped /\ PlaceTyped
  BY <1>0 DEF QueuesTyped, PlaceTyped, Busy, Legs
<1>2. LocalsTyped
  BY <1>0 DEF LocalsTyped, Firing, NoRatio
<1>3. BalancesTyped
  BY <1>0, SettingsAssumption DEF BalancesTyped
<1> QED
  BY <1>1, <1>2, <1>3 DEF TypeInv

\* Every variable keeps its range: the batch in hand has each chain once, the orders
\* are of naturals, the balances are known by the time the thread computes with them.
LEMMA TypeInductive == TypeInv /\ [Next]_vars => TypeInv'
<1> SUFFICES ASSUME TypeInv, [Next]_vars PROVE TypeInv'
  OBVIOUS
<1>1. CASE TradeManagerStep
  BY <1>1, GetTyped, GetSentinelTyped, ExamineTyped, CheckTyped, ShrinkTyped, PutOrderTyped,
     ReduceReadTyped, ReduceWriteTyped, StoreTyped DEF TradeManagerStep
<1>2. CASE FindChains \/ Shutdown \/ SetStopTrading \/ Tick
  BY <1>2, FindChainsTyped, ShutdownTyped, FlagAndClockTyped
<1>3. CASE FetchBalances \/ UpdateBalances \/ Fill \/ Expire \/ Rebalance
  BY <1>3, FetchBalancesTyped, UpdateBalancesTyped, FillTyped, ExpireTyped, RebalanceTyped
<1>4. CASE UNCHANGED vars
  BY <1>4 DEF TypeInv, QueuesTyped, PlaceTyped, LocalsTyped, BalancesTyped, vars, bus, locals,
              cache, updater
<1> QED
  BY <1>1, <1>2, <1>3, <1>4 DEF Next

\* The thread never computes with a balance it does not have, nor with a chain or a
\* leg out of its loops' range (manager.py:49-139).
THEOREM TypeInvHolds == Spec => []TypeInv
<1> QED
  BY TypeInitially, TypeInductive, PTL DEF Spec
-----------------------------------------------------------------------------
\* Taking a batch, or the shutdown message, off the queue leaves the rest of the
\* queue as it was.
LEMMA StillQueued ==
  ASSUME QueuesTyped, positive_arbitrages_queue # << >>,
         positive_arbitrages_queue' = Tail(positive_arbitrages_queue),
         OnePlace
  PROVE  /\ \A c \in Chains : Queued(c)' => Queued(c)
         /\ Head(positive_arbitrages_queue) # SENTINEL =>
              \A c \in Chains : c \in Head(positive_arbitrages_queue) => Queued(c) /\ ~Queued(c)'
         /\ \A i, j \in DOMAIN positive_arbitrages_queue' : \A c \in Chains :
              /\ positive_arbitrages_queue'[i] # SENTINEL /\ c \in positive_arbitrages_queue'[i]
              /\ positive_arbitrages_queue'[j] # SENTINEL /\ c \in positive_arbitrages_queue'[j]
              => i = j
<1> DEFINE q == positive_arbitrages_queue
           n == Len(q)
<1>1. /\ n \in Nat \ {0} /\ Head(q) = q[1] /\ DOMAIN q = 1..n /\ DOMAIN q' = 1..(n - 1)
      /\ \A i \in 1..(n - 1) : q'[i] = q[i + 1]
  BY HeadOrTail DEF QueuesTyped
<1>2. \A i \in 1..(n - 1) : i + 1 \in 1..n /\ i + 1 # 1
  BY <1>1
<1>3. \A i, j \in 1..n : \A c \in Chains :
        q[i] # SENTINEL /\ c \in q[i] /\ q[j] # SENTINEL /\ c \in q[j] => i = j
  BY <1>1 DEF OnePlace
<1>4. \A c \in Chains : Queued(c)' <=> \E i \in 1..(n - 1) : q'[i] # SENTINEL /\ c \in q'[i]
  BY <1>1 DEF Queued
<1>5. \A c \in Chains : Queued(c) <=> \E i \in 1..n : q[i] # SENTINEL /\ c \in q[i]
  BY <1>1 DEF Queued
<1> HIDE DEF q, n
<1>6. \A c \in Chains : Queued(c)' => Queued(c)
  BY <1>1, <1>2, <1>4, <1>5
<1>7. ASSUME Head(q) # SENTINEL, NEW c \in Chains, c \in Head(q) PROVE Queued(c) /\ ~Queued(c)'
  <2>1. 1 \in 1..n /\ c \in q[1] /\ q[1] # SENTINEL
    BY <1>1, <1>7
  <2>2. ASSUME NEW i \in 1..(n - 1), q'[i] # SENTINEL, c \in q'[i] PROVE FALSE
    <3>1. i + 1 \in 1..n /\ i + 1 # 1 /\ q[i + 1] # SENTINEL /\ c \in q[i + 1]
      BY <1>1, <1>2, <2>2
    <3> QED
      BY <1>3, <2>1, <3>1
  <2> QED
    BY <1>4, <1>5, <2>1, <2>2
<1>8. ASSUME NEW i \in 1..(n - 1), NEW j \in 1..(n - 1), NEW c \in Chains,
             q'[i] # SENTINEL, c \in q'[i], q'[j] # SENTINEL, c \in q'[j]
      PROVE  i = j
  <2>1. i + 1 = j + 1
    BY <1>1, <1>2, <1>3, <1>8
  <2> QED
    BY <1>1, <2>1
<1> QED
  BY <1>1, <1>6, <1>7, <1>8 DEF q

\* A batch in hand comes from the queue (manager.py:51-63).
LEMMA GetOnePlace == ASSUME TypeInv, OnePlace, Get PROVE OnePlace'
<1> DEFINE S == Head(positive_arbitrages_queue)
<1>1. S \in Batches
  BY HeadOrTail DEF Get, TypeInv, QueuesTyped
<1>2. DOMAIN batch' = 1..Len(batch') /\ \A i \in 1..Len(batch') : batch'[i] \in S
  BY <1>1, SortedBatch DEF Get
<1>3. /\ \A c \in Chains : Queued(c)' => Queued(c)
      /\ \A c \in Chains : c \in S => Queued(c) /\ ~Queued(c)'
      /\ \A i, j \in DOMAIN positive_arbitrages_queue' : \A c \in Chains :
           /\ positive_arbitrages_queue'[i] # SENTINEL /\ c \in positive_arbitrages_queue'[i]
           /\ positive_arbitrages_queue'[j] # SENTINEL /\ c \in positive_arbitrages_queue'[j]
           => i = j
  BY StillQueued DEF Get, TypeInv
<1>4. \A c \in Chains : InBatch(c)' => c \in S
  BY <1>2 DEF InBatch
<1>5. \A c \in Chains : PutToStore(c)' = PutToStore(c)
  BY DEF PutToStore, Get
<1>6. arrived' = arrived
  BY DEF Get, history
<1> QED
  BY <1>3, <1>4, <1>5, <1>6 DEF OnePlace

\* The shutdown message leaves every chain where it is.
LEMMA GetSentinelOnePlace == ASSUME TypeInv, OnePlace, GetSentinel PROVE OnePlace'
<1>1. /\ \A c \in Chains : Queued(c)' => Queued(c)
      /\ \A i, j \in DOMAIN positive_arbitrages_queue' : \A c \in Chains :
           /\ positive_arbitrages_queue'[i] # SENTINEL /\ c \in positive_arbitrages_queue'[i]
           /\ positive_arbitrages_queue'[j] # SENTINEL /\ c \in positive_arbitrages_queue'[j]
           => i = j
  BY StillQueued DEF GetSentinel, TypeInv
<1>2. \A c \in Chains : InBatch(c)' = InBatch(c) /\ PutToStore(c)' = PutToStore(c)
  BY DEF InBatch, PutToStore, GetSentinel, locals
<1>3. arrived' = arrived
  BY DEF GetSentinel, history
<1> QED
  BY <1>1, <1>2, <1>3 DEF OnePlace

\* The batch in hand goes to the store queue as a whole (manager.py:76-77).
LEMMA StoreOnePlace == ASSUME TypeInv, OnePlace, Store PROVE OnePlace'
<1> DEFINE q == store_positive_arbitrages_queue
<1>1. q \in Seq(Chains) /\ batch \in Seq(Chains)
  BY DEF Store, TypeInv, QueuesTyped, PlaceTyped, Busy
<1>2. /\ DOMAIN q' = 1..(Len(q) + Len(batch)) /\ Len(q) \in Nat /\ Len(batch) \in Nat
      /\ DOMAIN q = 1..Len(q) /\ DOMAIN batch = 1..Len(batch)
      /\ \A i \in 1..Len(q) : q'[i] = q[i]
      /\ \A i \in 1..(Len(q) + Len(batch)) :
           i > Len(q) => i - Len(q) \in 1..Len(batch) /\ q'[i] = batch[i - Len(q)]
  BY <1>1, Concatenated DEF Store
<1>3. ASSUME NEW c \in Chains, PutToStore(c)' PROVE PutToStore(c) \/ InBatch(c)
  <2>1. PICK i \in 1..(Len(q) + Len(batch)) : q'[i] = c
    BY <1>2, <1>3 DEF PutToStore
  <2>2. CASE i \in 1..Len(q)
    BY <1>2, <2>1, <2>2 DEF PutToStore
  <2>3. CASE i > Len(q)
    BY <1>2, <2>1, <2>3 DEF InBatch
  <2> QED
    BY <1>2, <2>2, <2>3
<1>4. \A c \in Chains : ~InBatch(c)'
  BY DEF InBatch, Store
<1>5. \A c \in Chains : Queued(c)' = Queued(c)
  BY DEF Queued, Store
<1>6. arrived' = arrived /\ positive_arbitrages_queue' = positive_arbitrages_queue
  BY DEF Store, history
<1> QED
  BY <1>3, <1>4, <1>5, <1>6 DEF OnePlace

\* What the search puts on the bus is new (__main__.py:44-51).
LEMMA FindChainsOnePlace == ASSUME TypeInv, OnePlace, FindChains PROVE OnePlace'
<1> DEFINE q == positive_arbitrages_queue
<1>1. PICK chains \in SUBSET (Chains \ arrived) :
        chains # {} /\ q' = Append(q, chains) /\ arrived' = arrived \union chains
  BY DEF FindChains
<1>2. chains \in Batches
  BY <1>1 DEF Batches
<1>3. /\ Len(q) \in Nat /\ DOMAIN q = 1..Len(q) /\ DOMAIN q' = 1..(Len(q) + 1)
      /\ \A i \in DOMAIN q : q'[i] = q[i]
      /\ q'[Len(q) + 1] = chains
  BY <1>1, <1>2, AppendedLast DEF TypeInv, QueuesTyped
<1>4. \A c \in Chains : Queued(c)' => Queued(c) \/ c \in chains
  BY <1>3 DEF Queued
<1>5. \A c \in Chains : InBatch(c)' = InBatch(c) /\ PutToStore(c)' = PutToStore(c)
  BY DEF InBatch, PutToStore, FindChains, thread, locals
<1>6. \A c \in chains : c \notin arrived /\ c \in arrived'
  BY <1>1
<1>7. ASSUME NEW i \in DOMAIN q', NEW j \in DOMAIN q', NEW c \in Chains,
             q'[i] # SENTINEL, c \in q'[i], q'[j] # SENTINEL, c \in q'[j]
      PROVE  i = j
  <2>1. ASSUME NEW k \in DOMAIN q, c \in q'[k], q'[k] # SENTINEL PROVE c \in arrived
    BY <1>3, <2>1 DEF OnePlace, Queued
  <2>2. CASE c \in chains
    BY <1>3, <1>6, <1>7, <2>1, <2>2
  <2>3. CASE c \notin chains
    <3>1. i \in DOMAIN q /\ j \in DOMAIN q
      BY <1>3, <1>7, <2>3
    <3> QED
      BY <1>3, <1>7, <3>1 DEF OnePlace
  <2> QED
    BY <2>2, <2>3
<1>8. \A c \in Chains : c \in arrived => c \in arrived'
  BY <1>1
<1> HIDE DEF q
<1>9. \A c \in Chains : Queued(c)' \/ InBatch(c)' \/ PutToStore(c)' => c \in arrived'
  BY <1>4, <1>5, <1>6, <1>8 DEF OnePlace
<1>10. \A c \in Chains : /\ ~(Queued(c)' /\ InBatch(c)')
                         /\ ~(Queued(c)' /\ PutToStore(c)')
                         /\ ~(InBatch(c)' /\ PutToStore(c)')
  BY <1>4, <1>5, <1>6 DEF OnePlace
<1> QED
  BY <1>7, <1>9, <1>10 DEF OnePlace, q

\* ... whoever sent it.
LEMMA ShutdownOnePlace == ASSUME TypeInv, OnePlace, Shutdown PROVE OnePlace'
<1> DEFINE q == positive_arbitrages_queue
<1>1. /\ Len(q) \in Nat /\ DOMAIN q = 1..Len(q) /\ DOMAIN q' = 1..(Len(q) + 1)
      /\ \A i \in DOMAIN q : q'[i] = q[i]
      /\ q'[Len(q) + 1] = SENTINEL
  BY AppendedLast DEF Shutdown, TypeInv, QueuesTyped
<1>2. \A c \in Chains : Queued(c)' => Queued(c)
  BY <1>1 DEF Queued
<1>3. \A c \in Chains : InBatch(c)' = InBatch(c) /\ PutToStore(c)' = PutToStore(c)
  BY DEF InBatch, PutToStore, Shutdown, thread, locals
<1>4. arrived' = arrived
  BY DEF Shutdown, history
<1>5. ASSUME NEW i \in DOMAIN q', NEW j \in DOMAIN q', NEW c \in Chains,
             q'[i] # SENTINEL, c \in q'[i], q'[j] # SENTINEL, c \in q'[j]
      PROVE  i = j
  <2>1. i \in DOMAIN q /\ j \in DOMAIN q
    BY <1>1, <1>5
  <2> QED
    BY <1>1, <1>5, <2>1 DEF OnePlace
<1> HIDE DEF q
<1> QED
  BY <1>2, <1>3, <1>4, <1>5 DEF OnePlace, q

\* A chain is found once and goes through the queues in one piece.
LEMMA OnePlaceInductive == TypeInv /\ OnePlace /\ [Next]_vars => OnePlace'
<1> SUFFICES ASSUME TypeInv, OnePlace, [Next]_vars PROVE OnePlace'
  OBVIOUS
<1>1. CASE Get \/ GetSentinel \/ Store \/ FindChains \/ Shutdown
  BY <1>1, GetOnePlace, GetSentinelOnePlace, StoreOnePlace, FindChainsOnePlace, ShutdownOnePlace
<1>2. CASE UNCHANGED <<positive_arbitrages_queue, store_positive_arbitrages_queue, batch, arrived>>
  BY <1>2 DEF OnePlace, Queued, InBatch, PutToStore
<1>3. CASE Examine \/ Check \/ Shrink \/ PutOrder \/ ReduceRead \/ ReduceWrite
  BY <1>2, <1>3 DEF Examine, Check, Shrink, PutOrder, ReduceRead, ReduceWrite, bus, history
<1>4. CASE SetStopTrading \/ Rebalance \/ FetchBalances \/ UpdateBalances \/ Fill \/ Expire \/ Tick
          \/ UNCHANGED vars
  BY <1>2, <1>4 DEF SetStopTrading, Rebalance, FetchBalances, UpdateBalances, Fill, Expire, Tick,
                    vars, bus, thread, locals, history
<1> QED
  BY <1>1, <1>3, <1>4 DEF Next, TradeManagerStep

-----------------------------------------------------------------------------
\* A chain the thread is done with without firing it: every other chain keeps its
\* comment, or gets "top only" while the thread has not come to it.
LEMMA ConcludeUnfired ==
  ASSUME TypeInv, FateInv, NEW text, text # "created", Conclude(text),
         pc \in {"examine", "check", "shrink"},
         UNCHANGED <<batch, positive_arbitrages_queue, arrived, fired, reserved, unput>>
  PROVE  AheadUntouched' /\ FiringInv' /\ OthersDecided'
<1>1. /\ leg' = 1 /\ at' \in DOMAIN batch
      /\ \/ pc' = "examine" /\ at' = at + 1
         \/ pc' = "store" /\ at' = at
  <2>1. PlaceTyped /\ pc \in Busy /\ unput' \subseteq Legs /\ UNCHANGED batch
    BY DEF TypeInv, PlaceTyped, Busy
  <2> QED
    BY <2>1, ConcludeTyped
<1>2. /\ chain \in Chains /\ at \in DOMAIN batch /\ at \in Nat /\ DOMAIN batch = 1..Len(batch)
      /\ FireOnlyTop => at = 1
  BY ChainInHand DEF TypeInv, PlaceTyped, Busy
<1>3. \A c \in Chains : Queued(c)' = Queued(c)
  BY DEF Queued
<1>4. AheadUntouched'
  <2>1. \A i \in DOMAIN batch :
          i > at' \/ (i = at' /\ pc' \in {"examine", "check", "shrink"}) => i > at
    BY <1>1, <1>2
  <2>2. \A c \in Chains : Untouched(c)' = Untouched(c)
    BY DEF Untouched
  <2>3. \A i \in DOMAIN batch : Untouched(batch[i])' = Untouched(batch[i])
    BY DEF Untouched
  <2> QED
    BY <1>3, <2>1, <2>2, <2>3 DEF FateInv, AheadUntouched
<1>5. FiringInv'
  BY <1>1 DEF FiringInv
<1>6. ASSUME NEW c \in Chains PROVE Decided(c)'
  <2>1. Decided(c)
    BY DEF FateInv, OthersDecided, Firing
  <2>2. /\ comment' = Commented(text)
        /\ comment'[c] = IF c = chain THEN text
                         ELSE IF FireOnlyTop /\ \E i \in DOMAIN batch : c = batch[i] THEN "top only"
                         ELSE comment[c]
    BY DEF Conclude, Commented
  <2>3. CASE comment'[c] = comment[c]
    BY <2>1, <2>3 DEF Decided
  <2>4. CASE comment'[c] # comment[c]
    <3>1. comment'[c] # "created"
      BY <2>2, <2>4
    <3>2. PICK i \in DOMAIN batch : c = batch[i] /\ i >= at
      <4>1. CASE c = chain
        BY <1>2, <4>1 DEF chain
      <4>2. CASE c # chain
        <5>1. FireOnlyTop /\ \E i \in DOMAIN batch : c = batch[i]
          BY <2>2, <2>4, <4>2
        <5> QED
          BY <1>2, <5>1
      <4> QED
        BY <4>1, <4>2
    <3>3. i > at \/ (i = at /\ pc \in {"examine", "check", "shrink"})
      BY <1>2, <3>2
    <3>4. Untouched(c)
      BY <3>2, <3>3 DEF FateInv, AheadUntouched
    <3>5. <<c, 1>> \notin fired
      BY <3>4 DEF Untouched, Legs
    <3> QED
      BY <2>1, <3>1, <3>5 DEF Decided
  <2> QED
    BY <2>3, <2>4
<1>7. OthersDecided'
  BY <1>6 DEF FateInv, OthersDecided
<1> QED
  BY <1>4, <1>5, <1>7

\* A step that leaves the place in the loops, the comments and the history alone.
LEMMA FateElsewhere ==
  ASSUME TypeInv, FateInv,
         UNCHANGED <<positive_arbitrages_queue, arrived, batch, at, unput, leg, comment, fired,
                     reserved>>,
         \/ pc' = pc
         \/ pc \in {"examine", "check"} /\ pc' \in {"check", "shrink"}
         \/ pc = "reduce" /\ pc' = "write"
  PROVE  AheadUntouched' /\ FiringInv' /\ OthersDecided'
<1>1. \A c \in Chains : Queued(c)' = Queued(c)
  BY DEF Queued
<1>2. \A i \in DOMAIN batch : Untouched(batch[i])' = Untouched(batch[i])
  BY DEF Untouched
<1>3. \A c \in Chains : Untouched(c)' = Untouched(c)
  BY DEF Untouched
<1>4. AheadUntouched'
  BY <1>1, <1>2, <1>3 DEF FateInv, AheadUntouched
<1>5. chain' = chain
  BY DEF chain
<1>6. FiringInv'
  BY <1>5 DEF FateInv, FiringInv
<1>7. \A c \in Chains : Decided(c)' = Decided(c)
  BY DEF Decided
<1>8. OthersDecided'
  BY <1>5, <1>7 DEF FateInv, OthersDecided, Firing
<1> QED
  BY <1>4, <1>6, <1>8

\* Nothing of a batch just taken was fired.
LEMMA GetFate == ASSUME TypeInv, FateInv, Get PROVE AheadUntouched' /\ FiringInv' /\ OthersDecided'
<1> DEFINE S == Head(positive_arbitrages_queue)
<1>1. S \in Batches
  BY HeadOrTail DEF Get, TypeInv, QueuesTyped
<1>2. DOMAIN batch' = 1..Len(batch') /\ \A i \in 1..Len(batch') : batch'[i] \in S
  BY <1>1, SortedBatch DEF Get
<1>3. /\ \A c \in Chains : Queued(c)' => Queued(c)
      /\ \A c \in Chains : c \in S => Queued(c)
  BY StillQueued DEF Get, TypeInv, FateInv
<1>4. \A c \in S : c \in Chains /\ Untouched(c)
  BY <1>1, <1>3 DEF FateInv, AheadUntouched, Batches
<1>5. fired' = fired /\ reserved' = reserved /\ arrived' = arrived /\ comment' = comment
  BY DEF Get, history
<1>6. AheadUntouched'
  BY <1>2, <1>3, <1>4, <1>5 DEF FateInv, AheadUntouched, Untouched
<1>7. pc = "get" /\ pc' = "examine"
  BY DEF Get
<1>8. FiringInv' /\ OthersDecided'
  BY <1>5, <1>7 DEF FateInv, FiringInv, OthersDecided, Decided, Firing
<1> QED
  BY <1>6, <1>8

\* The thread ends between two chains.
LEMMA GetSentinelFate ==
  ASSUME TypeInv, FateInv, GetSentinel PROVE AheadUntouched' /\ FiringInv' /\ OthersDecided'
<1>1. \A c \in Chains : Queued(c)' => Queued(c)
  BY StillQueued DEF GetSentinel, TypeInv, FateInv
<1>2. /\ fired' = fired /\ reserved' = reserved /\ arrived' = arrived /\ comment' = comment
      /\ batch' = batch /\ at' = at /\ pc' = "ended" /\ pc = "get"
  BY DEF GetSentinel, history, locals
<1>3. AheadUntouched'
  BY <1>1, <1>2 DEF FateInv, AheadUntouched, Untouched
<1>4. FiringInv' /\ OthersDecided'
  BY <1>2 DEF FateInv, FiringInv, OthersDecided, Decided, Firing
<1> QED
  BY <1>3, <1>4

\* A batch is put to be stored when the thread is done with all of it (manager.py:76-77).
LEMMA StoreFate ==
  ASSUME TypeInv, FateInv, Store PROVE AheadUntouched' /\ FiringInv' /\ OthersDecided'
<1>1. /\ fired' = fired /\ reserved' = reserved /\ arrived' = arrived /\ comment' = comment
      /\ positive_arbitrages_queue' = positive_arbitrages_queue
      /\ batch' = << >> /\ pc' = "get" /\ pc = "store"
  BY DEF Store, history
<1>2. AheadUntouched'
  BY <1>1 DEF FateInv, AheadUntouched, Untouched, Queued
<1>3. FiringInv' /\ OthersDecided'
  BY <1>1 DEF FateInv, FiringInv, OthersDecided, Decided, Firing
<1> QED
  BY <1>2, <1>3

\* New chains come with nothing fired of them.
LEMMA FindChainsFate ==
  ASSUME TypeInv, FateInv, FindChains PROVE AheadUntouched' /\ FiringInv' /\ OthersDecided'
<1> DEFINE q == positive_arbitrages_queue
<1>1. PICK chains \in SUBSET (Chains \ arrived) :
        chains # {} /\ q' = Append(q, chains) /\ arrived' = arrived \union chains
  BY DEF FindChains
<1>2. chains \in Batches
  BY <1>1 DEF Batches
<1>3. /\ Len(q) \in Nat /\ DOMAIN q = 1..Len(q) /\ DOMAIN q' = 1..(Len(q) + 1)
      /\ \A i \in DOMAIN q : q'[i] = q[i]
      /\ q'[Len(q) + 1] = chains
  BY <1>1, <1>2, AppendedLast DEF TypeInv, QueuesTyped
<1>4. \A c \in Chains : Queued(c)' => Queued(c) \/ c \notin arrived
  BY <1>1, <1>3 DEF Queued
<1>5. /\ fired' = fired /\ reserved' = reserved /\ comment' = comment
      /\ batch' = batch /\ at' = at /\ pc' = pc /\ leg' = leg /\ unput' = unput
  BY DEF FindChains, thread, locals
<1>6. chain' = chain
  BY <1>5 DEF chain
<1>7. \A c \in Chains : c \notin arrived' => c \notin arrived
  BY <1>1
<1>8. AheadUntouched'
  BY <1>4, <1>5, <1>7 DEF FateInv, AheadUntouched, Untouched
<1>9. FiringInv'
  BY <1>5, <1>6 DEF FateInv, FiringInv
<1>10. OthersDecided'
  BY <1>5, <1>6 DEF FateInv, OthersDecided, Decided
<1> QED
  BY <1>8, <1>9, <1>10

\* The shutdown message does not concern the chains in hand.
LEMMA ShutdownFate ==
  ASSUME TypeInv, FateInv, Shutdown PROVE AheadUntouched' /\ FiringInv' /\ OthersDecided'
<1> DEFINE q == positive_arbitrages_queue
<1>1. /\ Len(q) \in Nat /\ DOMAIN q = 1..Len(q) /\ DOMAIN q' = 1..(Len(q) + 1)
      /\ \A i \in DOMAIN q : q'[i] = q[i]
      /\ q'[Len(q) + 1] = SENTINEL
  BY AppendedLast DEF Shutdown, TypeInv, QueuesTyped
<1>2. \A c \in Chains : Queued(c)' => Queued(c)
  BY <1>1 DEF Queued
<1>3. /\ fired' = fired /\ reserved' = reserved /\ comment' = comment /\ arrived' = arrived
      /\ batch' = batch /\ at' = at /\ pc' = pc /\ leg' = leg /\ unput' = unput
  BY DEF Shutdown, thread, locals, history
<1>4. chain' = chain
  BY <1>3 DEF chain
<1>5. AheadUntouched'
  BY <1>2, <1>3 DEF FateInv, AheadUntouched, Untouched
<1>6. FiringInv'
  BY <1>3, <1>4 DEF FateInv, FiringInv
<1>7. OthersDecided'
  BY <1>3, <1>4 DEF FateInv, OthersDecided, Decided
<1> QED
  BY <1>5, <1>6, <1>7

\* Examine: a chain refused is given its comment, one that goes on has none yet.
LEMMA ExamineFate ==
  ASSUME TypeInv, FateInv, Examine PROVE AheadUntouched' /\ FiringInv' /\ OthersDecided'
<1>1. /\ UNCHANGED <<batch, positive_arbitrages_queue, arrived, fired, reserved, unput>>
      /\ pc = "examine"
  BY DEF Examine, bus, history
<1>2. CASE \E text : text # "created" /\ Conclude(text)
  BY <1>1, <1>2, ConcludeUnfired
<1>3. CASE pc' = "check" /\ UNCHANGED <<at, leg, worst, orders, amount, comment>>
  BY <1>1, <1>3, FateElsewhere
<1> QED
  BY <1>2, <1>3 DEF Examine

\* Checking the balances fires nothing (manager.py:155-160).
LEMMA CheckFate ==
  ASSUME TypeInv, FateInv, Check PROVE AheadUntouched' /\ FiringInv' /\ OthersDecided'
<1>1. /\ UNCHANGED <<batch, positive_arbitrages_queue, arrived, fired, reserved, unput>>
      /\ pc = "check"
  BY DEF Check, bus, history
<1>2. CASE \E text : text # "created" /\ Conclude(text)
  BY <1>1, <1>2, ConcludeUnfired
<1>3. CASE pc' \in {"check", "shrink"} /\ UNCHANGED <<at, comment>>
  <2>1. /\ \A c \in Chains : Queued(c)' = Queued(c) /\ Untouched(c)' = Untouched(c)
        /\ \A i \in DOMAIN batch : Untouched(batch[i])' = Untouched(batch[i])
    BY <1>1 DEF Queued, Untouched
  <2>2. AheadUntouched'
    BY <1>1, <1>3, <2>1 DEF FateInv, AheadUntouched
  <2>3. FiringInv' /\ OthersDecided'
    BY <1>1, <1>3 DEF FateInv, FiringInv, OthersDecided, Decided, Firing
  <2> QED
    BY <2>2, <2>3
<1>4. CASE /\ IF MoreLegs THEN leg' = leg + 1 /\ pc' = pc ELSE leg' = 1 /\ pc' = "shrink"
           /\ UNCHANGED <<at, worst, orders, amount, comment>>
  BY <1>1, <1>3, <1>4
<1> QED
  BY <1>2, <1>4 DEF Check

\* Nothing of a chain is fired by the time its orders are made (manager.py:101-113).
LEMMA ShrinkFate ==
  ASSUME TypeInv, FateInv, Shrink PROVE AheadUntouched' /\ FiringInv' /\ OthersDecided'
<1>1. /\ UNCHANGED <<batch, positive_arbitrages_queue, arrived, fired, reserved>>
      /\ pc = "shrink"
  BY DEF Shrink, bus, history
<1>2. /\ \A c \in Chains : Queued(c)' = Queued(c) /\ Untouched(c)' = Untouched(c)
      /\ \A i \in DOMAIN batch : Untouched(batch[i])' = Untouched(batch[i])
  BY <1>1 DEF Queued, Untouched
<1>3. CASE \E text : text # "created" /\ Conclude(text) /\ UNCHANGED unput
  BY <1>1, <1>3, ConcludeUnfired
<1>4. CASE UNCHANGED <<pc, at, comment>>
  <2>1. AheadUntouched'
    BY <1>1, <1>2, <1>4 DEF FateInv, AheadUntouched
  <2>2. FiringInv' /\ OthersDecided'
    BY <1>1, <1>4 DEF FateInv, FiringInv, OthersDecided, Decided, Firing
  <2> QED
    BY <2>1, <2>2
<1>5. CASE unput' = Legs /\ pc' = "put" /\ UNCHANGED <<at, comment>>
  <2>1. AheadUntouched'
    BY <1>1, <1>2, <1>5 DEF FateInv, AheadUntouched
  <2>2. chain' = chain /\ chain \in Chains
    BY <1>1, <1>5, ChainInHand DEF chain, TypeInv, Busy
  <2>3. Untouched(chain) /\ Decided(chain)
    BY <1>1, <2>2, ChainInHand DEF FateInv, AheadUntouched, OthersDecided, Firing, TypeInv, Busy, chain
  <2>4. \A i \in Legs : <<chain, i>> \notin fired /\ <<chain, i>> \notin reserved
    BY <2>3 DEF Untouched, Decided
  <2>5. FiringInv'
    BY <1>1, <1>5, <2>2, <2>4 DEF FiringInv, Legs
  <2>6. OthersDecided'
    BY <1>1, <1>5 DEF FateInv, OthersDecided, Decided, Firing
  <2> QED
    BY <2>1, <2>5, <2>6
<1> QED
  BY <1>3, <1>4, <1>5 DEF Shrink

\* A leg put to the executors is one of the chain in hand, which is neither queued
\* nor ahead in the batch (manager.py:121-130).
LEMMA PutOrderFate ==
  ASSUME TypeInv, FateInv, PutOrder PROVE AheadUntouched' /\ FiringInv' /\ OthersDecided'
<1>1. PICK i \in unput : /\ fired' = fired \union {<<chain, i>>}
                         /\ unput' = unput \ {i}
                         /\ pc' = IF unput' = {} THEN "reduce" ELSE pc
  BY DEF PutOrder
<1>2. /\ UNCHANGED <<batch, at, positive_arbitrages_queue, arrived, reserved, leg, comment>>
      /\ pc = "put"
  BY DEF PutOrder
<1>3. /\ chain \in Chains /\ chain = batch[at] /\ at \in DOMAIN batch /\ at \in Nat
      /\ DOMAIN batch = 1..Len(batch) /\ chain' = chain
  BY <1>2, ChainInHand DEF TypeInv, Busy, chain
<1>4. \A c \in Chains : Queued(c)' = Queued(c)
  BY <1>2 DEF Queued
<1>5. ~Queued(chain) /\ chain \in arrived
  BY <1>3 DEF FateInv, OnePlace, InBatch
<1>6. \A c : c # chain => \A j \in Legs : <<c, j>> \in fired' <=> <<c, j>> \in fired
  BY <1>1
<1>7. \A j \in DOMAIN batch : j > at => batch[j] # chain
  BY <1>2, <1>3 DEF TypeInv, PlaceTyped, Busy
<1>8. AheadUntouched'
  <2>1. \A c \in Chains : c \notin arrived \/ Queued(c) => Untouched(c)'
    BY <1>5, <1>6 DEF FateInv, AheadUntouched, Untouched
  <2>2. \A j \in DOMAIN batch : j > at => Untouched(batch[j])'
    BY <1>2, <1>6, <1>7 DEF FateInv, AheadUntouched, Untouched
  <2>3. pc' \notin {"examine", "check", "shrink"}
    BY <1>1, <1>2
  <2> QED
    BY <1>2, <1>4, <2>1, <2>2, <2>3 DEF AheadUntouched
<1>9. /\ i \in Legs
      /\ \A j \in Legs : <<chain, j>> \in fired' <=> j \notin unput'
  BY <1>1, <1>2 DEF FateInv, FiringInv, TypeInv, PlaceTyped
<1>10. leg = 1 /\ \A j \in Legs : <<chain, j>> \notin reserved
  BY <1>2 DEF FateInv, FiringInv, TypeInv, PlaceTyped
<1>11. FiringInv'
  BY <1>1, <1>2, <1>3, <1>9, <1>10 DEF FiringInv, Legs
<1>12. OthersDecided'
  <2>1. fired' \subseteq Chains \X Legs /\ reserved' \subseteq Chains \X Legs
    BY <1>1, <1>2, <1>3, <1>9 DEF FateInv, OthersDecided
  <2>2. pc' \in Firing
    BY <1>1, <1>2 DEF Firing
  <2>3. ASSUME NEW c \in Chains, c # chain PROVE Decided(c)'
    <3>1. Decided(c)
      BY <2>3 DEF FateInv, OthersDecided
    <3>2. 1 \in Legs
      BY DEF Legs
    <3> QED
      BY <1>2, <1>6, <2>3, <3>1, <3>2 DEF Decided
  <2> QED
    BY <1>3, <2>1, <2>2, <2>3 DEF OthersDecided
<1> QED
  BY <1>8, <1>11, <1>12

\* The last reservation of a chain settles its fate (manager.py:115-119, 132-139).
LEMMA ReduceWriteFate ==
  ASSUME TypeInv, FateInv, ReduceWrite PROVE AheadUntouched' /\ FiringInv' /\ OthersDecided'
<1>1. /\ UNCHANGED <<batch, positive_arbitrages_queue, arrived, fired, unput>>
      /\ pc = "write" /\ reserved' = reserved \union {<<chain, leg>>} /\ leg \in Legs
  BY DEF ReduceWrite, bus, TypeInv, PlaceTyped
<1>2. /\ chain \in Chains /\ chain = batch[at] /\ at \in DOMAIN batch /\ at \in Nat
      /\ DOMAIN batch = 1..Len(batch) /\ (FireOnlyTop => at = 1)
  BY <1>1, ChainInHand DEF TypeInv, Busy, chain, PlaceTyped
<1>3. /\ \A c \in Chains : Queued(c)' = Queued(c) /\ Untouched(c)' = Untouched(c)
      /\ \A i \in DOMAIN batch : Untouched(batch[i])' = Untouched(batch[i])
  BY <1>1 DEF Queued, Untouched
<1>4. \A i \in Legs : <<chain, i>> \in fired /\ (<<chain, i>> \in reserved <=> i < leg)
  BY <1>1 DEF FateInv, FiringInv
<1>5. reserved' \subseteq Chains \X Legs /\ fired' \subseteq Chains \X Legs
  BY <1>1, <1>2 DEF FateInv, OthersDecided
<1>6. \A c : c # chain => \A j \in Legs : <<c, j>> \in reserved' <=> <<c, j>> \in reserved
  BY <1>1
<1>7. \A c \in Chains : c # chain => Decided(c)
  BY <1>1 DEF FateInv, OthersDecided, Firing
<1>8. CASE /\ MoreLegs /\ leg' = leg + 1 /\ pc' = "reduce"
           /\ UNCHANGED <<at, worst, orders, comment>>
  <2>1. chain' = chain
    BY <1>1, <1>8 DEF chain
  <2>2. AheadUntouched'
    BY <1>1, <1>3, <1>8 DEF FateInv, AheadUntouched
  <2>3. \A i \in Legs : <<chain, i>> \in reserved' <=> i < leg + 1
    BY <1>1, <1>4 DEF Legs
  <2>4. FiringInv'
    BY <1>1, <1>4, <1>8, <2>1, <2>3 DEF FiringInv
  <2>5. OthersDecided'
    BY <1>1, <1>5, <1>6, <1>7, <1>8, <2>1 DEF OthersDecided, Decided, Firing
  <2> QED
    BY <2>2, <2>4, <2>5
<1>9. CASE ~MoreLegs /\ Conclude("created")
  <2>1. /\ leg' = 1 /\ at' \in DOMAIN batch
        /\ \/ pc' = "examine" /\ at' = at + 1
           \/ pc' = "store" /\ at' = at
    <3>1. PlaceTyped /\ pc \in Busy /\ unput' \subseteq Legs /\ UNCHANGED batch
      BY <1>1 DEF TypeInv, PlaceTyped, Busy
    <3> QED
      BY <1>9, <3>1, ConcludeTyped
  <2>2. AheadUntouched'
    <3>1. \A i \in DOMAIN batch :
            i > at' \/ (i = at' /\ pc' \in {"examine", "check", "shrink"}) => i > at
      BY <1>2, <2>1
    <3> QED
      BY <1>1, <1>3, <3>1 DEF FateInv, AheadUntouched
  <2>3. FiringInv'
    BY <2>1 DEF FiringInv
  <2>4. \A c \in Chains :
          comment'[c] = IF c = chain THEN "created"
                        ELSE IF FireOnlyTop /\ \E i \in DOMAIN batch : c = batch[i] THEN "top only"
                        ELSE comment[c]
    BY <1>9 DEF Conclude, Commented
  <2>5. ASSUME NEW c \in Chains, c = chain PROVE Decided(c)'
    <3>1. \A i \in Legs : <<chain, i>> \in reserved'
      BY <1>1, <1>4, <1>9 DEF MoreLegs, Legs
    <3>2. comment'[chain] = "created"
      BY <1>2, <2>4
    <3> QED
      BY <1>1, <1>4, <2>5, <3>1, <3>2 DEF Decided, Legs
  <2>6. ASSUME NEW c \in Chains, c # chain PROVE Decided(c)'
    <3>1. Decided(c)
      BY <1>7, <2>6
    <3>2. comment'[c] = "created" <=> comment[c] = "created"
      <4>1. CASE comment'[c] = comment[c]
        BY <4>1
      <4>2. CASE comment'[c] # comment[c]
        <5>1. comment'[c] # "created"
          BY <2>4, <2>6, <4>2
        <5>2. FireOnlyTop /\ \E i \in DOMAIN batch : c = batch[i]
          BY <2>4, <2>6, <4>2
        <5>3. PICK i \in DOMAIN batch : c = batch[i] /\ i > at
          BY <1>2, <2>6, <5>2
        <5>4. Untouched(c)
          BY <5>3 DEF FateInv, AheadUntouched
        <5> QED
          BY <3>1, <5>1, <5>4 DEF Decided, Untouched, Legs
      <4> QED
        BY <4>1, <4>2
    <3> QED
      BY <1>1, <1>6, <2>6, <3>1, <3>2 DEF Decided
  <2>7. \A c \in Chains : Decided(c)'
    BY <2>5, <2>6
  <2> QED
    BY <1>5, <2>2, <2>3, <2>7 DEF OthersDecided
<1> QED
  BY <1>8, <1>9 DEF ReduceWrite

\* Where every chain is, and what was fired and reserved of it: inductive.
LEMMA FateInductive == TypeInv /\ FateInv /\ [Next]_vars => FateInv'
<1> SUFFICES ASSUME TypeInv, FateInv, [Next]_vars PROVE AheadUntouched' /\ FiringInv' /\ OthersDecided'
  BY OnePlaceInductive DEF FateInv
<1>1. CASE TradeManagerStep
  <2>1. ASSUME ReduceRead PROVE AheadUntouched' /\ FiringInv' /\ OthersDecided'
    BY <2>1, FateElsewhere DEF ReduceRead, bus, history
  <2> QED
    BY <1>1, <2>1, GetFate, GetSentinelFate, ExamineFate, CheckFate, ShrinkFate, PutOrderFate,
       ReduceWriteFate, StoreFate DEF TradeManagerStep
<1>2. CASE FindChains \/ Shutdown
  BY <1>2, FindChainsFate, ShutdownFate
<1>3. CASE SetStopTrading \/ Rebalance \/ FetchBalances \/ UpdateBalances \/ Fill \/ Expire \/ Tick
          \/ UNCHANGED vars
  <2>1. UNCHANGED <<positive_arbitrages_queue, arrived, batch, at, unput, leg, comment, fired,
                    reserved, pc>>
    BY <1>3 DEF SetStopTrading, Rebalance, FetchBalances, UpdateBalances, Fill, Expire, Tick,
                vars, bus, thread, locals, history
  <2> QED
    BY <2>1, FateElsewhere
<1> QED
  BY <1>1, <1>2, <1>3 DEF Next

\* Nothing is found or fired at the start.
LEMMA FateInitially == Init => FateInv
<1> SUFFICES ASSUME Init PROVE FateInv
  OBVIOUS
<1>1. /\ positive_arbitrages_queue = << >> /\ store_positive_arbitrages_queue = << >>
      /\ pc = "get" /\ batch = << >> /\ comment = [c \in Chains |-> ""]
      /\ fired = {} /\ reserved = {} /\ arrived = {}
  BY DEF Init
<1>2. OnePlace /\ AheadUntouched
  <2>1. DOMAIN << >> = {}
    OBVIOUS
  <2> QED
    BY <1>1, <2>1 DEF OnePlace, Queued, InBatch, PutToStore, AheadUntouched, Untouched
<1>3. FiringInv /\ OthersDecided
  BY <1>1 DEF FiringInv, OthersDecided, Decided, Firing
<1> QED
  BY <1>2, <1>3 DEF FateInv

\* The invariants above, of every reachable state.
LEMMA FateHolds == Spec => [](TypeInv /\ FateInv)
<1>1. TypeInv /\ FateInv /\ [Next]_vars => (TypeInv /\ FateInv)'
  BY TypeInductive, FateInductive
<1> QED
  BY <1>1, TypeInitially, FateInitially, PTL DEF Spec

\* Whenever the thread looks at a chain afresh, every chain was fired in full or not
\* at all, and what was fired is what was taken out of the cached balances
\* (manager.py:115-139), however the updater, the checker and the exchange interleave.
THEOREM NothingHalfFired == Spec => []AllOrNothing
<1>1. FateInv => AllOrNothing
  <2> SUFFICES ASSUME FateInv, Deciding PROVE /\ reserved = fired
                 /\ \A c \in Chains : \A i, j \in Legs : <<c, i>> \in fired <=> <<c, j>> \in fired
    BY DEF AllOrNothing
  <2>1. \A c \in Chains : Decided(c)
    BY DEF FateInv, OthersDecided, Deciding, Firing
  <2>2. \A c \in Chains, i \in Legs : <<c, i>> \in reserved <=> <<c, i>> \in fired
    BY <2>1 DEF Decided
  <2>3. reserved \subseteq Chains \X Legs /\ fired \subseteq Chains \X Legs
    BY DEF FateInv, OthersDecided
  <2>4. reserved = fired
    BY <2>2, <2>3
  <2> QED
    BY <2>1, <2>4 DEF Decided
<1> QED
  BY <1>1, FateHolds, PTL

\* The comment a chain is stored with says "Orders created successfully" if and only
\* if its orders were fired (manager.py:80-119).
THEOREM CommentsTellFate == Spec => []CommentTellsFate
<1>1. FateInv => CommentTellsFate
  BY DEF CommentTellsFate, FateInv, OthersDecided, Decided, Deciding, Firing
<1> QED
  BY <1>1, FateHolds, PTL

-----------------------------------------------------------------------------
\* A reservation takes what was read less what the order spends out of the cache: that
\* is the accounted balance unless a refresh came in between (registry.py:62-76).
LEMMA ReduceWriteCache == ASSUME TypeInv, CacheInv, ReduceWrite PROVE CacheInv'
<1> DEFINE x == coin
           s == Spend(orders[leg])
<1>1. /\ pc = "write" /\ x \in Coins /\ s \in Nat /\ amount \in Int
      /\ balances \in [Coins -> Int] /\ base \in [Coins -> Int] /\ since \in [Coins -> Int]
  <2>1. pc = "write" /\ pc \in Busy /\ pc \in Firing /\ leg \in Legs
    BY DEF ReduceWrite, Busy, Firing, TypeInv, PlaceTyped
  <2> QED
    BY <2>1, ChainInHand, FiredTyped DEF TypeInv, LocalsTyped, BalancesTyped
<1>2. /\ balances' = [balances EXCEPT ![x] = amount - s]
      /\ since' = [since EXCEPT ![x] = since[x] + s]
      /\ base' = base
      /\ torn' = IF split THEN torn \union {x} ELSE torn
  BY DEF ReduceWrite, NewAmount
<1>3. \A c \in Coins \ torn : balances[c] = base[c] - since[c]
  BY <1>1 DEF CacheInv, CacheAccounting
<1>4. ~split => amount = balances[x]
  BY <1>1 DEF CacheInv, ReadIsCurrent
<1> HIDE DEF x, s
<1>5. ASSUME NEW c \in Coins \ torn' PROVE balances'[c] = base'[c] - since'[c]
  <2>1. CASE c = x
    <3>1. ~split /\ c \notin torn
      BY <1>2, <1>5, <2>1
    <3> QED
      BY <1>1, <1>2, <1>3, <1>4, <2>1, <3>1
  <2>2. CASE c # x
    BY <1>1, <1>2, <1>3, <1>5, <2>2
  <2> QED
    BY <2>1, <2>2
<1>6. DOMAIN balances' = Coins
  BY <1>1, <1>2
<1>7. pc' # "write"
  BY DEF ReduceWrite, Conclude
<1> QED
  BY <1>5, <1>6, <1>7 DEF CacheInv, CacheAccounting, ReadIsCurrent

\* A refresh starts the account afresh; a write that is still to come on what was
\* read before is split (registry.py:59-60).
LEMMA UpdateBalancesCache == ASSUME TypeInv, CacheInv, UpdateBalances PROVE CacheInv'
<1>1. /\ snapshot \in [Coins -> Int] /\ balances' = snapshot /\ base' = snapshot
      /\ since' = [c \in Coins |-> 0] /\ split' = (pc = "write") /\ pc' = pc
  BY DEF UpdateBalances, TypeInv, BalancesTyped, thread, Nothing
<1>2. CacheAccounting'
  BY <1>1 DEF CacheAccounting
<1>3. ReadIsCurrent'
  BY <1>1 DEF ReadIsCurrent
<1> QED
  BY <1>2, <1>3 DEF CacheInv

\* Every other step leaves the accounts alone.
LEMMA CacheInductive == TypeInv /\ CacheInv /\ [Next]_vars => CacheInv'
<1> SUFFICES ASSUME TypeInv, CacheInv, [Next]_vars PROVE CacheInv'
  OBVIOUS
<1>1. CASE UNCHANGED <<balances, base, since, torn>> /\ pc' # "write"
  BY <1>1 DEF CacheInv, CacheAccounting, ReadIsCurrent
<1>2. CASE UNCHANGED <<balances, base, since, torn, split, pc, batch, at, leg, amount>>
  BY <1>2 DEF CacheInv, CacheAccounting, ReadIsCurrent, coin, step, chain
<1>3. CASE ReduceRead
  <2>1. /\ UNCHANGED <<balances, base, since, torn, batch, at, leg>>
        /\ amount' = balances[coin]
    BY <1>3 DEF ReduceRead
  <2>2. coin' = coin
    BY <2>1 DEF coin, step, chain
  <2> QED
    BY <2>1, <2>2 DEF CacheInv, CacheAccounting, ReadIsCurrent
<1>4. CASE Get \/ GetSentinel \/ Examine \/ Check \/ Shrink \/ PutOrder \/ Store
  BY <1>1, <1>4 DEF Get, GetSentinel, Examine, Check, Shrink, PutOrder, Store, Conclude, cache
<1>5. CASE FindChains \/ Shutdown \/ SetStopTrading \/ Rebalance \/ FetchBalances \/ Fill \/ Expire \/ Tick
           \/ UNCHANGED vars
  BY <1>2, <1>5 DEF FindChains, Shutdown, SetStopTrading, Rebalance, FetchBalances, Fill, Expire, Tick,
                    vars, thread, locals, cache
<1> QED
  BY <1>3, <1>4, <1>5, ReduceWriteCache, UpdateBalancesCache DEF Next, TradeManagerStep

\* The cached balance of a coin is the last refresh less all that was reserved since,
\* unless a refresh landed between the read and the write of a reservation.
THEOREM CacheAccounts == Spec => []CacheAccounting
<1>1. Init => CacheInv
  BY DEF Init, CacheInv, CacheAccounting, ReadIsCurrent, NoBalances
<1>2. TypeInv /\ CacheInv /\ [Next]_vars => CacheInv'
  BY CacheInductive
<1>3. CacheInv => CacheAccounting
  BY DEF CacheInv
<1> QED
  BY <1>1, <1>2, <1>3, TypeInvHolds, PTL DEF Spec

-----------------------------------------------------------------------------
\* Each step keeps what the stop flag says of the chain in hand.
LEMMA FlagInductive == FlagInv /\ [Next]_vars => FlagInv'
<1> SUFFICES ASSUME FlagInv, [Next]_vars PROVE FlagInv'
  OBVIOUS
<1>1. CASE pc' \notin PastTheFlag
  BY <1>1 DEF FlagInv
<1>2. CASE pc \in PastTheFlag /\ UNCHANGED <<stop_trading, inHand, batch, at>>
  BY <1>2 DEF FlagInv, chain
<1>3. CASE UNCHANGED <<stop_trading, inHand, batch, at, pc>>
  BY <1>3 DEF FlagInv, chain
<1>4. CASE ~stop_trading'
  BY <1>4 DEF FlagInv
<1>5. CASE Get \/ GetSentinel \/ Store
  BY <1>1, <1>5 DEF Get, GetSentinel, Store, PastTheFlag
<1>6. CASE Examine
  BY <1>1, <1>4, <1>6 DEF Examine, Conclude, Stopped, PastTheFlag, checker
<1>7. CASE Check \/ Shrink \/ ReduceWrite
  <2>1. pc \in PastTheFlag /\ UNCHANGED <<stop_trading, inHand, batch>>
    BY <1>7 DEF Check, Shrink, ReduceWrite, PastTheFlag, checker, history
  <2>2. CASE \E text : Conclude(text)
    BY <1>1, <2>2 DEF Conclude, PastTheFlag
  <2>3. CASE UNCHANGED at
    BY <1>2, <2>1, <2>3
  <2> QED
    BY <1>7, <2>2, <2>3 DEF Check, Shrink, ReduceWrite
<1>8. CASE PutOrder \/ ReduceRead
  BY <1>2, <1>8 DEF PutOrder, ReduceRead, PastTheFlag, checker, history
<1>9. CASE SetStopTrading
  BY <1>9 DEF SetStopTrading, FlagInv, PastTheFlag, thread, locals, chain
<1>10. CASE FindChains \/ Shutdown \/ Rebalance \/ FetchBalances \/ UpdateBalances \/ Fill \/ Expire \/ Tick
            \/ UNCHANGED vars
  BY <1>3, <1>10 DEF FindChains, Shutdown, Rebalance, FetchBalances, UpdateBalances, Fill, Expire, Tick,
                     vars, checker, thread, locals, history
<1> QED
  BY <1>5, <1>6, <1>7, <1>8, <1>9, <1>10 DEF Next, TradeManagerStep

\* While the stop flag is up no order is fired but those of the one chain that was in
\* the thread's hands when it went up (manager.py:81-83), whenever it is flipped.
THEOREM StopFlagHolds == Spec => OnlyTheChainInHand
<1>1. Init => FlagInv
  BY DEF Init, FlagInv
<1>2. ASSUME FlagInv, [Next]_vars, stop_trading, NEW x \in fired' \ fired PROVE x[1] \in inHand
  <2>1. CASE PutOrder
    BY <1>2, <2>1 DEF PutOrder, FlagInv, PastTheFlag
  <2>2. CASE fired' = fired
    BY <1>2, <2>2
  <2>3. CASE \/ Get \/ GetSentinel \/ Examine \/ Check \/ Shrink \/ ReduceRead \/ ReduceWrite
             \/ Store
    BY <2>2, <2>3 DEF Get, GetSentinel, Examine, Check, Shrink, ReduceRead, ReduceWrite, Store,
                      history
  <2>4. CASE FindChains \/ Shutdown \/ SetStopTrading \/ Rebalance \/ FetchBalances \/ UpdateBalances
             \/ Fill \/ Expire \/ Tick \/ UNCHANGED vars
    BY <2>2, <2>4 DEF FindChains, Shutdown, SetStopTrading, Rebalance, FetchBalances, UpdateBalances, Fill,
                      Expire, Tick, vars, history
  <2> QED
    BY <1>2, <2>1, <2>3, <2>4 DEF Next, TradeManagerStep
<1>3. FlagInv /\ [Next]_vars => [stop_trading => \A x \in fired' \ fired : x[1] \in inHand]_vars
  BY <1>2
<1> QED
  BY <1>1, <1>3, FlagInductive, PTL DEF Spec, OnlyTheChainInHand

-----------------------------------------------------------------------------
\* The store thread only reads what the trade manager and its bus hold.
LEMMA StoreThreadReads == RNext => [Next]_vars
BY DEF RNext, Take, PutProfitableArbitrage

\* With the store thread, the trade manager keeps all it keeps without.
THEOREM RecordsImplementTrading == RSpec => Spec
<1>1. RInit => Init
  BY DEF RInit
<1>2. [RNext]_rvars => [Next]_vars
  BY StoreThreadReads DEF rvars
<1> QED
  BY <1>1, <1>2, PTL DEF RSpec, Spec

\* Once a chain is put to be stored nobody comments on it any more.
LEMMA CommentSettled ==
  ASSUME TypeInv, FateInv, [Next]_vars, DOMAIN comment = Chains
  PROVE  /\ DOMAIN comment' = Chains
         /\ \A c \in Chains : PutToStore(c) => PutToStore(c)' /\ comment'[c] = comment[c]
         /\ DOMAIN store_positive_arbitrages_queue \subseteq DOMAIN store_positive_arbitrages_queue'
<1>1. CASE UNCHANGED <<comment, store_positive_arbitrages_queue>>
  BY <1>1 DEF PutToStore
<1>2. CASE \E text : pc \in Busy /\ Conclude(text) /\ UNCHANGED store_positive_arbitrages_queue
  <2>1. PICK text : Conclude(text)
    BY <1>2
  <2>2. /\ comment' = Commented(text) /\ chain \in Chains /\ chain = batch[at] /\ at \in DOMAIN batch
    BY <1>2, <2>1, ChainInHand DEF Conclude, TypeInv, chain
  <2>3. \A c \in Chains : PutToStore(c) => ~InBatch(c)
    BY DEF FateInv, OnePlace
  <2>4. \A c \in Chains : ~InBatch(c) => comment'[c] = comment[c]
    BY <2>2 DEF InBatch, Commented
  <2>5. DOMAIN comment' = Chains
    BY <2>2 DEF Commented
  <2> QED
    BY <1>2, <2>3, <2>4, <2>5 DEF PutToStore
<1>3. CASE Store
  <2> DEFINE q == store_positive_arbitrages_queue
  <2>1. q \in Seq(Chains) /\ batch \in Seq(Chains)
    BY <1>3 DEF Store, TypeInv, QueuesTyped, PlaceTyped, Busy
  <2>2. /\ DOMAIN q' = 1..(Len(q) + Len(batch)) /\ Len(q) \in Nat /\ Len(batch) \in Nat
        /\ DOMAIN q = 1..Len(q) /\ \A i \in 1..Len(q) : q'[i] = q[i]
    BY <1>3, <2>1, Concatenated DEF Store
  <2>3. DOMAIN q \subseteq DOMAIN q'
    BY <2>2
  <2>4. \A c \in Chains : PutToStore(c) => PutToStore(c)'
    BY <2>2, <2>3 DEF PutToStore
  <2>5. comment' = comment
    BY <1>3 DEF Store
  <2> QED
    BY <2>3, <2>4, <2>5
<1>4. CASE Get \/ GetSentinel \/ PutOrder \/ ReduceRead
  BY <1>1, <1>4 DEF Get, GetSentinel, PutOrder, ReduceRead, bus
<1>5. CASE Examine \/ Check \/ Shrink \/ ReduceWrite
  <2>1. pc \in Busy /\ UNCHANGED store_positive_arbitrages_queue
    BY <1>5 DEF Examine, Check, Shrink, ReduceWrite, bus, Busy
  <2>2. CASE UNCHANGED comment
    BY <1>1, <2>1, <2>2
  <2>3. CASE \E text : Conclude(text)
    BY <1>2, <2>1, <2>3
  <2> QED
    BY <1>5, <2>2, <2>3 DEF Examine, Check, Shrink, ReduceWrite
<1>6. CASE FindChains \/ Shutdown \/ SetStopTrading \/ Rebalance \/ FetchBalances \/ UpdateBalances
           \/ Fill \/ Expire \/ Tick \/ UNCHANGED vars
  BY <1>1, <1>6 DEF FindChains, Shutdown, SetStopTrading, Rebalance, FetchBalances, UpdateBalances, Fill,
                    Expire, Tick, vars, bus, thread
<1> QED
  BY <1>3, <1>4, <1>5, <1>6 DEF Next, TradeManagerStep

\* The store thread writes what the trade manager has settled, and that stays.
LEMMA RecordInductive == TypeInv /\ FateInv /\ RecordInv /\ [RNext]_rvars => RecordInv'
<1> SUFFICES ASSUME TypeInv, FateInv, RecordInv, [RNext]_rvars PROVE RecordInv'
  OBVIOUS
<1> DEFINE q == store_positive_arbitrages_queue
<1>0. q \in Seq(Chains) /\ DOMAIN q = 1..Len(q) /\ Len(q) \in Nat
  BY DEF TypeInv, QueuesTyped
<1>1. CASE Take
  <2>1. /\ q' = q /\ comment' = comment /\ record' = record
        /\ taken' = taken + 1 /\ taken < Len(q)
    BY <1>1 DEF Take, vars, bus
  <2>2. taken' \in Nat /\ taken' \in DOMAIN q'
    BY <1>0, <2>1 DEF RecordInv
  <2> QED
    BY <2>1, <2>2 DEF RecordInv, PutToStore
<1>2. CASE PutProfitableArbitrage
  <2>1. q' = q /\ comment' = comment /\ taken' = taken /\ taken \in DOMAIN q /\ spc' = "get"
    BY <1>2 DEF PutProfitableArbitrage, NotPut, vars, bus, RecordInv
  <2>2. InHand \in Chains /\ PutToStore(InHand)
    BY <1>0, <2>1 DEF InHand, PutToStore
  <2>3. record' = record \/ record' = [record EXCEPT ![InHand] = comment[InHand]]
    BY <1>2 DEF PutProfitableArbitrage, NotPut
  <2>4. /\ DOMAIN record' = Chains
        /\ \A c \in Chains : record'[c] # "none" => PutToStore(c) /\ record'[c] = comment[c]
    BY <2>2, <2>3 DEF RecordInv
  <2>5. \A c \in Chains : PutToStore(c)' = PutToStore(c)
    BY <2>1 DEF PutToStore
  <2> QED
    BY <2>1, <2>4, <2>5 DEF RecordInv
<1>3. CASE [Next]_vars /\ UNCHANGED store
  <2>1. UNCHANGED <<taken, spc, record>>
    BY <1>3 DEF store
  <2>2. /\ DOMAIN comment' = Chains
        /\ \A c \in Chains : PutToStore(c) => PutToStore(c)' /\ comment'[c] = comment[c]
        /\ DOMAIN q \subseteq DOMAIN q'
    BY <1>3, CommentSettled DEF RecordInv
  <2> QED
    BY <2>1, <2>2 DEF RecordInv
<1> QED
  BY <1>1, <1>2, <1>3 DEF RNext, rvars

\* The record of a chain in DynamoDB says for good what became of it, and whether its
\* orders were fired (__main__.py:88-92, arbitrage_dao.py:16-20).
THEOREM RecordsTellFate == RSpec => []RecordTellsFate
<1>1. RInit => RecordInv
  <2> SUFFICES ASSUME RInit PROVE RecordInv
    OBVIOUS
  <2>1. /\ taken = 0 /\ spc = "get" /\ record = [c \in Chains |-> "none"]
        /\ comment = [c \in Chains |-> ""]
    BY DEF RInit, Init
  <2> QED
    BY <2>1 DEF RecordInv
<1>2. TypeInv /\ FateInv /\ RecordInv => RecordTellsFate
  <2> SUFFICES ASSUME FateInv, TypeInv, RecordInv, NEW c \in Chains, record[c] # "none"
               PROVE  /\ record[c] = comment[c]
                      /\ record[c] = "created" <=> \E i \in Legs : <<c, i>> \in fired
    BY DEF RecordTellsFate
  <2>1. PutToStore(c) /\ record[c] = comment[c]
    BY DEF RecordInv
  <2>2. pc \in Firing => c # chain
    <3>1. ASSUME pc \in Firing PROVE InBatch(chain)
      BY <3>1, ChainInHand DEF TypeInv, InBatch, Firing, Busy, chain
    <3> QED
      BY <2>1, <3>1 DEF FateInv, OnePlace
  <2>3. Decided(c)
    BY <2>2 DEF FateInv, OthersDecided
  <2> QED
    BY <2>1, <2>3 DEF Decided, Legs
<1> QED
  BY <1>1, <1>2, RecordInductive, RecordsImplementTrading, FateHolds, PTL DEF RSpec

-----------------------------------------------------------------------------
(* No chain is forgotten                                                     *)

\* A chain that was found is in the queue, in the batch in hand or put to be stored.
KeptInv == \A c \in arrived : c \in Chains /\ (Queued(c) \/ InBatch(c) \/ PutToStore(c))

\* Place i of the store queue is yet to be written.
AwaitsRecord(i) == i > taken \/ (i = taken /\ spc = "put")

\* What is behind the store thread is written, or its put failed; no comment reads
\* as if there were none.
TakenInv ==
  /\ \A i \in DOMAIN store_positive_arbitrages_queue :
       \/ AwaitsRecord(i)
       \/ record[store_positive_arbitrages_queue[i]] # "none"
       \/ store_positive_arbitrages_queue[i] \in lost
  /\ taken = 0 \/ taken \in DOMAIN store_positive_arbitrages_queue
  /\ \A c \in Chains : comment[c] # "none"

\* A chain that was found waits in a queue or in the batch in hand, has its record,
\* or its put failed.
EveryChainAccounted ==
  \A c \in arrived :
    \/ Queued(c) \/ InBatch(c)
    \/ \E i \in DOMAIN store_positive_arbitrages_queue :
         store_positive_arbitrages_queue[i] = c /\ AwaitsRecord(i)
    \/ record[c] # "none"
    \/ c \in lost

\* The sort leaves no chain of the batch out.
LEMMA SortedKeepsAll ==
  ASSUME NEW S \in Batches, NEW b \in Sorted(S), NEW c \in S
  PROVE  \E i \in DOMAIN b : b[i] = c
<1> DEFINE n == Cardinality(S)
<1>1. IsFiniteSet(S) /\ n \in Nat
  <2>1. IsFiniteSet(Chains) /\ S \in SUBSET Chains
    BY ChainsAssumption DEF Batches
  <2> QED
    BY <2>1, FS_Subset, FS_CardinalityType
<1>2. b \in [1..n -> S] /\ \A i, j \in 1..n : i # j => b[i] # b[j]
  BY DEF Sorted
<1>3. b \in Injection(1..n, S)
  BY <1>2 DEF Injection, IsInjective
<1>4. IsFiniteSet(1..n) /\ Cardinality(1..n) = n
  BY <1>1, FS_Interval
<1>5. b \in Surjection(1..n, S)
  BY <1>1, <1>3, <1>4, FS_Injection
<1> QED
  BY <1>2, <1>5 DEF Surjection

\* What was in the queue is in the batch taken off its head or still in the queue.
LEMMA TakenOrQueued ==
  ASSUME QueuesTyped, positive_arbitrages_queue # << >>,
         positive_arbitrages_queue' = Tail(positive_arbitrages_queue),
         NEW c, Queued(c)
  PROVE  \/ Queued(c)'
         \/ /\ Head(positive_arbitrages_queue) # SENTINEL
            /\ c \in Head(positive_arbitrages_queue)
<1> DEFINE q == positive_arbitrages_queue
<1>1. /\ Len(q) \in Nat \ {0} /\ Head(q) = q[1] /\ DOMAIN q = 1..Len(q)
      /\ DOMAIN q' = 1..(Len(q) - 1) /\ \A i \in DOMAIN q' : q'[i] = q[i + 1]
  BY HeadOrTail DEF QueuesTyped
<1>2. PICK i \in DOMAIN q : q[i] # SENTINEL /\ c \in q[i]
  BY DEF Queued
<1>3. CASE i = 1
  BY <1>1, <1>2, <1>3
<1>4. CASE i # 1
  <2>1. i - 1 \in DOMAIN q' /\ (i - 1) + 1 = i
    BY <1>1, <1>2, <1>4
  <2>2. q'[i - 1] = q[i]
    BY <1>1, <2>1
  <2> QED
    BY <1>2, <2>1, <2>2 DEF Queued
<1> QED
  BY <1>3, <1>4

\* What is put behind a queue leaves in it what was there, and is in it.
LEMMA QueuedBehind ==
  ASSUME QueuesTyped, NEW m \in Batches \union {SENTINEL},
         positive_arbitrages_queue' = Append(positive_arbitrages_queue, m)
  PROVE  /\ \A c : Queued(c) => Queued(c)'
         /\ m # SENTINEL => \A c \in m : Queued(c)'
<1> DEFINE q == positive_arbitrages_queue
<1>1. /\ Len(q) \in Nat /\ DOMAIN q = 1..Len(q) /\ DOMAIN q' = 1..(Len(q) + 1)
      /\ \A i \in DOMAIN q : q'[i] = q[i]
      /\ q'[Len(q) + 1] = m
  BY AppendedLast DEF QueuesTyped
<1>2. ASSUME NEW c, Queued(c) PROVE Queued(c)'
  <2>1. PICK i \in DOMAIN q : q[i] # SENTINEL /\ c \in q[i]
    BY <1>2 DEF Queued
  <2>2. i \in DOMAIN q' /\ q'[i] = q[i]
    BY <1>1
  <2> QED
    BY <2>1, <2>2 DEF Queued
<1>3. ASSUME m # SENTINEL, NEW c \in m PROVE Queued(c)'
  <2>1. Len(q) + 1 \in DOMAIN q'
    BY <1>1
  <2> QED
    BY <1>1, <1>3, <2>1 DEF Queued
<1> QED
  BY <1>2, <1>3

\* The batch in hand is put to be stored as a whole, behind what is there.
LEMMA StoredBehind ==
  ASSUME TypeInv, Store
  PROVE  /\ \A c : PutToStore(c) \/ InBatch(c) => PutToStore(c)'
         /\ \A i \in DOMAIN store_positive_arbitrages_queue' :
              \/ /\ i \in DOMAIN store_positive_arbitrages_queue
                 /\ store_positive_arbitrages_queue'[i] = store_positive_arbitrages_queue[i]
              \/ i > Len(store_positive_arbitrages_queue)
<1> DEFINE q == store_positive_arbitrages_queue
<1>1. q \in Seq(Chains) /\ batch \in Seq(Chains)
  BY DEF Store, TypeInv, QueuesTyped, PlaceTyped, Busy
<1>2. /\ DOMAIN q' = 1..(Len(q) + Len(batch)) /\ Len(q) \in Nat /\ Len(batch) \in Nat
      /\ DOMAIN q = 1..Len(q) /\ DOMAIN batch = 1..Len(batch)
      /\ \A i \in 1..Len(q) : q'[i] = q[i]
      /\ \A i \in 1..(Len(q) + Len(batch)) :
           i > Len(q) => i - Len(q) \in 1..Len(batch) /\ q'[i] = batch[i - Len(q)]
  BY <1>1, Concatenated DEF Store
<1>3. ASSUME NEW c, NEW i \in DOMAIN batch, batch[i] = c PROVE PutToStore(c)'
  <2>1. /\ i + Len(q) \in 1..(Len(q) + Len(batch)) /\ i + Len(q) > Len(q)
        /\ (i + Len(q)) - Len(q) = i
    BY <1>2
  <2>2. q'[i + Len(q)] = c
    BY <1>2, <1>3, <2>1
  <2> QED
    BY <1>2, <2>1, <2>2 DEF PutToStore
<1>4. ASSUME NEW c, NEW i \in DOMAIN q, q[i] = c PROVE PutToStore(c)'
  <2>1. i \in DOMAIN q' /\ q'[i] = c
    BY <1>2, <1>4
  <2> QED
    BY <2>1 DEF PutToStore
<1>5. \A c : PutToStore(c) \/ InBatch(c) => PutToStore(c)'
  BY <1>3, <1>4 DEF PutToStore, InBatch
<1>6. \A i \in DOMAIN q' : (i \in DOMAIN q /\ q'[i] = q[i]) \/ i > Len(q)
  BY <1>2
<1> QED
  BY <1>5, <1>6

\* No step of the trade manager, of the search or of anybody else drops a chain: not
\* the sort, not an exception, not the shutdown (manager.py:47-77).
LEMMA KeptInductive == TypeInv /\ KeptInv /\ [Next]_vars => KeptInv'
<1> SUFFICES ASSUME TypeInv, KeptInv, [Next]_vars PROVE KeptInv'
  OBVIOUS
<1> DEFINE q == positive_arbitrages_queue
<1>1. CASE Get
  <2>1. /\ q # << >> /\ q' = Tail(q) /\ Head(q) # SENTINEL /\ batch' \in Sorted(Head(q))
        /\ UNCHANGED <<store_positive_arbitrages_queue, arrived>> /\ batch = << >>
    BY <1>1 DEF Get, history, TypeInv, PlaceTyped, Busy
  <2>2. Head(q) \in Batches
    BY <2>1, HeadOrTail DEF TypeInv, QueuesTyped
  <2>3. \A c : Queued(c) => Queued(c)' \/ c \in Head(q)
    BY <2>1, TakenOrQueued DEF TypeInv
  <2>4. \A c \in Head(q) : InBatch(c)'
    BY <2>1, <2>2, SortedKeepsAll DEF InBatch
  <2>5. \A c : ~InBatch(c) /\ (PutToStore(c) => PutToStore(c)')
    BY <2>1 DEF InBatch, PutToStore
  <2> QED
    BY <2>1, <2>3, <2>4, <2>5 DEF KeptInv
<1>2. CASE GetSentinel
  <2>1. /\ q # << >> /\ q' = Tail(q) /\ Head(q) = SENTINEL
        /\ UNCHANGED <<store_positive_arbitrages_queue, arrived, batch>>
    BY <1>2 DEF GetSentinel, history, locals
  <2>2. \A c : Queued(c) => Queued(c)'
    BY <2>1, TakenOrQueued DEF TypeInv
  <2> QED
    BY <2>1, <2>2 DEF KeptInv, InBatch, PutToStore
<1>3. CASE Store
  <2>1. UNCHANGED <<positive_arbitrages_queue, arrived>>
    BY <1>3 DEF Store, history
  <2> QED
    BY <1>3, <2>1, StoredBehind DEF KeptInv, Queued
<1>4. CASE FindChains
  <2>1. PICK chains \in SUBSET (Chains \ arrived) :
          chains # {} /\ q' = Append(q, chains) /\ arrived' = arrived \union chains
    BY <1>4 DEF FindChains
  <2>2. chains \in Batches /\ chains # SENTINEL
    BY <2>1, ChainsAssumption DEF Batches
  <2>3. (\A c : Queued(c) => Queued(c)') /\ (\A c \in chains : Queued(c)')
    BY <2>1, <2>2, QueuedBehind DEF TypeInv
  <2>4. \A c : (InBatch(c) => InBatch(c)') /\ (PutToStore(c) => PutToStore(c)')
    BY <1>4 DEF FindChains, thread, locals, InBatch, PutToStore
  <2> QED
    BY <2>1, <2>3, <2>4 DEF KeptInv
<1>5. CASE Shutdown
  <2>1. q' = Append(q, SENTINEL) /\ UNCHANGED <<store_positive_arbitrages_queue, batch, arrived>>
    BY <1>5 DEF Shutdown, thread, locals, history
  <2>2. \A c : Queued(c) => Queued(c)'
    BY <2>1, QueuedBehind DEF TypeInv
  <2> QED
    BY <2>1, <2>2 DEF KeptInv, InBatch, PutToStore
<1>6. CASE UNCHANGED <<positive_arbitrages_queue, store_positive_arbitrages_queue, batch, arrived>>
  BY <1>6 DEF KeptInv, Queued, InBatch, PutToStore
<1>7. CASE Examine \/ Check \/ Shrink \/ PutOrder \/ ReduceRead \/ ReduceWrite
  BY <1>6, <1>7 DEF Examine, Check, Shrink, PutOrder, ReduceRead, ReduceWrite, bus, history
<1>8. CASE SetStopTrading \/ Rebalance \/ FetchBalances \/ UpdateBalances \/ Fill \/ Expire \/ Tick
          \/ UNCHANGED vars
  BY <1>6, <1>8 DEF SetStopTrading, Rebalance, FetchBalances, UpdateBalances, Fill, Expire, Tick,
                    vars, bus, thread, locals, history
<1> QED
  BY <1>1, <1>2, <1>3, <1>4, <1>5, <1>7, <1>8 DEF Next, TradeManagerStep

\* No comment reads "none", and the store queue only grows at its end.
LEMMA CommentsGiven ==
  ASSUME TypeInv, \A c \in Chains : comment[c] # "none", [Next]_vars
  PROVE  /\ \A c \in Chains : comment'[c] # "none"
         /\ \A i \in DOMAIN store_positive_arbitrages_queue' :
              \/ /\ i \in DOMAIN store_positive_arbitrages_queue
                 /\ store_positive_arbitrages_queue'[i] = store_positive_arbitrages_queue[i]
              \/ i > Len(store_positive_arbitrages_queue)
<1>1. CASE UNCHANGED <<comment, store_positive_arbitrages_queue>>
  BY <1>1
<1>2. ASSUME NEW text, text # "none", Conclude(text), UNCHANGED store_positive_arbitrages_queue
      PROVE  \A c \in Chains : comment'[c] # "none"
  BY <1>2 DEF Conclude, Commented
<1>3. CASE Store
  BY <1>3, StoredBehind DEF Store
<1>4. CASE Get \/ GetSentinel \/ PutOrder \/ ReduceRead
  BY <1>1, <1>4 DEF Get, GetSentinel, PutOrder, ReduceRead, bus
<1>5. CASE Examine \/ Check \/ Shrink \/ ReduceWrite
  <2>1. UNCHANGED store_positive_arbitrages_queue
    BY <1>5 DEF Examine, Check, Shrink, ReduceWrite, bus
  <2>2. \/ UNCHANGED comment
        \/ \E text \in {"stop", "duplication", "low profit", "error", "no balance", "filters",
                        "created"} : Conclude(text)
    BY <1>5 DEF Examine, Check, Shrink, ReduceWrite
  <2>3. \A text \in {"stop", "duplication", "low profit", "error", "no balance", "filters",
                     "created"} : text # "none"
    OBVIOUS
  <2> QED
    BY <1>1, <1>2, <2>1, <2>2, <2>3
<1>6. CASE FindChains \/ Shutdown \/ SetStopTrading \/ Rebalance \/ FetchBalances \/ UpdateBalances
           \/ Fill \/ Expire \/ Tick \/ UNCHANGED vars
  BY <1>1, <1>6 DEF FindChains, Shutdown, SetStopTrading, Rebalance, FetchBalances, UpdateBalances, Fill,
                    Expire, Tick, vars, bus, thread
<1> QED
  BY <1>3, <1>4, <1>5, <1>6 DEF Next, TradeManagerStep

\* The store thread passes no chain over: it writes the one it took, or fails to.
LEMMA TakenInductive ==
  TypeInv /\ TypeInv' /\ FateInv /\ RecordInv /\ TakenInv /\ [RNext]_rvars => TakenInv'
<1> DEFINE q == store_positive_arbitrages_queue
<1> SUFFICES ASSUME TypeInv, TypeInv', FateInv, RecordInv, TakenInv, [RNext]_rvars
             PROVE  TakenInv'
  OBVIOUS
<1>1. q \in Seq(Chains) /\ DOMAIN q = 1..Len(q) /\ Len(q) \in Nat /\ taken \in Nat
  BY DEF TypeInv, QueuesTyped, RecordInv
<1>2. CASE Take
  <2>1. /\ spc = "get" /\ spc' = "put" /\ taken' = taken + 1 /\ taken < Len(q)
        /\ UNCHANGED <<store_positive_arbitrages_queue, comment, record, lost>>
    BY <1>2 DEF Take, vars, bus
  <2>2. \A i \in DOMAIN q : AwaitsRecord(i) => AwaitsRecord(i)'
    BY <1>1, <2>1 DEF AwaitsRecord
  <2> QED
    BY <1>1, <2>1, <2>2 DEF TakenInv
<1>3. CASE PutProfitableArbitrage
  <2>1. /\ spc = "put" /\ taken \in DOMAIN q /\ InHand = q[taken] /\ q[taken] \in Chains
        /\ UNCHANGED <<store_positive_arbitrages_queue, comment, taken>> /\ spc' = "get"
        /\ DOMAIN record = Chains
    BY <1>1, <1>3 DEF PutProfitableArbitrage, NotPut, InHand, vars, bus, RecordInv
  <2>2. /\ \A c \in Chains : record[c] # "none" => record'[c] # "none"
        /\ lost \subseteq lost'
        /\ record'[q[taken]] # "none" \/ q[taken] \in lost'
    BY <1>3, <2>1 DEF PutProfitableArbitrage, NotPut, TakenInv
  <2>3. \A i \in DOMAIN q : AwaitsRecord(i) => AwaitsRecord(i)' \/ i = taken
    BY <2>1 DEF AwaitsRecord
  <2>4. \A i \in DOMAIN q : q[i] \in Chains
    BY <1>1
  <2> QED
    BY <1>1, <2>1, <2>2, <2>3, <2>4 DEF TakenInv
<1>4. CASE [Next]_vars /\ UNCHANGED store
  <2>1. UNCHANGED <<taken, spc, record, lost>>
    BY <1>4 DEF store
  <2>2. /\ \A c \in Chains : comment'[c] # "none"
        /\ \A i \in DOMAIN q' : (i \in DOMAIN q /\ q'[i] = q[i]) \/ i > Len(q)
    BY <1>4, CommentsGiven DEF TakenInv
  <2>3. \A i \in DOMAIN q' : i > Len(q) => AwaitsRecord(i)'
    <3>1. DOMAIN q' \subseteq Nat
      BY DEF TypeInv, QueuesTyped
    <3>2. taken <= Len(q)
      BY <1>1 DEF TakenInv
    <3> QED
      BY <1>1, <2>1, <3>1, <3>2 DEF AwaitsRecord
  <2>4. \A i \in DOMAIN q : AwaitsRecord(i) => AwaitsRecord(i)'
    BY <2>1 DEF AwaitsRecord
  <2>5. taken' = 0 \/ taken' \in DOMAIN q'
    BY <1>4, <2>1, CommentSettled DEF TakenInv, RecordInv
  <2> QED
    BY <2>1, <2>2, <2>3, <2>4, <2>5 DEF TakenInv
<1> QED
  BY <1>2, <1>3, <1>4 DEF RNext, rvars

\* What EveryChainRecorded says, short of that the threads get there: every chain the
\* search ever put on the bus waits its turn, has its record, or is one whose put
\* failed (manager.py:47-77, __main__.py:88-92).
THEOREM NoChainForgotten == RSpec => []EveryChainAccounted
<1>1. RInit => KeptInv /\ RecordInv /\ TakenInv
  <2> SUFFICES ASSUME RInit PROVE KeptInv /\ RecordInv /\ TakenInv
    OBVIOUS
  <2>1. /\ taken = 0 /\ spc = "get" /\ record = [c \in Chains |-> "none"]
        /\ comment = [c \in Chains |-> ""] /\ arrived = {}
        /\ store_positive_arbitrages_queue = << >>
    BY DEF RInit, Init
  <2>2. RecordInv
    BY <2>1 DEF RecordInv
  <2>3. \A c \in Chains : comment[c] # "none"
    BY <2>1
  <2>4. DOMAIN store_positive_arbitrages_queue = {}
    <3>1. << >> \in Seq(Chains) /\ Len(<< >>) = 0
      OBVIOUS
    <3>2. \A s \in Seq(Chains) : Len(s) = 0 => DOMAIN s = {}
      OBVIOUS
    <3> QED
      BY <2>1, <3>1, <3>2
  <2>5. TakenInv
    BY <2>1, <2>3, <2>4 DEF TakenInv
  <2> QED
    BY <2>1, <2>2, <2>5 DEF KeptInv
<1>2. TypeInv /\ KeptInv /\ TakenInv => EveryChainAccounted
  BY DEF KeptInv, TakenInv, EveryChainAccounted, PutToStore
<1>3. TypeInv /\ KeptInv /\ [RNext]_rvars => KeptInv'
  <2>1. [RNext]_rvars => [Next]_vars
    BY StoreThreadReads DEF rvars
  <2> QED
    BY <2>1, KeptInductive
<1> QED
  BY <1>1, <1>2, <1>3, RecordInductive, TakenInductive, RecordsImplementTrading, FateHolds, PTL
     DEF RSpec

-----------------------------------------------------------------------------
(* The funds: what the cache promises of what the orders in flight will take. *)

\* Leg i of the chain in hand is put to the executors and not taken out of the cache yet.
Owing(i) == \/ pc = "put" /\ i \notin unput
            \/ pc \in {"reduce", "write"} /\ i >= leg

OwedOf(c, i) ==
  IF Owing(i) /\ SpendingCoin(chain.steps[i]) = c THEN Spend(orders[i]) ELSE 0

\* What the cache has still to give up of coin c.
Owed(c) == OwedOf(c, 1) + OwedOf(c, 2) + OwedOf(c, 3)

\* What a number n of coin c stands for: what is neither committed nor still to be given
\* up, and what was spent where the number does not show it.
Backed(n, c) == n <= account[c] - Committed(c) + Owed(c) + unseen[c]

\* A refresh has overwritten what reduce_balance is about to overwrite in turn.
Overwritten(c) == pc = "write" /\ split /\ c = coin

\* The cache is backed, and so is what reduce_balance has read of it.
Covered ==
  /\ \A c \in DOMAIN balances : ~Overwritten(c) => Backed(balances[c], c)
  /\ pc = "write" => Backed(amount, coin)

\* The pending refresh shows all but what it missed.
SnapshotCovered ==
  \A c \in DOMAIN snapshot : snapshot[c] <= account[c] - Committed(c) + missed[c]

Unshown == missed \in [Coins -> Nat] /\ unseen \in [Coins -> Nat]

FundsInv == IsFiniteSet(fire_orders_queue) /\ Unshown /\ Covered /\ SnapshotCovered

-----------------------------------------------------------------------------
(* What a set of orders spends. *)

Spending(q) == SumOf([o \in q |-> o.spend], q)

\* It is a natural, and any order may be taken out of it.
LEMMA SpendingTakesOut ==
  ASSUME NEW q, IsFiniteSet(q), \A x \in q : x.spend \in Nat
  PROVE  /\ Spending(q) \in Nat
         /\ \A y \in q : Spending(q) = y.spend + Spending(q \ {y})
<1> DEFINE f == [o \in q |-> o.spend]
<1>1. Spending(q) \in Nat
  BY SumNatural DEF Spending
<1>2. ASSUME NEW y \in q PROVE Spending(q) = y.spend + Spending(q \ {y})
  <2>1. SumOf(f, q) = f[y] + SumOf(f, q \ {y})
    BY SumTakesOut
  <2>2. SumOf(f, q \ {y}) = SumOf([o \in q \ {y} |-> o.spend], q \ {y})
    BY SumAgrees
  <2> QED
    BY <2>1, <2>2 DEF Spending
<1> QED
  BY <1>1, <1>2

\* The fold of Committed is that sum.
LEMMA SpendingFolds ==
  ASSUME NEW q
  PROVE  Spending(q) = MapThenSumSet(LAMBDA o : o.spend, q)
<1> DEFINE f == [o \in q |-> o.spend]
           body(g) == [s \in SUBSET q |-> IF s = {} THEN 0 ELSE One(s).spend + g[s \ {One(s)}]]
<1>1. ASSUME NEW g PROVE SumStep(f, q, g) = body(g)
  <2>1. \A s \in SUBSET q : s # {} => f[One(s)] = One(s).spend
    BY DEF One
  <2> QED
    BY <2>1 DEF SumStep
<1>2. Sums(f, q) = CHOOSE g : g = body(g)
  BY <1>1 DEF Sums
<1> QED
  BY <1>2 DEF Spending, SumOf, MapThenSumSet, MapThenFoldSet, One

Of(c, q) == {o \in q : o.spends = c}
Share(o, c) == IF o.spends = c THEN o.spend ELSE 0

\* An order more in flight commits at most what it spends ...
LEMMA OrderAdded ==
  ASSUME NEW q, IsFiniteSet(q), NEW x, \A o \in q \union {x} : o.spend \in Nat, NEW c
  PROVE  /\ Spending(Of(c, q)) \in Nat /\ Spending(Of(c, q \union {x})) \in Nat
         /\ Spending(Of(c, q \union {x})) <= Spending(Of(c, q)) + Share(x, c)
<1>1. /\ IsFiniteSet(Of(c, q)) /\ IsFiniteSet(Of(c, q \union {x}))
      /\ \A o \in Of(c, q \union {x}) : o.spend \in Nat
      /\ \A o \in Of(c, q) : o.spend \in Nat
  <2>1. IsFiniteSet(q \union {x})
    BY FS_AddElement
  <2>2. Of(c, q) \in SUBSET q /\ Of(c, q \union {x}) \in SUBSET (q \union {x})
    BY DEF Of
  <2> QED
    BY <2>1, <2>2, FS_Subset
<1>2. Spending(Of(c, q)) \in Nat /\ Spending(Of(c, q \union {x})) \in Nat
  BY <1>1, SpendingTakesOut
<1>3. CASE x.spends = c /\ x \notin q
  <2>1. x \in Of(c, q \union {x}) /\ Of(c, q \union {x}) \ {x} = Of(c, q)
    BY <1>3 DEF Of
  <2>2. Spending(Of(c, q \union {x})) = x.spend + Spending(Of(c, q))
    BY <1>1, <2>1, SpendingTakesOut
  <2> QED
    BY <1>2, <1>3, <2>2 DEF Share
<1>4. CASE x.spends # c \/ x \in q
  <2>1. Of(c, q \union {x}) = Of(c, q) /\ Share(x, c) \in Nat
    BY <1>4 DEF Of, Share
  <2> QED
    BY <1>2, <2>1
<1> QED
  BY <1>3, <1>4

\* ... and one less frees exactly that.
LEMMA OrderDropped ==
  ASSUME NEW q, IsFiniteSet(q), NEW x \in q, \A o \in q : o.spend \in Nat, NEW c
  PROVE  /\ Spending(Of(c, q)) \in Nat /\ Spending(Of(c, q \ {x})) \in Nat
         /\ Spending(Of(c, q \ {x})) = Spending(Of(c, q)) - Share(x, c)
<1>1. IsFiniteSet(Of(c, q)) /\ IsFiniteSet(Of(c, q \ {x}))
  <2>1. Of(c, q) \in SUBSET q /\ Of(c, q \ {x}) \in SUBSET q
    BY DEF Of
  <2> QED
    BY <2>1, FS_Subset
<1>2. (\A o \in Of(c, q \ {x}) : o.spend \in Nat) /\ (\A o \in Of(c, q) : o.spend \in Nat)
  BY DEF Of
<1>3. Spending(Of(c, q)) \in Nat /\ Spending(Of(c, q \ {x})) \in Nat
  BY <1>1, <1>2, SpendingTakesOut
<1>4. CASE x.spends = c
  <2>1. x \in Of(c, q) /\ Of(c, q) \ {x} = Of(c, q \ {x})
    BY <1>4 DEF Of
  <2>2. Spending(Of(c, q)) = x.spend + Spending(Of(c, q \ {x})) /\ x.spend \in Nat
    BY <1>1, <1>2, <2>1, SpendingTakesOut
  <2> QED
    BY <1>3, <1>4, <2>2 DEF Share
<1>5. CASE x.spends # c
  <2>1. Of(c, q \ {x}) = Of(c, q)
    BY <1>5 DEF Of
  <2> QED
    BY <1>3, <1>5, <2>1 DEF Share
<1> QED
  BY <1>4, <1>5

\* Committed, in this state and in the next.
LEMMA CommittedTotals ==
  ASSUME NEW c
  PROVE  /\ Committed(c) = Spending(Of(c, fire_orders_queue))
         /\ Committed(c)' = Spending(Of(c, fire_orders_queue'))
<1>1. Committed(c) = Spending(Of(c, fire_orders_queue))
  BY SpendingFolds DEF Committed, Of
<1>2. Committed(c)' = Spending(Of(c, fire_orders_queue'))
  <2> DEFINE q == {o \in fire_orders_queue' : o.spends = c}
  <2>1. Of(c, fire_orders_queue') = q
    BY DEF Of
  <2>2. Spending(q) = MapThenSumSet(LAMBDA o : o.spend, q)
    BY SpendingFolds
  <2>3. Committed(c)' = MapThenSumSet(LAMBDA o : o.spend, q)
    BY DEF Committed, MapThenSumSet, MapThenFoldSet
  <2> QED
    BY <2>1, <2>2, <2>3
<1> QED
  BY <1>1, <1>2

\* What is committed and what is owed are naturals.
LEMMA FundsNatural ==
  ASSUME TypeInv, IsFiniteSet(fire_orders_queue), NEW c
  PROVE  /\ Committed(c) \in Nat
         /\ \A i \in Legs : OwedOf(c, i) \in Nat
         /\ Owed(c) \in Nat
<1>1. \A o \in fire_orders_queue : o.spend \in Nat
  BY DEF TypeInv, BalancesTyped, InFlight
<1>2. Of(c, fire_orders_queue) \in SUBSET fire_orders_queue
  BY DEF Of
<1>3. IsFiniteSet(Of(c, fire_orders_queue))
  BY <1>2, FS_Subset
<1>4. Committed(c) \in Nat
  BY <1>1, <1>2, <1>3, SpendingTakesOut, CommittedTotals
<1>5. ASSUME NEW i \in Legs PROVE OwedOf(c, i) \in Nat
  <2>1. Owing(i) => pc \in Firing
    BY DEF Owing, Firing
  <2> QED
    BY <2>1, FiredTyped DEF OwedOf, TypeInv
<1>6. Owed(c) \in Nat
  BY <1>5 DEF Owed, Legs
<1> QED
  BY <1>4, <1>5, <1>6

\* Nothing is owed while the thread is not firing.
LEMMA NothingOwed ==
  ASSUME NEW c
  PROVE  /\ pc \notin Firing => Owed(c) = 0
         /\ pc' \notin Firing => Owed(c)' = 0
<1>1. ASSUME pc \notin Firing PROVE \A i \in Legs : OwedOf(c, i) = 0
  BY <1>1 DEF OwedOf, Owing, Firing
<1>2. ASSUME pc' \notin Firing PROVE \A i \in Legs : OwedOf(c, i)' = 0
  BY <1>2 DEF OwedOf, Owing, Firing
<1> QED
  BY <1>1, <1>2 DEF Owed, Legs

\* The numbers of a coin are integers.
LEMMA FundsNumbers ==
  ASSUME TypeInv, FundsInv, NEW c \in Coins
  PROVE  /\ account[c] \in Int /\ Committed(c) \in Nat /\ Owed(c) \in Nat
         /\ missed[c] \in Nat /\ unseen[c] \in Nat
         /\ balances # NoBalances => balances[c] \in Int
         /\ snapshot # NoBalances => snapshot[c] \in Int
BY FundsNatural DEF TypeInv, BalancesTyped, FundsInv, Unshown

\* The cache and a pending refresh are of known coins, and so is the coin in hand.
LEMMA KnownCoins ==
  ASSUME TypeInv
  PROVE  /\ DOMAIN balances \subseteq Coins /\ DOMAIN snapshot \subseteq Coins
         /\ \A c \in DOMAIN balances : balances[c] \in Int
         /\ \A c \in DOMAIN snapshot : snapshot[c] \in Int
         /\ pc = "write" => coin \in Coins /\ amount \in Int
<1>1. pc = "write" => coin \in Coins /\ amount \in Int
  BY ChainInHand DEF TypeInv, LocalsTyped, Busy
<1> QED
  BY <1>1 DEF TypeInv, BalancesTyped, NoBalances

\* A step that leaves the cache and what backs it alone.
LEMMA FundsElsewhere ==
  ASSUME TypeInv, FundsInv,
         UNCHANGED <<fire_orders_queue, balances, account, snapshot, missed, unseen>>,
         \A c \in Coins : Owed(c)' = Owed(c),
         \/ pc # "write" /\ pc' # "write"
         \/ UNCHANGED <<pc, batch, at, leg, amount, split>>
  PROVE  FundsInv'
<1>1. \A c : Committed(c)' = Committed(c)
  BY CommittedTotals
<1>2. pc = "write" => coin \in Coins
  BY KnownCoins
<1>3. DOMAIN balances \subseteq Coins
  BY KnownCoins
<1>4. pc' = "write" => /\ pc = "write" /\ coin' = coin /\ amount' = amount /\ split' = split
  BY DEF coin, step, chain
<1>5. \A c \in DOMAIN balances : ~Overwritten(c)' => ~Overwritten(c)
  BY DEF Overwritten, coin, step, chain
<1>6. Covered'
  BY <1>1, <1>2, <1>3, <1>4, <1>5 DEF FundsInv, Covered, Backed
<1> QED
  BY <1>1, <1>6 DEF FundsInv, SnapshotCovered, Unshown

\* A leg put to the executors is committed, and owed by the cache (manager.py:121-130);
\* a refresh on its way misses it.
LEMMA PutOrderFunds == ASSUME TypeInv, FundsInv, PutOrder PROVE FundsInv'
<1>1. PICK i \in unput : /\ fire_orders_queue' = fire_orders_queue \union {Fired(i)}
                         /\ unput' = unput \ {i}
                         /\ missed' = Missing(Fired(i))
                         /\ pc' = IF unput' = {} THEN "reduce" ELSE pc
  BY DEF PutOrder
<1>2. /\ UNCHANGED <<batch, at, leg, orders, balances, unseen, account, snapshot>>
      /\ pc = "put" /\ pc' # "write" /\ leg = 1 /\ i \in Legs /\ unput \subseteq Legs
  BY DEF PutOrder, cache, TypeInv, PlaceTyped
<1>3. /\ Fired(i) \in InFlight /\ Spend(orders[i]) \in Nat
      /\ Fired(i).spends = SpendingCoin(chain.steps[i]) /\ Fired(i).spend = Spend(orders[i])
  BY <1>2, FiredTyped DEF TypeInv, Firing
<1>4. IsFiniteSet(fire_orders_queue')
  BY <1>1, FS_AddElement DEF FundsInv
<1>5. \A j \in Legs : Owing(j)' <=> Owing(j) \/ j = i
  BY <1>1, <1>2 DEF Owing, Legs
<1>6. ~Owing(i)
  BY <1>1, <1>2 DEF Owing
<1>7. chain' = chain /\ orders' = orders
  BY <1>2 DEF chain
<1>8. ASSUME NEW c PROVE Owed(c)' = Owed(c) + Share(Fired(i), c)
  <2>1. \A j \in Legs : j # i => OwedOf(c, j)' = OwedOf(c, j)
    BY <1>5, <1>7 DEF OwedOf
  <2>2. OwedOf(c, i) = 0 /\ OwedOf(c, i)' = Share(Fired(i), c)
    BY <1>2, <1>3, <1>5, <1>6, <1>7 DEF OwedOf, Share
  <2>3. /\ OwedOf(c, 1) \in Nat /\ OwedOf(c, 2) \in Nat /\ OwedOf(c, 3) \in Nat
        /\ Share(Fired(i), c) \in Nat
    BY <1>3, FundsNatural DEF FundsInv, Legs, Share
  <2>4. i = 1 \/ i = 2 \/ i = 3
    BY <1>2 DEF Legs
  <2> QED
    BY <2>1, <2>2, <2>3, <2>4 DEF Owed, Legs
<1>9. ASSUME NEW c \in Coins
      PROVE  /\ Committed(c)' \in Nat /\ Committed(c)' <= Committed(c) + Share(Fired(i), c)
             /\ Share(Fired(i), c) \in Nat
  <2>1. \A o \in fire_orders_queue \union {Fired(i)} : o.spend \in Nat
    BY <1>3 DEF TypeInv, BalancesTyped, InFlight
  <2>2. Share(Fired(i), c) \in Nat
    BY <1>3 DEF Share
  <2> QED
    BY <1>1, <2>1, <2>2, OrderAdded, CommittedTotals DEF FundsInv
<1>10. Covered'
  <2> SUFFICES ASSUME NEW c \in DOMAIN balances PROVE Backed(balances[c], c)'
    BY <1>2 DEF Covered
  <2>1. c \in Coins /\ balances[c] \in Int
    BY KnownCoins
  <2>2. balances[c] <= account[c] - Committed(c) + Owed(c) + unseen[c]
    BY <1>2 DEF FundsInv, Covered, Backed, Overwritten
  <2> QED
    BY <1>2, <1>8, <1>9, <2>1, <2>2, FundsNumbers DEF Backed
<1>11. /\ missed' \in [Coins -> Nat]
       /\ snapshot # NoBalances => \A c \in Coins : missed'[c] = missed[c] + Share(Fired(i), c)
  <2>1. missed \in [Coins -> Nat] /\ Fired(i).spends \in Coins /\ Fired(i).spend \in Nat
    BY <1>3 DEF FundsInv, Unshown, InFlight
  <2> HIDE DEF Fired
  <2> QED
    BY <1>1, <2>1 DEF Missing, Share
<1>12. SnapshotCovered'
  <2> SUFFICES ASSUME NEW c \in DOMAIN snapshot
               PROVE  snapshot[c] <= account[c] - Committed(c)' + missed'[c]
    BY <1>2 DEF SnapshotCovered
  <2>1. c \in Coins /\ snapshot[c] \in Int /\ snapshot # NoBalances
    BY KnownCoins DEF NoBalances
  <2>2. snapshot[c] <= account[c] - Committed(c) + missed[c]
    BY DEF FundsInv, SnapshotCovered
  <2> QED
    BY <1>9, <1>11, <2>1, <2>2, FundsNumbers
<1> QED
  BY <1>2, <1>4, <1>10, <1>11, <1>12 DEF FundsInv, Unshown

\* What is taken out of the cache is no longer owed (manager.py:132-139): of what was read,
\* whatever a refresh has put there since.
LEMMA ReduceWriteFunds == ASSUME TypeInv, FundsInv, ReduceWrite PROVE FundsInv'
<1>1. /\ UNCHANGED <<fire_orders_queue, batch, unput, account, snapshot, missed, unseen>>
      /\ pc = "write" /\ leg \in Legs
      /\ balances' = [balances EXCEPT ![coin] = amount - Spend(orders[leg])]
      /\ pc' # "put" /\ pc' # "write"
  BY DEF ReduceWrite, NewAmount, bus, updater, TypeInv, PlaceTyped, Conclude
<1>2. /\ coin \in Coins /\ coin = SpendingCoin(chain.steps[leg]) /\ amount \in Int
      /\ Spend(orders[leg]) \in Nat /\ balances \in [Coins -> Int]
  BY <1>1, ChainInHand, FiredTyped
     DEF ReduceWrite, TypeInv, LocalsTyped, Busy, Firing, coin, step
<1>3. \A j \in Legs : Owing(j) <=> j >= leg
  BY <1>1 DEF Owing
<1>4. \/ leg < 3 /\ leg' = leg + 1 /\ pc' = "reduce" /\ chain' = chain /\ orders' = orders
      \/ leg = 3 /\ pc' \notin Firing
  BY <1>1 DEF ReduceWrite, MoreLegs, Legs, Conclude, chain, Firing
<1>5. ASSUME NEW c PROVE Owed(c)' = Owed(c) - OwedOf(c, leg)
  <2>1. \A j \in Legs : j # leg => OwedOf(c, j)' = OwedOf(c, j)
    BY <1>1, <1>3, <1>4 DEF OwedOf, Owing, Legs, Firing
  <2>3. ASSUME NEW j \in Legs, j = leg PROVE OwedOf(c, j)' = 0
    BY <1>1, <1>4, <2>3 DEF OwedOf, Owing, Legs, Firing
  <2>4. /\ OwedOf(c, 1) \in Nat /\ OwedOf(c, 2) \in Nat /\ OwedOf(c, 3) \in Nat
    BY FundsNatural DEF FundsInv, Legs
  <2>5. leg = 1 \/ leg = 2 \/ leg = 3
    BY <1>1 DEF Legs
  <2> QED
    BY <2>1, <2>3, <2>4, <2>5 DEF Owed, Legs
<1>6. ASSUME NEW c PROVE OwedOf(c, leg) = IF c = coin THEN Spend(orders[leg]) ELSE 0
  BY <1>1, <1>2, <1>3 DEF OwedOf, Legs
<1>7. Covered'
  <2> SUFFICES ASSUME NEW c \in Coins PROVE Backed(balances[c], c)'
    BY <1>1, <1>2 DEF Covered
  <2>1. Committed(c)' = Committed(c)
    BY <1>1, CommittedTotals
  <2>2. balances'[c] <= account[c] - Committed(c) + Owed(c) + unseen[c] - OwedOf(c, leg)
    <3>1. CASE c = coin
      <4>1. Backed(amount, c)
        BY <1>1, <3>1 DEF FundsInv, Covered
      <4>2. balances'[c] = amount - Spend(orders[leg]) /\ OwedOf(c, leg) = Spend(orders[leg])
        BY <1>1, <1>2, <1>6, <3>1
      <4> HIDE DEF coin
      <4> QED
        BY <1>2, <4>1, <4>2, FundsNumbers DEF Backed
    <3>2. CASE c # coin
      <4>1. Backed(balances[c], c)
        BY <1>2, <3>2 DEF FundsInv, Covered, Overwritten
      <4>2. balances'[c] = balances[c] /\ OwedOf(c, leg) = 0
        BY <1>1, <1>2, <1>6, <3>2
      <4> HIDE DEF coin
      <4> QED
        BY <1>2, <4>1, <4>2, FundsNumbers DEF Backed
    <3> QED
      BY <3>1, <3>2
  <2>3. OwedOf(c, leg) \in Nat
    BY <1>2, <1>6
  <2>4. balances'[c] \in Int
    BY <1>1, <1>2
  <2> QED
    BY <1>1, <1>5, <2>1, <2>2, <2>3, <2>4, FundsNumbers DEF Backed
<1>8. \A c : Committed(c)' = Committed(c)
  BY <1>1, CommittedTotals
<1> QED
  BY <1>1, <1>7, <1>8 DEF FundsInv, SnapshotCovered, Unshown

\* What is read of the cache to be reduced is backed as the cache is (registry.py:70).
LEMMA ReduceReadFunds == ASSUME TypeInv, FundsInv, ReduceRead PROVE FundsInv'
<1>1. /\ pc = "reduce" /\ pc' = "write" /\ amount' = balances[coin] /\ split' = FALSE
      /\ UNCHANGED <<fire_orders_queue, balances, account, snapshot, missed, unseen,
                     batch, at, leg, orders, unput>>
  BY DEF ReduceRead, bus, updater
<1>2. coin' = coin
  BY <1>1 DEF coin, step, chain
<1>3. \A c : Owed(c)' = Owed(c) /\ Committed(c)' = Committed(c)
  BY <1>1, CommittedTotals DEF Owed, OwedOf, Owing, chain
<1>4. coin \in Coins /\ balances \in [Coins -> Int]
  BY <1>1, ChainInHand DEF TypeInv, LocalsTyped, Busy, Firing
<1>5. \A c \in Coins : Backed(balances[c], c)
  BY <1>1, <1>4 DEF FundsInv, Covered, Overwritten
<1>6. \A c \in Coins : Backed(balances[c], c)'
  BY <1>1, <1>3, <1>5 DEF Backed
<1>7. Covered'
  <2> HIDE DEF coin
  <2>1. Backed(amount, coin)'
    BY <1>1, <1>2, <1>4, <1>6 DEF Backed
  <2> QED
    BY <1>1, <1>4, <1>6, <2>1 DEF Covered
<1> QED
  BY <1>1, <1>3, <1>7 DEF FundsInv, SnapshotCovered, Unshown

\* A reading of the account misses what is in flight (__main__.py:66-68) ...
LEMMA FetchFunds == ASSUME TypeInv, FundsInv, FetchBalances PROVE FundsInv'
<1>1. /\ snapshot' = account /\ missed' = [c \in Coins |-> Committed(c)]
      /\ UNCHANGED <<fire_orders_queue, balances, account, unseen, split, amount, batch, at, leg,
                     orders, unput, pc>>
  BY DEF FetchBalances, bus, thread, locals, cache
<1>2. \A c : Owed(c)' = Owed(c) /\ Committed(c)' = Committed(c)
  BY <1>1, CommittedTotals DEF Owed, OwedOf, Owing, chain
<1>3. coin' = coin
  BY <1>1 DEF coin, step, chain
<1>4. Covered'
  BY <1>1, <1>2, <1>3 DEF FundsInv, Covered, Backed, Overwritten
<1>5. SnapshotCovered'
  <2> SUFFICES ASSUME NEW c \in Coins
               PROVE  account[c] <= account[c] - Committed(c) + Committed(c)
    BY <1>1, <1>2 DEF SnapshotCovered, TypeInv, BalancesTyped
  <2> QED
    BY FundsNumbers
<1>6. missed' \in [Coins -> Nat]
  BY <1>1, FundsNumbers
<1> QED
  BY <1>1, <1>4, <1>5, <1>6 DEF FundsInv, Unshown

\* ... and so does the cache it is swapped into, but for the coin that reduce_balance is
\* about to write on what it read before (registry.py:59-60).
LEMMA UpdateFunds == ASSUME TypeInv, FundsInv, UpdateBalances PROVE FundsInv'
<1>1. /\ snapshot # NoBalances /\ balances' = snapshot
      /\ split' = (pc = "write") /\ snapshot' = NoBalances /\ missed' = Nothing
      /\ unseen' = IF pc = "write" THEN [missed EXCEPT ![coin] = unseen[coin]] ELSE missed
      /\ UNCHANGED <<fire_orders_queue, account, batch, at, leg, orders, unput, pc, amount>>
  BY DEF UpdateBalances, bus, thread, locals
<1>2. snapshot \in [Coins -> Int]
  BY <1>1 DEF TypeInv, BalancesTyped
<1>3. \A c : Owed(c)' = Owed(c) /\ Committed(c)' = Committed(c)
  BY <1>1, CommittedTotals DEF Owed, OwedOf, Owing, chain
<1>4. coin' = coin
  BY <1>1 DEF coin, step, chain
<1>5. pc = "write" => coin \in Coins /\ amount \in Int
  BY KnownCoins
<1>6. unseen' \in [Coins -> Nat] /\ missed' \in [Coins -> Nat]
  BY <1>1, <1>5 DEF FundsInv, Unshown, Nothing
<1> HIDE DEF coin
<1>7. ASSUME NEW c \in Coins, ~Overwritten(c)' PROVE Backed(balances[c], c)'
  <2>1. unseen'[c] = missed[c]
    BY <1>1, <1>4, <1>5, <1>7 DEF Overwritten, FundsInv, Unshown
  <2>2. snapshot[c] <= account[c] - Committed(c) + missed[c]
    BY <1>2 DEF FundsInv, SnapshotCovered
  <2>3. snapshot[c] \in Int
    BY <1>2
  <2> QED
    BY <1>1, <1>3, <2>1, <2>2, <2>3, FundsNumbers DEF Backed
<1>8. pc' = "write" => Backed(amount, coin)'
  <2> SUFFICES ASSUME pc = "write" PROVE Backed(amount, coin)'
    BY <1>1
  <2>1. Backed(amount, coin)
    BY DEF FundsInv, Covered
  <2>2. unseen'[coin] = unseen[coin]
    BY <1>1, <1>5 DEF FundsInv, Unshown
  <2> QED
    BY <1>1, <1>3, <1>4, <2>1, <2>2 DEF Backed
<1>9. Covered' /\ SnapshotCovered'
  BY <1>1, <1>2, <1>7, <1>8 DEF Covered, SnapshotCovered, NoBalances
<1> QED
  BY <1>1, <1>6, <1>9 DEF FundsInv, Unshown

\* What the account loses and what stops being committed, or is known to be unseen, keeps
\* the cache and a pending refresh backed if they balance.
LEMMA FundsMoved ==
  ASSUME TypeInv, FundsInv,
         UNCHANGED <<balances, snapshot, pc, batch, at, leg, orders, unput, amount, split>>,
         \A c \in Coins :
           /\ account'[c] \in Int /\ Committed(c)' \in Nat
           /\ missed'[c] \in Nat /\ unseen'[c] \in Nat
           /\ account'[c] - Committed(c)' + unseen'[c] >= account[c] - Committed(c) + unseen[c]
           /\ snapshot # NoBalances =>
                account'[c] - Committed(c)' + missed'[c] >= account[c] - Committed(c) + missed[c]
  PROVE  Covered' /\ SnapshotCovered'
<1>1. \A c : Owed(c)' = Owed(c)
  BY DEF Owed, OwedOf, Owing, chain
<1>2. coin' = coin
  BY DEF coin, step, chain
<1>3. ASSUME NEW c \in Coins, NEW n \in Int, Backed(n, c)
      PROVE  n <= account'[c] - Committed(c)' + Owed(c)' + unseen'[c]
  BY <1>1, <1>3, FundsNumbers DEF Backed
<1>4. Covered'
  <2>1. ASSUME NEW c \in DOMAIN balances, ~Overwritten(c)' PROVE Backed(balances[c], c)'
    <3>1. c \in Coins /\ balances[c] \in Int
      BY KnownCoins
    <3>2. Backed(balances[c], c)
      BY <1>2, <2>1 DEF FundsInv, Covered, Overwritten
    <3> QED
      BY <1>3, <3>1, <3>2 DEF Backed
  <2>2. ASSUME pc = "write" PROVE Backed(amount, coin)'
    <3>1. coin \in Coins /\ amount \in Int /\ Backed(amount, coin)
      BY <2>2, KnownCoins DEF FundsInv, Covered
    <3>2. PICK x \in Coins : x = coin
      BY <3>1
    <3>3. amount <= account'[x] - Committed(x)' + Owed(x)' + unseen'[x]
      BY <1>3, <3>1, <3>2
    <3> HIDE DEF coin
    <3> QED
      BY <1>2, <3>2, <3>3 DEF Backed
  <2> QED
    BY <2>1, <2>2 DEF Covered
<1>5. SnapshotCovered'
  <2> SUFFICES ASSUME NEW c \in DOMAIN snapshot
               PROVE  snapshot[c] <= account'[c] - Committed(c)' + missed'[c]
    BY DEF SnapshotCovered
  <2>1. c \in Coins /\ snapshot[c] \in Int /\ snapshot # NoBalances
    BY KnownCoins DEF NoBalances
  <2>2. snapshot[c] <= account[c] - Committed(c) + missed[c]
    BY DEF FundsInv, SnapshotCovered
  <2> QED
    BY <2>1, <2>2, FundsNumbers
<1> QED
  BY <1>4, <1>5

\* An answered order takes from the account at most what it no longer commits.
LEMMA AnswerFunds == ASSUME TypeInv, FundsInv, Fill \/ Expire PROVE FundsInv'
<1>1. PICK o \in fire_orders_queue :
        /\ fire_orders_queue' = fire_orders_queue \ {o}
        /\ \/ account' = [account EXCEPT ![o.spends] = @ - o.spend, ![o.gets] = @ + o.gain]
           \/ account' = account
  BY DEF Fill, Expire
<1>2. UNCHANGED <<balances, split, amount, unseen, snapshot, missed, batch, at, leg, orders, unput,
                  pc>>
  BY DEF Fill, Expire, thread, locals, cache, updater
<1>3. /\ o.spends \in Coins /\ o.gets \in Coins /\ o.spend \in Nat /\ o.gain \in Nat
      /\ account \in [Coins -> Int] /\ \A x \in fire_orders_queue : x.spend \in Nat
  BY DEF TypeInv, BalancesTyped, InFlight
<1>4. \A c \in Coins : account'[c] \in Int /\ account'[c] >= account[c] - Share(o, c)
  BY <1>1, <1>3 DEF Share
<1>5. \A c \in Coins : Committed(c)' \in Nat /\ Committed(c)' = Committed(c) - Share(o, c)
  BY <1>1, <1>3, OrderDropped, CommittedTotals DEF FundsInv
<1>6. \A c \in Coins : Share(o, c) \in Nat
  BY <1>3 DEF Share
<1>7. IsFiniteSet(fire_orders_queue')
  BY <1>1, FS_RemoveElement DEF FundsInv
<1>8. ASSUME NEW c \in Coins
      PROVE  /\ account'[c] \in Int /\ Committed(c)' \in Nat
             /\ missed'[c] \in Nat /\ unseen'[c] \in Nat
             /\ account'[c] - Committed(c)' + unseen'[c] >= account[c] - Committed(c) + unseen[c]
             /\ account'[c] - Committed(c)' + missed'[c] >= account[c] - Committed(c) + missed[c]
  BY <1>2, <1>4, <1>5, <1>6, FundsNumbers
<1>9. Covered' /\ SnapshotCovered'
  BY <1>2, <1>8, FundsMoved
<1> QED
  BY <1>2, <1>7, <1>9 DEF FundsInv, Unshown

\* A market order takes from the account what the cache, and a reading under way, do not
\* show as spent (balances_rebalancer.py:68-75).
LEMMA RebalanceFunds == ASSUME TypeInv, FundsInv, Rebalance PROVE FundsInv'
<1>1. PICK o \in MarketOrders :
        /\ account' = [account EXCEPT ![o.spends] = @ - o.spend, ![o.gets] = @ + o.gain]
        /\ missed' = Missing(o)
        /\ unseen' = [unseen EXCEPT ![o.spends] = @ + o.spend]
  BY DEF Rebalance
<1>2. UNCHANGED <<balances, split, amount, snapshot, fire_orders_queue, batch, at, leg, orders,
                  unput, pc>>
  BY DEF Rebalance, thread, locals, bus
<1>3. /\ o.spends \in Coins /\ o.gets \in Coins /\ o.spend \in Nat /\ o.gain \in Nat
      /\ account \in [Coins -> Int] /\ missed \in [Coins -> Nat] /\ unseen \in [Coins -> Nat]
  BY SettingsAssumption DEF TypeInv, BalancesTyped, FundsInv, Unshown
<1>4. \A c \in Coins : account'[c] \in Int /\ account'[c] >= account[c] - Share(o, c)
  BY <1>1, <1>3 DEF Share
<1>5. \A c : Committed(c)' = Committed(c)
  BY <1>2, CommittedTotals
<1>6. /\ missed' \in [Coins -> Nat] /\ unseen' \in [Coins -> Nat]
      /\ \A c \in Coins : unseen'[c] = unseen[c] + Share(o, c)
      /\ snapshot # NoBalances => \A c \in Coins : missed'[c] = missed[c] + Share(o, c)
  BY <1>1, <1>3 DEF Missing, Share
<1>7. \A c \in Coins : Share(o, c) \in Nat
  BY <1>3 DEF Share
<1>8. ASSUME NEW c \in Coins
      PROVE  /\ account'[c] \in Int /\ Committed(c)' \in Nat
             /\ missed'[c] \in Nat /\ unseen'[c] \in Nat
             /\ account'[c] - Committed(c)' + unseen'[c] >= account[c] - Committed(c) + unseen[c]
             /\ snapshot # NoBalances =>
                  account'[c] - Committed(c)' + missed'[c] >= account[c] - Committed(c) + missed[c]
  BY <1>4, <1>5, <1>6, <1>7, FundsNumbers
<1>9. Covered' /\ SnapshotCovered'
  BY <1>2, <1>8, FundsMoved
<1> QED
  BY <1>2, <1>6, <1>9 DEF FundsInv, Unshown

\* What the cache promises is backed, step by step.
LEMMA FundsInductive == TypeInv /\ FundsInv /\ [Next]_vars => FundsInv'
<1> SUFFICES ASSUME TypeInv, FundsInv, [Next]_vars PROVE FundsInv'
  OBVIOUS
<1>1. CASE Get \/ GetSentinel \/ Examine \/ Check \/ Store
  <2>1. /\ pc \notin Firing /\ pc' \notin Firing
        /\ UNCHANGED <<fire_orders_queue, balances, account, snapshot, missed, unseen>>
    BY <1>1 DEF Get, GetSentinel, Examine, Check, Store, Conclude, Firing, bus, cache, updater
  <2>2. pc # "write" /\ pc' # "write"
    BY <2>1 DEF Firing
  <2> QED
    BY <2>1, <2>2, FundsElsewhere, NothingOwed
<1>2. CASE Shrink
  <2>1. /\ pc = "shrink"
        /\ UNCHANGED <<fire_orders_queue, balances, account, snapshot, missed, unseen>>
        /\ \/ pc' \notin Firing
           \/ pc' = "put" /\ unput' = Legs
    BY <1>2 DEF Shrink, Conclude, Firing, bus, cache, updater
  <2>2. ASSUME NEW c PROVE Owed(c)' = 0
    <3>1. CASE pc' \notin Firing
      BY <3>1, NothingOwed
    <3>2. CASE pc' = "put" /\ unput' = Legs
      <4>1. \A i \in Legs : OwedOf(c, i)' = 0
        BY <3>2 DEF OwedOf, Owing
      <4> QED
        BY <4>1 DEF Owed, Legs
    <3> QED
      BY <2>1, <3>1, <3>2
  <2>3. pc \notin Firing /\ pc # "write" /\ pc' # "write"
    BY <2>1 DEF Firing
  <2> QED
    BY <2>1, <2>2, <2>3, FundsElsewhere, NothingOwed
<1>3. CASE FindChains \/ Shutdown \/ SetStopTrading \/ Tick \/ UNCHANGED vars
  <2>1. UNCHANGED <<fire_orders_queue, balances, account, snapshot, missed, unseen,
                    batch, at, leg, orders, unput, pc, amount, split>>
    BY <1>3 DEF FindChains, Shutdown, SetStopTrading, Tick, vars, bus, thread, locals, cache, updater
  <2>2. \A c : Owed(c)' = Owed(c)
    BY <2>1 DEF Owed, OwedOf, Owing, chain
  <2> QED
    BY <2>1, <2>2, FundsElsewhere
<1> QED
  BY <1>1, <1>2, <1>3, PutOrderFunds, ReduceReadFunds, ReduceWriteFunds, FetchFunds, UpdateFunds,
     AnswerFunds, RebalanceFunds DEF Next, TradeManagerStep

\* When the thread sizes a chain, the cache promises no more of a coin than the account
\* holds beyond the orders in flight, and what was spent where the cache could not show it
\* (manager.py:134-136): whatever the exchange answers and the rebalancer orders, and
\* wherever a refresh lands, in the middle of a reservation too.
THEOREM NoFundsPromisedTwice == Spec => []NoPromiseOfCommittedFunds
<1>1. Init => FundsInv
  <2> SUFFICES ASSUME Init PROVE FundsInv
    OBVIOUS
  <2>1. /\ fire_orders_queue = {} /\ balances = NoBalances /\ snapshot = NoBalances
        /\ missed = Nothing /\ unseen = Nothing /\ pc = "get"
    BY DEF Init
  <2>2. Unshown
    BY <2>1 DEF Unshown, Nothing
  <2> QED
    BY <2>1, <2>2, FS_EmptySet DEF FundsInv, Covered, SnapshotCovered, NoBalances
<1>2. TypeInv /\ FundsInv /\ [Next]_vars => FundsInv'
  BY FundsInductive
<1>3. TypeInv /\ FundsInv => NoPromiseOfCommittedFunds
  <2> SUFFICES ASSUME TypeInv, FundsInv, Deciding, NEW c \in DOMAIN balances
               PROVE  balances[c] <= account[c] - Committed(c) + unseen[c]
    BY DEF NoPromiseOfCommittedFunds
  <2>1. balances[c] <= account[c] - Committed(c) + Owed(c) + unseen[c]
    BY DEF FundsInv, Covered, Backed, Overwritten, Deciding
  <2>2. Owed(c) = 0
    BY NothingOwed DEF Deciding, Firing
  <2>3. c \in Coins
    BY KnownCoins
  <2> QED
    BY <2>1, <2>2, <2>3, FundsNumbers
<1> QED
  BY <1>1, <1>2, <1>3, TypeInvHolds, PTL DEF Spec
=============================================================================
