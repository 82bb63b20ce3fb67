--------------------------- MODULE BalancesProofs ---------------------------
(***************************************************************************)
(* What the loop of the stop loss and the rebalancer guarantees, for any   *)
(* coins, holdings and prices, while the cache changes under its feet.     *)
(***************************************************************************)
EXTENDS BalancesRebalancer, CommonLemmas, Sequences

Holdings == [Coins -> Int]

MarketTyped == account \in Holdings /\ quote \in Quotes /\ moves \in Nat

RegistryTyped ==
  /\ balances = Unset \/ balances \in Holdings
  /\ exchange_rates = Unset \/ exchange_rates \in Quotes
  /\ unreserved \subseteq Coins /\ (unreserved # {} => balances \in Holdings)

UpdaterTyped ==
  /\ updater = "update balances" => fetched \in Holdings
  /\ updater = "update rates" => fetched \in Quotes

CheckerTyped ==
  /\ pc \in {"sleep", "balance", "rate", "decide"}
  /\ pc # "sleep" => balances \in Holdings
  /\ unread \subseteq Coins
  /\ pc = "rate" => coin \in Coins \ unread
  /\ amount \in Int /\ total \in Int /\ initial_balance \in Int

TypeInv == MarketTyped /\ RegistryTyped /\ UpdaterTyped /\ CheckerTyped

\* What the cache is worth, coin by coin, and the coins already summed.
CachedWorth == [c \in Coins |-> balances[c] * exchange_rates[c]]
Summed == IF pc = "rate" THEN (Coins \ unread) \ {coin} ELSE Coins \ unread

\* As long as the cache holds still, the total is the worth of what was read of it.
SumInv ==
  /\ pc = "decide" => unread = {}
  /\ pc # "sleep" /\ ~disturbed =>
       /\ pc = "rate" => amount = balances[coin]
       /\ exchange_rates # Unset => total = SumOf(CachedWorth, Summed)

\* The cache is what was refreshed while nothing was reserved.
BaseInv == ~reserved => balances = base

CheckInv == TypeInv /\ SumInv /\ BaseInv

-----------------------------------------------------------------------------
\* Rates are whole and positive, and a USD coin is worth itself.
LEMMA Rated ==
  ASSUME NEW q \in Quotes
  PROVE  /\ \A c \in Coins : q[c] \in Nat \ {0}
         /\ \A c \in UsdCoins : c \in Coins /\ q[c] = 1
BY CheckerAssumption

\* The sum over the coins as the models write it.
LEMMA TotalIsSum ==
  ASSUME NEW f
  PROVE  Total(f) = SumOf(f, Coins)
BY DEF Total, SumOf, Sums, SumStep, One

LEMMA WorthIsSum ==
  ASSUME NEW h, NEW q
  PROVE  Worth(h, q) = SumOf([c \in Coins |-> h[c] * q[c]], Coins)
BY TotalIsSum DEF Worth

\* With the rates known, a balance is valued by its rate, in USD or not.
LEMMA UsdByTheRate ==
  ASSUME NEW c \in Coins, NEW v \in Int, RegistryTyped
  PROVE  /\ Usd(c, v) \in Int
         /\ exchange_rates # Unset => Usd(c, v) = v * exchange_rates[c]
<1>1. CASE exchange_rates = Unset
  BY <1>1 DEF Usd
<1>2. CASE exchange_rates # Unset
  <2>1. exchange_rates[c] \in Nat /\ (c \in UsdCoins => exchange_rates[c] = 1)
    BY <1>2, Rated DEF RegistryTyped
  <2>2. v * exchange_rates[c] \in Int
    BY <2>1
  <2>3. CASE c \in UsdCoins
    BY <2>1, <2>3 DEF Usd
  <2>4. CASE c \notin UsdCoins
    BY <1>2, <2>2, <2>4 DEF Usd
  <2> QED
    BY <2>3, <2>4
<1> QED
  BY <1>1, <1>2

\* Steps of others that leave the thread alone: the sum is out of date, or nothing
\* it is taken over has changed.
LEMMA OthersKeepCheck ==
  ASSUME CheckInv, UNCHANGED checker,
         TypeInv', BaseInv',
         \/ disturbed'
         \/ UNCHANGED <<balances, exchange_rates, disturbed>>
  PROVE  CheckInv'
<1>1. UNCHANGED <<pc, unread, coin, amount, total>>
  BY DEF checker, locals
<1> QED
  BY <1>1 DEF CheckInv, SumInv, CachedWorth, Summed

LEMMA InitCheck == Init => CheckInv
<1> SUFFICES ASSUME Init PROVE CheckInv
  OBVIOUS
<1>1. MarketTyped
  <2>1. account \in [Coins -> Nat]
    BY CheckerAssumption DEF Init
  <2>2. quote \in Quotes
    BY CheckerAssumption DEF Init
  <2>3. moves \in Nat
    BY DEF Init
  <2> QED
    BY <2>1, <2>2, <2>3 DEF MarketTyped, Holdings
<1>2. RegistryTyped /\ UpdaterTyped /\ BaseInv
  BY DEF Init, RegistryTyped, UpdaterTyped, BaseInv
<1>3. CheckerTyped
  <2>1. pc = "sleep" /\ unread = {} /\ amount = 0 /\ total = 0 /\ initial_balance = -1
    BY DEF Init
  <2> QED
    BY <2>1 DEF CheckerTyped
<1>4. SumInv
  BY DEF Init, SumInv
<1> QED
  BY <1>1, <1>2, <1>3, <1>4 DEF CheckInv, TypeInv

\* What a step of the checker leaves alone keeps its types.
LEMMA RestTyped ==
  ASSUME CheckInv, CheckerTyped',
         UNCHANGED <<balances, exchange_rates, base, reserved, updater, fetched,
                     account, quote, moves, unreserved>>
  PROVE  TypeInv' /\ BaseInv'
BY DEF CheckInv, TypeInv, MarketTyped, RegistryTyped, UpdaterTyped, BaseInv

\* One step of the checker, from a total that is right to one that is.
LEMMA StartKeepsCheck ==
  ASSUME CheckInv, Start
  PROVE  CheckInv'
<1>1. balances \in Holdings
  BY DEF Start, CheckInv, TypeInv, RegistryTyped
<1>2. UNCHANGED <<balances, exchange_rates, base, reserved, updater, fetched,
                  account, quote, moves, unreserved>>
  BY DEF Start, registry, market
<1>3. CheckerTyped'
  BY <1>1, <1>2 DEF Start, CheckInv, TypeInv, CheckerTyped
<1>5. TypeInv' /\ BaseInv'
  BY <1>2, <1>3, RestTyped
<1>4. SumInv'
  <2>1. Summed' = {} /\ pc' = "balance"
    BY DEF Start, Summed
  <2>2. SumOf(CachedWorth', {}) = 0
    BY SumUnfolds, FS_EmptySet
  <2> QED
    BY <2>1, <2>2 DEF Start, SumInv
<1> QED
  BY <1>4, <1>5 DEF CheckInv

LEMMA ReadBalanceKeepsCheck ==
  ASSUME CheckInv, ReadBalance
  PROVE  CheckInv'
<1>1. /\ pc = "balance" /\ pc' = "rate" /\ coin' \in unread /\ unread' = unread \ {coin'}
      /\ amount' = balances[coin'] /\ balances \in Holdings /\ unread \subseteq Coins
      /\ UNCHANGED <<total, disturbed, initial_balance>>
  BY DEF ReadBalance, CheckInv, TypeInv, CheckerTyped
<1>2. UNCHANGED <<balances, exchange_rates, base, reserved, updater, fetched,
                  account, quote, moves, unreserved>>
  BY DEF ReadBalance, registry, market
<1>3. amount' \in Int
  BY <1>1 DEF Holdings
<1>4. TypeInv' /\ BaseInv'
  <2>1. CheckerTyped'
    BY <1>1, <1>2, <1>3 DEF CheckInv, TypeInv, CheckerTyped
  <2> QED
    BY <1>2, <2>1, RestTyped
<1>5. SumInv'
  <2>1. Summed' = Summed
    BY <1>1 DEF Summed
  <2>2. CachedWorth' = CachedWorth
    BY <1>2 DEF CachedWorth
  <2> QED
    BY <1>1, <1>2, <2>1, <2>2 DEF CheckInv, SumInv
<1> QED
  BY <1>4, <1>5 DEF CheckInv

LEMMA ReadRateKeepsCheck ==
  ASSUME CheckInv, ReadRate
  PROVE  CheckInv'
<1>1. /\ pc = "rate" /\ pc' = IF unread = {} THEN "decide" ELSE "balance"
      /\ total' = total + Usd(coin, amount)
      /\ UNCHANGED <<unread, coin, amount, disturbed, initial_balance>>
      /\ coin \in Coins \ unread /\ unread \subseteq Coins
      /\ balances \in Holdings /\ amount \in Int /\ total \in Int
  BY DEF ReadRate, CheckInv, TypeInv, CheckerTyped
<1>2. UNCHANGED <<balances, exchange_rates, base, reserved, updater, fetched,
                  account, quote, moves, unreserved>>
  BY DEF ReadRate, registry, market
<1>3. /\ Usd(coin, amount) \in Int
      /\ exchange_rates # Unset => Usd(coin, amount) = amount * exchange_rates[coin]
  BY <1>1, UsdByTheRate DEF CheckInv, TypeInv
<1>4. TypeInv' /\ BaseInv'
  <2>1. CheckerTyped'
    BY <1>1, <1>2, <1>3 DEF CheckInv, TypeInv, CheckerTyped
  <2> QED
    BY <1>2, <2>1, RestTyped
<1>5. ASSUME ~disturbed, exchange_rates # Unset
      PROVE  total' = SumOf(CachedWorth, Coins \ unread)
  <2>1. amount = balances[coin] /\ total = SumOf(CachedWorth, (Coins \ unread) \ {coin})
    BY <1>1, <1>5 DEF CheckInv, SumInv, Summed
  <2>2. \A c \in Coins : CachedWorth[c] \in Int
    <3>1. \A c \in Coins : balances[c] \in Int /\ exchange_rates[c] \in Int
      BY <1>1, <1>5, Rated DEF CheckInv, TypeInv, RegistryTyped, Holdings
    <3> QED
      BY <3>1 DEF CachedWorth
  <2>3. IsFiniteSet(Coins \ unread)
    BY CheckerAssumption, FS_Subset
  <2>4. SumOf(CachedWorth, Coins \ unread)
          = CachedWorth[coin] + SumOf(CachedWorth, (Coins \ unread) \ {coin})
    BY <1>1, <2>2, <2>3, SumTakesOut
  <2>5. CachedWorth[coin] = Usd(coin, amount)
    BY <1>1, <1>3, <1>5, <2>1 DEF CachedWorth
  <2>6. total' = Usd(coin, amount) + total
    BY <1>1, <1>3
  <2> QED
    BY <2>1, <2>4, <2>5, <2>6
<1>6. SumInv'
  <2>1. Summed' = Coins \ unread
    BY <1>1 DEF Summed
  <2>2. CachedWorth' = CachedWorth
    BY <1>2 DEF CachedWorth
  <2> QED
    BY <1>1, <1>2, <1>5, <2>1, <2>2 DEF SumInv
<1> QED
  BY <1>4, <1>6 DEF CheckInv

LEMMA DecideKeepsCheck ==
  ASSUME CheckInv, Decide
  PROVE  CheckInv'
<1>1. /\ pc' = "sleep" /\ unread' = {} /\ amount' = 0 /\ total' = 0
      /\ initial_balance' \in {total, initial_balance}
  BY DEF Decide, Return
<1>2. UNCHANGED <<balances, exchange_rates, base, reserved, updater, fetched,
                  account, quote, moves, unreserved>>
  BY DEF Decide, registry, market
<1>3. TypeInv' /\ BaseInv'
  <2>1. CheckerTyped'
    BY <1>1, <1>2 DEF CheckInv, TypeInv, CheckerTyped
  <2> QED
    BY <1>2, <2>1, RestTyped
<1> QED
  BY <1>1, <1>3 DEF CheckInv, SumInv

\* The steps of the other threads and of the market.
Elsewhere ==
  \/ GetBalances \/ UpdateBalances \/ GetLatestPrices \/ UpdateExchangeRates \/ FetchFails
  \/ FireChain \/ ReduceBalance \/ MarketMoves

LEMMA ElsewhereKeepsCheck ==
  ASSUME CheckInv, Elsewhere
  PROVE  /\ CheckInv'
         /\ balances \in Holdings => balances' \in Holdings
<1>1. UNCHANGED checker
  BY DEF Elsewhere, GetBalances, UpdateBalances, GetLatestPrices, UpdateExchangeRates,
     FetchFails, FireChain, ReduceBalance, MarketMoves
<1>2. \/ disturbed'
      \/ UNCHANGED <<balances, exchange_rates, disturbed>>
  BY DEF Elsewhere, GetBalances, UpdateBalances, GetLatestPrices, UpdateExchangeRates,
     FetchFails, FireChain, ReduceBalance, MarketMoves, registry
<1>3. UNCHANGED <<pc, unread, coin, amount, total, initial_balance>>
  BY <1>1 DEF checker, locals
<1>4. MarketTyped'
  <2>1. CASE MarketMoves
    <3>1. moves' \in Nat
      BY <2>1 DEF MarketMoves, CheckInv, TypeInv, MarketTyped
    <3>2. quote' \in Quotes
      BY <2>1 DEF MarketMoves, CheckInv, TypeInv, MarketTyped
    <3>3. account' \in Holdings
      <4>1. CASE UNCHANGED account
        BY <4>1 DEF CheckInv, TypeInv, MarketTyped
      <4>2. CASE \E c, d \in Coins :
                   c # d /\ account' = [account EXCEPT ![c] = @ - 1, ![d] = @ + 1]
        BY <4>2 DEF CheckInv, TypeInv, MarketTyped, Holdings
      <4> QED
        BY <2>1, <4>1, <4>2 DEF MarketMoves
    <3> QED
      BY <3>1, <3>2, <3>3 DEF MarketTyped
  <2>2. CASE UNCHANGED market
    BY <2>2 DEF CheckInv, TypeInv, MarketTyped, market
  <2> QED
    BY <2>1, <2>2 DEF Elsewhere, GetBalances, UpdateBalances, GetLatestPrices,
       UpdateExchangeRates, FetchFails, FireChain, ReduceBalance
<1>5. /\ RegistryTyped' /\ UpdaterTyped' /\ BaseInv'
      /\ balances \in Holdings => balances' \in Holdings
  <2>1. CASE GetBalances
    BY <2>1 DEF GetBalances, registry, CheckInv, TypeInv, MarketTyped, RegistryTyped,
       UpdaterTyped, BaseInv
  <2>2. CASE UpdateBalances
    BY <2>2 DEF UpdateBalances, CheckInv, TypeInv, RegistryTyped, UpdaterTyped, BaseInv
  <2>3. CASE GetLatestPrices
    BY <2>3 DEF GetLatestPrices, registry, CheckInv, TypeInv, MarketTyped, RegistryTyped,
       UpdaterTyped, BaseInv
  <2>4. CASE UpdateExchangeRates
    BY <2>4 DEF UpdateExchangeRates, CheckInv, TypeInv, RegistryTyped, UpdaterTyped, BaseInv
  <2>5. CASE FetchFails
    BY <2>5 DEF FetchFails, registry, CheckInv, TypeInv, RegistryTyped, UpdaterTyped, BaseInv
  <2>6. CASE ReduceBalance
    <3>1. balances \in Holdings /\ reserved'
      BY <2>6 DEF ReduceBalance, CheckInv, TypeInv, RegistryTyped
    <3>4. unreserved' \subseteq Coins
      BY <2>6 DEF ReduceBalance, CheckInv, TypeInv, RegistryTyped
    <3>2. balances' \in Holdings
      <4>1. PICK c \in Coins : balances' = [balances EXCEPT ![c] = @ - 1]
        BY <2>6 DEF ReduceBalance, CheckInv, TypeInv, RegistryTyped
      <4> QED
        BY <3>1, <4>1 DEF Holdings
    <3>3. UNCHANGED <<exchange_rates, updater, fetched>>
      BY <2>6 DEF ReduceBalance
    <3> QED
      BY <3>1, <3>2, <3>3, <3>4 DEF CheckInv, TypeInv, RegistryTyped, UpdaterTyped, BaseInv
  <2>8. CASE FireChain
    <3>1. unreserved' \subseteq Coins /\ balances \in Holdings
      BY <2>8, CheckerAssumption DEF FireChain, CheckInv, TypeInv, RegistryTyped
    <3> QED
      BY <2>8, <3>1 DEF FireChain, registry, CheckInv, TypeInv, RegistryTyped, UpdaterTyped,
         BaseInv
  <2>7. CASE MarketMoves
    BY <2>7 DEF MarketMoves, registry, CheckInv, TypeInv, RegistryTyped, UpdaterTyped, BaseInv
  <2> QED
    BY <2>1, <2>2, <2>3, <2>4, <2>5, <2>6, <2>7, <2>8 DEF Elsewhere
<1>6. TypeInv'
  BY <1>3, <1>4, <1>5 DEF CheckInv, TypeInv, CheckerTyped
<1> QED
  BY <1>1, <1>2, <1>5, <1>6, OthersKeepCheck

\* One step of the stop loss and what is around it.
LEMMA NextKeepsCheck ==
  ASSUME CheckInv, [Next]_vars
  PROVE  CheckInv'
<1>1. CASE Next
  BY <1>1, StartKeepsCheck, ReadBalanceKeepsCheck, ReadRateKeepsCheck, DecideKeepsCheck,
     ElsewhereKeepsCheck DEF Next, Checker, Elsewhere
<1>2. CASE UNCHANGED vars
  BY <1>2 DEF vars, registry, checker, locals, market, CheckInv, TypeInv, MarketTyped,
     RegistryTyped, UpdaterTyped, CheckerTyped, SumInv, BaseInv, Summed, CachedWorth
<1> QED
  BY <1>1, <1>2

\* Past the summing, the right total is compared with the right threshold.
LEMMA DecisionIsRight ==
  ASSUME CheckInv, Decide, initial_balance # -1,
         ~disturbed, ~reserved, exchange_rates # Unset
  PROVE  stop_trading' <=> IsLoss(Worth(base, exchange_rates), initial_balance)
<1>1. /\ pc = "decide" /\ unread = {} /\ base = balances
      /\ total \in Int /\ initial_balance \in Int
  BY DEF Decide, CheckInv, TypeInv, CheckerTyped, SumInv, BaseInv
<1>2. total = SumOf(CachedWorth, Coins)
  <2>1. Summed = Coins
    BY <1>1 DEF Summed
  <2> QED
    BY <1>1, <2>1 DEF CheckInv, SumInv
<1>3. total = Worth(base, exchange_rates)
  BY <1>1, <1>2, WorthIsSum DEF CachedWorth
<1>4. stop_trading' = (total * LossDen <= initial_balance * (LossDen - LossNum))
  BY DEF Decide, Breached
<1>5. LossDen \in Int /\ LossNum \in Int
  BY CheckerAssumption
<1>6. (initial_balance - total) * LossDen >= initial_balance * LossNum
        <=> total * LossDen <= initial_balance * (LossDen - LossNum)
  <2>1. /\ (initial_balance - total) * LossDen = initial_balance * LossDen - total * LossDen
        /\ initial_balance * (LossDen - LossNum)
             = initial_balance * LossDen - initial_balance * LossNum
    BY <1>1, <1>5
  <2>2. /\ initial_balance * LossDen \in Int /\ total * LossDen \in Int
        /\ initial_balance * LossNum \in Int
    BY <1>1, <1>5
  <2> QED
    BY <2>1, <2>2
<1> QED
  BY <1>3, <1>4, <1>6 DEF IsLoss

\* A decision is a step of Decide.
LEMMA OnlyDecideDecides ==
  ASSUME CheckInv, [Next]_vars, pc = "decide", pc' = "sleep"
  PROVE  Decide
<1>1. ~UNCHANGED checker
  BY DEF checker
<1>2. CASE Next
  BY <1>1, <1>2 DEF Next, Checker, Start, ReadBalance, ReadRate, GetBalances, UpdateBalances,
     GetLatestPrices, UpdateExchangeRates, FetchFails, FireChain, ReduceBalance, MarketMoves
<1>3. CASE UNCHANGED vars
  BY <1>1, <1>3 DEF vars
<1> QED
  BY <1>2, <1>3

\* A decision of the stop loss on a cache that held still while it was summed, with
\* nothing reserved in it, is the right one (balances_checker.py:30-62).
THEOREM DecisionsAreRight == Spec => UndisturbedDecisionIsRight
<1>1. CheckInv /\ [Next]_vars
        => [pc = "decide" /\ pc' = "sleep" /\ initial_balance # -1
              /\ ~disturbed /\ ~reserved /\ exchange_rates # Unset
            => (stop_trading' <=> IsLoss(Worth(base, exchange_rates), initial_balance))]_vars
  BY OnlyDecideDecides, DecisionIsRight
<1>2. CheckInv /\ [Next]_vars => CheckInv'
  BY NextKeepsCheck
<1> QED
  BY InitCheck, <1>1, <1>2, PTL DEF Spec, UndisturbedDecisionIsRight

-----------------------------------------------------------------------------
(* The rebalancer. *)

InRound == rpc \in {"balance", "rate", "decide", "first order", "second order"}
Ordering == rpc \in {"first order", "second order"}

RoundTyped ==
  /\ rpc \in {"idle", "start"} \/ InRound
  /\ unvalued \subseteq Coins /\ values \in [Coins -> Int]
  /\ rpc = "balance" => unvalued # {}
  /\ rpc = "rate" => rcoin \in Coins \ unvalued /\ held \in Int
  /\ rpc = "decide" \/ Ordering => unvalued = {}
  /\ Ordering => donor \in Coins /\ second \in Coins /\ recipient \in Coins
  /\ InRound => balances \in Holdings

\* While the picture is accurate the values taken are those of the account.
Valued == IF rpc = "rate" THEN (Coins \ unvalued) \ {rcoin} ELSE Coins \ unvalued
PictureInv ==
  accurate /\ InRound =>
    /\ balances = account /\ exchange_rates = quote
    /\ rpc = "rate" => held = account[rcoin]
    /\ \A c \in Valued : values[c] = account[c] * quote[c]

RoundInv == CheckInv /\ RoundTyped /\ PictureInv

\* A registry that is not empty holds balances of some coin.
LEMMA SomeCoin ==
  ASSUME balances \in Holdings, balances # Unset
  PROVE  Coins # {}
<1>1. SUFFICES ASSUME Coins = {} PROVE balances = Unset
  OBVIOUS
<1>2. balances = [c \in {} |-> balances[c]]
  BY <1>1 DEF Holdings
<1>3. << >> = [c \in {} |-> balances[c]]
  <2>1. << >> \in [{} -> Int]
    <3>1. << >> \in Seq(Int) /\ Len(<< >>) = 0
      OBVIOUS
    <3>2. << >> \in [1..0 -> Int]
      BY <3>1
    <3>3. 1..0 = {}
      OBVIOUS
    <3> QED
      BY <3>2, <3>3
  <2> QED
    BY <2>1
<1> QED
  BY <1>2, <1>3 DEF Unset

LEMMA CoinsCounted ==
  ASSUME Coins # {}
  PROVE  N \in Nat \ {0}
<1>1. IsFiniteSet(Coins)
  BY CheckerAssumption
<1>2. N \in Nat
  BY <1>1, FS_CardinalityType DEF N
<1>3. N # 0
  BY <1>1, FS_EmptySet DEF N
<1> QED
  BY <1>2, <1>3

\* Back to the start of the loop, with nothing in hand.
LEMMA BackToIdle ==
  ASSUME CheckInv', rpc' = "idle", Goto("idle")
  PROVE  RoundInv'
<1>1. unvalued' = {} /\ values' = NoValues
  BY DEF Goto
<1>2. RoundTyped'
  BY <1>1 DEF RoundTyped, InRound, Ordering, NoValues
<1>3. PictureInv'
  BY DEF PictureInv, InRound
<1> QED
  BY <1>2, <1>3 DEF RoundInv

LEMMA InitRound == RInit => RoundInv
<1> SUFFICES ASSUME RInit PROVE RoundInv
  OBVIOUS
<1>1. rpc = "idle" /\ unvalued = {} /\ values = NoValues
  BY DEF RInit
<1>2. CheckInv
  BY InitCheck DEF RInit
<1>3. RoundTyped
  BY <1>1 DEF RoundTyped, InRound, Ordering, NoValues
<1> QED
  BY <1>1, <1>2, <1>3 DEF RoundInv, PictureInv, InRound

LEMMA CheckKeepsRound ==
  ASSUME RoundInv, Check
  PROVE  RoundInv'
<1>1. [Next]_vars
  BY DEF Check, Next, Checker
<1>2. rpc' \in {"idle", "start"} /\ unvalued' = unvalued /\ values' = values
  BY DEF Check, rlocals
<1>3. CheckInv'
  BY <1>1, NextKeepsCheck DEF RoundInv
<1> QED
  BY <1>2, <1>3 DEF RoundInv, RoundTyped, PictureInv, InRound, Ordering

LEMMA BeginKeepsRound ==
  ASSUME RoundInv, Begin, CheckInv'
  PROVE  RoundInv'
<1>1. /\ UNCHANGED <<balances, account, exchange_rates, quote, values>>
      /\ rpc' = IF balances = Unset THEN "idle" ELSE "balance"
      /\ unvalued' = IF balances = Unset THEN {} ELSE Coins
      /\ accurate' = (balances = account /\ exchange_rates = quote)
  BY DEF Begin, vars, registry, market
<1>2. values \in [Coins -> Int]
  BY DEF RoundInv, RoundTyped
<1>3. CASE balances = Unset
  BY <1>1, <1>2, <1>3 DEF RoundInv, RoundTyped, PictureInv, InRound, Ordering
<1>4. CASE balances # Unset
  <2>1. balances \in Holdings
    BY <1>4 DEF RoundInv, CheckInv, TypeInv, RegistryTyped
  <2>2. Coins # {}
    BY <1>4, <2>1, SomeCoin
  <2>3. RoundTyped'
    BY <1>1, <1>2, <1>4, <2>1, <2>2 DEF RoundTyped, InRound, Ordering
  <2>4. PictureInv'
    BY <1>1, <1>4 DEF PictureInv, InRound, Valued
  <2> QED
    BY <2>3, <2>4 DEF RoundInv
<1> QED
  BY <1>3, <1>4

LEMMA ValueBalanceKeepsRound ==
  ASSUME RoundInv, ValueBalance, CheckInv'
  PROVE  RoundInv'
<1>1. /\ UNCHANGED <<balances, account, exchange_rates, quote, values, accurate>>
      /\ rpc = "balance" /\ rpc' = "rate"
      /\ rcoin' = First(unvalued) /\ unvalued' = unvalued \ {rcoin'} /\ held' = balances[rcoin']
  BY DEF ValueBalance, vars, registry, market
<1>2. /\ values \in [Coins -> Int] /\ unvalued \subseteq Coins /\ unvalued # {}
      /\ balances \in Holdings
  BY <1>1 DEF RoundInv, RoundTyped, InRound
<1>3. rcoin' \in unvalued
  BY <1>1, <1>2 DEF First
<1>4. held' \in Int
  BY <1>1, <1>2, <1>3 DEF Holdings
<1>5. RoundTyped'
  BY <1>1, <1>2, <1>3, <1>4 DEF RoundTyped, InRound, Ordering
<1>6. Valued' = Valued
  BY <1>1, <1>3 DEF Valued
<1>7. PictureInv'
  BY <1>1, <1>6 DEF RoundInv, PictureInv, InRound
<1> QED
  BY <1>5, <1>7 DEF RoundInv

LEMMA ValueRateKeepsRound ==
  ASSUME RoundInv, ValueRate, CheckInv'
  PROVE  RoundInv'
<1>1. /\ UNCHANGED <<balances, account, exchange_rates, quote, accurate, unvalued>>
      /\ rpc = "rate" /\ rpc' = IF unvalued = {} THEN "decide" ELSE "balance"
      /\ values' = [values EXCEPT ![rcoin] = Usd(rcoin, held)]
  BY DEF ValueRate, vars, registry, market
<1>2. /\ values \in [Coins -> Int] /\ unvalued \subseteq Coins /\ rcoin \in Coins \ unvalued
      /\ balances \in Holdings /\ held \in Int /\ RegistryTyped
  BY <1>1 DEF RoundInv, RoundTyped, InRound, CheckInv, TypeInv
<1>3. Usd(rcoin, held) \in Int
  BY <1>2, UsdByTheRate
<1>4. RoundTyped'
  BY <1>1, <1>2, <1>3 DEF RoundTyped, InRound, Ordering
<1>5. ASSUME accurate PROVE \A c \in Valued' : values'[c] = account[c] * quote[c]
  <2>1. /\ balances = account /\ exchange_rates = quote /\ held = account[rcoin]
        /\ \A c \in Valued : values[c] = account[c] * quote[c]
    BY <1>1, <1>5 DEF RoundInv, PictureInv, InRound
  <2>2. Usd(rcoin, held) = account[rcoin] * quote[rcoin]
    <3>1. exchange_rates # Unset
      <4>1. quote \in [Coins -> Nat \ {0}]
        BY CheckerAssumption DEF RoundInv, CheckInv, TypeInv, MarketTyped
      <4> QED
        BY <1>2, <2>1, <4>1 DEF Unset
    <3> QED
      BY <1>2, <2>1, <3>1, UsdByTheRate
  <2>3. values'[rcoin] = account[rcoin] * quote[rcoin]
    BY <1>1, <1>2, <2>2
  <2>4. ASSUME NEW c \in Valued', c # rcoin PROVE values'[c] = account[c] * quote[c]
    <3>1. c \in Valued /\ c \in Coins
      BY <1>1, <2>4 DEF Valued
    <3> QED
      BY <1>1, <1>2, <2>1, <2>4, <3>1
  <2> QED
    BY <2>3, <2>4
<1>6. PictureInv'
  BY <1>1, <1>5 DEF RoundInv, PictureInv, InRound
<1> QED
  BY <1>4, <1>6 DEF RoundInv

LEMMA ChooseKeepsRound ==
  ASSUME RoundInv, Choose, CheckInv'
  PROVE  RoundInv'
<1>1. /\ UNCHANGED <<balances, account, exchange_rates, quote, accurate>>
      /\ rpc = "decide"
  BY DEF Choose, vars, registry, market
<1>2. PICK most \in Largest(values), least \in Smallest(values) :
         IF Disbalanced(values[most], values[least], Total(values))
         THEN /\ rpc' = "first order"
              /\ donor' = most /\ recipient' = least
              /\ second' \in Largest([values EXCEPT ![most] = -1])
              /\ UNCHANGED <<unvalued, rcoin, held, values>>
         ELSE Goto("idle")
  BY DEF Choose
<1>3. CASE Goto("idle")
  BY <1>3, BackToIdle DEF Goto
<1>4. CASE /\ rpc' = "first order"
           /\ donor' = most /\ recipient' = least
           /\ second' \in Largest([values EXCEPT ![most] = -1])
           /\ UNCHANGED <<unvalued, rcoin, held, values>>
  <2>1. donor' \in Coins /\ recipient' \in Coins /\ second' \in Coins
    BY <1>4 DEF Largest, Smallest
  <2>2. /\ values \in [Coins -> Int] /\ unvalued = {} /\ balances \in Holdings
    BY <1>1 DEF RoundInv, RoundTyped, InRound
  <2>3. RoundTyped'
    BY <1>1, <1>4, <2>1, <2>2 DEF RoundTyped, InRound, Ordering
  <2>4. Valued' = Valued
    BY <1>1, <1>4 DEF Valued
  <2>5. PictureInv'
    BY <1>1, <1>4, <2>4 DEF RoundInv, PictureInv, InRound
  <2> QED
    BY <2>3, <2>5 DEF RoundInv
<1> QED
  BY <1>2, <1>3, <1>4

-----------------------------------------------------------------------------
(* The order. *)

\* The gap to be filled is a number, and so is a quantity, which fills it to half a
\* unit (balances_rebalancer.py:81-92).
LEMMA GapNumber ==
  ASSUME RoundInv, Ordering
  PROVE  /\ Total(values) \in Int /\ values[recipient] \in Int /\ N \in Nat \ {0}
         /\ Gap = Total(values) - N * values[recipient] /\ Gap \in Int
<1>1. values \in [Coins -> Int] /\ recipient \in Coins
  BY DEF RoundInv, RoundTyped
<1>2. Total(values) \in Int
  BY <1>1, CheckerAssumption, TotalIsSum, SumTakesOut
<1>3. N \in Nat \ {0}
  BY <1>1, CoinsCounted
<1> QED
  BY <1>1, <1>2, <1>3 DEF Gap

LEMMA QuantityNearGap ==
  ASSUME RoundInv, Ordering, exchange_rates \in Quotes, NEW a \in Coins, NEW b \in Coins
  PROVE  /\ QuantityOn(a, b) \in Int
         /\ 2 * ((N * exchange_rates[a]) * QuantityOn(a, b))
               <= 2 * (Gap * exchange_rates[b]) + N * exchange_rates[a]
<1>1. exchange_rates[a] \in Nat \ {0} /\ exchange_rates[b] \in Nat
  BY Rated
<1>2. Gap \in Int /\ N \in Nat \ {0}
  BY GapNumber
<1>3. Gap * exchange_rates[b] \in Int /\ N * exchange_rates[a] \in Nat \ {0}
  BY <1>1, <1>2
<1> QED
  BY <1>3, RoundedNear DEF QuantityOn

\* An order is a BUY of the recipient or a SELL of the coin that gives.
LEMMA OrderShape ==
  ASSUME RoundInv, Ordering, NEW o \in Orders(From, recipient)
  PROVE  /\ From \in Coins /\ recipient \in Coins /\ From # recipient
         /\ exchange_rates \in Quotes
         /\ \/ /\ o.base = recipient /\ o.quote = From /\ o.buy
               /\ o.quantity = QuantityOn(recipient, From)
            \/ /\ o.base = From /\ o.quote = recipient /\ ~o.buy
               /\ o.quantity = QuantityOn(From, recipient)
<1>1. From \in Coins /\ recipient \in Coins
  BY DEF From, RoundInv, RoundTyped
<1>2. IsKnown(recipient, From) \/ IsKnown(From, recipient)
  BY DEF Orders
<1>3. From # recipient
  BY <1>2, RebalancerAssumption DEF IsKnown
<1>4. exchange_rates \in Quotes
  BY <1>2 DEF IsKnown, RoundInv, CheckInv, TypeInv, RegistryTyped
<1>5. \/ /\ o.base = recipient /\ o.quote = From /\ o.buy
         /\ o.quantity = QuantityOn(recipient, From)
      \/ /\ o.base = From /\ o.quote = recipient /\ ~o.buy
         /\ o.quantity = QuantityOn(From, recipient)
  BY DEF Orders
<1> QED
  BY <1>1, <1>3, <1>4, <1>5

\* What an order filled brings the recipient.
LEMMA FillBrings ==
  ASSUME RoundInv, Ordering, NEW o \in Orders(From, recipient), Fill(o)
  PROVE  /\ account' \in Holdings
         /\ account'[recipient] = account[recipient] + IF o.buy THEN o.quantity ELSE Proceeds(o)
         /\ o.quantity \in Int
         /\ ~o.buy => Proceeds(o) = (o.quantity * quote[From]) \div quote[recipient]
<1>1. /\ From \in Coins /\ recipient \in Coins /\ From # recipient
      /\ exchange_rates \in Quotes
  BY OrderShape
<1>2. /\ account \in [Coins -> Int]
      /\ quote[From] \in Nat \ {0} /\ quote[recipient] \in Nat \ {0}
  BY <1>1, Rated DEF RoundInv, CheckInv, TypeInv, MarketTyped, Holdings
<1>3. CASE /\ o.base = recipient /\ o.quote = From /\ o.buy
           /\ o.quantity = QuantityOn(recipient, From)
  <2>1. o.quantity \in Int
    BY <1>1, <1>3, QuantityNearGap
  <2>2. o.quantity * quote[recipient] \in Int
    BY <1>2, <2>1
  <2>3. Cost(o) \in Int
    BY <1>2, <1>3, <2>2 DEF Cost, InQuote
  <2>4. account' = [account EXCEPT ![recipient] = @ + o.quantity, ![From] = @ - Cost(o)]
    BY <1>3 DEF Fill
  <2> QED
    BY <1>1, <1>2, <1>3, <2>1, <2>3, <2>4 DEF Holdings
<1>4. CASE /\ o.base = From /\ o.quote = recipient /\ ~o.buy
           /\ o.quantity = QuantityOn(From, recipient)
  <2>1. o.quantity \in Int
    BY <1>1, <1>4, QuantityNearGap
  <2>2. o.quantity * quote[From] \in Int
    BY <1>2, <2>1
  <2>3. Proceeds(o) = (o.quantity * quote[From]) \div quote[recipient]
    BY <1>4 DEF Proceeds, InQuote
  <2>4. Proceeds(o) \in Int
    BY <1>2, <2>2, <2>3
  <2>5. account' = [account EXCEPT ![From] = @ - o.quantity, ![recipient] = @ + Proceeds(o)]
    BY <1>4 DEF Fill
  <2> QED
    BY <1>1, <1>2, <1>4, <2>1, <2>3, <2>4, <2>5 DEF Holdings
<1> QED
  BY <1>3, <1>4, OrderShape

\* An order filled, refused or failed.
LEMMA PutOrderKeepsRound ==
  ASSUME RoundInv, PutOrder
  PROVE  RoundInv'
<1>1. Ordering /\ UNCHANGED <<registry, checker, updater, fetched, quote, moves, unreserved,
                           disturbed>>
  BY DEF PutOrder, Ordering
<1>2. PICK o \in Orders(From, recipient) :
        \/ /\ Fill(o)
           /\ \/ Goto("idle")
              \/ Goto(Otherwise) /\ accurate' = FALSE
        \/ Goto(Otherwise) /\ UNCHANGED <<account, accurate>>
  BY DEF PutOrder
<1>3. account' \in Holdings
  BY <1>1, <1>2, FillBrings DEF RoundInv, CheckInv, TypeInv, MarketTyped
<1>4. CheckInv'
  BY <1>1, <1>3 DEF registry, checker, locals, RoundInv, CheckInv, TypeInv, MarketTyped,
     RegistryTyped, UpdaterTyped, CheckerTyped, SumInv, BaseInv, Summed, CachedWorth
<1>5. CASE Goto("idle")
  BY <1>4, <1>5, BackToIdle DEF Goto
<1>6. CASE Goto("second order") /\ (accurate' = FALSE \/ UNCHANGED <<account, accurate>>)
  <2>1. rpc' = "second order" /\ UNCHANGED rlocals
    BY <1>6 DEF Goto
  <2>2. UNCHANGED <<balances, exchange_rates, quote, unvalued, values, donor, second, recipient>>
    BY <1>1, <2>1 DEF registry, rlocals
  <2>3. /\ RoundTyped /\ unvalued = {} /\ balances \in Holdings
        /\ donor \in Coins /\ second \in Coins /\ recipient \in Coins
    BY <1>1 DEF RoundInv, RoundTyped, InRound, Ordering
  <2>4. RoundTyped'
    BY <2>1, <2>2, <2>3 DEF RoundTyped, InRound, Ordering
  <2>5. Valued' = Valued
    BY <1>1, <2>1, <2>2 DEF Valued, Ordering
  <2>6. PictureInv'
    BY <1>1, <1>6, <2>1, <2>2, <2>5 DEF RoundInv, PictureInv, InRound, Ordering
  <2> QED
    BY <1>4, <2>4, <2>6 DEF RoundInv
<1> QED
  BY <1>2, <1>5, <1>6 DEF Otherwise

LEMMA NoMarketKeepsRound ==
  ASSUME RoundInv, NoMarket, CheckInv'
  PROVE  RoundInv'
<1>1. Ordering /\ Goto(Otherwise) /\ UNCHANGED <<vars, accurate>>
  BY DEF NoMarket, Ordering
<1>2. UNCHANGED <<balances, exchange_rates, quote, account>>
  BY <1>1 DEF vars, registry, market
<1>5. CASE Goto("idle")
  BY <1>5, BackToIdle DEF Goto
<1>6. CASE Goto("second order")
  <2>1. rpc' = "second order" /\ UNCHANGED rlocals
    BY <1>6 DEF Goto
  <2>2. UNCHANGED <<unvalued, values, donor, second, recipient>>
    BY <2>1 DEF rlocals
  <2>3. /\ RoundTyped /\ unvalued = {} /\ balances \in Holdings
        /\ donor \in Coins /\ second \in Coins /\ recipient \in Coins
    BY <1>1 DEF RoundInv, RoundTyped, InRound, Ordering
  <2>4. RoundTyped'
    BY <1>2, <2>1, <2>2, <2>3 DEF RoundTyped, InRound, Ordering
  <2>5. Valued' = Valued
    BY <1>1, <2>1, <2>2 DEF Valued, Ordering
  <2>6. PictureInv'
    BY <1>1, <1>2, <2>1, <2>2, <2>5 DEF RoundInv, PictureInv, InRound, Ordering
  <2> QED
    BY <2>4, <2>6 DEF RoundInv
<1> QED
  BY <1>1, <1>5, <1>6 DEF Otherwise

LEMMA OthersKeepRound ==
  ASSUME RoundInv, Others
  PROVE  RoundInv'
<1>1. /\ Elsewhere /\ UNCHANGED rebalancer
      /\ accurate' => accurate /\ UNCHANGED <<balances, exchange_rates, account, quote>>
  BY DEF Others, Elsewhere
<1>2. UNCHANGED <<rpc, unvalued, rcoin, held, values, donor, second, recipient>>
  BY <1>1 DEF rebalancer, rlocals
<1>3. CheckInv' /\ (balances \in Holdings => balances' \in Holdings)
  BY <1>1, ElsewhereKeepsCheck DEF RoundInv
<1>4. RoundTyped'
  BY <1>2, <1>3 DEF RoundInv, RoundTyped, InRound, Ordering
<1>5. PictureInv'
  BY <1>1, <1>2 DEF RoundInv, PictureInv, InRound, Valued
<1> QED
  BY <1>3, <1>4, <1>5 DEF RoundInv

LEMMA NextKeepsRound ==
  ASSUME RoundInv, [RNext]_rvars
  PROVE  RoundInv'
<1>1. ASSUME UNCHANGED vars PROVE CheckInv'
  BY <1>1, NextKeepsCheck DEF RoundInv
<1>2. CASE Check
  BY <1>2, CheckKeepsRound
<1>3. CASE Begin
  BY <1>1, <1>3, BeginKeepsRound DEF Begin
<1>4. CASE ValueBalance
  BY <1>1, <1>4, ValueBalanceKeepsRound DEF ValueBalance
<1>5. CASE ValueRate
  BY <1>1, <1>5, ValueRateKeepsRound DEF ValueRate
<1>6. CASE Choose
  BY <1>1, <1>6, ChooseKeepsRound DEF Choose
<1>7. CASE PutOrder
  BY <1>7, PutOrderKeepsRound
<1>8. CASE NoMarket
  BY <1>1, <1>8, NoMarketKeepsRound DEF NoMarket
<1>9. CASE Others
  BY <1>9, OthersKeepRound
<1>10. CASE UNCHANGED rvars
  <2>1. UNCHANGED vars /\ UNCHANGED <<rpc, unvalued, rcoin, held, values, donor, second,
                                     recipient, accurate>>
    BY <1>10 DEF rvars, rebalancer, rlocals
  <2>2. UNCHANGED <<balances, exchange_rates, account, quote>>
    BY <2>1 DEF vars, registry, market
  <2> QED
    BY <1>1, <2>1, <2>2 DEF RoundInv, RoundTyped, PictureInv, InRound, Ordering, Valued
<1> QED
  BY <1>2, <1>3, <1>4, <1>5, <1>6, <1>7, <1>8, <1>9, <1>10 DEF RNext, Rebalancer

-----------------------------------------------------------------------------
\* Only the rebalancer's orders are filled while the market stands still.
LEMMA OnlyOrdersFill ==
  ASSUME RoundInv, [RNext]_rvars, Filled
  PROVE  Ordering /\ \E o \in Orders(From, recipient) : Fill(o)
<1>1. moves \in Nat
  BY DEF RoundInv, CheckInv, TypeInv, MarketTyped
<1>2. account' # account /\ moves' = moves
  BY DEF Filled
<1>3. ~UNCHANGED market
  BY <1>2 DEF market
<1>4. ~Next
  <2>1. ~MarketMoves
    BY <1>1, <1>2 DEF MarketMoves
  <2>2. ~Checker
    BY <1>3 DEF Checker, Start, ReadBalance, ReadRate, Decide
  <2> QED
    BY <1>3, <2>1, <2>2 DEF Next, GetBalances, UpdateBalances, GetLatestPrices,
       UpdateExchangeRates, FetchFails, FireChain, ReduceBalance
<1>5. ~UNCHANGED vars
  BY <1>3 DEF vars
<1>6. PutOrder
  BY <1>4, <1>5 DEF RNext, rvars, Check, Checker, Next, Rebalancer, Begin, ValueBalance,
     ValueRate, Choose, NoMarket, Others
<1> QED
  BY <1>2, <1>6 DEF PutOrder, Ordering

\* The order of an accurate round, on a market quoted in USD.
LEMMA FillStopsAtMean ==
  ASSUME RoundInv, Ordering, accurate, QuotedInUsd,
         NEW o \in Orders(From, recipient), Fill(o)
  PROVE  2 * N * account'[recipient] * quote[recipient]
           <= 2 * Worth(account, quote) + N * (quote[recipient] + quote[From])
<1> DEFINE r == quote[recipient]
           p == quote[From]
           a == account[recipient]
           q == o.quantity
           W == Worth(account, quote)
<1>1. /\ From \in Coins /\ recipient \in Coins
      /\ exchange_rates = quote /\ quote \in Quotes /\ account \in Holdings
      /\ \A c \in Coins : values[c] = account[c] * quote[c]
  <2>1. \A c \in Coins : c \in Valued
    BY DEF Valued, RoundInv, RoundTyped, Ordering
  <2> QED
    BY <2>1, OrderShape DEF RoundInv, PictureInv, InRound, Ordering, CheckInv, TypeInv, MarketTyped
<1>2. r \in Nat \ {0} /\ p \in Nat \ {0} /\ a \in Int
  BY <1>1, Rated DEF Holdings
<1>3. Total(values) = W
  BY <1>1, TotalIsSum, WorthIsSum, SumAgrees
<1>4. /\ W \in Int /\ N \in Nat \ {0}
      /\ Gap = W - N * (a * r) /\ Gap \in Int
  BY <1>1, <1>3, GapNumber
<1>5. /\ account'[recipient] = a + IF o.buy THEN q ELSE Proceeds(o)
      /\ q \in Int
      /\ ~o.buy => Proceeds(o) = (q * p) \div r
  BY FillBrings
<1>6. CASE o.buy
  <2>1. o.quote = From /\ q = QuantityOn(recipient, From)
    BY <1>6, OrderShape
  <2>2. p = 1
    BY <1>1, <2>1, Rated DEF QuotedInUsd
  <2>3. 2 * ((N * r) * q) <= 2 * (Gap * p) + N * r
    BY <1>1, <2>1, QuantityNearGap
  <2> HIDE DEF r, p, a, q, W
  <2>4. 2 * N * (a + q) * r = 2 * (N * (a * r)) + 2 * ((N * r) * q)
    BY <1>2, <1>4, <1>5
  <2>5. N * (a * r) \in Int /\ (N * r) * q \in Int /\ N * r \in Int /\ N * p \in Nat
    BY <1>2, <1>4, <1>5
  <2>6. 2 * N * (a + q) * r <= 2 * W + N * r
    BY <1>4, <2>2, <2>3, <2>4, <2>5
  <2>7. N * (r + p) = N * r + N * p
    BY <1>2, <1>4
  <2>8. 2 * N * (a + q) * r <= 2 * W + N * (r + p)
    BY <1>2, <1>4, <1>5, <2>4, <2>5, <2>6, <2>7
  <2> QED
    BY <1>5, <1>6, <2>8 DEF r, p, a, q, W
<1>7. CASE ~o.buy
  <2>1. o.quote = recipient /\ q = QuantityOn(From, recipient)
    BY <1>7, OrderShape
  <2>2. r = 1
    BY <1>1, <2>1, Rated DEF QuotedInUsd
  <2>3. 2 * ((N * p) * q) <= 2 * (Gap * r) + N * p
    BY <1>1, <2>1, QuantityNearGap
  <2> DEFINE gain == Proceeds(o)
  <2>4. gain = (q * p) \div r
    BY <1>5, <1>7
  <2> HIDE DEF r, p, a, q, W, gain
  <2>5. gain = q * p
    <3>1. q * p \in Int
      BY <1>2, <1>5
    <3> QED
      BY <2>2, <2>4, <3>1
  <2>6. 2 * N * (a + gain) * r = 2 * (N * (a * r)) + 2 * ((N * p) * q)
    <3>1. 2 * N * (a + gain) * 1 = 2 * (N * (a * 1)) + 2 * ((N * p) * q)
      BY <1>2, <1>4, <1>5, <2>5
    <3> QED
      BY <2>2, <3>1
  <2>7. N * (a * r) \in Int /\ (N * p) * q \in Int /\ N * p \in Int /\ N * r \in Nat
    BY <1>2, <1>4, <1>5
  <2>8. Gap * r = Gap
    BY <1>4, <2>2
  <2>9. 2 * N * (a + gain) * r <= 2 * W + N * p
    BY <1>4, <2>3, <2>6, <2>7, <2>8
  <2>10. N * (r + p) = N * r + N * p
    BY <1>2, <1>4
  <2>11. 2 * N * (a + gain) * r <= 2 * W + N * (r + p)
    BY <1>4, <2>6, <2>7, <2>9, <2>10
  <2> QED
    BY <1>5, <1>7, <2>11 DEF r, p, a, gain, W
<1> QED
  BY <1>6, <1>7

\* An order put on an accurate picture of the account brings the poorest coin up to
\* the mean and, but for the rounding to a lot, no further (balances_rebalancer.py:37-92).
THEOREM OrdersStopAtMean == RSpec => RecipientStopsAtMean
<1>1. RoundInv /\ [RNext]_rvars
        => [Filled /\ accurate /\ QuotedInUsd
            => 2 * N * account'[recipient] * quote[recipient]
                 <= 2 * Worth(account, quote) + N * (quote[recipient] + quote[From])]_rvars
  BY OnlyOrdersFill, FillStopsAtMean
<1>2. RoundInv /\ [RNext]_rvars => RoundInv'
  BY NextKeepsRound
<1> QED
  BY InitRound, <1>1, <1>2, PTL DEF RSpec, RecipientStopsAtMean

\* The decisions of the stop loss stay right with the rebalancer in its thread, whose
\* orders change the account behind the cache (balances_checker.py:30-62).
THEOREM DecisionsStayRight == RSpec => UndisturbedDecisionIsRight
<1>1. RoundInv /\ [RNext]_rvars
        => [pc = "decide" /\ pc' = "sleep" /\ initial_balance # -1
              /\ ~disturbed /\ ~reserved /\ exchange_rates # Unset
            => (stop_trading' <=> IsLoss(Worth(base, exchange_rates), initial_balance))]_vars
  <2> SUFFICES ASSUME RoundInv, [RNext]_rvars, pc = "decide", pc' = "sleep",
                      initial_balance # -1, ~disturbed, ~reserved, exchange_rates # Unset
               PROVE  stop_trading' <=> IsLoss(Worth(base, exchange_rates), initial_balance)
    OBVIOUS
  <2>1. ~UNCHANGED checker
    BY DEF checker
  <2>2. ~UNCHANGED vars
    BY <2>1 DEF vars
  <2>3. [Next]_vars
    BY <2>1, <2>2 DEF RNext, rvars, Check, Checker, Next, Rebalancer, Begin, ValueBalance,
       ValueRate, Choose, PutOrder, NoMarket, Others
  <2> QED
    BY <2>3, OnlyDecideDecides, DecisionIsRight DEF RoundInv
<1>2. RoundInv /\ [RNext]_rvars => RoundInv'
  BY NextKeepsRound
<1> QED
  BY InitRound, <1>1, <1>2, PTL DEF RSpec, UndisturbedDecisionIsRight
=============================================================================
