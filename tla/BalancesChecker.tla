-------------------------- MODULE BalancesChecker --------------------------
(***************************************************************************)
(* The stop loss (exchange/binance/balances_checker.py): a thread that     *)
(* sums the cached balances in USD, coin by coin, and raises or clears the *)
(* stop flag, while the updater thread (__main__.py) swaps the cached      *)
(* balances and exchange rates, TradeManager fires chains one after        *)
(* another and takes what they will spend out of the cache, and the market *)
(* moves.                                                                  *)
(***************************************************************************)
EXTENDS Integers, FiniteSets

CONSTANTS Coins,              \* coins_of_interest
          UsdCoins,           \* those whose name contains "USD"
          LossNum, LossDen,   \* BALANCE_FALL_TO_STOP_TRADING_RATIO (1 and 5)
          Deposit,            \* the account at the start
          Quotes,             \* what the exchange rates may be: functions on the coins
          Opening,            \* ... and are at the start
          Traded,             \* the coins that chains are fired for
          MaxMoves            \* bound of the model

ASSUME CheckerAssumption ==
  /\ UsdCoins \subseteq Coins /\ Traded \subseteq Coins /\ IsFiniteSet(Coins)
  /\ LossDen \in Nat \ {0} /\ LossNum \in 0..LossDen
  /\ Deposit \in [Coins -> Nat]
  /\ Opening \in Quotes
  /\ \A q \in Quotes : q \in [Coins -> Nat \ {0}] /\ \A c \in UsdCoins : q[c] = 1
  /\ MaxMoves \in Nat

VARIABLES
  balances, exchange_rates,      \* BalancesRegistry: functions on Coins, or Unset
  stop_trading,                  \* Bus
  initial_balance,               \* -1 until it is set
  pc, unread, coin, amount, total,   \* the checker thread: where it is, its locals
  updater, fetched,              \* the updater thread, and what it has fetched
  account, quote,                \* the exchange: free + locked, and the prices
  unreserved,                    \* TradeManager: coins the chain in hand has yet to reserve
  moves,
  base,                          \* history: the balances of the last refresh
  reserved,                      \* history: something was taken out of them since
  disturbed,                     \* history: the cache changed while it was summed
  partial                        \* history: the initial balance lacks a coin's rate

registry == <<balances, exchange_rates, base, reserved>>
locals == <<unread, coin, amount, total>>
checker == <<pc, locals, initial_balance, stop_trading, partial>>
market == <<account, quote, moves>>
vars == <<registry, checker, updater, fetched, market, unreserved, disturbed>>

Unset == << >>
Nobody == CHOOSE c \in Coins : TRUE

Init ==
  /\ balances = Unset /\ exchange_rates = Unset /\ base = Unset /\ reserved = FALSE
  /\ stop_trading = FALSE /\ initial_balance = -1 /\ partial = FALSE
  /\ pc = "sleep" /\ unread = {} /\ coin = Nobody /\ amount = 0 /\ total = 0
  /\ updater = "get balances" /\ fetched = Unset
  /\ account = Deposit /\ quote = Opening
  /\ moves = 0 /\ unreserved = {}
  /\ disturbed = FALSE

-----------------------------------------------------------------------------
(* The checker thread: check_balance *)

Start ==
  /\ pc = "sleep" /\ balances # Unset
  /\ pc' = "balance" /\ unread' = Coins /\ total' = 0
  /\ disturbed' = FALSE
  /\ UNCHANGED <<registry, coin, amount, initial_balance, stop_trading, partial,
                 updater, fetched, market, unreserved>>

\* get_balance_usd of one coin: the balance ...
ReadBalance ==
  /\ pc = "balance"
  /\ coin' \in unread /\ unread' = unread \ {coin'}
  /\ amount' = balances[coin']
  /\ pc' = "rate"
  /\ UNCHANGED <<registry, total, initial_balance, stop_trading, partial,
                 updater, fetched, market, unreserved, disturbed>>

\* Mutant of Usd: a USD coin looked up like any other; as no market quotes it in
\* itself it has no rate, and so adds nothing.
UsdByRate(c, value) ==
  IF c \in UsdCoins \/ exchange_rates = Unset THEN 0 ELSE value * exchange_rates[c]

\* ... which for a USD coin is its worth; for another the cached rate tells, and
\* without one the answer is None, which adds nothing to the total.
Usd(c, value) ==
  IF c \in UsdCoins THEN value
  ELSE IF exchange_rates = Unset THEN 0 ELSE value * exchange_rates[c]

ReadRate ==
  /\ pc = "rate"
  /\ total' = total + Usd(coin, amount)
  /\ partial' = (partial \/ (initial_balance = -1 /\ exchange_rates = Unset /\ coin \notin UsdCoins))
  /\ pc' = IF unread = {} THEN "decide" ELSE "balance"
  /\ UNCHANGED <<registry, unread, coin, amount, initial_balance, stop_trading,
                 updater, fetched, market, unreserved, disturbed>>

\* Mutant of Breached: the threshold itself not a breach.
BreachedBelow(worth, initial) == worth * LossDen < initial * (LossDen - LossNum)

\* total_balance_usd <= stop_loss_balance
Breached(worth, initial) == worth * LossDen <= initial * (LossDen - LossNum)

Return == pc' = "sleep" /\ unread' = {} /\ coin' = Nobody /\ amount' = 0 /\ total' = 0

\* Mutant of Decide: trading stopped but never resumed.
DecideLatching ==
  /\ pc = "decide"
  /\ IF initial_balance = -1
     THEN initial_balance' = total /\ UNCHANGED stop_trading
     ELSE /\ stop_trading' = (stop_trading \/ Breached(total, initial_balance))
          /\ UNCHANGED initial_balance
  /\ Return
  /\ UNCHANGED <<registry, partial, updater, fetched, market, unreserved, disturbed>>

\* The first total becomes the initial balance; every later one stops trading or
\* resumes it.
Decide ==
  /\ pc = "decide"
  /\ IF initial_balance = -1
     THEN initial_balance' = total /\ UNCHANGED stop_trading
     ELSE stop_trading' = Breached(total, initial_balance) /\ UNCHANGED initial_balance
  /\ Return
  /\ UNCHANGED <<registry, partial, updater, fetched, market, unreserved, disturbed>>

Checker == Start \/ ReadBalance \/ ReadRate \/ Decide

-----------------------------------------------------------------------------
(* The updater thread: balances, then rates, each fetched and then swapped in; *)
(* a fetch may fail, and the other goes on (@safely).                          *)

GetBalances ==
  /\ updater = "get balances"
  /\ fetched' = account /\ updater' = "update balances"
  /\ UNCHANGED <<registry, checker, market, unreserved, disturbed>>

UpdateBalances ==
  /\ updater = "update balances"
  /\ balances' = fetched /\ base' = fetched /\ reserved' = FALSE
  /\ fetched' = Unset /\ updater' = "get rates"
  /\ disturbed' = TRUE
  /\ UNCHANGED <<exchange_rates, checker, market, unreserved>>

GetLatestPrices ==
  /\ updater = "get rates"
  /\ fetched' = quote /\ updater' = "update rates"
  /\ UNCHANGED <<registry, checker, market, unreserved, disturbed>>

UpdateExchangeRates ==
  /\ updater = "update rates"
  /\ exchange_rates' = fetched
  /\ fetched' = Unset /\ updater' = "get balances"
  /\ disturbed' = TRUE
  /\ UNCHANGED <<balances, base, reserved, checker, market, unreserved>>

FetchFails ==
  /\ \/ updater = "get balances" /\ updater' = "get rates"
     \/ updater = "get rates" /\ updater' = "get balances"
  /\ UNCHANGED <<registry, checker, fetched, market, unreserved, disturbed>>

-----------------------------------------------------------------------------
(* The other threads and the exchange *)

\* TradeManager fires a chain while trading goes on and the cache shows something of
\* every coin the chain spends; a flag raised later does not call it back.
FireChain ==
  /\ unreserved = {} /\ ~stop_trading /\ balances # Unset
  /\ unreserved' \in SUBSET Traded \ {{}}
  /\ \A c \in unreserved' : balances[c] > 0
  /\ UNCHANGED <<registry, checker, updater, fetched, market, disturbed>>

\* reduce_balance of one leg: what its order will spend is taken out of the cache,
\* below zero too if a refresh came since the chain was fired.
ReduceBalance ==
  /\ \E c \in unreserved :
       /\ unreserved' = unreserved \ {c}
       /\ balances' = [balances EXCEPT ![c] = @ - 1]
  /\ reserved' = TRUE /\ disturbed' = TRUE
  /\ UNCHANGED <<exchange_rates, base, checker, updater, fetched, market>>

\* Prices move, or an order is filled, at whatever price.
MarketMoves ==
  /\ moves < MaxMoves /\ moves' = moves + 1
  /\ \/ quote' \in Quotes \ {quote} /\ UNCHANGED account
     \/ /\ \E c, d \in Coins :
             /\ c # d /\ account[c] > 0
             /\ account' = [account EXCEPT ![c] = @ - 1, ![d] = @ + 1]
        /\ UNCHANGED quote
  /\ UNCHANGED <<registry, checker, updater, fetched, unreserved, disturbed>>

Next ==
  \/ Checker
  \/ GetBalances \/ UpdateBalances \/ GetLatestPrices \/ UpdateExchangeRates \/ FetchFails
  \/ FireChain \/ ReduceBalance \/ MarketMoves

Spec == Init /\ [][Next]_vars

\* Both threads loop on a timer for ever, and fetching does not fail for ever.
FairSpec ==
  /\ Spec
  /\ WF_vars(Checker)
  /\ WF_vars(UpdateBalances \/ UpdateExchangeRates)
  /\ SF_vars(GetBalances) /\ SF_vars(GetLatestPrices)

-----------------------------------------------------------------------------
Total(f) ==
  LET sum[S \in SUBSET Coins] ==
        IF S = {} THEN 0 ELSE LET c == CHOOSE x \in S : TRUE IN f[c] + sum[S \ {c}]
  IN sum[Coins]

Worth(holdings, rates) == Total([c \in Coins |-> holdings[c] * rates[c]])

\* The loss that must stop trading, of a worth once had: by the ratio, or more.
IsLoss(worth, initial) == (initial - worth) * LossDen >= initial * LossNum

\* A decision taken on a cache that held still while it was summed, with nothing
\* reserved in it, is the right one for the account it was copied from.
UndisturbedDecisionIsRight ==
  [][pc = "decide" /\ pc' = "sleep" /\ initial_balance # -1
       /\ ~disturbed /\ ~reserved /\ exchange_rates # Unset
     => (stop_trading' <=> IsLoss(Worth(base, exchange_rates), initial_balance))]_vars

Lost == initial_balance # -1 /\ IsLoss(Worth(account, quote), initial_balance)
Whole == initial_balance # -1 /\ ~IsLoss(Worth(account, quote), initial_balance)

\* A loss that lasts stops trading for good, once the initial balance was taken
\* with all rates known, whatever refreshes and reservations come between.
LastingLossStops ==
  [](~partial) /\ <>[]Lost
    => <>[]stop_trading

\* Once a loss is made good for good the flag never stays up: whatever reservation
\* or half-refreshed cache raised it, trading is resumed.  (It need not stay down:
\* the next reservations may raise it again.)
RecoveryResumes ==
  [](~partial) /\ <>[]Whole
    => []<>(~stop_trading)
=============================================================================
