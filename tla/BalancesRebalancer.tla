------------------------- MODULE BalancesRebalancer -------------------------
(***************************************************************************)
(* The rebalancer (exchange/binance/balances_rebalancer.py) in the thread  *)
(* it shares with the stop loss: after each check_balance it values the    *)
(* cached balances coin by coin and, when the richest and the poorest coin *)
(* are too far apart, buys the poorest for the richest, or for the second  *)
(* richest, with one market order.  Composed with BalancesChecker: the     *)
(* updater swaps the cache meanwhile, orders reserve, the market moves.    *)
(***************************************************************************)
EXTENDS BalancesChecker, Rounding

CONSTANTS Markets,          \* pairs <<base, quote>> the exchange has a price for
          DevNum, DevDen,   \* mean_deviation_to_rebalance (3 and 4)
          MaxFailures       \* bound: replies lost, orders refused without a reason,
                            \* rounds started before the last order could be seen

ASSUME RebalancerAssumption ==
  /\ Markets \subseteq Coins \X Coins
  /\ \A m \in Markets : m[1] # m[2] /\ <<m[2], m[1]>> \notin Markets
  /\ DevNum \in Nat /\ DevDen \in Nat \ {0}
  /\ MaxFailures \in Nat

VARIABLES
  rpc, unvalued, rcoin, held,    \* check_and_fix_disbalance: where it is, its locals
  values,                        \* coin |-> value_usd, of the coins valued so far
  donor, second, recipient,
  seen,                          \* what the cache shows of the last order filled
  failures,
  accurate,                      \* history: the cache is the account, at today's
                                 \* prices, and was since the round began
  crossed                        \* history: an order was put for a coin other than USD

rlocals == <<unvalued, rcoin, held, values, donor, second, recipient>>
First(coins) == CHOOSE c \in coins : TRUE      \* the set is always read in one order
NoValues == [c \in Coins |-> 0]
rebalancer == <<rpc, rlocals, failures, crossed>>
rvars == <<vars, rebalancer, seen, accurate>>

N == Cardinality(Coins)

RInit ==
  /\ Init
  /\ rpc = "idle" /\ unvalued = {} /\ rcoin = Nobody /\ held = 0 /\ values = NoValues
  /\ donor = Nobody /\ second = Nobody /\ recipient = Nobody
  /\ seen = "yes" /\ failures = 0 /\ accurate = FALSE /\ crossed = FALSE

Works == UNCHANGED failures
Fails == failures < MaxFailures /\ failures' = failures + 1

-----------------------------------------------------------------------------
(* The loop of _check_balances: check_balance, then the rebalancer *)

\* A round begins ten seconds after the last; the updater runs every five, so the
\* cache shows by then what the last round ordered, but for a failure.
Wait == IF seen = "yes" THEN Works ELSE Fails

Check ==
  /\ rpc = "idle"
  /\ \/ Start /\ Wait /\ UNCHANGED rpc
     \/ ReadBalance /\ coin' = First(unread) /\ UNCHANGED <<failures, rpc>>
     \/ ReadRate /\ UNCHANGED <<failures, rpc>>
     \/ Decide /\ rpc' = "start" /\ UNCHANGED failures
     \/ \* check_balance finds the registry empty
        /\ pc = "sleep" /\ balances = Unset /\ rpc' = "start" /\ UNCHANGED <<vars, failures>>
  /\ UNCHANGED <<rlocals, seen, accurate, crossed>>

\* An empty registry is skipped.
Begin ==
  /\ rpc = "start"
  /\ rpc' = IF balances = Unset THEN "idle" ELSE "balance"
  /\ unvalued' = IF balances = Unset THEN {} ELSE Coins
  /\ accurate' = (balances = account /\ exchange_rates = quote)
  /\ UNCHANGED <<vars, rcoin, held, values, donor, second, recipient, seen, failures, crossed>>

\* get_balances: get_balance_usd of every coin, in the order of the set; as in the
\* checker, what it cannot value counts as nothing.
ValueBalance ==
  /\ rpc = "balance"
  /\ rcoin' = First(unvalued)
  /\ unvalued' = unvalued \ {rcoin'} /\ held' = balances[rcoin']
  /\ rpc' = "rate"
  /\ UNCHANGED <<vars, values, donor, second, recipient, seen, failures, accurate, crossed>>

ValueRate ==
  /\ rpc = "rate"
  /\ values' = [values EXCEPT ![rcoin] = Usd(rcoin, held)]
  /\ rpc' = IF unvalued = {} THEN "decide" ELSE "balance"
  /\ UNCHANGED <<vars, unvalued, rcoin, held, donor, second, recipient, seen, failures,
                 accurate, crossed>>

\* The difference over the mean: with no value at all the division raises, and the
\* round is over.
Disbalanced(most, least, all) ==
  all > 0 /\ (most - least) * DevDen * N > DevNum * all

\* The coins max and min may return: any of the first ones, by the order of the set.
Largest(key) == {c \in Coins : \A d \in Coins : key[d] <= key[c]}
Smallest(key) == {c \in Coins : \A d \in Coins : key[c] <= key[d]}

Goto(label) ==
  /\ rpc' = label
  /\ IF label # "idle" THEN UNCHANGED rlocals
     ELSE /\ unvalued' = {} /\ rcoin' = Nobody /\ held' = 0 /\ values' = NoValues
          /\ donor' = Nobody /\ second' = Nobody /\ recipient' = Nobody

Choose ==
  /\ rpc = "decide"
  /\ \E most \in Largest(values), least \in Smallest(values) :
       IF Disbalanced(values[most], values[least], Total(values))
       THEN /\ rpc' = "first order"
            /\ donor' = most /\ recipient' = least
            /\ second' \in Largest([values EXCEPT ![most] = -1])
            /\ UNCHANGED <<unvalued, rcoin, held, values>>
       ELSE Goto("idle")
  /\ UNCHANGED <<vars, seen, failures, accurate, crossed>>

-----------------------------------------------------------------------------
(* _rebalance and _safe_put_order *)

\* Mutant of Gap: what the richest has over the mean.
GapOfRichest == N * values[donor] - Total(values)

\* What the recipient lacks to the mean, in USD, times N.
Gap == Total(values) - N * values[recipient]

IsKnown(base_, quote_) == exchange_rates # Unset /\ <<base_, quote_>> \in Markets

\* value_usd / exchange_rate, rounded to the lot.  The rate of a market tells base
\* in quote coin, so this is a quantity of base coin only if the quote coin is USD.
QuantityOn(base_, quote_) ==
  RoundHalfEven(Gap * exchange_rates[quote_], N * exchange_rates[base_])

\* Mutant of Orders: the wrong side on the second kind of market.
OrdersReversed(from, to) ==
  IF IsKnown(to, from) THEN {[base |-> to, quote |-> from, buy |-> TRUE,
                              quantity |-> QuantityOn(to, from)]}
  ELSE IF IsKnown(from, to) THEN {[base |-> from, quote |-> to, buy |-> TRUE,
                                   quantity |-> QuantityOn(from, to)]}
  ELSE {}

\* The order from one coin to another: a BUY of the recipient, or a SELL of the
\* donor, or none as there is no direct market.
Orders(from, to) ==
  IF IsKnown(to, from) THEN {[base |-> to, quote |-> from, buy |-> TRUE,
                              quantity |-> QuantityOn(to, from)]}
  ELSE IF IsKnown(from, to) THEN {[base |-> from, quote |-> to, buy |-> FALSE,
                                   quantity |-> QuantityOn(from, to)]}
  ELSE {}

\* The exchange's part: what the order takes from the account and brings to it,
\* rounded against the trader, and whether it has that.
InQuote(o) == o.quantity * quote[o.base]
Cost(o) == (InQuote(o) + quote[o.quote] - 1) \div quote[o.quote]
Proceeds(o) == InQuote(o) \div quote[o.quote]
Accepted(o) ==
  /\ o.quantity > 0
  /\ IF o.buy THEN account[o.quote] >= Cost(o) ELSE account[o.base] >= o.quantity
Fill(o) ==
  account' = IF o.buy
             THEN [account EXCEPT ![o.base] = @ + o.quantity, ![o.quote] = @ - Cost(o)]
             ELSE [account EXCEPT ![o.base] = @ - o.quantity, ![o.quote] = @ + Proceeds(o)]

\* put_market_order fills the order at once, or raises; it may also raise though
\* the order was filled, or refuse it for no reason the account shows.
FirstOrder == rpc = "first order"
From == IF FirstOrder THEN donor ELSE second

\* not success: the second coin is tried, after which the round is over.
Otherwise == IF FirstOrder THEN "second order" ELSE "idle"

PutOrder ==
  /\ rpc \in {"first order", "second order"}
  /\ \E o \in Orders(From, recipient) :
       /\ crossed' = (crossed \/ o.quote \notin UsdCoins)
       /\ \/ /\ Accepted(o) /\ Fill(o) /\ seen' = "no"
             /\ \/ Works /\ Goto("idle") /\ UNCHANGED accurate
                \/ Fails /\ Goto(Otherwise) /\ accurate' = FALSE
          \/ /\ IF Accepted(o) THEN Fails ELSE Works
             /\ Goto(Otherwise) /\ UNCHANGED <<account, seen, accurate>>
  /\ UNCHANGED <<registry, checker, updater, fetched, quote, moves, unreserved, disturbed>>

NoMarket ==
  /\ rpc \in {"first order", "second order"}
  /\ Orders(From, recipient) = {}
  /\ Goto(Otherwise)
  /\ UNCHANGED <<vars, seen, failures, accurate, crossed>>

Rebalancer == Begin \/ ValueBalance \/ ValueRate \/ Choose \/ PutOrder \/ NoMarket

-----------------------------------------------------------------------------
\* The other threads, as in BalancesChecker; what they change may make the picture
\* of this round inaccurate, and shows the last order filled in the end.
Others ==
  /\ \/ GetBalances \/ UpdateBalances \/ GetLatestPrices \/ UpdateExchangeRates \/ FetchFails
     \/ FireChain \/ ReduceBalance \/ MarketMoves
  /\ accurate' = (accurate /\ UNCHANGED <<balances, exchange_rates, account, quote>>)
  /\ seen' = IF seen = "no" /\ updater' = "update balances" THEN "fetched"
             ELSE IF seen = "fetched" /\ updater' = "get rates" THEN "yes" ELSE seen
  /\ UNCHANGED rebalancer

RNext == Check \/ Rebalancer \/ Others

RSpec == RInit /\ [][RNext]_rvars

\* Both threads loop on a timer for ever, and fetching does not fail for ever.
RFairSpec ==
  /\ RSpec
  /\ WF_rvars(Check \/ Rebalancer)
  /\ WF_rvars((UpdateBalances \/ UpdateExchangeRates) /\ Others)
  /\ SF_rvars(GetBalances /\ Others) /\ SF_rvars(GetLatestPrices /\ Others)

-----------------------------------------------------------------------------
\* A round that saw the account as it is brings the poorest coin up to the mean
\* and, but for the rounding to a lot, no further: not when the first coin has no
\* market or too little, nor by both coins giving.  (On a market quoted in a coin
\* other than USD the quantity is off by that coin's price.)
Filled == account' # account /\ moves' = moves
QuotedInUsd == \A o \in Orders(From, recipient) : o.quote \in UsdCoins

RecipientStopsAtMean ==
  [][Filled /\ accurate /\ QuotedInUsd
     => 2 * N * account'[recipient] * quote[recipient]
          <= 2 * Worth(account, quote) + N * (quote[recipient] + quote[From])]_rvars

\* When the market stands still the coins end up within the deviation, but for half
\* a lot, and stay there: they do not pass the same money round for ever, nor is the
\* poorest passed over, whatever was refused, lost or seen too late before.  Not so
\* if a market quoted in another coin than USD was tried.
Even ==
  /\ account \in [Coins -> Int]
  /\ LET worth == [c \in Coins |-> account[c] * quote[c]]
     IN \A c, d \in Coins :
          Disbalanced(worth[c], worth[d], Total(worth))
            => \E x \in Coins : 2 * (Total(worth) - N * worth[d]) <= N * quote[x]
RebalancingEvensOut == [](~crossed) => <>[]Even

\* "When set to True, all trading activities are ceased" (bus.py:15).
NoRebalancingWhenStopped == [][stop_trading => ~Filled]_rvars
=============================================================================
