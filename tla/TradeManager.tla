---------------------------- MODULE TradeManager ----------------------------
(***************************************************************************)
(* The TradeManager thread (patron_arby/trade/manager.py) and what it      *)
(* races with: the balance updater that swaps the cached balances, the     *)
(* balance checker that flips the stop flag and rebalances the coins, the  *)
(* exchange that answers the orders fired so far, and the arbitrage search *)
(* that finds more chains.                                                 *)
(*                                                                         *)
(* One step of the thread is what it does between two points where another *)
(* thread can make a difference: every read and write of the shared cache  *)
(* and every put to a shared queue is a step of its own.                   *)
(***************************************************************************)
EXTENDS RecentChains, OrderSizing, FiniteSetsExt

CONSTANTS Coins,
          Chains,       \* records: uid, path, roi, profit, profitable, steps
          FireOnlyTop,  \* TRADE_MANAGER_FIRE_ONLY_TOP_ARBITRAGE
          SortByRoi,    \* TRADE_MANAGER_SORT_ARBITRAGE_BY_ROI
          Deposit,      \* what the account holds at the start, per coin
          MarketOrders, \* what the rebalancer may order: spends, spend, gets, gain
          SENTINEL,     \* "SHUTDOWN"
          Start, MaxTime, MaxRefreshes, MaxFlips, MaxRebalances,  \* bounds of the model
          MayShutDown   \* whether the shutdown message is ever sent (nobody does in main)

Legs == 1..3

\* RecentArbitragersFilter._to_key
Key(chain) == <<chain.path, chain.roi>>

IsStep(s) == s \in [base : Coins, quote : Coins, buy : BOOLEAN,
                    price : Nat \ {0}, volume : Nat \ {0}]
             /\ <<s.base, s.quote>> \in DOMAIN Limits

ASSUME ChainsAssumption ==
  /\ \A c \in Chains :
       /\ Key(c) \in Keys /\ c.roi \in 0..RoiDen /\ c.profitable \in BOOLEAN
       /\ DOMAIN c.steps = Legs /\ \A i \in Legs : IsStep(c.steps[i])
  /\ IsFiniteSet(Chains)
  /\ \A chains \in SUBSET Chains : chains # SENTINEL
ASSUME SettingsAssumption ==
  /\ FireOnlyTop \in BOOLEAN /\ SortByRoi \in BOOLEAN
  /\ Deposit \in [Coins -> Nat]
  /\ \A o \in MarketOrders :
       o.spends \in Coins /\ o.spend \in Nat /\ o.gets \in Coins /\ o.gain \in Nat
  /\ Start \in Nat /\ Start >= TTL /\ Start > 0
  /\ MaxTime \in Nat /\ MaxRefreshes \in Nat /\ MaxFlips \in Nat /\ MaxRebalances \in Nat
  /\ MayShutDown \in BOOLEAN

VARIABLES
  positive_arbitrages_queue,        \* the bus: sets of chains, or SENTINEL
  fire_orders_queue,                \* orders fired and not answered yet (a set:
                                    \* three executors take them in any order)
  store_positive_arbitrages_queue,
  stop_trading,
  pc, batch, at,                    \* the thread: chains_list and the loop index
  leg, worst, orders, unput,        \* _on_arbitrage_option_found's locals
  amount,                           \* reduce_balance's local
  comment,                          \* chain.comment of every chain
  balances,                         \* BalancesRegistry.balances
  recent_chains, now,
  snapshot,                         \* what get_balances returned to the updater
  account,                          \* free + locked, as the exchange knows it
  refreshes, flips, rebalances, arrived,
  fired, reserved,                  \* history: <<chain, leg>> put to the executors,
                                    \* subtracted from the cache
  base, since,                      \* history: the last refresh, reserved after it
  split, torn,                      \* history: coins a refresh landed in the middle of
  missed, unseen,                   \* history: per coin, what the refresh under way,
                                    \* the number in the cache, do not show as spent
  inHand                            \* history: the chain in hand when the flag was set

bus == <<positive_arbitrages_queue, fire_orders_queue, store_positive_arbitrages_queue>>
locals == <<batch, at, leg, worst, orders, unput, amount>>
checker == <<stop_trading, flips, rebalances>>
filter == <<recent_chains, now>>
updater == <<snapshot, refreshes, missed>>
history == <<arrived, fired, reserved, inHand>>
cache == <<balances, base, since, split, torn, unseen>>
vars == <<bus, checker, pc, locals, comment, cache, filter, updater,
          account, history>>

NoBalances == [c \in {} |-> 0]   \* also: no snapshot pending

Nothing == [c \in Coins |-> 0]

chain == batch[at]
step == chain.steps[leg]
coin == SpendingCoin(step)
Fired(i) == [uid |-> chain.uid, leg |-> i,
             spends |-> SpendingCoin(chain.steps[i]), spend |-> Spend(orders[i]),
             gets |-> GettingCoin(chain.steps[i]), gain |-> Gain(orders[i])]

-----------------------------------------------------------------------------
Init ==
  /\ positive_arbitrages_queue = << >>
  /\ fire_orders_queue = {}
  /\ store_positive_arbitrages_queue = << >>
  /\ stop_trading = FALSE /\ flips = 0 /\ rebalances = 0
  /\ pc = "get" /\ batch = << >> /\ at = 1
  /\ leg = 1 /\ worst = NoRatio /\ orders = << >> /\ unput = {} /\ amount = 0
  /\ comment = [c \in Chains |-> ""]
  /\ balances = NoBalances
  /\ base = Nothing /\ since = Nothing
  /\ split = FALSE /\ torn = {} /\ unseen = Nothing
  /\ recent_chains = EmptyTable /\ now = Start
  /\ snapshot = NoBalances /\ refreshes = 0 /\ missed = Nothing
  /\ account = Deposit
  /\ arrived = {} /\ fired = {} /\ reserved = {} /\ inHand = {}

(* The TradeManager thread *)

Rank(c) == IF SortByRoi THEN c.roi ELSE c.profit

\* _sort_chains_by_profitability: ties come out in the order of the set.
Sorted(chains) ==
  {s \in [1..Cardinality(chains) -> chains] :
     /\ \A i, j \in DOMAIN s : i # j => s[i] # s[j]
     /\ \A i, j \in DOMAIN s : i < j => Rank(s[i]) >= Rank(s[j])}

\* Mutant of Get: the batch put to be stored before it is processed.
GetStoringEarly ==
  /\ pc = "get" /\ positive_arbitrages_queue # << >>
  /\ Head(positive_arbitrages_queue) # SENTINEL
  /\ batch' \in Sorted(Head(positive_arbitrages_queue))
  /\ positive_arbitrages_queue' = Tail(positive_arbitrages_queue)
  /\ store_positive_arbitrages_queue' = store_positive_arbitrages_queue \o batch'
  /\ at' = 1 /\ pc' = "examine"
  /\ UNCHANGED <<fire_orders_queue, checker,
                 leg, worst, orders, unput, amount, comment, cache, filter, updater,
                 account, history>>

Get ==
  /\ pc = "get" /\ positive_arbitrages_queue # << >>
  /\ Head(positive_arbitrages_queue) # SENTINEL
  /\ batch' \in Sorted(Head(positive_arbitrages_queue))
  /\ positive_arbitrages_queue' = Tail(positive_arbitrages_queue)
  /\ at' = 1 /\ pc' = "examine"
  /\ UNCHANGED <<fire_orders_queue, store_positive_arbitrages_queue, checker,
                 leg, worst, orders, unput, amount, comment, cache, filter, updater,
                 account, history>>

GetSentinel ==
  /\ pc = "get" /\ positive_arbitrages_queue # << >>
  /\ Head(positive_arbitrages_queue) = SENTINEL
  /\ positive_arbitrages_queue' = Tail(positive_arbitrages_queue)
  /\ pc' = "ended"
  /\ UNCHANGED <<fire_orders_queue, store_positive_arbitrages_queue, checker,
                 locals, comment, cache, filter, updater, account, history>>

\* Mutant of Commented: one comment for the whole batch.
CommentedBatch(text) ==
  [c \in Chains |-> IF \E i \in DOMAIN batch : c = batch[i] THEN text ELSE comment[c]]

\* _process_chain comments on its chain; when only the top chain is processed,
\* _process_chain_set then comments on the others of the batch.
Commented(text) ==
  [c \in Chains |->
     IF c = chain THEN text
     ELSE IF FireOnlyTop /\ \E i \in DOMAIN batch : c = batch[i] THEN "top only"
     ELSE comment[c]]

MoreChains == ~FireOnlyTop /\ at < Len(batch)

\* Mutant of Conclude: an exception ends the thread instead of the chain.
ConcludeUnsafely(text) ==
  /\ comment' = Commented(text)
  /\ at' = at
  /\ pc' = IF text = "error" THEN "ended" ELSE "store"
  /\ leg' = 1 /\ worst' = NoRatio /\ orders' = << >> /\ amount' = 0

\* The chain is done with: on to the next one, or to storing the batch.
Conclude(text) ==
  /\ comment' = Commented(text)
  /\ IF MoreChains THEN at' = at + 1 /\ pc' = "examine"
                   ELSE at' = at /\ pc' = "store"
  /\ leg' = 1 /\ worst' = NoRatio /\ orders' = << >> /\ amount' = 0

\* Mutant of Stopped: the flag not consulted.
NeverStopped == FALSE

Stopped == stop_trading

\* Mutant of MoreLegs: the loops end one leg early.
MoreLegsButLast == leg < 2

MoreLegs == leg < 3

\* The stop flag, the duplication filter and the profit threshold.
Examine ==
  /\ pc = "examine"
  /\ IF Stopped
     THEN Conclude("stop") /\ UNCHANGED recent_chains
     ELSE /\ recent_chains' = Registered(recent_chains, Key(chain), now)
          /\ \/ /\ Contained(recent_chains, Key(chain), now)
                /\ Conclude("duplication")
             \/ /\ ~Contained(recent_chains, Key(chain), now)
                /\ ~chain.profitable
                /\ Conclude("low profit")
             \/ /\ ~Contained(recent_chains, Key(chain), now)
                /\ chain.profitable
                /\ pc' = "check"
                /\ UNCHANGED <<at, leg, worst, orders, amount, comment>>
  /\ UNCHANGED <<bus, checker, batch, unput, cache, now, updater, account, history>>

\* _check_we_have_all_three_balances_above_zero, one coin: an unknown balance
\* is a TypeError, which @safely turns into no comment at all.
Check ==
  /\ pc = "check"
  /\ \/ /\ coin \notin DOMAIN balances
        /\ Conclude("error")
     \/ /\ coin \in DOMAIN balances
        /\ balances[coin] <= 0
        /\ Conclude("no balance")
     \/ /\ coin \in DOMAIN balances
        /\ balances[coin] > 0
        /\ IF MoreLegs THEN leg' = leg + 1 /\ pc' = pc ELSE leg' = 1 /\ pc' = "shrink"
        /\ UNCHANGED <<at, worst, orders, amount, comment>>
  /\ UNCHANGED <<bus, checker, batch, unput, cache, filter, updater, account, history>>

\* _shrink_volumes_according_to_balances, one coin; after the last one the orders
\* are created, adjusted and checked, all on data of this thread.
Shrink ==
  /\ pc = "shrink"
  /\ LET w == Binding(worst, step, balances[coin])
         os == OrdersFor(chain.steps, chain.roi, w)
     IN \/ /\ MoreLegs
           /\ worst' = w /\ leg' = leg + 1
           /\ UNCHANGED <<pc, at, orders, unput, amount, comment>>
        \/ /\ ~MoreLegs /\ ~MeetFilters(os)
           /\ Conclude("filters")
           /\ UNCHANGED unput
        \/ /\ ~MoreLegs /\ MeetFilters(os)
           /\ worst' = w /\ leg' = 1 /\ orders' = os /\ unput' = Legs
           /\ pc' = "put"
           /\ UNCHANGED <<at, amount, comment>>
  /\ UNCHANGED <<bus, checker, batch, cache, filter, updater, account, history>>

\* An order put after the refresh under way read the account is not in it.
Missing(o) ==
  IF snapshot = NoBalances THEN missed ELSE [missed EXCEPT ![o.spends] = @ + o.spend]

\* _put_orders_to_execution_queue: in random order.
PutOrder ==
  /\ pc = "put"
  /\ \E i \in unput :
       /\ fire_orders_queue' = fire_orders_queue \union {Fired(i)}
       /\ fired' = fired \union {<<chain, i>>}
       /\ missed' = Missing(Fired(i))
       /\ unput' = unput \ {i}
  /\ pc' = IF unput' = {} THEN "reduce" ELSE pc
  /\ UNCHANGED <<positive_arbitrages_queue, store_positive_arbitrages_queue, checker,
                 batch, at, leg, worst, orders, amount, comment, cache, filter,
                 snapshot, refreshes, account, arrived, reserved, inHand>>

\* reduce_balance, up to the assignment: amount = self.balances.get(coin).
ReduceRead ==
  /\ pc = "reduce"
  /\ amount' = balances[coin] /\ split' = FALSE
  /\ pc' = "write"
  /\ UNCHANGED <<bus, checker, batch, at, leg, worst, orders, unput, comment,
                 balances, base, since, torn, unseen, filter, updater, account, history>>

\* Mutants of NewAmount: the volume of the chain for that of the order; the
\* order's quantity for what it spends.
NewAmountOfChain == amount - Propose(step)
NewAmountOfQuantity == amount - orders[leg].quantity

NewAmount == amount - Spend(orders[leg])

\* ... self.balances[coin] = new_amount, in whatever dictionary is there by now.
ReduceWrite ==
  /\ pc = "write"
  /\ balances' = [balances EXCEPT ![coin] = NewAmount]
  /\ since' = [since EXCEPT ![coin] = @ + Spend(orders[leg])]
  /\ torn' = IF split THEN torn \union {coin} ELSE torn
  /\ reserved' = reserved \union {<<chain, leg>>}
  /\ split' = FALSE
  /\ IF MoreLegs
     THEN /\ leg' = leg + 1 /\ amount' = 0 /\ pc' = "reduce"
          /\ UNCHANGED <<at, worst, orders, comment>>
     ELSE Conclude("created")
  /\ UNCHANGED <<bus, checker, batch, unput, base, unseen, filter, updater,
                 account, arrived, fired, inHand>>

Store ==
  /\ pc = "store"
  /\ store_positive_arbitrages_queue' = store_positive_arbitrages_queue \o batch
  /\ batch' = << >> /\ at' = 1 /\ pc' = "get"
  /\ UNCHANGED <<positive_arbitrages_queue, fire_orders_queue, checker, leg, worst,
                 orders, unput, amount, comment, cache, filter, updater, account, history>>

TradeManagerStep ==
  \/ Get \/ GetSentinel \/ Examine \/ Check \/ Shrink
  \/ PutOrder \/ ReduceRead \/ ReduceWrite \/ Store

(* The threads and the exchange around it *)

thread == <<pc, locals, comment>>

\* _on_positive_arbitrage_found_callback: the arbitrage search puts a batch.
FindChains ==
  /\ \E chains \in SUBSET (Chains \ arrived) :
       /\ chains # {}
       /\ positive_arbitrages_queue' = Append(positive_arbitrages_queue, chains)
       /\ arrived' = arrived \union chains
  /\ UNCHANGED <<fire_orders_queue, store_positive_arbitrages_queue, checker, thread,
                 cache, filter, updater, account, fired, reserved, inHand>>

\* Someone puts the shutdown message (main never does), behind what is queued.
Shutdown ==
  /\ MayShutDown
  /\ \A i \in DOMAIN positive_arbitrages_queue : positive_arbitrages_queue[i] # SENTINEL
  /\ pc # "ended"
  /\ positive_arbitrages_queue' = Append(positive_arbitrages_queue, SENTINEL)
  /\ UNCHANGED <<fire_orders_queue, store_positive_arbitrages_queue, checker, thread,
                 cache, filter, updater, account, history>>

\* Where the thread is with a chain whose look at the flag is behind it.
PastTheFlag == {"check", "shrink", "put", "reduce", "write"}

\* BalancesChecker raises or clears the stop flag.
SetStopTrading ==
  /\ flips < MaxFlips
  /\ flips' = flips + 1
  /\ stop_trading' = ~stop_trading
  /\ inHand' = IF pc \in PastTheFlag THEN {chain} ELSE {}
  /\ UNCHANGED <<bus, rebalances, thread, cache, filter, updater, account, arrived, fired, reserved>>

\* The rebalancer in the same thread puts a market order, at any time and whatever the
\* flag: the exchange fills it from the account, and no one takes it out of the cache.
Rebalance ==
  /\ rebalances < MaxRebalances
  /\ rebalances' = rebalances + 1
  /\ \E o \in MarketOrders :
       /\ account[o.spends] >= o.spend
       /\ account' = [account EXCEPT ![o.spends] = @ - o.spend, ![o.gets] = @ + o.gain]
       /\ missed' = Missing(o)
       /\ unseen' = [unseen EXCEPT ![o.spends] = @ + o.spend]
  /\ UNCHANGED <<bus, stop_trading, flips, thread, balances, base, since, split, torn, filter,
                 snapshot, refreshes, history>>

Committed(c) ==
  MapThenSumSet(LAMBDA o : o.spend, {o \in fire_orders_queue : o.spends = c})

\* The updater's thread: the account is read from the exchange ...
FetchBalances ==
  /\ snapshot = NoBalances /\ refreshes < MaxRefreshes
  /\ snapshot' = account /\ refreshes' = refreshes + 1
  /\ missed' = [c \in Coins |-> Committed(c)]
  /\ UNCHANGED <<bus, checker, thread, cache, filter, account, history>>

\* ... and swapped in later.  A coin between reduce_balance's read and its write is
\* about to show the older number again.
UpdateBalances ==
  /\ snapshot # NoBalances
  /\ balances' = snapshot /\ base' = snapshot
  /\ since' = Nothing
  /\ split' = (pc = "write") /\ torn' = {}
  /\ unseen' = IF pc = "write" THEN [missed EXCEPT ![coin] = unseen[coin]] ELSE missed
  /\ snapshot' = NoBalances /\ missed' = Nothing
  /\ UNCHANGED <<bus, checker, thread, filter, refreshes, account, history>>

\* The exchange fills an order it has funds for, or answers that it will not.
Fill ==
  /\ \E o \in fire_orders_queue :
       /\ account[o.spends] >= o.spend
       /\ account' = [account EXCEPT ![o.spends] = @ - o.spend, ![o.gets] = @ + o.gain]
       /\ fire_orders_queue' = fire_orders_queue \ {o}
  /\ UNCHANGED <<positive_arbitrages_queue, store_positive_arbitrages_queue, checker,
                 thread, cache, filter, updater, history>>

Expire ==
  /\ \E o \in fire_orders_queue : fire_orders_queue' = fire_orders_queue \ {o}
  /\ UNCHANGED <<positive_arbitrages_queue, store_positive_arbitrages_queue, checker,
                 thread, cache, filter, updater, account, history>>

Tick ==
  /\ now < MaxTime
  /\ now' = now + 1
  /\ UNCHANGED <<bus, checker, thread, cache, recent_chains, updater, account, history>>

Next ==
  \/ TradeManagerStep
  \/ FindChains \/ Shutdown \/ SetStopTrading \/ Rebalance
  \/ FetchBalances \/ UpdateBalances \/ Fill \/ Expire \/ Tick

Spec == Init /\ [][Next]_vars

-----------------------------------------------------------------------------
\* Between two chains
Deciding == pc \in {"get", "examine", "check", "shrink", "store", "ended"}

\* The three orders of a chain are fired together and all of them are taken out
\* of the cached balances before the thread looks at another chain: no chain is
\* ever half fired, or fired and not accounted for.
AllOrNothing ==
  Deciding => /\ reserved = fired
              /\ \A c \in Chains : \A i, j \in Legs : <<c, i>> \in fired <=> <<c, j>> \in fired

\* The comment stored with a chain tells its fate: "Orders created successfully"
\* if and only if its orders were fired.
CommentTellsFate ==
  Deciding => \A c \in Chains : comment[c] = "created" <=> <<c, 1>> \in fired

\* The cache is the last refresh less what was reserved since, for every coin but
\* those a refresh landed on between reduce_balance's read and its write.
CacheAccounting ==
  \A c \in DOMAIN balances \ torn : balances[c] = base[c] - since[c]

\* What the reductions are for (manager.py:134): when the thread sizes a chain, the
\* cache promises no more of a coin than the account holds beyond the orders in flight,
\* but for what was spent where it could not see it: by orders in flight when the account
\* was read or put until the number got into the cache, and by the rebalancer since.
NoPromiseOfCommittedFunds ==
  Deciding => \A c \in DOMAIN balances :
                balances[c] <= account[c] - Committed(c) + unseen[c]

\* Raising the stop flag lets the chain in hand go through, which was examined
\* before, and no other: however long the flag stays up, every order fired under
\* it is of that one chain.
OnlyTheChainInHand ==
  [][stop_trading => \A x \in fired' \ fired : x[1] \in inHand]_vars

\* Where a chain is that must be stored in the end: in a batch put ahead of the
\* shutdown message.
Ahead(c) ==
  /\ pc # "ended"
  /\ \E i \in DOMAIN positive_arbitrages_queue :
       /\ \A j \in 1..i : positive_arbitrages_queue[j] # SENTINEL
       /\ c \in positive_arbitrages_queue[i]
=============================================================================
