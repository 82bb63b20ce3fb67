# patron-arby in TLA+

patron-arby ("Petronius Arbiter") trades triangular arbitrage on one exchange: it listens to
the best bid and ask of every market over a websocket, looks for a round trip over three coins
that brings in more than it spends, fires three limit orders at once and watches its balances.
It is one process of about a dozen threads that share queues, a flag and two dictionaries, with
no lock anywhere. These modules model that program; paths below are under `src/patron_arby/`.

## 1. The system

| component | code | state | operations |
|---|---|---|---|
| Bus | `common/bus.py` | five unbounded queues, the stop flag | put, get, set/read the flag |
| Websocket listener | `exchange/binance/listener.py` | the stream buffer | refresh the data, then notify the two event listeners; partition the markets over streams at start |
| Market data | `arbitrage/market_data.py` | latest ticker per market; paths computed at start | `put`, `get` (a copy), paths through a market, price in USD |
| Arbitrage event listener | `arbitrage/arbitrage_event_listener.py` | - | queue the tickers of markets between two traded coins |
| Arbitrage search | `arbitrage/arby.py`, `arbitrage_thread.py`, `arby_utils.py` | locals of one search | `find`: price each path through the updated market, fire the profitable ones, queue all for the store |
| Trade manager | `trade/manager.py` | the batch in hand | sort, stop flag, duplication, threshold, balances, sizing, orders, put, reduce, comment, store |
| Duplication filter | `trade/recent_arbitragers_filter.py` | key -> time last let through | `register_and_return_contained` |
| Balances registry | `exchange/registry.py` | cached balances and rates | replace, reduce one coin, read |
| Exchange limitations | `exchange/binance/limitations.py` | tick, lot, minimum per market | round an order, check it |
| Order executors (3) | `trade/executor.py` | the order in hand | post, mark a failure, save; pass the shutdown message on |
| Order records | `db/order_dao.py` | one DynamoDB row per order | get, put (read, then write) |
| Order listener | `exchange/binance/order_listener.py`, `order_converter.py` | - | compare an executionReport with the row, put it |
| Balance updater | `__main__.py` | - | every 5 s: fetch balances, swap; fetch rates, swap |
| Stop loss | `exchange/binance/balances_checker.py` | initial balance | every 10 s: sum in USD, stop or resume |
| Rebalancer | `exchange/binance/balances_rebalancer.py` | - | after the stop loss: a market order from the richest to the poorest coin |
| Order cancelator | `exchange/order_cancelator.py` | - | cancel own orders older than 3 s; started only for good-till-cancelled orders |
| Store threads (2) | `__main__.py`, `db/arbitrage_dao.py` | a buffer of chains | batch all chains to Firehose; profitable ones to DynamoDB |

How they interact:

    websocket -> listener thread -> MarketData.data
                               \-> tickers_queue -> ArbitrageThread -> all_arbitrages_queue -> store thread
                               |                                  \-> positive_arbitrages_queue
                               |                                             |
                               |         BalancesRegistry <-> TradeManager <-'
                               |           ^        ^              \-> store_positive_arbitrages_queue -> store thread
                               |   balance updater  |               \-> fire_orders_queue -> 3 executors -> exchange
                               |      stop loss, rebalancer -> stop flag                       |
                               \-> order listener ------------------> orders table <-----------'

What is hard in it, and so what the properties are about (each with its line in `PROJECT.json`,
"hazards"):

* *Races on the registry.* `reduce_balance` is a read and a write; the updater swaps the whole
  dictionary, with numbers fetched some time before; the trade manager reads one coin at a time.
* *Races on the row of an order.* Executor and websocket thread each read, then write; reports
  overtake the REST reply and each other; calls fail before or after they took effect.
* *One queue, several readers, one shutdown message.*
* *A flag read once per chain*, raised by a sum taken over a dictionary that changes meanwhile.
* *Exceptions.* Most calls are `@safely` and turn into None; a few are not and end a thread.
* *Arithmetic over three markets* whose volumes are in different coins and on different sides.
* *A filter with a memory* whose answer depends on the whole sequence of calls.
* *Feedback.* The rebalancer trades on a cache that does not show its own last order yet, and the
  cancelator on a list of orders that may be filled by the time their turn comes.

Correctness, component by component: the search looks at every triangle through an updated
market and at one moment of the data, hands each profitable chain over once and loses no update;
its volumes are a trade that can be made and its profit means a gain. The filter drops repeats
only, and of two in a row one. The trade manager fires all or nothing, keeps the cache an honest
account of the last refresh less what it fired, stops when told, and lets every chain reach its
record with a true comment. Executors post each order once, drain the queue at shutdown; the row
of an order never claims more than happened. The stop loss measures against one reference and
neither sleeps through a lasting loss nor keeps trading stopped without one; the rebalancer evens the coins
out and then rests. The cancelator leaves no order resting for ever. Batches for the store fit
what Firehose takes, and streams what the exchange takes.

## 2. Modules

| module | models | used by |
|---|---|---|
| `RecentChains` | the duplication table, as operators | `RecentArbitragersFilter`, `TradeManager` |
| `RecentArbitragersFilter` | the filter under a clock | proofs in `RecentArbitragersFilterProofs` |
| `Rounding` | `to_decimal`: half to even | `OrderSizing`, `BalancesRebalancer` |
| `OrderSizing` | ratio, cut, break-even price, rounding, minimum notional | `ChainSizing`, `TradeManager` |
| `ChainSizing` | one chain sized against balances that hold still, for every input of a range | proofs in `ChainSizingProofs` |
| `TradeManager` | the thread, and the updater, stop loss, the rebalancer's orders, exchange and search around it | `ChainRecords`; proofs in `TradeManagerProofs` |
| `ChainRecords` | the thread that records profitable chains, composed with `TradeManager` | proofs in `TradeManagerProofs` |
| `OrderLifecycle` | abstract specification: what is promised of each order | implemented by `OrderFlow`, `OrderCancelator`; proofs in `OrderFlowProofs` |
| `OrderFlow` | executors, order records, order listener, exchange | `OrderCancelator`; proofs in `OrderFlowProofs` |
| `OrderCancelator` | the thread that cancels resting orders, composed with `OrderFlow` | proofs in `OrderFlowProofs` |
| `BalancesChecker` | stop loss, updater, reservations, market | `BalancesRebalancer`; proofs in `BalancesProofs` |
| `BalancesRebalancer` | the second half of the stop loss's loop, composed with `BalancesChecker` | proofs in `BalancesProofs` |
| `TriangleMath` | fee, steps, roi, matched volumes, profit | `TriangleVolume`, `MarketData` |
| `TriangleVolume` | one triangle, for every quotation and ticker of a range | proofs in `ArbitrageSearchProofs` |
| `MarketData` | markets, paths, tickers, USD prices | `ArbitrageSearch` |
| `ArbitrageSearch` | listener thread, event listener, search thread | `ChainStore`; proofs in `ArbitrageSearchProofs` |
| `ChainStore` | the thread that batches all chains, composed with `ArbitrageSearch` | proofs in `ArbitrageSearchProofs` |
| `Streams` | the partition of the markets over websocket streams | proofs in `StreamsProofs` |
| `CommonLemmas` | no code: arithmetic and sums over finite sets | `TradeManagerProofs`, `BalancesProofs`, `ChainSizingProofs` |

A composing module adds the variables of its thread to those of the module it extends, and its
next-state relation is a step of that thread or a step of the rest that leaves the thread alone.
The runs check the compositions, `orders` with a cancelator that is not started, as the code
starts none for immediate orders, `manager` with a thread that records nothing (`MaxTaken`);
`checker` runs the stop loss alone.
In `BalancesRebalancer` the thread is the checker's own, so `Check` goes from `check_balance` to
the rebalancer and back.

`MC<module>` gives the constants their values for TLC. Where an action or operator has a mutant
(`... Mutant of Get: ...`), it stands right before it and is used nowhere: it shows which
mistake in the code the properties would catch.

State corresponds to the code by name (`positive_arbitrages_queue`, `balances`,
`recent_chains`, `initial_balance`); `pc`, `lpc`, `aPc` are the places where another thread can
make a difference, so one action is what a thread does from one access of shared state to the
next. Variables marked "history" are read by properties only. Abstractions:

* A thread's private work between two shared accesses is one step: sizing, creating, rounding
  and checking the orders happens in the step that reads the last balance (`Shrink`).
* `fire_orders_queue` is a sequence in `OrderFlow`; in `TradeManager` it is the set of orders not
  answered yet, as three executors answer in any order.
* Prices and volumes are integers in `OrderSizing`, of a unit so small that ticks and lots are
  multiples of it: the volumes and prices the search finds lie between them (the price of a step
  holds the fee, `arby.py:131`), and every order is rounded, cut or not (`ToStep`). They are exact
  rationals in `TriangleMath`; the code uses binary floats. Rounding is modelled where the code rounds
  (`to_decimal`, half to even), float error is not. `to_decimal` keeps the digits the step is written
  with, so the unit of a step of 1, which reads "1.0", is a tenth: `Limits` holds these units. A rational is a pair in lowest terms: `reduced`
  takes the least denominator there is, so equal numbers are equal values of TLA+.
* The rebalancer is a thread of its own module; in `TradeManager` it is its effect on what the
  trade manager shares: a market order (`Rebalance`) that moves money in the account and leaves the
  cache alone. `BalancesChecker` has of the trade manager that it fires chains while the flag is down and
  then takes a unit of each coin they spend out of the cache, leg by leg.
* `@safely` is the disjunct of an action that fails and goes on; a call that is not safe moves
  its thread to "dead".
* A path is a sequence of markets, a chain's key a pair of path and roi; text is not modelled.
* `hash8` is taken to be injective: an order is its own id.

## 3. Runs

Passing runs (`CHECK_DEADLOCK FALSE` where the bounds or the
shutdown let the system stop):

| run | bounds | shows |
|---|---|---|
| `filter` | 2 keys, window 3, clock 3..10 | drops are repeats within the window; of two sightings in a row within it one is dropped |
| `sizing` | volumes {3,10}, prices {1,5}, balances {0,2,5,8,24}, lots of 4 and 1, ticks of 4 and 2, all 8 side patterns | an order stays within its share at the quoted price up to half a lot; legs keep their proportions; a cut beyond rounding is needed; the price concedes at most the roi and half a tick |
| `manager` | 2 opposite chains, each taking as much of a coin as an order may, all chains of a batch fired; 2 refreshes, 2 market orders of the rebalancer | all three orders or none, comment "created" exactly for fired chains, cache = last refresh - reservations; when a chain is sized the cache promises no more than the account less the orders in flight, but for what was spent where the cached number could not show it |
| `records` | two sightings of one chain, the second too small, only the top chain of a batch fired; 1 refresh, the flag flips, shutdown, a put that fails | under the stop flag only the chain already in hand is fired; the record of a chain tells its fate; every chain ahead of the shutdown message is recorded, but one whose put fails |
| `orders` | 2 orders, 2 executors, immediate-or-cancel, events stamped up to 1 late, 1 failure or lost event anywhere | no order lost or doubled; the shutdown message survives and drains the queue; `OrderLifecycle` is implemented; orders ahead of the shutdown are posted, and recorded if nothing fails |
| `cancelator` | 2 orders, 1 executor, good-till-cancelled, 1 failure | no order rests for ever and rows stay truthful with the cancelator at work |
| `checker` | 2 coins, 3 rates, 2 market moves; chains fired without end while trading goes on | undisturbed decisions are right; a lasting loss stops trading; without one the flag never stays up |
| `rebalance` | 3 coins, 1 market move, 1 order refused, answer lost or round too early | an order from an accurate picture brings the poorest coin up to the mean and no further; the coins come to rest within the deviation |
| `triangle` | 9 tickers per market (empty, thin, thick sides; narrow, wide spreads), 8 side patterns | matched volumes are a largest trade that fits its steps; profit iff gain; never both ways round |
| `search` | one triangle + a market not traded + a symbol unknown at start, 4 events, chains fired one by one or together, batches of 14 | searches complete and from one moment; chains fired once and stored; batches fit and repeat nothing; every update is seen by a finished search |

The bounds are enough for the interesting cases to happen, which the mutants confirm: each
property of each passing run is violated under the run's own bounds by at least one plausible
mistake. Two executors and two orders give every race between two readers of the queue and
between executor and listener; a refresh can land at each step of a chain, and two refreshes
give a stale one and a fresh one; in `sizing` and `triangle` the inputs cover both sides of each
comparison in the code. `MaxFailures`, `MaxLag`, `MaxRefreshes`, `MaxFlips`, `MaxTaken`, `MaxMoves`,
`MaxRebalances`, `MaxEvents` and `MaxTime` are the only bounds in guards; they stand for how often the environment
acts, and the code has no such limit.

Fairness. `records` assumes weak fairness of the trade manager and of the thread that records
chains (each blocks on nothing but its empty queue). `orders` assumes weak fairness of each
executor (every call returns or raises) and none of the listener or the exchange. `cancelator`
assumes also weak fairness of the cancelator, whose loop sleeps a bounded time, and that time passes
for an open order; the exchange need not fill anything. `checker` assumes weak fairness of the
checker and of swapping in what was fetched, and strong fairness of the two fetches: the loops
run on timers for ever, a fetch may fail any number of times but not for ever. `rebalance`
assumes the same; and as the checker's period is twice the updater's (10 s and 5 s), a round
that begins before the cache shows the last order counts as a failure (`Wait`), of which
there are `MaxFailures`: without that assumption the rebalancer may repeat an order any number
of times. `search` assumes weak fairness of both threads, not that more tickers come.
Nothing is assumed of the trade manager in `checker`: it may fire at each chance or never.

What `checker` claims of a recovery is `[]<>~stop_trading`, that the flag comes down again each time. It
need not stay down: what a chain reserves is missing from the next sum, which may breach and stop trading
until a refresh brings it back, and then the next chain is fired.

Refinement. `OrderLifecycle` knows four things of an order: whether it was fired, how often it
was posted, its fate at the exchange, what its row shows. `OrderFlow!Lifecycle` maps them to
what was ever put on the queue, `posted`, `exchange`, and the status in `table`. A step of an
executor, the listener or the exchange is a step of the lifecycle or a stutter. The lifecycle says that what a
row comes to show is true when it is written, and that a row only moves on, from "ERROR" or "NEW" to
what became of the order ("ERROR" claims no more than that something went wrong). Whether a row is updated at
all it leaves open: a listener that stored its events would implement it as well. This code
never updates one, as `put_order` stores what it has read; that disagrees with what the listener says it
does (see below).

Violation runs: each states what a comment of the repository says, and TLC shows the behaviour of
the code that disagrees.

| run | the code says | what happens |
|---|---|---|
| `rebalance_stopped` | "all trading activities are ceased" (`common/bus.py:15`) | a loss raises the flag in `check_balance`; the same thread goes on to the rebalancer, which never reads it and puts a market order |
| `filter_throttle` | "If we see same arbitrage chain, with the same profit, coming within the given time frame, we throttle it" (`config/base.py:24`); "Otherwise, just returns True" (`recent_arbitragers_filter.py:24`) | the second sighting takes the key out of the table (`:31`) and does not put it back; the third, within the same time frame, is let through |

Other places where the code and its words disagree, met while modelling and not run:

* `exchange/binance/order_listener.py:57` puts an event newer than the row of its order into that row;
  `put_order` (`db/order_dao.py:31`) stores the row it has read, so no event changes a row that exists.
  No property says that it should or should not: `OrderLifecycle` leaves open whether a row is updated.
* `exchange/registry.py:65` says a refresh erases all reductions; one that falls between the read
  and the write of `reduce_balance` is overwritten for that coin (`torn` in `TradeManager`).
* `config/base.py:43` speaks of the initial balance; the first sum may be taken before the rates are
  in, and is then short (`partial` in `BalancesChecker`).
* `exchange/binance/listener.py:83` compares a count of markets with a counter that restarts at 2:
  the last markets may get no stream. `FewLeftOut` bounds how many.
* `balances_rebalancer.py:90` divides dollars by a rate in quote coin. `RecipientStopsAtMean` is
  about markets quoted in USD.
* `trade/manager.py:134` takes a fired order out of the cache so that the balance is not promised
  again; a market order of the rebalancer is not (`balances_rebalancer.py:71`). `NoPromiseOfCommittedFunds`
  says by how much the cache may be off: by what was spent where the cached number could not show it,
  that is by orders in flight when the account was read or put until the number got into the cache, and by
  the rebalancer since.
* `config/base.py:21` bounds the share of a balance in one order; a BUY is cut at the quoted price
  and ordered at the dearer break-even price (`manager.py:212`). `WithinRatioAtQuote` is what holds.
* `common/bus.py:15`, once more: the chain in hand is still fired under the flag
  (`manager.py:81`). `OnlyTheChainInHand` is what holds.
* `arbitrage/arby_utils.py:11` says the volume can be traded; the volume of a SELL is an amount of
  the quote coin (`arby.py:136`) and may exceed the best bid. `MatchedIsLargestTrade`
  is relative to the steps as they were created.
* `config/base.py:18` gives the threshold in USD; with a BUY first, the profit is in the bought coin
  and valued as the first one (`arby.py:98`). `ProfitMeansGain` is about its sign.

## 4. Proofs

TLAPS proves, for every value of the constants that meets the named assumptions:

* `RecentArbitragersFilterProofs` (assumes `TTLAssumption`, `ClockAssumption`: an epoch clock
  that starts later than the window): `TypeCorrect`, `DropsAreRepeats`, `RepeatsNotTradedInARow`. The
  argument is an invariant that ties the table to history: a key in it has its time of the last pass, and
  a key that is not in it has been dropped since, or never passed. The clock matters because a missing key
  reads as time 0, which must be longer ago than the window.
* `OrderFlowProofs` (assumes `FlowAssumption`): `TypeCorrect`, `NoOrderPostedTwice`,
  `NoOrderLost`, `SentinelNeverUsedUp`, `ShutdownLeavesNothing`, for any number of orders,
  executors and failures. `TypeInv` adds the types of the locals. `FlowInv` = `PostedAtMostOnce`
  /\ `NothingLost` /\ `OnePlace` is inductive; `OnePlace` is the strengthening: an order is at
  one position of the queue at most, and one that is about to be posted has not been.
  `ShutdownInv` = `SentinelSurvives` /\ `ShutdownIsLast` is inductive; `ShutdownIsLast` says that
  the queue is first in first out where it matters: an order produced ahead of the shutdown
  message is never behind it, so an executor that has seen the message has seen the last of them.
  `ShutdownDrains` follows from both, and needs `Executors # {}`. Steps of the listener and the
  exchange touch none of this, which two framing lemmas say once (`OthersKeepFlow`,
  `OthersKeepShutdown`).
* `OrderFlowProofs`, its second half, of the flow with the cancelator or without it:
  `RowsAreTruthful`, `FlowImplementsLifecycle`, `CancelatorKeepsLifecycle`. `RowInv` is the
  strengthening. Its parts: two executors never hold the same order (`HandsApart`); an executor that
  has not saved yet is the first to write the row (`RecordsFirst`); what it is about to write is
  true, and stays true whatever the exchange does (`RowsTrue`); an order not posted is unknown to
  the exchange (`UnknownUntilPosted`); and the listener, between its read and its write, holds
  the row that is still there (`ListenerKeepsRow`). The last is why its write stutters in the
  lifecycle: `put_order` stores what it has read. The refinement has one lemma for each kind of step,
  each to a step of the abstract order or to a stutter; for the cancelator, that what it does is an
  open order settled or a failure (`CancelatorEffect`).
* `OrderFlowProofs`, of both: `NothingUnrecordedAtTheEnd`, that once all executors have ended and no call
  failed, every order fired ahead of the shutdown message was posted and has its row. `UnfailedInv` is what
  it adds: while nothing failed, a posted order has its row or is being recorded by one executor, which
  found no row before it (`RecordsFirst`) and therefore writes its own.
* `TradeManagerProofs` (assumes `ChainsAssumption`, `SettingsAssumption`, `SizingAssumption`):
  `TypeInvHolds`, `NothingHalfFired`, `CommentsTellFate`, `CacheAccounts`, `StopFlagHolds`,
  `RecordsImplementTrading`, `RecordsTellFate`. `FateInv` follows a chain through
  the thread: it is in one place (`OnePlace`), untouched while it is still ahead
  (`AheadUntouched`), fired and reserved leg by leg while it is in hand (`FiringInv`), and decided
  once it is behind (`OthersDecided`). `AllOrNothing` and `CommentTellsFate` are what `FateInv` says between
  two chains. `CacheInv` adds to `CacheAccounting` that the amount `reduce_balance` has read is
  still in the cache when it writes, unless a refresh landed in between (`ReadIsCurrent`).
  `FlagInv` says that a chain past the flag's reading is the one `inHand` remembers. For `ChainRecords`, every
  step is a step of `TradeManager` or leaves it alone, so what is proved of the one holds of
  the other; `RecordInv` then says that a chain whose record is written has been put to the
  store, after which its comment does not change.
* `TradeManagerProofs`, of the way of a chain from end to end: `NoChainForgotten`, that each chain the search
  put on the bus waits in a queue or in the batch in hand, has its record, or is one whose put failed.
  `KeptInv` says that no step of anybody drops a chain; the sort does not, as an injective
  arrangement of a finite set has all of it (`SortedKeepsAll`). `TakenInv` says that the store thread
  passes none over.
* `TradeManagerProofs`, its last part: `NoFundsPromisedTwice`. `FundsInv` says what holds
  also in the middle of a chain: what is cached of a coin, and what `reduce_balance` has read of it, is backed
  by the account less the orders in flight, plus what the chain in hand has fired and not taken out
  yet, plus what the rebalancer spent behind it (`Backed`, `Covered`). It makes an exception of the one
  number that a refresh wrote over and `reduce_balance` is about to write over in turn (`Overwritten`): what is
  written comes from what was read, and that is backed. So is a refresh under way, by what it missed
  (`SnapshotCovered`). No refresh is exempt, stale or in the middle of a reservation. What the
  orders in flight spend is a sum over a finite set, of which `CommonLemmas` says what is needed.
* `BalancesProofs` (assumes `CheckerAssumption`, `RebalancerAssumption`): `DecisionsAreRight` of the
  stop loss alone, `DecisionsStayRight` and `OrdersStopAtMean` of the stop loss with the rebalancer in its
  thread. `SumInv` says that, as long as the cache holds still, the total is the worth of the
  coins read so far; with `BaseInv` (nothing reserved: the cache is what was refreshed) the total
  compared is the worth of the last refresh. `PictureInv` says the same of the values the rebalancer
  takes, relative to the account: as long as its picture is accurate, each coin valued has its
  worth today. The order then fills the gap of the poorest coin to the mean, to half a unit
  (`QuantityNearGap`), on either side of the market (`OrderShape`).
* `ArbitrageSearchProofs` (assumes `BaseQuoteAssumption`, and `BatchAssumption` for the batches):
  `TickersAreInTheData`, `SearchesSeeOneMoment`, `SearchesAreComplete`, `ProfitableFiredOnce`,
  `NothingUnseenWhenQuiet` of the search; `StoreLeavesSearch`, `BatchesFit`, `ChainsStoredOnce` of the
  thread that stores.
  `SearchInv` has a part for each stage a ticker passes: in the data (`DataInv`), in the queue and
  in hand (`QueueInv`), the chains found so far, one for each complete path behind the loop
  (`ResultInv`), the results queued, numbered by their search (`StoredInv`). Completeness then is
  a matter of `MarketData` alone: the paths of the three nested loops are the triangles from each
  coin both ways round, as the exchange lists a pair of coins once, so that coins and markets
  of a path determine each other. A batch fits because distinct chains of a search have distinct paths through
  one market, half a batch at most, and the buffer is below the other half when they are added
  (`BatchInv`). No chain is stored twice because each carries the number of its search, and searches are
  taken in order.
  `NothingUnseenWhenQuiet` is `NoUpdateUnseen` without the fairness: `SeenInv` follows an update of a market
  from the listener's hand through the queue into the copy of a search (`Pending`), so that it is there or
  has been seen at any time; a search of a market that runs on an old copy leaves the newer update behind
  it in the queue.
* `ArbitrageSearchProofs`, of the arithmetic (assumes `FeesAssumption`: a fee is at least 0 and below 1;
  `TickersAssumption`: a bid is above 0 and below its ask, quantities are not negative): `LargestTrade`,
  `ProfitGains`, `OneWayOnly`, for any fees, tickers and quotation. `TriangleInv` is inductive and
  little more than what `CreateStep` and `Calculate` compute; the work is in the numbers. That a least
  denominator exists (`LeastNatural`) and divides every other (`Divides`) makes lowest
  terms unique (`EqualReduced`), from which products and order behave as those of fractions do
  (`TimesAssociates`, `BelowTimes`). Then a step gets what it proposes divided by its price factor
  (`StepVolumes`), which carries the three volumes round the triangle (`MatchedPositive`) and makes the way
  back cost the product of the factors (`ProfitIsGain`). On one market there and back costs more than it brings
  in (`ThereAndBack`), so two opposite ways cannot both end above what they began with (`RoundBothWays`).
* `ArbitrageSearchProofs`, of arithmetic and search together (assumes `SearchAssumption`, which says of
  `Books` what `TickersAssumption` says of tickers, and those above): `FiredChainsGain`, that all chains
  one search hands over bring in more than they spend on the same books, one for each market;
  `SearchFiresOneWay`, that two of them never go round a triangle in opposite ways. `PricedInv` is the
  strengthening: each chain found is priced on the books of the copy (not of the data, which
  the listener goes on refreshing), and what earlier searches have stored was so when they ended.
  A path that goes another one backwards starts at one of its three coins and crosses the same
  markets (`OppositePaths`), so `RoundBothWays` applies to it.
* `ChainSizingProofs` (assumes `InputAssumption`, `SizingAssumption`): `OrdersWithinRatio`,
  `LegsMatched`, `CutsAreNeeded`, `PricesConcedeAtMostRoi`, for any number of legs, volumes, prices,
  ticks and lots, so for orders off the grid of their market. `SizingInv` says
  that the loop over the legs holds the largest ratio of those it has seen that are over their share
  (`WorstInv`) and that orders are made from what the whole loop found (`OrdersInv`). The rest is
  arithmetic on `RoundedNear`: rounding half to even moves a fraction by half a unit at most.
* `CommonLemmas` holds what several of these need: `RoundedNear`, and the sum of a function over a finite
  set, of orders or of coins. That the recursion behind a sum is well defined (`SumDefined`), and that any
  element may be taken out of it first (`SumTakesOut`), is proved from a smallest subset for
  which it would fail (`MinimalSubset`, from the library's well-foundedness of strict inclusion):
  induction without a theorem that takes an operator.
* `StreamsProofs` (`Init` says of the inputs: at least one market, a limit of at least two):
  `StreamsAlwaysFit`, `FewMarketsLeftOut`, for any number of markets and any limit. `CeilDivBounds`
  says what the rounded up division amounts to; from it `Subscriptions`: a stream takes at most the
  limit, and at least two markets if there is more than one stream (the counter restarts at 2, so a
  limit of one would be passed by). `LoopInv` is the strengthening: it ties the counter to the markets
  gathered, one ahead of them after the first stream. `CounterInv` says what becomes of the
  counter, which the code compares with the number of markets: up to the end of the list it falls one
  market short per stream closed (`Ahead`); then it hits the number of markets, and the stream of that
  moment is the short one (`Hit`), or jumps over it, which a remainder of one makes it do
  (`JumpedOver`). From each, fewer markets remain than there had to be streams.

Assumptions on constants are stated where the constants are declared, and TLC evaluates them on
every run. Two are there for the proofs alone: that the exchange lists finitely many symbols
(`BaseQuoteAssumption`) and that the coins of a chain form a sequence (`InputAssumption`). None
bounds a size.

The inductive invariants were checked with TLC first, as invariants under the bounds of the run of
the same component: `OnePlace`, `ShutdownIsLast`, `RowInv`, `UnfailedInv` under `orders` and `cancelator`;
the parts of `FateInv`, `CacheInv`, `FlagInv`, `FundsInv` under `manager`, `RecordInv`, `KeptInv`,
`TakenInv` under `records`; `SearchInv`, `BatchInv`, `SeenInv`, `PricedInv` and what `FiredChainsGain` and
`SearchFiresOneWay` state under `search`,
the last also with two books and three events; `SizingInv` under `sizing`; `CounterInv` for
up to 40 markets and limits of 2 to 8; `RoundInv`, with `CheckInv` in it, under `rebalance` with chains fired.

Every invariant and every action property of a passing run is stated by a theorem. `Streams` is in no
run: a run could only repeat, for a range of markets and limits, what is proved of all. Only model-checked:

* Liveness (`EveryChainRecorded`, `EveryOrderRecorded`, `NoOrderRestsForever`, `LastingLossStops`,
  `RecoveryResumes`, `RebalancingEvensOut`, `NoUpdateUnseen`): it rests on fairness and ENABLED,
  beyond the prover. The safety halves of three are proved: of `NoUpdateUnseen` (`NothingUnseenWhenQuiet`), of
  `EveryOrderRecorded` (`NothingUnrecordedAtTheEnd`), of `EveryChainRecorded` (`NoChainForgotten`).
* The disagreements of the two violation runs, each a single behaviour, which TLC shows.

What the theorems do not say: they are about exact numbers. That a float which rounds a profit of
nearly 0 to the other side of it fires a chain, or keeps one back, is outside the models.

## 5. Plan

Done, in this order: filter; sizing; trade manager; order flow; stop loss; triangle arithmetic;
market data and search; proofs about the filter and the order flow; rebalancer; order lifecycle
and its refinement; cancelator; the two store threads; streams; proofs about the lifecycle,
the trade manager and its records, the funds, the search and its store, the sizing, the streams,
the stop loss and the rebalancer, the triangle arithmetic and its use by the search.
Next:

1. An abstract `Reservations` (a refresh, a reservation, an answer), implemented by `TradeManager`
   up to torn coins.
2. Order ids that collide (`hash8`); a bid of 0 ending the search.

Not modelled and not planned: the key provider and the raw DAO (I/O without state), the exchange's
JSON and its conversion, logging and reports, settings that differ between staging and production,
creating and starting the threads, the websocket manager's own buffer and reconnection (events are
lost in `OrderFlow`), the internals of DynamoDB, Firehose and the exchange (external: their answers
are nondeterministic), floating point error, the notebooks and the deployment files. The two notebooks make up 6,393 of
the 8,869 lines counted as implementation, nearly all of it recorded output of an offline
data analysis that shares no state with the program; the modules map most of the executable part
of what remains, the rest being imports, logging, docstrings and wiring.
