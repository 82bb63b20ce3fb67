--------------------------- MODULE ArbitrageSearch ---------------------------
(***************************************************************************)
(* The way of a ticker from the exchange to the search for arbitrage: the  *)
(* BinanceDataListener thread refreshes MarketData and notifies the        *)
(* ArbitrageEventListener, which queues the ticker; the ArbitrageThread    *)
(* takes it and has PetroniusArbiter.find look at every path through its   *)
(* market, on a copy of the data, while the listener goes on.              *)
(***************************************************************************)
EXTENDS MarketData, FiniteSetsExt

CONSTANTS Books,      \* best bid and ask, with their quantities, a market may show
          Unlisted,   \* symbols streamed though absent from the mapping read at start
          FireAsap,   \* what ARBITRAGE_FIRE_CHAIN_ASAP may be set to
          MaxEvents   \* bound: book ticker events the exchange sends

ASSUME SearchAssumption ==
  /\ Unlisted \cap DOMAIN BaseQuote = {}
  /\ FireAsap \subseteq BOOLEAN
  /\ \A book \in Books : IsTicker(book)
  /\ MaxEvents \in Nat

VARIABLES
  fire_chains_asap,        \* a setting of PetroniusArbiter, never changed
  lPc, lEvent,             \* BinanceDataListener.run and the event in hand
  events,                  \* how many it has taken
  data,                    \* MarketData.data: market |-> its latest ticker
  tickersQueue,            \* bus.tickers_queue
  aPc, aTicker,            \* ArbitrageThread.run and the ticker in hand
  snapshot,                \* price_volume_data
  toExamine,               \* paths the loop of find has ahead
  result, profitable,      \* of the running find
  positiveQueue,           \* bus.positive_arbitrages_queue, all ever put
  allQueue,                \* bus.all_arbitrages_queue, all ever put
  searched                 \* history: the last event a search of a market has seen

listener == <<lPc, lEvent, events, data>>
thread == <<aPc, aTicker, snapshot, toExamine, result, profitable, allQueue, searched>>
vars == <<fire_chains_asap, listener, tickersQueue, thread, positiveQueue>>

NoEvent == [symbol |-> "none", id |-> 0]

Init ==
  /\ fire_chains_asap \in FireAsap
  /\ lPc = "pop" /\ lEvent = NoEvent /\ events = 0
  /\ data = << >>
  /\ tickersQueue = << >>
  /\ aPc = "get" /\ aTicker = NoEvent
  /\ snapshot = << >> /\ toExamine = {} /\ result = {} /\ profitable = {}
  /\ positiveQueue = << >> /\ allQueue = << >>
  /\ searched = [m \in Markets |-> 0]

-----------------------------------------------------------------------------
(* BinanceDataListener.run *)

\* An event has its number as id, for the properties to tell which is newer.
Pop ==
  /\ lPc = "pop" /\ events < MaxEvents
  /\ events' = events + 1
  /\ \E s \in DOMAIN BaseQuote \cup Unlisted, book \in Books :
       lEvent' = [symbol |-> s, id |-> events', book |-> book]
  /\ lPc' = "put"
  /\ UNCHANGED <<fire_chains_asap, data, tickersQueue, thread, positiveQueue>>

\* ArbitrageEventListener only passes on symbols made of two ARBITRAGE_COINS.
IsPossibleTicker(s) == CoinsOf(BaseQuote[s]) \subseteq OnlyCoins

Queued(event) == [symbol |-> event.symbol, id |-> event.id]

\* market_data.put raises for a symbol it has no mapping for, and nothing in the
\* thread catches that.
Put ==
  /\ lPc = "put"
  /\ IF lEvent.symbol \in Unlisted
     THEN lPc' = "dead" /\ data' = data
     ELSE lPc' = "notify" /\ data' = Refreshed(data, BaseQuote[lEvent.symbol], lEvent)
  /\ UNCHANGED <<fire_chains_asap, lEvent, events, tickersQueue, thread, positiveQueue>>

\* The other listener, BinanceOrderListener, ignores tickers.
Notify ==
  /\ lPc = "notify"
  /\ tickersQueue' = IF IsPossibleTicker(lEvent.symbol)
                     THEN Append(tickersQueue, Queued(lEvent)) ELSE tickersQueue
  /\ lPc' = "pop" /\ lEvent' = NoEvent
  /\ UNCHANGED <<fire_chains_asap, events, data, thread, positiveQueue>>

-----------------------------------------------------------------------------
(* ArbitrageThread.run and PetroniusArbiter.find *)

\* Mutant of Get: only the last ticker of a backlog is searched for.
GetConflating ==
  /\ aPc = "get" /\ tickersQueue # << >>
  /\ aTicker' = tickersQueue[Len(tickersQueue)]
  /\ tickersQueue' = << >>
  /\ aPc' = "copy"
  /\ UNCHANGED <<fire_chains_asap, listener, snapshot, toExamine, result, profitable,
                 allQueue, searched, positiveQueue>>

Get ==
  /\ aPc = "get" /\ tickersQueue # << >>
  /\ aTicker' = Head(tickersQueue)
  /\ tickersQueue' = Tail(tickersQueue)
  /\ aPc' = "copy"
  /\ UNCHANGED <<fire_chains_asap, listener, snapshot, toExamine, result, profitable,
                 allQueue, searched, positiveQueue>>

\* Without any data there is nothing to look at, the result is empty.
Copy ==
  /\ aPc = "copy"
  /\ snapshot' = data
  /\ toExamine' = IF data = << >> THEN {} ELSE PathsThrough(BaseQuote[aTicker.symbol])
  /\ aPc' = IF data = << >> THEN "store" ELSE "examine"
  /\ UNCHANGED <<fire_chains_asap, listener, tickersQueue, aTicker, result, profitable,
                 allQueue, searched, positiveQueue>>

IsComplete(path, tickers) == \A i \in 1..3 : path.markets[i] \in DOMAIN tickers

\* "USD" in coin
IsUsd(coin) == coin \in UsdCoins

\* The steps of a path for the books of its three markets.
StepsOf(path, books) ==
  [i \in 1..3 |-> ChainStep(path.markets[i], books[i], path.coins[i + 1])]

\* Its profit, from the list of all of them: a set of constants, which TLC computes
\* only once.
Profits ==
  {[path |-> path, books |-> books, profit |-> Profit(StepsOf(path, books))] :
     path \in Paths3, books \in [1..3 -> Books]}
ProfitOf(path, books) == (CHOOSE p \in Profits : p.path = path /\ p.books = books).profit

\* The AChain of a path: which tickers it was computed from, its profit, and that
\* in USD.  The number of the search it comes from stands for timems.
ChainOf(path, tickers, usdPrice) ==
  LET profit == ProfitOf(path, [i \in 1..3 |-> tickers[path.markets[i]].book])
  IN [search |-> Len(allQueue), path |-> path,
      seen |-> [i \in 1..3 |-> tickers[path.markets[i]].id],
      profit |-> profit, profitUsd |-> ProfitUsd(IsUsd(path.coins[1]), profit, usdPrice)]

IsProfitable(chain) == chain.profit[1] > 0

\* Mutant of Examined: reads the data as it is by now.
ExaminedLive(path) ==
  IF IsComplete(path, data)
  THEN {ChainOf(path, data, price) : price \in PricesInUsd(data, path.coins[1])}
  ELSE {}

\* One round of the loop: the chains it may append (they differ in the USD price
\* only, which is read from the live data), none if a ticker is missing.
Examined(path) ==
  IF IsComplete(path, snapshot)
  THEN {ChainOf(path, snapshot, price) : price \in PricesInUsd(data, path.coins[1])}
  ELSE {}

\* The paths come in the order of the dictionary, some fixed order.
Skip ==
  /\ aPc = "examine" /\ toExamine # {}
  /\ LET path == CHOOSE p \in toExamine : TRUE
     IN Examined(path) = {} /\ toExamine' = toExamine \ {path}
  /\ UNCHANGED <<fire_chains_asap, listener, tickersQueue, aPc, aTicker, snapshot, result,
                 profitable, allQueue, searched, positiveQueue>>

Examine ==
  /\ aPc = "examine" /\ toExamine # {}
  /\ LET path == CHOOSE p \in toExamine : TRUE
     IN \E chain \in Examined(path) :
          /\ toExamine' = toExamine \ {path}
          /\ result' = result \cup {chain}
          /\ profitable' = IF IsProfitable(chain) THEN profitable \cup {chain} ELSE profitable
          /\ positiveQueue' = IF IsProfitable(chain) /\ fire_chains_asap
                              THEN Append(positiveQueue, {chain}) ELSE positiveQueue
  /\ UNCHANGED <<fire_chains_asap, listener, tickersQueue, aPc, aTicker, snapshot, allQueue,
                 searched>>

\* Mutant of Fire: an empty set is fired too.
FireEmpty ==
  /\ aPc = "examine" /\ toExamine = {}
  /\ positiveQueue' = IF ~fire_chains_asap
                      THEN Append(positiveQueue, profitable) ELSE positiveQueue
  /\ aPc' = "store"
  /\ UNCHANGED <<fire_chains_asap, listener, tickersQueue, aTicker, snapshot, toExamine,
                 result, profitable, allQueue, searched>>

\* The end of find.
Fire ==
  /\ aPc = "examine" /\ toExamine = {}
  /\ positiveQueue' = IF profitable # {} /\ ~fire_chains_asap
                      THEN Append(positiveQueue, profitable) ELSE positiveQueue
  /\ aPc' = "store"
  /\ UNCHANGED <<fire_chains_asap, listener, tickersQueue, aTicker, snapshot, toExamine,
                 result, profitable, allQueue, searched>>

\* all_arbitrages_queue.put, and back to the queue; find starts afresh next time.
Store ==
  /\ aPc = "store"
  /\ allQueue' = Append(allQueue, result)
  /\ searched' = [searched EXCEPT ![BaseQuote[aTicker.symbol]] =
                    IF BaseQuote[aTicker.symbol] \in DOMAIN snapshot
                    THEN snapshot[BaseQuote[aTicker.symbol]].id ELSE @]
  /\ aPc' = "get" /\ aTicker' = NoEvent
  /\ snapshot' = << >> /\ result' = {} /\ profitable' = {}
  /\ UNCHANGED <<fire_chains_asap, listener, tickersQueue, toExamine, positiveQueue>>

-----------------------------------------------------------------------------
ListenerNext == Pop \/ Put \/ Notify
ThreadNext == Get \/ Copy \/ Skip \/ Examine \/ Fire \/ Store

Next == ListenerNext \/ ThreadNext

Spec == Init /\ [][Next]_vars

-----------------------------------------------------------------------------
\* "Refresh data BEFORE notifying listeners" (listener.py:58): a ticker waiting
\* for its search, or being searched for, is in the data, or a newer one is.
RefreshedBeforeNotified ==
  LET isIn(ticker, tickers) == /\ BaseQuote[ticker.symbol] \in DOMAIN tickers
                               /\ tickers[BaseQuote[ticker.symbol]].id >= ticker.id
  IN /\ \A i \in DOMAIN tickersQueue : isIn(tickersQueue[i], data)
     /\ aPc \in {"examine", "store"} => isIn(aTicker, snapshot)

\* The triangles as one would define them: three coins, a market between any two.
AreTraded(a, b) == \E m \in Markets : CoinsOf(m) = {a, b}
Triangles == {t \in TradingCoins \X TradingCoins \X TradingCoins :
                AreTraded(t[1], t[2]) /\ AreTraded(t[2], t[3]) /\ AreTraded(t[3], t[1])}
Sides(t) == {{t[1], t[2]}, {t[2], t[3]}, {t[3], t[1]}}

\* A search looks at every triangle through the updated market whose three
\* tickers it knows, from each of its coins and both ways round, and at no other.
SearchIsComplete ==
  aPc = "store" =>
    {<<c.path.coins[1], c.path.coins[2], c.path.coins[3]>> : c \in result}
      = {t \in Triangles :
           /\ CoinsOf(BaseQuote[aTicker.symbol]) \in Sides(t)
           /\ Sides(t) \subseteq {CoinsOf(m) : m \in DOMAIN snapshot}}

\* All chains of a search are computed from one moment: they agree on which
\* ticker of a market they have seen, though the listener goes on meanwhile.
OneMomentPerSearch ==
  \A c, d \in result : \A i, j \in 1..3 :
    c.path.markets[i] = d.path.markets[j] => c.seen[i] = d.seen[j]

Stored == UNION {allQueue[i] : i \in DOMAIN allQueue}
Fired == UNION {positiveQueue[i] : i \in DOMAIN positiveQueue}

\* TradeManager is handed each profitable chain once, and each chain it is handed
\* also goes to the store of all chains; it is never handed an empty set, of
\* which it would take the first element.
FiredOnceAndStored ==
  /\ Fired = {c \in Stored : IsProfitable(c)}
               \cup IF fire_chains_asap \/ aPc = "store" THEN profitable ELSE {}
  /\ \A i \in DOMAIN positiveQueue : positiveQueue[i] # {}
  /\ \A i, j \in DOMAIN positiveQueue : i # j => positiveQueue[i] \cap positiveQueue[j] = {}

\* No update goes unseen: each time a market's ticker is in the data, some search
\* of that market comes to finish that has seen what the data then shows, though
\* the queue is a backlog and the searches lag behind the tickers.
NoUpdateUnseen ==
  \A m \in Markets :
    (m \in DOMAIN data) ~> (m \in DOMAIN data /\ searched[m] >= data[m].id)
=============================================================================
