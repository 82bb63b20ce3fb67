------------------------ MODULE ArbitrageSearchProofs ------------------------
(***************************************************************************)
(* What the search for arbitrage and the thread that stores all it finds   *)
(* guarantee, for any markets, coins, books, fees and number of events;    *)
(* what the arithmetic of a triangle does, for any tickers and fees; and   *)
(* what both together say of the chains a search hands over.               *)
(***************************************************************************)
EXTENDS ChainStore, TriangleVolume, FiniteSetTheorems, TLAPS

Listed == {BaseQuote[s] : s \in DOMAIN BaseQuote}
QueuedTickers == [symbol : {s \in DOMAIN BaseQuote : IsPossibleTicker(s)}, id : Nat]
MarketOf(ticker) == BaseQuote[ticker.symbol]

\* The data has the ticker of a market, or a newer one.
IsIn(ticker, shown) == /\ MarketOf(ticker) \in DOMAIN shown
                         /\ shown[MarketOf(ticker)].id >= ticker.id

\* What the listener has: no ticker in the data is newer than the event in hand.
DataInv ==
  /\ events \in Nat
  /\ lPc \in {"put", "notify"} => lEvent.id = events
  /\ lPc = "put" => lEvent.symbol \in DOMAIN BaseQuote \union Unlisted
  /\ lPc = "notify" => /\ lEvent.symbol \in DOMAIN BaseQuote
                       /\ IsPossibleTicker(lEvent.symbol) => IsIn(lEvent, data)
  /\ DOMAIN data \subseteq Listed /\ \A m \in DOMAIN data : data[m].id \in 0..events

\* What the search is to look at was in the data before it was queued.
QueueInv ==
  /\ tickersQueue \in Seq(QueuedTickers)
  /\ \A i \in DOMAIN tickersQueue : IsIn(tickersQueue[i], data)
  /\ aPc \in {"get", "copy", "examine", "store"}
  /\ aPc # "get" => aTicker \in QueuedTickers
  /\ aPc = "copy" => IsIn(aTicker, data)
  /\ aPc \in {"examine", "store"} => IsIn(aTicker, snapshot)
  /\ DOMAIN snapshot \subseteq Listed

\* The chains found so far: one for each complete path behind the loop, computed from
\* the copy.
Searching == aPc \in {"examine", "store"}
ToSearch == PathsThrough(MarketOf(aTicker))
ResultInv ==
  /\ ~Searching => result = {} /\ profitable = {}
  /\ Searching => toExamine \subseteq ToSearch
  /\ aPc = "store" => toExamine = {}
  /\ \A c \in result :
       /\ c.search = Len(allQueue)
       /\ c.path \in ToSearch \ toExamine /\ IsComplete(c.path, snapshot)
       /\ \A i \in 1..3 : c.seen[i] = snapshot[c.path.markets[i]].id
  /\ Searching => \A p \in ToSearch \ toExamine :
                    IsComplete(p, snapshot) => \E c \in result : c.path = p
  /\ \A c, d \in result : c.path = d.path => c = d
  /\ profitable = {c \in result : IsProfitable(c)}

IsSeq(q) == \E S : q \in Seq(S)

\* What was stored bears the number of its search, and is no more than the paths
\* through some market.
StoredInv ==
  /\ IsSeq(allQueue)
  /\ IsSeq(positiveQueue)
  /\ \A i \in DOMAIN allQueue : \A c \in allQueue[i] : c.search = i - 1
  /\ \A i \in DOMAIN allQueue :
       /\ IsFiniteSet(allQueue[i])
       /\ \E m \in Markets : Cardinality(allQueue[i]) <= Cardinality(PathsThrough(m))

SearchInv == DataInv /\ QueueInv /\ ResultInv /\ StoredInv /\ FiredOnceAndStored

\* What Firehose got and what waits for it come from the searches taken so far.
BatchInv ==
  /\ taken \in 0..Len(allQueue)
  /\ IsSeq(batches)
  /\ IsFiniteSet(chains_buffer)
  /\ chains_buffer # {} => ~IsFull(chains_buffer)
  /\ \A i \in DOMAIN batches : \A c \in batches[i] : c.search \in 0..(taken - 1)
  /\ \A c \in chains_buffer : c.search \in 0..(taken - 1)
  /\ BatchFits /\ StoredOnce


-----------------------------------------------------------------------------
(* The paths through the markets (MarketData). *)

\* The next coin of a market, seen from one of its coins, is the other one.
LEMMA NextCoinIsOther ==
  ASSUME NEW m \in Markets, NEW a \in CoinsOf(m)
  PROVE  /\ CoinsOf(m) = {a, NextCoin(m, a)}
         /\ m.base # m.quote
         /\ CoinsOf(m) \subseteq TradingCoins
         /\ m \in Listed
<1>1. PICK s \in DOMAIN BaseQuote : m = BaseQuote[s]
  BY DEF Markets
<1>2. m.base # m.quote
  BY <1>1, BaseQuoteAssumption
<1>3. CoinsOf(m) \subseteq TradingCoins
  BY DEF TradingCoins
<1>4. CoinsOf(m) = {a, NextCoin(m, a)}
  BY <1>2 DEF CoinsOf, NextCoin
<1> QED
  BY <1>1, <1>2, <1>3, <1>4 DEF Listed

\* The exchange lists no two markets of the same coins.
LEMMA CoinsTellMarket ==
  ASSUME NEW m \in Listed, NEW n \in Listed, CoinsOf(m) = CoinsOf(n)
  PROVE  m = n
BY BaseQuoteAssumption DEF Listed

\* A path leads from a coin through three markets back to it.
LEMMA PathSides ==
  ASSUME NEW p \in Paths3
  PROVE  /\ p = [coins |-> <<p.coins[1], p.coins[2], p.coins[3], p.coins[1]>>,
                 markets |-> <<p.markets[1], p.markets[2], p.markets[3]>>]
         /\ \A i \in 1..3 : p.markets[i] \in Markets /\ p.coins[i] \in TradingCoins
         /\ CoinsOf(p.markets[1]) = {p.coins[1], p.coins[2]}
         /\ CoinsOf(p.markets[2]) = {p.coins[2], p.coins[3]}
         /\ CoinsOf(p.markets[3]) = {p.coins[3], p.coins[1]}
<1>a. PICK a \in TradingCoins : p \in PathsFrom(a)
  BY Zenon DEF Paths3
<1>1. PICK m1 \in MarketPaths(a), m2 \in Markets, m3 \in Markets : p = PathOf(a, m1, m2, m3)
  BY <1>a, SMT DEF PathsFrom
<1>2. /\ p.markets[2] \in MarketPaths(p.coins[2])
      /\ p.markets[3] \in MarketPaths(p.coins[3])
      /\ NextCoin(p.markets[3], p.coins[3]) = p.coins[1]
  BY Zenon DEF Paths3, ComesBack
<1>3. /\ p.coins[1] = a /\ p.coins[2] = NextCoin(m1, a)
      /\ p.coins[3] = NextCoin(m2, p.coins[2])
      /\ p.coins = <<p.coins[1], p.coins[2], p.coins[3], p.coins[1]>>
      /\ p.markets[1] = m1 /\ p.markets[2] = m2 /\ p.markets[3] = m3
      /\ p.markets = <<p.markets[1], p.markets[2], p.markets[3]>>
  BY <1>1 DEF PathOf
<1>4. m1 \in Markets /\ a \in CoinsOf(m1)
  BY DEF MarketPaths
<1>5. p.coins[2] \in CoinsOf(m2) /\ p.coins[3] \in CoinsOf(m3)
  BY <1>2, <1>3 DEF MarketPaths
<1>6. CoinsOf(m1) = {p.coins[1], p.coins[2]} /\ CoinsOf(m1) \subseteq TradingCoins
  BY <1>3, <1>4, NextCoinIsOther
<1>7. CoinsOf(m2) = {p.coins[2], p.coins[3]} /\ CoinsOf(m2) \subseteq TradingCoins
  BY <1>3, <1>5, NextCoinIsOther
<1>8. CoinsOf(m3) = {p.coins[3], p.coins[1]}
  BY <1>2, <1>3, <1>5, NextCoinIsOther
<1>9. \A i \in 1..3 : p.markets[i] \in Markets /\ p.coins[i] \in TradingCoins
  <2>1. \A i \in 1..3 : i = 1 \/ i = 2 \/ i = 3
    OBVIOUS
  <2> QED
    BY <1>3, <1>4, <1>6, <1>7, <2>1
<1>10. p = [coins |-> <<p.coins[1], p.coins[2], p.coins[3], p.coins[1]>>,
            markets |-> <<p.markets[1], p.markets[2], p.markets[3]>>]
  BY <1>1, <1>3 DEF PathOf
<1> QED
  BY <1>3, <1>6, <1>7, <1>8, <1>9, <1>10

\* Three markets between three coins make a path.
LEMMA SidesMakePath ==
  ASSUME NEW a, NEW b, NEW c, NEW m1 \in Markets, NEW m2 \in Markets, NEW m3 \in Markets,
         CoinsOf(m1) = {a, b}, CoinsOf(m2) = {b, c}, CoinsOf(m3) = {c, a}
  PROVE  [coins |-> <<a, b, c, a>>, markets |-> <<m1, m2, m3>>] \in Paths3
<1> DEFINE p == [coins |-> <<a, b, c, a>>, markets |-> <<m1, m2, m3>>]
<1>1. a # b /\ b # c /\ c # a
  <2>1. m1.base # m1.quote /\ m2.base # m2.quote /\ m3.base # m3.quote
    BY NextCoinIsOther DEF CoinsOf
  <2> QED
    BY <2>1 DEF CoinsOf
<1>2. NextCoin(m1, a) = b /\ NextCoin(m2, b) = c /\ NextCoin(m3, c) = a
  BY <1>1 DEF CoinsOf, NextCoin
<1>3. a \in TradingCoins /\ m1 \in MarketPaths(a)
  BY DEF TradingCoins, MarketPaths
<1>4. m2 \in MarketPaths(b) /\ m3 \in MarketPaths(c)
  BY DEF MarketPaths
<1>5. /\ p.coins[1] = a /\ p.coins[2] = b /\ p.coins[3] = c
      /\ p.markets[2] = m2 /\ p.markets[3] = m3
  OBVIOUS
<1>6. p = PathOf(a, m1, m2, m3)
  BY <1>2 DEF PathOf
<1> HIDE DEF p
<1>7. p \in PathsFrom(a)
  BY <1>3, <1>6, SMT DEF PathsFrom
<1>8. ComesBack(p)
  BY <1>1, <1>2, <1>4, <1>5 DEF ComesBack
<1> QED
  BY <1>3, <1>7, <1>8, Zenon DEF p, Paths3

\* What a function makes of the elements of a finite set is a finite set.
LEMMA ImageIsFinite ==
  ASSUME NEW S, IsFiniteSet(S), NEW f, DOMAIN f = S
  PROVE  IsFiniteSet({f[x] : x \in S})
<1> DEFINE T == {f[x] : x \in S}
           g == [x \in S |-> f[x]]
<1>1. g \in Surjection(S, T)
  BY DEF Surjection
<1> QED
  BY <1>1, FS_Surjection

\* There are finitely many markets, coins and paths.
LEMMA PathsAreFinite ==
  /\ IsFiniteSet(Paths3)
  /\ \A m : PathsThrough(m) \subseteq Paths3 /\ IsFiniteSet(PathsThrough(m))
<1> DEFINE base == [m \in Markets |-> m.base]
           quote == [m \in Markets |-> m.quote]
<1>1. IsFiniteSet(Markets)
  <2>1. IsFiniteSet({BaseQuote[s] : s \in DOMAIN BaseQuote})
    BY ImageIsFinite, BaseQuoteAssumption
  <2> QED
    BY <2>1, FS_Subset DEF Markets
<1>2. IsFiniteSet(TradingCoins)
  <2>1. IsFiniteSet({base[m] : m \in Markets}) /\ IsFiniteSet({quote[m] : m \in Markets})
    <3>1. DOMAIN base = Markets /\ DOMAIN quote = Markets
      OBVIOUS
    <3> HIDE DEF base, quote
    <3> QED
      BY <1>1, <3>1, ImageIsFinite
  <2>2. TradingCoins = {base[m] : m \in Markets} \cup {quote[m] : m \in Markets}
    BY DEF TradingCoins, CoinsOf
  <2> HIDE DEF base, quote
  <2> QED
    BY <2>1, <2>2, FS_Union
<1> DEFINE tuples == (TradingCoins \X Markets) \X (Markets \X Markets)
           path == [t \in tuples |-> PathOf(t[1][1], t[1][2], t[2][1], t[2][2])]
<1>3. IsFiniteSet(tuples)
  <2>1. IsFiniteSet(TradingCoins \X Markets) /\ IsFiniteSet(Markets \X Markets)
    BY <1>1, <1>2, FS_Product
  <2> QED
    BY <2>1, FS_Product
<1>4. Paths3 \subseteq {path[t] : t \in tuples}
  <2> SUFFICES ASSUME NEW p \in Paths3 PROVE \E t \in tuples : p = path[t]
    OBVIOUS
  <2>1. PICK a \in TradingCoins : p \in PathsFrom(a)
    BY Zenon DEF Paths3
  <2>2. PICK m1 \in MarketPaths(a), m2 \in Markets, m3 \in Markets : p = PathOf(a, m1, m2, m3)
    BY <2>1, SMT DEF PathsFrom
  <2>3. m1 \in Markets
    BY DEF MarketPaths
  <2>4. <<<<a, m1>>, <<m2, m3>>>> \in tuples
    BY <2>3
  <2>5. path[<<<<a, m1>>, <<m2, m3>>>>] = PathOf(a, m1, m2, m3)
    BY <2>4
  <2> QED
    BY <2>2, <2>4, <2>5
<1>5. IsFiniteSet({path[t] : t \in tuples})
  <2>1. DOMAIN path = tuples
    OBVIOUS
  <2> HIDE DEF path, tuples
  <2> QED
    BY <1>3, <2>1, ImageIsFinite
<1>6. IsFiniteSet(Paths3)
  <2> HIDE DEF path, tuples
  <2> QED
    BY <1>4, <1>5, FS_Subset
<1> QED
  BY <1>6, FS_Subset DEF PathsThrough

\* The symbols ArbitrageEventListener passes on are those of the markets traded.
LEMMA PossibleTickerIsTraded ==
  ASSUME NEW s \in DOMAIN BaseQuote, IsPossibleTicker(s)
  PROVE  BaseQuote[s] \in Markets /\ InTradingCoins(BaseQuote[s])
<1>1. BaseQuote[s] \in Markets
  BY DEF IsPossibleTicker, Markets
<1> QED
  BY <1>1 DEF InTradingCoins, TradingCoins

\* The triangles through a market that can be computed from some tickers are the coins
\* of the paths through it.
LEMMA PathsAreTriangles ==
  ASSUME NEW market \in Listed, NEW shown, DOMAIN shown \subseteq Listed
  PROVE  {<<p.coins[1], p.coins[2], p.coins[3]>> :
            p \in {q \in PathsThrough(market) : IsComplete(q, shown)}}
           = {t \in Triangles : /\ CoinsOf(market) \in Sides(t)
                                /\ Sides(t) \subseteq {CoinsOf(m) : m \in DOMAIN shown}}
<1>1. ASSUME NEW p \in PathsThrough(market), IsComplete(p, shown),
             NEW t, t = <<p.coins[1], p.coins[2], p.coins[3]>>
      PROVE  /\ t \in Triangles /\ CoinsOf(market) \in Sides(t)
             /\ Sides(t) \subseteq {CoinsOf(m) : m \in DOMAIN shown}
  <2>1. p \in Paths3 /\ \E i \in 1..3 : p.markets[i] = market
    BY DEF PathsThrough
  <2>2. /\ p.markets[1] \in Markets /\ p.markets[2] \in Markets /\ p.markets[3] \in Markets
        /\ p.coins[1] \in TradingCoins /\ p.coins[2] \in TradingCoins
        /\ p.coins[3] \in TradingCoins
    BY <2>1, PathSides
  <2>3. /\ CoinsOf(p.markets[1]) = {t[1], t[2]} /\ CoinsOf(p.markets[2]) = {t[2], t[3]}
        /\ CoinsOf(p.markets[3]) = {t[3], t[1]}
    BY <1>1, <2>1, PathSides
  <2>4. t \in Triangles
    <3>1. AreTraded(t[1], t[2]) /\ AreTraded(t[2], t[3]) /\ AreTraded(t[3], t[1])
      BY <2>2, <2>3 DEF AreTraded
    <3>2. t \in TradingCoins \X TradingCoins \X TradingCoins
      BY <1>1, <2>2
    <3> QED
      BY <3>1, <3>2 DEF Triangles
  <2>5. /\ p.markets[1] \in DOMAIN shown /\ p.markets[2] \in DOMAIN shown
        /\ p.markets[3] \in DOMAIN shown
    BY <1>1 DEF IsComplete
  <2>6. Sides(t) \subseteq {CoinsOf(m) : m \in DOMAIN shown}
    BY <2>3, <2>5 DEF Sides
  <2>7. market = p.markets[1] \/ market = p.markets[2] \/ market = p.markets[3]
    BY <2>1
  <2> QED
    BY <2>3, <2>4, <2>6, <2>7 DEF Sides
<1>2. ASSUME NEW t \in Triangles, CoinsOf(market) \in Sides(t),
             Sides(t) \subseteq {CoinsOf(m) : m \in DOMAIN shown}
      PROVE  \E p \in PathsThrough(market) :
               IsComplete(p, shown) /\ t = <<p.coins[1], p.coins[2], p.coins[3]>>
  <2>1. PICK m1 \in Markets, m2 \in Markets, m3 \in Markets :
          CoinsOf(m1) = {t[1], t[2]} /\ CoinsOf(m2) = {t[2], t[3]} /\ CoinsOf(m3) = {t[3], t[1]}
    BY DEF Triangles, AreTraded
  <2>2. m1 \in Listed /\ m2 \in Listed /\ m3 \in Listed
    BY DEF Listed, Markets
  <2>3. ASSUME NEW m \in {m1, m2, m3} PROVE m \in DOMAIN shown
    <3>1. CoinsOf(m) \in Sides(t)
      BY <2>1 DEF Sides
    <3>2. PICK n \in DOMAIN shown : CoinsOf(m) = CoinsOf(n)
      BY <1>2, <3>1
    <3> QED
      BY <2>2, <3>2, CoinsTellMarket
  <2> DEFINE p == [coins |-> <<t[1], t[2], t[3], t[1]>>, markets |-> <<m1, m2, m3>>]
  <2>4. p \in Paths3
    BY <2>1, SidesMakePath
  <2>5. /\ p.markets[1] = m1 /\ p.markets[2] = m2 /\ p.markets[3] = m3
        /\ p.coins[1] = t[1] /\ p.coins[2] = t[2] /\ p.coins[3] = t[3]
    OBVIOUS
  <2> HIDE DEF p
  <2>6. IsComplete(p, shown)
    BY <2>3, <2>5 DEF IsComplete
  <2>7. market = m1 \/ market = m2 \/ market = m3
    <3>1. \/ CoinsOf(market) = CoinsOf(m1)
          \/ CoinsOf(market) = CoinsOf(m2)
          \/ CoinsOf(market) = CoinsOf(m3)
      BY <1>2, <2>1 DEF Sides
    <3> QED
      BY <2>2, <3>1, CoinsTellMarket
  <2>8. p \in PathsThrough(market)
    BY <2>4, <2>5, <2>7 DEF PathsThrough
  <2>9. t = <<p.coins[1], p.coins[2], p.coins[3]>>
    BY <2>5 DEF Triangles
  <2> QED
    BY <2>6, <2>8, <2>9
<1> QED
  BY <1>1, <1>2

-----------------------------------------------------------------------------
(* Queues that only grow. *)

\* What a queue is after one put.
LEMMA PutAtEnd ==
  ASSUME NEW q, IsSeq(q), NEW e
  PROVE  /\ IsSeq(Append(q, e))
         /\ Len(q) \in Nat /\ Len(Append(q, e)) = Len(q) + 1
         /\ DOMAIN q = 1..Len(q) /\ DOMAIN Append(q, e) = 1..(Len(q) + 1)
         /\ \A i \in 1..Len(q) : Append(q, e)[i] = q[i]
         /\ Append(q, e)[Len(q) + 1] = e
<1>1. PICK S : q \in Seq(S)
  BY DEF IsSeq
<1>2. q \in Seq(S \cup {e})
  BY <1>1
<1>3. Append(q, e) \in Seq(S \cup {e})
  BY <1>2
<1> QED
  BY <1>2, <1>3 DEF IsSeq

\* All that is in the queue, after one put.
LEMMA AllPut ==
  ASSUME NEW q, IsSeq(q), NEW e, NEW r, r = Append(q, e)
  PROVE  UNION {r[i] : i \in DOMAIN r} = (UNION {q[i] : i \in DOMAIN q}) \cup e
<1> DEFINE n == Len(q)
<1>1. /\ n \in Nat /\ DOMAIN q = 1..n /\ DOMAIN r = 1..(n + 1)
      /\ \A i \in 1..n : r[i] = q[i]
      /\ r[n + 1] = e
  BY PutAtEnd
<1> HIDE DEF n
<1>2. ASSUME NEW i \in DOMAIN r PROVE (i \in DOMAIN q /\ r[i] = q[i]) \/ r[i] = e
  BY <1>1
<1>3. \A i \in DOMAIN q : i \in DOMAIN r /\ r[i] = q[i]
  BY <1>1
<1>4. n + 1 \in DOMAIN r
  BY <1>1
<1>5. ASSUME NEW x PROVE
        x \in UNION {r[i] : i \in DOMAIN r} <=> x \in (UNION {q[i] : i \in DOMAIN q}) \cup e
  <2>1. x \in UNION {r[i] : i \in DOMAIN r} <=> \E i \in DOMAIN r : x \in r[i]
    BY Zenon
  <2>2. x \in UNION {q[i] : i \in DOMAIN q} <=> \E i \in DOMAIN q : x \in q[i]
    BY Zenon
  <2>3. ASSUME NEW i \in DOMAIN r, x \in r[i]
        PROVE  x \in e \/ \E j \in DOMAIN q : x \in q[j]
    BY <1>2, <2>3
  <2>4. ASSUME NEW i \in DOMAIN q, x \in q[i] PROVE \E j \in DOMAIN r : x \in r[j]
    BY <1>3, <2>4
  <2>5. x \in e => \E j \in DOMAIN r : x \in r[j]
    BY <1>1, <1>4
  <2> QED
    BY <2>1, <2>2, <2>3, <2>4, <2>5
<1>6. UNION {r[i] : i \in DOMAIN r} = (UNION {q[i] : i \in DOMAIN q}) \cup e
  BY <1>5, Zenon
<1> QED
  BY <1>6

-----------------------------------------------------------------------------
(* The listener: no ticker waits for its search that the data does not have. *)

\* Initially all is empty.
LEMMA SearchInitially ==
  ASSUME Init
  PROVE  DataInv /\ QueueInv
<1>1. /\ events = 0 /\ lPc = "pop" /\ data = << >> /\ tickersQueue = << >>
      /\ aPc = "get" /\ snapshot = << >>
  BY DEF Init
<1>2. DOMAIN data = {} /\ DOMAIN tickersQueue = {} /\ DOMAIN snapshot = {}
  BY <1>1
<1>3. DataInv
  BY <1>1, <1>2 DEF DataInv
<1>4. tickersQueue \in Seq(QueuedTickers)
  BY <1>1
<1> QED
  BY <1>1, <1>2, <1>3, <1>4 DEF QueueInv

\* A ticker put into the data is there afterwards, and no other is touched: an older
\* one may only be replaced by the newest.
LEMMA RefreshedKeeps ==
  ASSUME DataInv, NEW s \in DOMAIN BaseQuote, NEW ticker, ticker.symbol = s,
         ticker.id = events, NEW fresh, fresh = Refreshed(data, BaseQuote[s], ticker)
  PROVE  /\ DOMAIN fresh \subseteq Listed
         /\ \A m \in DOMAIN fresh : fresh[m].id \in 0..events
         /\ IsPossibleTicker(s) => IsIn(ticker, fresh)
         /\ \A old : old.id \in Nat /\ IsIn(old, data) => IsIn(old, fresh)
<1> DEFINE market == BaseQuote[s]
<1>1. CASE ~InTradingCoins(market)
  <2>1. fresh = data
    BY <1>1 DEF Refreshed
  <2>2. ~IsPossibleTicker(s)
    BY <1>1, PossibleTickerIsTraded
  <2> QED
    BY <2>1, <2>2 DEF DataInv
<1>2. CASE InTradingCoins(market)
  <2>1. fresh = [m \in DOMAIN data \union {market} |->
                   IF m = market THEN ticker ELSE data[m]]
    BY <1>2 DEF Refreshed
  <2>2. /\ DOMAIN fresh = DOMAIN data \union {market}
        /\ fresh[market] = ticker
        /\ \A m \in DOMAIN data : m # market => fresh[m] = data[m]
    BY <2>1
  <2>3. market \in Listed /\ MarketOf(ticker) = market
    BY DEF Listed, MarketOf
  <2>4. events \in Nat /\ DOMAIN data \subseteq Listed
        /\ \A m \in DOMAIN data : data[m].id \in 0..events
    BY DEF DataInv
  <2>5. \A m \in DOMAIN fresh : fresh[m].id \in 0..events
    BY <2>2, <2>4
  <2>6. IsIn(ticker, fresh)
    BY <2>2, <2>3, <2>4 DEF IsIn
  <2>7. ASSUME NEW old, old.id \in Nat, IsIn(old, data) PROVE IsIn(old, fresh)
    <3>1. CASE MarketOf(old) = market
      <4>1. data[market].id >= old.id /\ market \in DOMAIN data
        BY <2>7, <3>1 DEF IsIn
      <4>2. data[market].id \in 0..events
        BY <2>4, <4>1
      <4> QED
        BY <2>2, <2>4, <2>7, <3>1, <4>1, <4>2 DEF IsIn
    <3>2. CASE MarketOf(old) # market
      BY <2>2, <2>7, <3>2 DEF IsIn
    <3> QED
      BY <3>1, <3>2
  <2> QED
    BY <2>2, <2>3, <2>4, <2>5, <2>6, <2>7
<1> QED
  BY <1>1, <1>2

\* The listener's steps, and the thread's, keep the data ahead of the tickers queued.
LEMMA DataInductive ==
  ASSUME DataInv, QueueInv, [Next]_vars
  PROVE  DataInv' /\ QueueInv'
<1> USE DEF QueueInv
<1> DEFINE listenerVars == <<lPc, lEvent, events, data>>
           queueVars == <<data, tickersQueue, aPc, aTicker, snapshot>>
<1>a. ASSUME UNCHANGED listenerVars PROVE DataInv'
  BY <1>a DEF DataInv
<1>b. ASSUME UNCHANGED queueVars PROVE QueueInv'
  BY <1>b
<1>c. /\ events \in Nat
      /\ \A i \in DOMAIN tickersQueue : tickersQueue[i] \in QueuedTickers /\ tickersQueue[i].id \in Nat
      /\ \A t \in QueuedTickers : t.id \in Nat
      /\ DOMAIN tickersQueue = 1..Len(tickersQueue) /\ Len(tickersQueue) \in Nat
  <2>1. \A t \in QueuedTickers : t.id \in Nat
    BY DEF QueuedTickers
  <2>2. events \in Nat
    BY DEF DataInv
  <2>3. tickersQueue \in Seq(QueuedTickers)
    OBVIOUS
  <2> QED
    BY <2>1, <2>2, <2>3
<1> HIDE DEF listenerVars, queueVars
<1>1. ASSUME Pop PROVE DataInv' /\ QueueInv'
  <2>1. /\ events' = events + 1 /\ data' = data /\ lPc' = "put" /\ UNCHANGED queueVars
        /\ lEvent'.symbol \in DOMAIN BaseQuote \union Unlisted /\ lEvent'.id = events'
    BY <1>1 DEF Pop, thread, queueVars
  <2>2. \A m \in DOMAIN data : data[m].id \in 0..events'
    BY <1>c, <2>1 DEF DataInv
  <2>3. DataInv'
    BY <1>c, <2>1, <2>2 DEF DataInv
  <2> QED
    BY <1>b, <2>1, <2>3
<1>2. ASSUME Put PROVE DataInv' /\ QueueInv'
  <2>1. lPc = "put" /\ UNCHANGED <<lEvent, events, tickersQueue, thread>>
    BY <1>2 DEF Put
  <2>2. lEvent.id = events /\ lEvent.symbol \in DOMAIN BaseQuote \union Unlisted
    BY <2>1 DEF DataInv
  <2>3. CASE lEvent.symbol \in Unlisted
    <3>1. lPc' = "dead" /\ data' = data
      BY <1>2, <2>3 DEF Put
    <3> QED
      BY <1>b, <2>1, <3>1 DEF DataInv, thread, queueVars
  <2>4. CASE lEvent.symbol \notin Unlisted
    <3>1. lPc' = "notify" /\ data' = Refreshed(data, BaseQuote[lEvent.symbol], lEvent)
      BY <1>2, <2>4 DEF Put
    <3>2. lEvent.symbol \in DOMAIN BaseQuote
      BY <2>2, <2>4
    <3>3. /\ DOMAIN data' \subseteq Listed
          /\ \A m \in DOMAIN data' : data'[m].id \in 0..events
          /\ IsPossibleTicker(lEvent.symbol) => IsIn(lEvent, data')
          /\ \A old : old.id \in Nat /\ IsIn(old, data) => IsIn(old, data')
      BY <2>2, <3>1, <3>2, RefreshedKeeps
    <3>4. DataInv'
      BY <1>c, <2>1, <2>2, <3>1, <3>2, <3>3 DEF DataInv
    <3>5. /\ aPc' = aPc /\ aTicker' = aTicker /\ snapshot' = snapshot
          /\ tickersQueue' = tickersQueue
      BY <2>1 DEF thread
    <3>6. /\ \A i \in DOMAIN tickersQueue : IsIn(tickersQueue[i], data')
          /\ aPc = "copy" => IsIn(aTicker, data')
      BY <1>c, <3>3
    <3>7. QueueInv'
      BY <3>5, <3>6
    <3> QED
      BY <3>4, <3>7
  <2> QED
    BY <2>3, <2>4
<1>3. ASSUME Notify PROVE DataInv' /\ QueueInv'
  <2>1. lPc = "notify" /\ lPc' = "pop" /\ UNCHANGED <<events, data, thread>>
    BY <1>3 DEF Notify
  <2>2. DataInv'
    BY <2>1 DEF DataInv
  <2>3. CASE ~IsPossibleTicker(lEvent.symbol)
    BY <1>3, <1>b, <2>1, <2>2, <2>3 DEF Notify, thread, queueVars
  <2>4. CASE IsPossibleTicker(lEvent.symbol)
    <3>1. tickersQueue' = Append(tickersQueue, Queued(lEvent))
      BY <1>3, <2>4 DEF Notify
    <3>2. lEvent.symbol \in DOMAIN BaseQuote /\ lEvent.id = events /\ IsIn(lEvent, data)
      BY <2>1, <2>4 DEF DataInv
    <3>3. Queued(lEvent) \in QueuedTickers /\ IsIn(Queued(lEvent), data)
      BY <1>c, <2>4, <3>2 DEF Queued, QueuedTickers, IsIn, MarketOf
    <3>4. /\ aPc' = aPc /\ aTicker' = aTicker /\ snapshot' = snapshot /\ data' = data
      BY <2>1 DEF thread
    <3>5. tickersQueue' \in Seq(QueuedTickers)
      BY <3>1, <3>3
    <3>6. \A i \in DOMAIN tickersQueue' : IsIn(tickersQueue'[i], data)
      BY <1>c, <3>1, <3>3
    <3>7. QueueInv'
      BY <3>4, <3>5, <3>6
    <3> QED
      BY <2>2, <3>7
  <2> QED
    BY <2>3, <2>4
<1>4. ASSUME Get PROVE DataInv' /\ QueueInv'
  <2>1. /\ aPc' = "copy" /\ aTicker' = Head(tickersQueue) /\ tickersQueue' = Tail(tickersQueue)
        /\ tickersQueue # << >> /\ UNCHANGED <<listener, snapshot>>
    BY <1>4 DEF Get
  <2>2. DataInv' /\ data' = data
    BY <1>a, <2>1 DEF listener, listenerVars
  <2>3. aTicker' = tickersQueue[1] /\ 1 \in DOMAIN tickersQueue
    BY <1>c, <2>1
  <2>4. /\ tickersQueue' \in Seq(QueuedTickers)
        /\ \A i \in DOMAIN tickersQueue' : i + 1 \in DOMAIN tickersQueue
                                           /\ tickersQueue'[i] = tickersQueue[i + 1]
    BY <2>1
  <2>5. aTicker' \in QueuedTickers /\ IsIn(aTicker', data')
    BY <1>c, <2>2, <2>3
  <2>6. \A i \in DOMAIN tickersQueue' : IsIn(tickersQueue'[i], data')
    BY <2>2, <2>4
  <2>7. QueueInv'
    BY <2>1, <2>4, <2>5, <2>6
  <2> QED
    BY <2>2, <2>7
<1>5. ASSUME Copy PROVE DataInv' /\ QueueInv'
  <2>1. /\ aPc = "copy" /\ aPc' \in {"examine", "store"} /\ snapshot' = data
        /\ UNCHANGED <<listener, tickersQueue, aTicker>>
    BY <1>5 DEF Copy
  <2>2. DataInv' /\ data' = data
    BY <1>a, <2>1 DEF listener, listenerVars
  <2>3. DOMAIN data \subseteq Listed
    BY DEF DataInv
  <2> QED
    BY <2>1, <2>2, <2>3
<1>6. ASSUME Skip \/ Examine PROVE DataInv' /\ QueueInv'
  <2>1. UNCHANGED <<listener, tickersQueue, aPc, aTicker, snapshot>>
    BY <1>6 DEF Skip, Examine
  <2> QED
    BY <1>a, <1>b, <2>1 DEF listener, listenerVars, queueVars
<1>7. ASSUME Fire PROVE DataInv' /\ QueueInv'
  <2>1. /\ aPc = "examine" /\ aPc' = "store"
        /\ UNCHANGED <<listener, tickersQueue, aTicker, snapshot>>
    BY <1>7 DEF Fire
  <2> QED
    BY <1>a, <2>1 DEF listener, listenerVars
<1>8. ASSUME Store PROVE DataInv' /\ QueueInv'
  <2>1. aPc' = "get" /\ snapshot' = << >> /\ UNCHANGED <<listener, tickersQueue>>
    BY <1>8 DEF Store
  <2>2. DOMAIN snapshot' = {}
    BY <2>1
  <2> QED
    BY <1>a, <2>1, <2>2 DEF listener, listenerVars
<1>9. ASSUME UNCHANGED vars PROVE DataInv' /\ QueueInv'
  BY <1>9, <1>a, <1>b DEF vars, listener, thread, listenerVars, queueVars
<1> QED
  BY <1>1, <1>2, <1>3, <1>4, <1>5, <1>6, <1>7, <1>8, <1>9
     DEF Next, ListenerNext, ThreadNext

-----------------------------------------------------------------------------
(* The search: what it has found stems from the copy, path by path. *)

\* The chains a round of the loop may append: none if a ticker is missing, otherwise
\* one for some price in USD.
LEMMA ExaminedChains ==
  ASSUME NEW path
  PROVE  /\ Examined(path) = {} => ~IsComplete(path, snapshot)
         /\ \A chain \in Examined(path) :
              /\ IsComplete(path, snapshot)
              /\ chain.search = Len(allQueue) /\ chain.path = path
              /\ \A i \in 1..3 : chain.seen[i] = snapshot[path.markets[i]].id
<1>1. PricesInUsd(data, path.coins[1]) # {}
  BY DEF PricesInUsd
<1>2. CASE IsComplete(path, snapshot)
  <2>1. Examined(path) = {ChainOf(path, snapshot, price) :
                            price \in PricesInUsd(data, path.coins[1])}
    BY <1>2 DEF Examined
  <2>2. ASSUME NEW price, NEW chain, chain = ChainOf(path, snapshot, price)
        PROVE  /\ chain.search = Len(allQueue) /\ chain.path = path
               /\ \A i \in 1..3 : chain.seen[i] = snapshot[path.markets[i]].id
    BY <2>2 DEF ChainOf
  <2> QED
    BY <1>1, <1>2, <2>1, <2>2
<1>3. CASE ~IsComplete(path, snapshot)
  BY <1>3 DEF Examined
<1> QED
  BY <1>2, <1>3

\* Each step of the search keeps what it has found the chains of the paths behind it.
LEMMA ResultInductive ==
  ASSUME QueueInv, ResultInv, [Next]_vars
  PROVE  ResultInv'
<1> DEFINE searchVars == <<aPc, aTicker, snapshot, toExamine, result, profitable, allQueue>>
<1>a. ASSUME UNCHANGED searchVars PROVE ResultInv'
  BY <1>a DEF ResultInv, Searching, ToSearch
<1> HIDE DEF searchVars
<1>1. CASE ListenerNext \/ UNCHANGED vars
  <2>1. UNCHANGED thread
    BY <1>1 DEF ListenerNext, Pop, Put, Notify, vars
  <2> QED
    BY <1>a, <2>1 DEF thread, searchVars
<1>2. CASE Get
  <2>1. /\ aPc = "get" /\ aPc' = "copy"
        /\ UNCHANGED <<snapshot, toExamine, result, profitable, allQueue>>
    BY <1>2 DEF Get
  <2>2. result = {} /\ profitable = {} /\ ~Searching'
    BY <2>1 DEF ResultInv, Searching
  <2>3. result' = {} /\ profitable' = {} /\ aPc' # "store"
    BY <2>1, <2>2
  <2> QED
    BY <2>2, <2>3 DEF ResultInv
<1>3. CASE Copy
  <2>1. /\ aPc = "copy" /\ data # << >> /\ snapshot' = data
        /\ UNCHANGED <<listener, tickersQueue, aTicker, result, profitable, allQueue>>
    <3>1. aPc = "copy"
      BY <1>3 DEF Copy
    <3>2. MarketOf(aTicker) \in DOMAIN data
      BY <3>1 DEF QueueInv, IsIn
    <3>3. DOMAIN << >> = {}
      OBVIOUS
    <3>4. data # << >>
      BY <3>2, <3>3
    <3> QED
      BY <1>3, <3>1, <3>4 DEF Copy
  <2>2. toExamine' = ToSearch /\ aPc' = "examine" /\ ToSearch' = ToSearch
    BY <1>3, <2>1 DEF Copy, ToSearch, MarketOf
  <2>3. result = {} /\ profitable = {}
    BY <2>1 DEF ResultInv, Searching
  <2>4. result' = {} /\ profitable' = {} /\ Searching'
    BY <2>1, <2>2, <2>3 DEF Searching
  <2> QED
    BY <2>2, <2>4 DEF ResultInv
<1>4. CASE Skip
  <2>1. /\ aPc = "examine" /\ toExamine # {}
        /\ UNCHANGED <<aPc, aTicker, snapshot, result, profitable, allQueue>>
    BY <1>4 DEF Skip
  <2>2. PICK path \in toExamine : Examined(path) = {} /\ toExamine' = toExamine \ {path}
    BY <1>4, <2>1 DEF Skip
  <2>3. ~IsComplete(path, snapshot)
    BY <2>2, ExaminedChains
  <2>4. ToSearch' = ToSearch /\ (Searching' <=> Searching) /\ Searching
    BY <2>1 DEF ToSearch, Searching
  <2>5. ToSearch' \ toExamine' = (ToSearch \ toExamine) \union {path}
    BY <2>2, <2>4 DEF ResultInv
  <2>6. \A c \in result' : c.path \in ToSearch' \ toExamine' /\ IsComplete(c.path, snapshot')
    BY <2>1, <2>5 DEF ResultInv
  <2>7. \A p \in ToSearch' \ toExamine' :
          IsComplete(p, snapshot') => \E c \in result' : c.path = p
    BY <2>1, <2>3, <2>4, <2>5 DEF ResultInv
  <2> QED
    BY <2>1, <2>2, <2>4, <2>6, <2>7 DEF ResultInv
<1>5. CASE Examine
  <2>1. /\ aPc = "examine" /\ toExamine # {}
        /\ UNCHANGED <<aPc, aTicker, snapshot, allQueue>>
    BY <1>5 DEF Examine
  <2>2. PICK path \in toExamine : \E chain \in Examined(path) :
          /\ toExamine' = toExamine \ {path}
          /\ result' = result \union {chain}
          /\ profitable' = IF IsProfitable(chain) THEN profitable \union {chain} ELSE profitable
    BY <1>5, <2>1 DEF Examine
  <2>3. PICK chain \in Examined(path) :
          /\ toExamine' = toExamine \ {path}
          /\ result' = result \union {chain}
          /\ profitable' = IF IsProfitable(chain) THEN profitable \union {chain} ELSE profitable
    BY <2>2
  <2>4. /\ IsComplete(path, snapshot)
        /\ chain.search = Len(allQueue) /\ chain.path = path
        /\ \A i \in 1..3 : chain.seen[i] = snapshot[path.markets[i]].id
    BY ExaminedChains
  <2>5. ToSearch' = ToSearch /\ (Searching' <=> Searching) /\ Searching /\ path \in ToSearch
    BY <2>1 DEF ToSearch, Searching, ResultInv
  <2>6. ToSearch' \ toExamine' = (ToSearch \ toExamine) \union {path}
    BY <2>3, <2>5 DEF ResultInv
  <2>7. \A c \in result' :
          /\ c.search = Len(allQueue')
          /\ c.path \in ToSearch' \ toExamine' /\ IsComplete(c.path, snapshot')
          /\ \A i \in 1..3 : c.seen[i] = snapshot'[c.path.markets[i]].id
    BY <2>1, <2>3, <2>4, <2>6 DEF ResultInv
  <2>8. \A p \in ToSearch' \ toExamine' :
          IsComplete(p, snapshot') => \E c \in result' : c.path = p
    BY <2>1, <2>3, <2>4, <2>5, <2>6 DEF ResultInv
  <2>9. \A c \in result : c.path # path
    BY DEF ResultInv
  <2>10. \A c, d \in result' : c.path = d.path => c = d
    BY <2>3, <2>4, <2>9 DEF ResultInv
  <2>11. profitable' = {c \in result' : IsProfitable(c)}
    <3>1. profitable = {c \in result : IsProfitable(c)}
      BY DEF ResultInv
    <3> QED
      BY <2>3, <3>1
  <2>12. aPc' # "store" /\ toExamine' \subseteq ToSearch'
    BY <2>1, <2>3, <2>5 DEF ResultInv
  <2>13. Searching'
    BY <2>5
  <2> QED
    BY <2>7, <2>8, <2>10, <2>11, <2>12, <2>13 DEF ResultInv
<1>6. CASE Fire
  <2>1. /\ aPc = "examine" /\ aPc' = "store" /\ toExamine = {}
        /\ UNCHANGED <<aTicker, snapshot, toExamine, result, profitable, allQueue>>
    BY <1>6 DEF Fire
  <2>2. ToSearch' = ToSearch /\ Searching /\ Searching'
    BY <2>1 DEF ToSearch, Searching
  <2> QED
    BY <2>1, <2>2 DEF ResultInv
<1>7. CASE Store
  <2>1. result' = {} /\ profitable' = {} /\ aPc' = "get"
    BY <1>7 DEF Store
  <2>2. ~Searching'
    BY <2>1 DEF Searching
  <2> QED
    BY <2>1, <2>2 DEF ResultInv
<1> QED
  BY <1>1, <1>2, <1>3, <1>4, <1>5, <1>6, <1>7 DEF Next, ThreadNext

\* A search returns no more chains than there are paths through its market.
LEMMA ResultFits ==
  ASSUME QueueInv, ResultInv, aPc = "store"
  PROVE  /\ IsFiniteSet(result)
         /\ \E m \in Markets : Cardinality(result) <= Cardinality(PathsThrough(m))
<1>1. aTicker \in QueuedTickers /\ Searching
  BY DEF QueueInv, Searching
<1>2. MarketOf(aTicker) \in Markets
  BY <1>1, PossibleTickerIsTraded DEF QueuedTickers, MarketOf
<1> DEFINE pathOf == [c \in result |-> c.path]
<1>3. pathOf \in Injection(result, ToSearch)
  <2>1. \A c \in result : c.path \in ToSearch
    BY <1>1 DEF ResultInv
  <2>2. \A c, d \in result : c.path = d.path => c = d
    BY DEF ResultInv
  <2> QED
    BY <2>1, <2>2 DEF Injection, IsInjective
<1>4. IsFiniteSet(ToSearch)
  BY PathsAreFinite DEF ToSearch
<1>5. IsFiniteSet(result) /\ Cardinality(result) <= Cardinality(ToSearch)
  <2> HIDE DEF pathOf
  <2> QED
    BY <1>3, <1>4, FS_Injection
<1> QED
  BY <1>2, <1>5 DEF ToSearch

\* Only the end of a search puts into all_arbitrages_queue.
LEMMA StoredInductive ==
  ASSUME QueueInv, ResultInv, StoredInv, [Next]_vars
  PROVE  StoredInv'
<1>1. IsSeq(positiveQueue')
  <2>1. positiveQueue' = positiveQueue \/ \E e : positiveQueue' = Append(positiveQueue, e)
    BY DEF Next, ListenerNext, ThreadNext, vars, Pop, Put, Notify, Get, Copy, Skip, Examine,
           Fire, Store
  <2>2. IsSeq(positiveQueue)
    BY DEF StoredInv
  <2>3. \A e : IsSeq(Append(positiveQueue, e))
    BY <2>2, PutAtEnd
  <2> QED
    BY <2>1, <2>2, <2>3, Zenon
<1>2. CASE allQueue' = allQueue
  BY <1>1, <1>2 DEF StoredInv
<1>3. CASE Store
  <2>1. allQueue' = Append(allQueue, result) /\ aPc = "store"
    BY <1>3 DEF Store
  <2>2. /\ IsSeq(allQueue')
        /\ Len(allQueue) \in Nat /\ DOMAIN allQueue = 1..Len(allQueue)
        /\ DOMAIN allQueue' = 1..(Len(allQueue) + 1)
        /\ \A i \in 1..Len(allQueue) : allQueue'[i] = allQueue[i]
        /\ allQueue'[Len(allQueue) + 1] = result
    BY <2>1, PutAtEnd DEF StoredInv
  <2>3. ASSUME NEW i \in DOMAIN allQueue', NEW s, s = allQueue'[i]
        PROVE  /\ \A c \in s : c.search = i - 1
               /\ IsFiniteSet(s)
               /\ \E m \in Markets : Cardinality(s) <= Cardinality(PathsThrough(m))
    <3>1. CASE i \in DOMAIN allQueue
      <4>1. s = allQueue[i]
        BY <2>2, <2>3, <3>1
      <4> QED
        BY <3>1, <4>1 DEF StoredInv
    <3>2. CASE i \notin DOMAIN allQueue
      <4>1. i = Len(allQueue) + 1
        BY <2>2, <3>2
      <4>2. s = result /\ i - 1 = Len(allQueue)
        BY <2>2, <2>3, <4>1
      <4>3. \A c \in result : c.search = Len(allQueue)
        BY DEF ResultInv
      <4> QED
        BY <2>1, <4>2, <4>3, ResultFits
    <3> QED
      BY <3>1, <3>2
  <2> QED
    BY <1>1, <2>2, <2>3 DEF StoredInv
<1>4. Store \/ allQueue' = allQueue
  BY DEF Next, ListenerNext, ThreadNext, vars, thread, Pop, Put, Notify, Get, Copy, Skip,
         Examine, Fire
<1> QED
  BY <1>2, <1>3, <1>4

-----------------------------------------------------------------------------
(* What TradeManager is handed. *)

\* Putting a set of chains, not empty and all new, keeps what was put non-empty and
\* disjoint.
LEMMA PutNewChains ==
  ASSUME NEW q, IsSeq(q), NEW e, e # {},
         e \cap UNION {q[i] : i \in DOMAIN q} = {},
         \A i \in DOMAIN q : q[i] # {},
         \A i, j \in DOMAIN q : i # j => q[i] \cap q[j] = {},
         NEW r, r = Append(q, e)
  PROVE  /\ \A i \in DOMAIN r : r[i] # {}
         /\ \A i, j \in DOMAIN r : i # j => r[i] \cap r[j] = {}
<1>1. /\ Len(q) \in Nat /\ DOMAIN q = 1..Len(q) /\ DOMAIN r = 1..(Len(q) + 1)
      /\ \A i \in DOMAIN q : r[i] = q[i]
      /\ r[Len(q) + 1] = e
  BY PutAtEnd
<1>2. \A i \in DOMAIN r : \/ i \in DOMAIN q /\ r[i] = q[i]
                          \/ i = Len(q) + 1 /\ r[i] = e
  BY <1>1
<1>3. \A i \in DOMAIN q : q[i] \cap e = {}
  OBVIOUS
<1> QED
  BY <1>2, <1>3

\* Every chain stored came from a search before the one that runs.
LEMMA StoredAreEarlier ==
  ASSUME StoredInv, NEW c \in Stored
  PROVE  c.search # Len(allQueue)
<1>1. PICK i \in DOMAIN allQueue : c \in allQueue[i]
  BY DEF Stored
<1>2. c.search = i - 1
  BY <1>1 DEF StoredInv
<1>3. i \in 1..Len(allQueue) /\ Len(allQueue) \in Nat
  BY PutAtEnd DEF StoredInv
<1> QED
  BY <1>2, <1>3

\* Each step hands over profitable chains only, each of them once.
LEMMA FiredInductive ==
  ASSUME QueueInv, ResultInv, StoredInv, FiredOnceAndStored, [Next]_vars
  PROVE  FiredOnceAndStored'
<1>a. IsSeq(positiveQueue) /\ IsSeq(allQueue)
  BY DEF StoredInv
<1>b. /\ Fired = {c \in Stored : IsProfitable(c)}
                   \union (IF fire_chains_asap \/ aPc = "store" THEN profitable ELSE {})
      /\ \A i \in DOMAIN positiveQueue : positiveQueue[i] # {}
      /\ \A i, j \in DOMAIN positiveQueue :
           i # j => positiveQueue[i] \cap positiveQueue[j] = {}
  BY DEF FiredOnceAndStored
<1>c. /\ profitable = {c \in result : IsProfitable(c)}
      /\ \A c \in result : c.search = Len(allQueue)
  BY DEF ResultInv
<1>d. \A c \in Stored : c.search # Len(allQueue)
  BY StoredAreEarlier
<1>e. fire_chains_asap' = fire_chains_asap
  BY DEF Next, ListenerNext, ThreadNext, vars, Pop, Put, Notify, Get, Copy, Skip, Examine,
         Fire, Store
<1>1. ASSUME UNCHANGED <<positiveQueue, allQueue>>, profitable' = profitable,
             aPc = "store" <=> aPc' = "store"
      PROVE  FiredOnceAndStored'
  <2>1. Fired' = Fired /\ Stored' = Stored
    BY <1>1 DEF Fired, Stored
  <2>2. Fired' = {c \in Stored' : IsProfitable(c)}
                   \union (IF fire_chains_asap' \/ aPc' = "store" THEN profitable' ELSE {})
    BY <1>1, <1>b, <1>e, <2>1
  <2> QED
    BY <1>1, <1>b, <2>2 DEF FiredOnceAndStored
<1>2. CASE ListenerNext \/ UNCHANGED vars
  BY <1>1, <1>2 DEF ListenerNext, Pop, Put, Notify, thread, vars
<1>3. CASE Get \/ Skip
  BY <1>1, <1>3 DEF Get, Skip
<1>4. CASE Copy
  <2>1. profitable = {} /\ aPc = "copy"
    BY <1>4 DEF Copy, ResultInv, Searching
  <2>2. /\ positiveQueue' = positiveQueue /\ allQueue' = allQueue
        /\ profitable' = {}
    BY <1>4, <2>1 DEF Copy
  <2>3. Fired' = Fired /\ Stored' = Stored
    BY <2>2 DEF Fired, Stored
  <2>4. Fired' = {c \in Stored' : IsProfitable(c)}
                   \union (IF fire_chains_asap' \/ aPc' = "store" THEN profitable' ELSE {})
    BY <1>b, <2>1, <2>2, <2>3
  <2> QED
    BY <1>b, <2>2, <2>4 DEF FiredOnceAndStored
<1>5. CASE Examine
  <2>1. aPc = "examine" /\ aPc' = aPc /\ allQueue' = allQueue /\ toExamine # {}
    BY <1>5 DEF Examine
  <2>2. PICK path \in toExamine : \E chain \in Examined(path) :
          /\ profitable' = IF IsProfitable(chain) THEN profitable \union {chain} ELSE profitable
          /\ positiveQueue' = IF IsProfitable(chain) /\ fire_chains_asap
                              THEN Append(positiveQueue, {chain}) ELSE positiveQueue
    BY <1>5, <2>1 DEF Examine
  <2>3. PICK chain \in Examined(path) :
          /\ profitable' = IF IsProfitable(chain) THEN profitable \union {chain} ELSE profitable
          /\ positiveQueue' = IF IsProfitable(chain) /\ fire_chains_asap
                              THEN Append(positiveQueue, {chain}) ELSE positiveQueue
    BY <2>2
  <2>4. Stored' = Stored /\ aPc' # "store"
    BY <2>1 DEF Stored
  <2>5. CASE ~(IsProfitable(chain) /\ fire_chains_asap)
    <3>1. positiveQueue' = positiveQueue /\ Fired' = Fired
      BY <2>3, <2>5 DEF Fired
    <3>2. fire_chains_asap => profitable' = profitable
      BY <2>3, <2>5
    <3>3. Fired' = {c \in Stored' : IsProfitable(c)}
                     \union (IF fire_chains_asap' \/ aPc' = "store" THEN profitable' ELSE {})
      BY <1>b, <1>e, <2>1, <2>4, <3>1, <3>2
    <3> QED
      BY <1>b, <3>1, <3>3 DEF FiredOnceAndStored
  <2>6. CASE IsProfitable(chain) /\ fire_chains_asap
    <3>1. positiveQueue' = Append(positiveQueue, {chain})
          /\ profitable' = profitable \union {chain}
      BY <2>3, <2>6
    <3>2. Fired' = Fired \union {chain}
      BY <1>a, <3>1, AllPut DEF Fired
    <3>3. chain \notin Stored
      BY <1>d, ExaminedChains
    <3>4. chain \notin profitable
      <4>1. chain.path = path
        BY ExaminedChains
      <4>2. \A c \in result : c.path \notin toExamine
        BY DEF ResultInv
      <4> QED
        BY <1>c, <4>1, <4>2
    <3>5. chain \notin Fired
      BY <1>b, <3>3, <3>4
    <3>6. Fired' = {c \in Stored' : IsProfitable(c)}
                     \union (IF fire_chains_asap' \/ aPc' = "store" THEN profitable' ELSE {})
      BY <1>b, <1>e, <2>4, <2>6, <3>1, <3>2
    <3>7. {chain} \cap UNION {positiveQueue[i] : i \in DOMAIN positiveQueue} = {}
      BY <3>5 DEF Fired
    <3>8. {chain} # {}
      OBVIOUS
    <3>9. /\ \A i \in DOMAIN positiveQueue' : positiveQueue'[i] # {}
          /\ \A i, j \in DOMAIN positiveQueue' :
               i # j => positiveQueue'[i] \cap positiveQueue'[j] = {}
      BY <1>a, <1>b, <3>1, <3>7, <3>8, PutNewChains
    <3> QED
      BY <3>6, <3>9 DEF FiredOnceAndStored
  <2> QED
    BY <2>5, <2>6
<1>6. CASE Fire
  <2>1. /\ aPc = "examine" /\ aPc' = "store"
        /\ allQueue' = allQueue /\ profitable' = profitable
        /\ positiveQueue' = IF profitable # {} /\ ~fire_chains_asap
                            THEN Append(positiveQueue, profitable) ELSE positiveQueue
    BY <1>6 DEF Fire
  <2>2. Stored' = Stored
    BY <2>1 DEF Stored
  <2>3. CASE ~(profitable # {} /\ ~fire_chains_asap)
    <3>1. positiveQueue' = positiveQueue /\ Fired' = Fired
      BY <2>1, <2>3 DEF Fired
    <3>2. Fired' = {c \in Stored' : IsProfitable(c)}
                     \union (IF fire_chains_asap' \/ aPc' = "store" THEN profitable' ELSE {})
      BY <1>b, <2>1, <2>2, <2>3, <3>1
    <3> QED
      BY <1>b, <3>1, <3>2 DEF FiredOnceAndStored
  <2>4. CASE profitable # {} /\ ~fire_chains_asap
    <3>1. positiveQueue' = Append(positiveQueue, profitable)
      BY <2>1, <2>4
    <3>2. Fired' = Fired \union profitable
      BY <1>a, <3>1, AllPut DEF Fired
    <3>3. Fired = {c \in Stored : IsProfitable(c)}
      BY <1>b, <2>1, <2>4
    <3>4. Fired' = {c \in Stored' : IsProfitable(c)}
                     \union (IF fire_chains_asap' \/ aPc' = "store" THEN profitable' ELSE {})
      BY <2>1, <2>2, <3>2, <3>3
    <3>5. profitable \cap UNION {positiveQueue[i] : i \in DOMAIN positiveQueue} = {}
      BY <1>c, <1>d, <3>3 DEF Fired
    <3>6. /\ \A i \in DOMAIN positiveQueue' : positiveQueue'[i] # {}
          /\ \A i, j \in DOMAIN positiveQueue' :
               i # j => positiveQueue'[i] \cap positiveQueue'[j] = {}
      BY <1>a, <1>b, <2>4, <3>1, <3>5, PutNewChains
    <3> QED
      BY <3>4, <3>6 DEF FiredOnceAndStored
  <2> QED
    BY <2>3, <2>4
<1>7. CASE Store
  <2>1. /\ aPc = "store" /\ allQueue' = Append(allQueue, result) /\ profitable' = {}
        /\ positiveQueue' = positiveQueue
    BY <1>7 DEF Store
  <2>2. Fired' = Fired /\ Stored' = Stored \union result
    BY <1>a, <2>1, AllPut DEF Fired, Stored
  <2>3. Fired = {c \in Stored : IsProfitable(c)} \union profitable
    BY <1>b, <2>1
  <2>4. Fired' = {c \in Stored' : IsProfitable(c)}
    BY <1>c, <2>2, <2>3
  <2>5. Fired' = {c \in Stored' : IsProfitable(c)}
                   \union (IF fire_chains_asap' \/ aPc' = "store" THEN profitable' ELSE {})
    BY <2>1, <2>4
  <2> QED
    BY <1>b, <2>1, <2>5 DEF FiredOnceAndStored
<1> QED
  BY <1>2, <1>3, <1>4, <1>5, <1>6, <1>7 DEF Next, ThreadNext

-----------------------------------------------------------------------------
(* The theorems about the search. *)

\* The invariant holds of the search as of any behaviour of its specification.
LEMMA SearchInductive == Spec => []SearchInv
<1>1. Init => SearchInv
  <2> SUFFICES ASSUME Init PROVE SearchInv
    OBVIOUS
  <2>1. /\ aPc = "get" /\ result = {} /\ profitable = {}
        /\ positiveQueue = << >> /\ allQueue = << >>
    BY DEF Init
  <2>2. ResultInv
    BY <2>1 DEF ResultInv, Searching
  <2>3. /\ IsSeq(allQueue) /\ IsSeq(positiveQueue)
        /\ DOMAIN allQueue = {} /\ DOMAIN positiveQueue = {}
    <3>1. << >> \in Seq({}) /\ DOMAIN << >> = {}
      OBVIOUS
    <3> QED
      BY <2>1, <3>1 DEF IsSeq
  <2>4. StoredInv
    BY <2>3 DEF StoredInv
  <2>5. Stored = {} /\ Fired = {}
    BY <2>3 DEF Stored, Fired
  <2>6. FiredOnceAndStored
    BY <2>1, <2>3, <2>5 DEF FiredOnceAndStored
  <2> QED
    BY <2>2, <2>4, <2>6, SearchInitially DEF SearchInv
<1>2. SearchInv /\ [Next]_vars => SearchInv'
  BY DataInductive, ResultInductive, StoredInductive, FiredInductive DEF SearchInv
<1> QED
  BY <1>1, <1>2, PTL DEF Spec

\* "Refresh data BEFORE notifying listeners" (listener.py:58): a ticker waiting for its
\* search, or searched for, is in the data the search looks at, or a newer one is.
THEOREM TickersAreInTheData == Spec => []RefreshedBeforeNotified
<1>1. SearchInv => RefreshedBeforeNotified
  BY DEF SearchInv, QueueInv, IsIn, MarketOf, RefreshedBeforeNotified
<1> QED
  BY <1>1, SearchInductive, PTL

\* All chains of a search (find, arby.py:45) are computed from one moment, though the
\* listener refreshes the data meanwhile.
THEOREM SearchesSeeOneMoment == Spec => []OneMomentPerSearch
<1>1. ResultInv => OneMomentPerSearch
  <2> SUFFICES ASSUME ResultInv, NEW c \in result, NEW d \in result,
                      NEW i \in 1..3, NEW j \in 1..3, c.path.markets[i] = d.path.markets[j]
               PROVE  c.seen[i] = d.seen[j]
    BY DEF OneMomentPerSearch
  <2>1. /\ c.seen[i] = snapshot[c.path.markets[i]].id
        /\ d.seen[j] = snapshot[d.path.markets[j]].id
    BY DEF ResultInv
  <2> QED
    BY <2>1
<1> QED
  BY <1>1, SearchInductive, PTL DEF SearchInv

\* find looks at exactly the triangles through the updated market whose tickers it knows,
\* from each of their coins and both ways round, whatever markets the exchange lists.
THEOREM SearchesAreComplete == Spec => []SearchIsComplete
<1>1. SearchInv => SearchIsComplete
  <2> SUFFICES ASSUME QueueInv, ResultInv, aPc = "store"
               PROVE  {<<c.path.coins[1], c.path.coins[2], c.path.coins[3]>> : c \in result}
                      = {t \in Triangles :
                           /\ CoinsOf(BaseQuote[aTicker.symbol]) \in Sides(t)
                           /\ Sides(t) \subseteq {CoinsOf(m) : m \in DOMAIN snapshot}}
    BY DEF SearchIsComplete, SearchInv
  <2> DEFINE complete == {p \in PathsThrough(MarketOf(aTicker)) : IsComplete(p, snapshot)}
  <2>1. Searching /\ toExamine = {} /\ ToSearch \ toExamine = ToSearch
    BY DEF Searching, ResultInv
  <2>2. \A c \in result : c.path \in complete
    BY <2>1 DEF ResultInv, ToSearch
  <2>3. \A p \in complete : \E c \in result : c.path = p
    BY <2>1 DEF ResultInv, ToSearch
  <2>4. {<<c.path.coins[1], c.path.coins[2], c.path.coins[3]>> : c \in result}
        = {<<p.coins[1], p.coins[2], p.coins[3]>> : p \in complete}
    BY <2>2, <2>3
  <2>5. MarketOf(aTicker) \in Listed /\ DOMAIN snapshot \subseteq Listed
    BY DEF QueueInv, QueuedTickers, MarketOf, Listed
  <2> QED
    BY <2>4, <2>5, PathsAreTriangles DEF MarketOf
<1> QED
  BY <1>1, SearchInductive, PTL

\* TradeManager is handed each profitable chain once, with or without
\* ARBITRAGE_FIRE_CHAIN_ASAP, never an empty set, and each goes to the store too.
THEOREM ProfitableFiredOnce == Spec => []FiredOnceAndStored
BY SearchInductive, PTL DEF SearchInv

-----------------------------------------------------------------------------
(* No update is lost on its way to a search. *)

\* An update of the market is on its way: to be announced, in the queue, in hand, or in
\* the copy a search of the market looks at.
Pending(m) ==
  \/ lPc = "notify" /\ MarketOf(lEvent) = m
  \/ \E i \in DOMAIN tickersQueue : MarketOf(tickersQueue[i]) = m
  \/ aPc = "copy" /\ MarketOf(aTicker) = m
  \/ /\ aPc \in {"examine", "store"} /\ MarketOf(aTicker) = m
     /\ m \in DOMAIN snapshot \cap DOMAIN data /\ snapshot[m].id = data[m].id

\* What the data shows of a market a finished search has seen, or it is on its way; the
\* search that runs has seen it, or it is on its way after it.
SeenInv ==
  /\ DOMAIN searched = Markets
  /\ \A m \in Markets \cap DOMAIN data : searched[m] >= data[m].id \/ Pending(m)
  /\ Searching => Pending(MarketOf(aTicker))

\* When nothing is on its way, a finished search has seen all that the data shows.
SeenWhenQuiet ==
  lPc # "notify" /\ tickersQueue = << >> /\ aPc = "get" =>
    \A m \in Markets \cap DOMAIN data : searched[m] >= data[m].id

\* What the search has in hand is of a market that is traded.
LEMMA InHandIsTraded ==
  ASSUME SearchInv, aPc # "get"
  PROVE  MarketOf(aTicker) \in Markets
BY PossibleTickerIsTraded DEF SearchInv, QueueInv, QueuedTickers, MarketOf

\* While what was searched and the data stay, an update stays on its way if it does.
LEMMA SeenKept ==
  ASSUME SearchInv, SeenInv, UNCHANGED <<searched, data>>,
         \A m \in Markets : Pending(m) => Pending(m)',
         Searching' => Searching /\ aTicker' = aTicker
  PROVE  SeenInv'
<1>1. Searching' => Pending(MarketOf(aTicker))'
  <2> SUFFICES ASSUME Searching' PROVE Pending(MarketOf(aTicker))'
    OBVIOUS
  <2> DEFINE m == MarketOf(aTicker)
  <2>1. m \in Markets /\ Pending(m)
    BY InHandIsTraded DEF SeenInv, Searching
  <2>2. MarketOf(aTicker)' = m
    BY DEF MarketOf
  <2>3. Pending(m)'
    BY <2>1
  <2> QED
    BY <2>2, <2>3 DEF Pending
<1> QED
  BY <1>1 DEF SeenInv

\* No step of the listener or of the search loses an update.
LEMMA SeenInductive ==
  ASSUME SearchInv, SeenInv, [Next]_vars
  PROVE  SeenInv'
<1>q. /\ tickersQueue \in Seq(QueuedTickers)
      /\ aPc # "get" => aTicker \in QueuedTickers
  BY DEF SearchInv, QueueInv
<1>1. CASE UNCHANGED <<lPc, lEvent, tickersQueue, aPc, aTicker, snapshot, data, searched>>
  BY <1>1, SeenKept DEF Pending, MarketOf, Searching
<1>2. CASE Pop
  <2>1. lPc = "pop" /\ UNCHANGED <<tickersQueue, aPc, aTicker, snapshot, data, searched>>
    BY <1>2 DEF Pop, thread
  <2> QED
    BY <2>1, SeenKept DEF Pending, MarketOf, Searching
<1>3. CASE Put
  <2>1. /\ lPc = "put" /\ UNCHANGED <<lEvent, tickersQueue, aPc, aTicker, snapshot, searched>>
        /\ \/ data' = data
           \/ lPc' = "notify" /\ data' = Refreshed(data, BaseQuote[lEvent.symbol], lEvent)
    BY <1>3 DEF Put, thread
  <2>2. CASE data' = data
    BY <2>1, <2>2, SeenKept DEF Pending, MarketOf, Searching
  <2>3. CASE lPc' = "notify" /\ data' = Refreshed(data, BaseQuote[lEvent.symbol], lEvent)
    <3>0. Searching => Pending(MarketOf(aTicker))'
      <4> DEFINE m == MarketOf(aTicker)
      <4>1. CASE m = MarketOf(lEvent)
        BY <2>1, <2>3, <4>1 DEF Pending, MarketOf
      <4>2. CASE Searching /\ m # MarketOf(lEvent)
        <5>1. m \in DOMAIN data => m \in DOMAIN data' /\ data'[m] = data[m]
          BY <2>3, <4>2 DEF Refreshed, MarketOf
        <5>2. Pending(m) /\ IsIn(aTicker, snapshot)
          BY <4>2 DEF SeenInv, Searching, SearchInv, QueueInv
        <5> QED
          BY <2>1, <4>2, <5>1, <5>2 DEF Pending, MarketOf, Searching
      <4> QED
        BY <4>1, <4>2
    <3> SUFFICES ASSUME NEW m \in Markets \cap DOMAIN data'
                 PROVE  searched[m] >= data'[m].id \/ Pending(m)'
      BY <2>1, <3>0 DEF SeenInv, Searching
    <3>1. CASE m = MarketOf(lEvent)
      BY <2>1, <2>3, <3>1 DEF Pending, MarketOf
    <3>2. CASE m # MarketOf(lEvent)
      <4>1. m \in DOMAIN data /\ data'[m] = data[m]
        BY <2>3, <3>2 DEF Refreshed, MarketOf
      <4>2. searched[m] >= data[m].id \/ Pending(m)
        BY <4>1 DEF SeenInv
      <4> QED
        BY <2>1, <4>1, <4>2 DEF Pending, MarketOf
    <3> QED
      BY <3>1, <3>2
  <2> QED
    BY <2>1, <2>2, <2>3
<1>4. CASE Notify
  <2>1. lPc = "notify" /\ UNCHANGED <<aPc, aTicker, snapshot, data, searched>>
    BY <1>4 DEF Notify, thread
  <2>2. ASSUME NEW m \in Markets, Pending(m) PROVE Pending(m)'
    <3>1. CASE MarketOf(lEvent) = m
      <4>1. IsPossibleTicker(lEvent.symbol)
        BY <3>1 DEF Markets, IsPossibleTicker, MarketOf
      <4>2. tickersQueue' = Append(tickersQueue, Queued(lEvent))
        BY <1>4, <4>1 DEF Notify
      <4>3. /\ Len(tickersQueue) + 1 \in DOMAIN tickersQueue'
            /\ tickersQueue'[Len(tickersQueue) + 1] = Queued(lEvent)
        BY <1>q, <4>2
      <4>4. MarketOf(tickersQueue'[Len(tickersQueue) + 1]) = m
        BY <3>1, <4>3 DEF Queued, MarketOf
      <4> QED
        BY <4>3, <4>4 DEF Pending, MarketOf
    <3>2. CASE \E i \in DOMAIN tickersQueue : MarketOf(tickersQueue[i]) = m
      <4>1. PICK i \in DOMAIN tickersQueue : MarketOf(tickersQueue[i]) = m
        BY <3>2
      <4>2. i \in DOMAIN tickersQueue' /\ tickersQueue'[i] = tickersQueue[i]
        BY <1>4, <1>q DEF Notify
      <4> QED
        BY <4>1, <4>2 DEF Pending, MarketOf
    <3>3. CASE aPc = "copy" \/ aPc \in {"examine", "store"}
      <4>1. CASE Pending(m) /\ ~(MarketOf(lEvent) = m)
                   /\ ~\E i \in DOMAIN tickersQueue : MarketOf(tickersQueue[i]) = m
        BY <2>1, <4>1 DEF Pending, MarketOf
      <4> QED
        BY <2>2, <3>1, <3>2, <4>1
    <3> QED
      BY <2>2, <3>1, <3>2, <3>3 DEF Pending
  <2> QED
    BY <2>1, <2>2, SeenKept DEF Searching
<1>5. CASE Get
  <2>1. /\ aPc = "get" /\ aPc' = "copy" /\ tickersQueue # << >>
        /\ aTicker' = Head(tickersQueue) /\ tickersQueue' = Tail(tickersQueue)
        /\ UNCHANGED <<lPc, lEvent, snapshot, data, searched>>
    BY <1>5 DEF Get, listener
  <2>2. ASSUME NEW m \in Markets, Pending(m) PROVE Pending(m)'
    <3>1. CASE lPc = "notify" /\ MarketOf(lEvent) = m
      BY <2>1, <3>1 DEF Pending, MarketOf
    <3>2. CASE \E i \in DOMAIN tickersQueue : MarketOf(tickersQueue[i]) = m
      <4>1. PICK i \in DOMAIN tickersQueue : MarketOf(tickersQueue[i]) = m
        BY <3>2
      <4>2. i \in Nat /\ i # 0
        BY <1>q
      <4>3. CASE i = 1
        <5>1. MarketOf(aTicker') = m
          BY <1>q, <2>1, <4>1, <4>3
        <5> QED
          BY <2>1, <5>1 DEF Pending, MarketOf
      <4>4. CASE i # 1
        <5>1. i - 1 \in DOMAIN tickersQueue' /\ tickersQueue'[i - 1] = tickersQueue[i]
          BY <1>q, <2>1, <4>1, <4>2, <4>4
        <5>2. MarketOf(tickersQueue'[i - 1]) = m
          BY <4>1, <5>1
        <5> QED
          BY <5>1, <5>2 DEF Pending, MarketOf
      <4> QED
        BY <4>3, <4>4
    <3> QED
      BY <2>1, <2>2, <3>1, <3>2 DEF Pending
  <2> QED
    BY <2>1, <2>2, SeenKept DEF Searching
<1>6. CASE Copy
  <2>1. /\ aPc = "copy" /\ aPc' \in {"examine", "store"} /\ snapshot' = data
        /\ UNCHANGED <<lPc, lEvent, tickersQueue, aTicker, data, searched>>
    BY <1>6 DEF Copy, listener
  <2>a. MarketOf(aTicker) \in DOMAIN data
    BY <2>1 DEF SearchInv, QueueInv, IsIn
  <2>b. Pending(MarketOf(aTicker))'
    BY <2>1, <2>a DEF Pending, MarketOf
  <2> SUFFICES ASSUME NEW m \in Markets \cap DOMAIN data
               PROVE  searched[m] >= data[m].id \/ Pending(m)'
    BY <2>1, <2>b DEF SeenInv
  <2>2. searched[m] >= data[m].id \/ Pending(m)
    BY DEF SeenInv
  <2> QED
    BY <2>1, <2>2 DEF Pending, MarketOf
<1>7. CASE Skip \/ Examine
  <2>1. UNCHANGED <<lPc, lEvent, tickersQueue, aPc, aTicker, snapshot, data, searched>>
    BY <1>7 DEF Skip, Examine, listener
  <2> QED
    BY <1>1, <2>1
<1>8. CASE Fire
  <2>1. /\ aPc = "examine" /\ aPc' = "store"
        /\ UNCHANGED <<lPc, lEvent, tickersQueue, aTicker, snapshot, data, searched>>
    BY <1>8 DEF Fire, listener
  <2> QED
    BY <2>1, SeenKept DEF Pending, MarketOf, Searching
<1>9. CASE Store
  <2> DEFINE market == MarketOf(aTicker)
             last == IF market \in DOMAIN snapshot THEN snapshot[market].id ELSE searched[market]
  <2>1. /\ aPc = "store" /\ aPc' = "get" /\ UNCHANGED <<lPc, lEvent, tickersQueue, data>>
        /\ searched' = [searched EXCEPT ![market] = last]
    BY <1>9 DEF Store, listener, MarketOf
  <2>2. market \in Markets /\ market \in DOMAIN snapshot /\ ~Searching'
    BY <2>1, InHandIsTraded DEF SearchInv, QueueInv, IsIn, Searching
  <2>3. \A m \in DOMAIN data : data[m].id \in Nat
    BY DEF SearchInv, DataInv
  <2>4. DOMAIN searched' = Markets
    BY <2>1 DEF SeenInv
  <2>5. ASSUME NEW m \in Markets \cap DOMAIN data
        PROVE  searched'[m] >= data[m].id \/ Pending(m)'
    <3>1. CASE m = market
      <4>1. searched'[m] = snapshot[m].id
        BY <2>1, <2>2, <3>1 DEF SeenInv
      <4>2. Pending(m)
        BY <2>1, <3>1 DEF SeenInv, Searching
      <4>3. CASE snapshot[m].id = data[m].id
        BY <2>3, <4>1, <4>3
      <4>4. CASE snapshot[m].id # data[m].id
        BY <2>1, <4>2, <4>4 DEF Pending, MarketOf
      <4> QED
        BY <4>3, <4>4
    <3>2. CASE m # market
      <4>1. searched'[m] = searched[m]
        BY <2>1, <3>2 DEF SeenInv
      <4>2. searched[m] >= data[m].id \/ Pending(m)
        BY DEF SeenInv
      <4>3. Pending(m) => Pending(m)'
        BY <2>1, <3>2 DEF Pending, MarketOf
      <4> QED
        BY <4>1, <4>2, <4>3
    <3> QED
      BY <3>1, <3>2
  <2> QED
    BY <2>1, <2>2, <2>4, <2>5 DEF SeenInv
<1> QED
  BY <1>1, <1>2, <1>3, <1>4, <1>5, <1>6, <1>7, <1>8, <1>9
     DEF Next, ListenerNext, ThreadNext, vars, listener, thread

\* Once the listener has announced what it put and the queue is drained, a finished search
\* of each market has seen what the data shows of it: NoUpdateUnseen but for the fairness.
THEOREM NothingUnseenWhenQuiet == Spec => []SeenWhenQuiet
<1>1. Init => SeenInv
  <2> SUFFICES ASSUME Init PROVE SeenInv
    OBVIOUS
  <2>1. data = << >> /\ aPc = "get" /\ searched = [m \in Markets |-> 0]
    BY DEF Init
  <2>2. DOMAIN data = {}
    BY <2>1
  <2> QED
    BY <2>1, <2>2 DEF SeenInv, Searching
<1>2. SearchInv /\ SeenInv /\ [Next]_vars => SeenInv'
  BY SeenInductive
<1>3. SeenInv => SeenWhenQuiet
  <2> SUFFICES ASSUME SeenInv, lPc # "notify", tickersQueue = << >>, aPc = "get",
                      NEW m \in Markets \cap DOMAIN data
               PROVE  searched[m] >= data[m].id
    BY DEF SeenWhenQuiet
  <2>1. DOMAIN tickersQueue = {}
    OBVIOUS
  <2> QED
    BY <2>1 DEF SeenInv, Pending
<1> QED
  BY <1>1, <1>2, <1>3, SearchInductive, PTL DEF Spec

-----------------------------------------------------------------------------
(* The thread that stores what was found. *)

\* The store thread leaves the search alone: with it, the search is still what it was.
THEOREM StoreLeavesSearch == SSpec => Spec
<1>1. SInit => Init
  BY DEF SInit
<1>2. [SNext]_svars => [Next]_vars
  BY DEF SNext, TakeChains, svars
<1> QED
  BY <1>1, <1>2, PTL DEF SSpec, Spec

\* The result taken is of the search with that number, and it and a buffer that is not
\* full yet fit into one batch.
LEMMA BufferFits ==
  ASSUME StoredInv, BatchInv, taken < Len(allQueue),
         NEW buffer, buffer = chains_buffer \union allQueue[taken + 1]
  PROVE  /\ IsFiniteSet(buffer) /\ Cardinality(buffer) <= KINESIS_MAX_BATCH_SIZE
         /\ \A c \in allQueue[taken + 1] : c.search = taken
         /\ taken + 1 \in DOMAIN allQueue
<1> DEFINE found == allQueue[taken + 1]
           half == KINESIS_MAX_BATCH_SIZE \div 2
<1>1. Len(allQueue) \in Nat /\ DOMAIN allQueue = 1..Len(allQueue)
  BY PutAtEnd DEF StoredInv
<1>2. taken \in Nat /\ taken + 1 \in DOMAIN allQueue
  BY <1>1 DEF BatchInv
<1>3. \A c \in found : c.search = taken
  BY <1>2 DEF StoredInv
<1>4. PICK m \in Markets : Cardinality(found) <= Cardinality(PathsThrough(m))
  BY <1>2 DEF StoredInv
<1>5. IsFiniteSet(found) /\ IsFiniteSet(chains_buffer)
  BY <1>2 DEF StoredInv, BatchInv
<1>6. KINESIS_MAX_BATCH_SIZE \in Nat
      /\ 2 * Cardinality(PathsThrough(m)) <= KINESIS_MAX_BATCH_SIZE
  BY BatchAssumption
<1>7. half \in Nat /\ 2 * half <= KINESIS_MAX_BATCH_SIZE
  BY <1>6
<1>8. /\ Cardinality(found) \in Nat /\ Cardinality(chains_buffer) \in Nat
      /\ Cardinality(PathsThrough(m)) \in Nat /\ Cardinality(chains_buffer \cap found) \in Nat
  BY <1>5, PathsAreFinite, FS_CardinalityType, FS_Intersection
<1>9. Cardinality(chains_buffer) <= half
  <2>1. CASE chains_buffer = {}
    BY <1>7, <2>1, FS_EmptySet
  <2>2. CASE chains_buffer # {}
    BY <1>7, <1>8, <2>2 DEF BatchInv, IsFull
  <2> QED
    BY <2>1, <2>2
<1>10. /\ IsFiniteSet(buffer)
       /\ Cardinality(buffer) = Cardinality(chains_buffer) + Cardinality(found)
                                  - Cardinality(chains_buffer \cap found)
  BY <1>5, FS_Union
<1> HIDE DEF half
<1>11. Cardinality(buffer) <= KINESIS_MAX_BATCH_SIZE
  BY <1>4, <1>6, <1>7, <1>8, <1>9, <1>10
<1> QED
  BY <1>2, <1>3, <1>10, <1>11

\* Each step of the store thread keeps the batches short and apart.
LEMMA BatchInductive ==
  ASSUME StoredInv, BatchInv, TakeChains
  PROVE  BatchInv'
<1> DEFINE buffer == chains_buffer \union allQueue[taken + 1]
<1>a. /\ taken < Len(allQueue) /\ taken' = taken + 1 /\ allQueue' = allQueue
      /\ chains_buffer' = Kept(buffer)
      /\ \/ IsFull(buffer) /\ batches' = Append(batches, buffer)
         \/ batches' = batches
  BY DEF TakeChains, vars, thread
<1>b. /\ IsFiniteSet(buffer) /\ Cardinality(buffer) <= KINESIS_MAX_BATCH_SIZE
      /\ \A c \in allQueue[taken + 1] : c.search = taken
      /\ taken + 1 \in DOMAIN allQueue
  BY <1>a, BufferFits
<1>c. /\ Len(allQueue) \in Nat /\ DOMAIN allQueue = 1..Len(allQueue)
      /\ Len(batches) \in Nat /\ DOMAIN batches = 1..Len(batches) /\ IsSeq(batches)
  BY PutAtEnd DEF StoredInv, BatchInv
<1>d. /\ taken \in 0..Len(allQueue)
      /\ \A i \in DOMAIN batches : \A c \in batches[i] : c.search \in 0..(taken - 1)
      /\ \A c \in chains_buffer : c.search \in 0..(taken - 1)
      /\ \A i \in DOMAIN batches : Cardinality(batches[i]) <= KINESIS_MAX_BATCH_SIZE
  BY DEF BatchInv, BatchFits
<1>e. /\ \A i \in DOMAIN batches : batches[i] \cap chains_buffer = {}
      /\ \A i, j \in DOMAIN batches : i # j => batches[i] \cap batches[j] = {}
  <2>1. 0 \notin DOMAIN batches
    BY <1>c
  <2> QED
    BY <2>1 DEF BatchInv, StoredOnce
<1>f. /\ \A c \in buffer : c.search \in 0..(taken' - 1)
      /\ \A c \in buffer : c.search # taken => c \in chains_buffer
  <2> SUFFICES ASSUME NEW c \in buffer
               PROVE  c.search \in 0..(taken' - 1) /\ (c.search # taken => c \in chains_buffer)
    OBVIOUS
  <2>1. CASE c \in chains_buffer
    <3>1. c.search \in 0..(taken - 1)
      BY <1>d, <2>1
    <3> QED
      BY <1>a, <1>c, <1>d, <2>1, <3>1
  <2>2. CASE c \in allQueue[taken + 1]
    <3>1. c.search = taken
      BY <1>b, <2>2
    <3> QED
      BY <1>a, <1>c, <1>d, <3>1
  <2> QED
    BY <2>1, <2>2
<1> HIDE DEF buffer
<1>1. taken' \in 0..Len(allQueue')
  BY <1>a, <1>c, <1>d
<1>2. /\ chains_buffer' \subseteq buffer
      /\ chains_buffer' # {} => ~IsFull(buffer) /\ chains_buffer' = buffer
  BY <1>a DEF Kept
<1>3. /\ IsFiniteSet(chains_buffer')
      /\ chains_buffer' # {} => ~IsFull(chains_buffer')
      /\ \A c \in chains_buffer' : c.search \in 0..(taken' - 1)
  BY <1>b, <1>f, <1>2, FS_Subset
<1>4. \A i \in DOMAIN batches : batches[i] \cap buffer = {}
  <2>1. \A i \in DOMAIN batches : \A c \in batches[i] : c.search # taken
    BY <1>c, <1>d
  <2> QED
    BY <1>e, <1>f, <2>1
<1>5. \A i \in DOMAIN batches : \A c \in batches[i] : c.search \in 0..(taken' - 1)
  <2> SUFFICES ASSUME NEW i \in DOMAIN batches, NEW c \in batches[i] PROVE c.search \in 0..(taken' - 1)
    OBVIOUS
  <2>1. c.search \in 0..(taken - 1)
    BY <1>d
  <2> QED
    BY <1>a, <1>c, <1>d, <2>1
<1>6. CASE batches' = batches
  <2>1. BatchFits'
    BY <1>6, <1>d DEF BatchFits
  <2>2. StoredOnce'
    BY <1>2, <1>4, <1>6, <1>c, <1>e DEF StoredOnce
  <2>3. \A i \in DOMAIN batches' : \A c \in batches'[i] : c.search \in 0..(taken' - 1)
    BY <1>5, <1>6
  <2> QED
    BY <1>1, <1>3, <1>6, <1>c, <2>1, <2>2, <2>3 DEF BatchInv
<1>7. CASE IsFull(buffer) /\ batches' = Append(batches, buffer)
  <2>1. /\ IsSeq(batches') /\ DOMAIN batches' = 1..(Len(batches) + 1)
        /\ \A i \in 1..Len(batches) : batches'[i] = batches[i]
        /\ batches'[Len(batches) + 1] = buffer
    BY <1>7, <1>c, PutAtEnd
  <2>2. \A i \in DOMAIN batches' : \/ i \in DOMAIN batches /\ batches'[i] = batches[i]
                                   \/ i = Len(batches) + 1 /\ batches'[i] = buffer
    BY <1>c, <2>1
  <2>3. chains_buffer' = {}
    BY <1>7, <1>2
  <2>4. BatchFits'
    BY <1>b, <1>d, <2>2 DEF BatchFits
  <2>5. \A i, j \in DOMAIN batches' : i # j => batches'[i] \cap batches'[j] = {}
    BY <1>4, <1>e, <2>2
  <2>6. StoredOnce'
    BY <2>3, <2>5 DEF StoredOnce
  <2>7. \A i \in DOMAIN batches' : \A c \in batches'[i] : c.search \in 0..(taken' - 1)
    BY <1>5, <1>f, <2>2
  <2> QED
    BY <1>1, <1>3, <2>1, <2>4, <2>6, <2>7 DEF BatchInv
<1> QED
  BY <1>a, <1>6, <1>7

\* The store's invariant holds behind any search.
LEMMA BatchesInductive == SSpec => []BatchInv
<1>1. SInit => BatchInv
  <2> SUFFICES ASSUME SInit PROVE BatchInv
    OBVIOUS
  <2>1. taken = 0 /\ chains_buffer = {} /\ batches = << >> /\ allQueue = << >>
    BY DEF SInit, Init
  <2>2. DOMAIN << >> = {} /\ << >> \in Seq({}) /\ Len(<< >>) = 0
    OBVIOUS
  <2>3. BatchFits /\ StoredOnce
    BY <2>1, <2>2 DEF BatchFits, StoredOnce
  <2> QED
    BY <2>1, <2>2, <2>3, FS_EmptySet DEF BatchInv, IsSeq
<1>2. BatchInv /\ SearchInv /\ [SNext]_svars => BatchInv'
  <2> SUFFICES ASSUME BatchInv, SearchInv, [SNext]_svars PROVE BatchInv'
    OBVIOUS
  <2>1. CASE TakeChains
    BY <2>1, BatchInductive DEF SearchInv
  <2>2. CASE [Next]_vars /\ UNCHANGED store
    <3>1. taken' = taken /\ chains_buffer' = chains_buffer /\ batches' = batches
      BY <2>2 DEF store
    <3>2. BatchFits' /\ StoredOnce'
      BY <3>1 DEF BatchInv, BatchFits, StoredOnce
    <3>3. Len(allQueue) \in Nat /\ Len(allQueue') \in Nat /\ Len(allQueue') >= Len(allQueue)
      <4>1. allQueue' = allQueue \/ allQueue' = Append(allQueue, result)
        BY <2>2 DEF Next, ListenerNext, ThreadNext, vars, thread, Pop, Put, Notify, Get, Copy,
                    Skip, Examine, Fire, Store
      <4>2. IsSeq(allQueue)
        BY DEF SearchInv, StoredInv
      <4>3. Len(allQueue) \in Nat /\ Len(Append(allQueue, result)) = Len(allQueue) + 1
        BY <4>2, PutAtEnd
      <4> QED
        BY <4>1, <4>3
    <3>4. taken' \in 0..Len(allQueue')
      BY <3>1, <3>3 DEF BatchInv
    <3> QED
      BY <3>1, <3>2, <3>4 DEF BatchInv, IsFull
  <2> QED
    BY <2>1, <2>2 DEF SNext, svars
<1> QED
  BY <1>1, <1>2, SearchInductive, StoreLeavesSearch, PTL DEF SSpec

\* No batch is longer than Firehose takes, whatever the searches return
\* (__main__.py:77).
THEOREM BatchesFit == SSpec => []BatchFits
BY BatchesInductive, PTL DEF BatchInv

\* No chain is stored twice, nor kept in the buffer once it was stored.
THEOREM ChainsStoredOnce == SSpec => []StoredOnce
BY BatchesInductive, PTL DEF BatchInv

-----------------------------------------------------------------------------
(* Numbers in lowest terms. *)

\* A nonempty set of natural numbers has a least member.
LEMMA LeastNatural ==
  ASSUME NEW S, S \subseteq Nat, S # {}
  PROVE \E m \in S : \A n \in S : m <= n
<1> DEFINE R == {p \in Nat \X Nat : p[1] < p[2]}
<1>1. IsWellFoundedOn(R, Nat)
  BY NatLessThanWellFounded DEF OpToRel
<1>2. \E x \in S : \A y \in S : ~(<<y, x>> \in R)
  <2> HIDE DEF R
  <2>1. S \subseteq Nat /\ S # {}
    OBVIOUS
  <2> QED
    BY <1>1, <2>1, WFMin
<1>3. \A x, y \in Nat : y < x => <<y, x>> \in R
  OBVIOUS
<1> HIDE DEF R
<1>4. PICK m \in S : \A n \in S : ~(<<n, m>> \in R)
  BY <1>2
<1>5. ASSUME NEW n \in S PROVE m <= n
  <2>1. m \in Nat /\ n \in Nat
    OBVIOUS
  <2>2. n < m => <<n, m>> \in R
    BY <1>3, <2>1
  <2>3. ~(n < m)
    BY <1>4, <2>2
  <2> QED
    BY <2>1, <2>3
<1> QED
  BY <1>5

\* Multiplied by a natural number, the larger stays the larger.
LEMMA TimesGrows ==
  ASSUME NEW a \in Int, NEW b \in Int, NEW c \in Nat, a <= b
  PROVE  a * c <= b * c
<1>1. (b - a) * c >= 0
  OBVIOUS
<1> QED
  BY <1>1

\* A positive factor cancels.
LEMMA Cancel ==
  ASSUME NEW a \in Int, NEW b \in Int, NEW c \in Nat \ {0}
  PROVE  /\ a * c < b * c <=> a < b
         /\ a * c = b * c => a = b
<1>1. ASSUME NEW u \in Int, NEW v \in Int, u < v PROVE u * c < v * c
  <2>1. (u + 1) * c <= v * c
    BY <1>1, TimesGrows
  <2>2. (u + 1) * c = u * c + c /\ u * c \in Int /\ v * c \in Int
    OBVIOUS
  <2> QED
    BY <2>1, <2>2
<1>2. a * c \in Int /\ b * c \in Int
  OBVIOUS
<1> QED
  BY <1>1, <1>2

\* What % and \div say of an exact division.
LEMMA Divides ==
  ASSUME NEW n \in Int, NEW d \in Nat \ {0}
  PROVE  /\ n % d = 0 => n = (n \div d) * d
         /\ \A m \in Int : n = m * d => n % d = 0 /\ n \div d = m
         /\ n \div d \in Int
<1> DEFINE q == n \div d
           r == n % d
<1>1. r \in 0..(d - 1)
  BY Z3
<1>2. n = d * q + r
  BY Z3
<1>3. q \in Int
  BY Z3
<1> HIDE DEF q, r
<1>4. d * q = q * d
  BY <1>3
<1>5. ASSUME NEW m \in Int, n = m * d PROVE r = 0 /\ q = m
  <2>1. (m - q) * d = r
    BY <1>1, <1>2, <1>3, <1>5
  <2>2. ~(0 < m - q)
    <3>1. m - q >= 1 => (m - q) * d >= 1 * d
      BY <1>3, TimesGrows
    <3> QED
      BY <1>1, <1>3, <2>1, <3>1
  <2>3. ~(m - q < 0)
    <3>1. m - q < 0 => (m - q) * d < 0 * d
      BY <1>3, Cancel
    <3> QED
      BY <1>1, <1>3, <2>1, <3>1
  <2>4. m - q = 0
    BY <1>3, <2>2, <2>3
  <2> QED
    BY <1>3, <2>1, <2>4
<1>6. r = 0 => n = q * d
  BY <1>2, <1>3, <1>4
<1> QED
  BY <1>3, <1>5, <1>6 DEF q, r

\* A denominator of x is a k for which x is m / k for some integer m.
LEMMA DenominatorMeans ==
  ASSUME NEW x \in Number, NEW k \in Int
  PROVE  IsDenominator(x, k) <=> \E m \in Int : x[1] * k = m * x[2]
<1>1. x[1] \in Int /\ x[2] \in Nat \ {0} /\ x[1] * k \in Int
  BY DEF Number
<1> DEFINE n == x[1] * k
           d == x[2]
<1>2. n % d = 0 <=> \E m \in Int : n = m * d
  <2>1. n \in Int /\ d \in Nat \ {0}
    BY <1>1
  <2> HIDE DEF n, d
  <2> QED
    BY <2>1, Divides
<1> QED
  BY <1>2 DEF IsDenominator

\* denominator[x] is one, and there is none below it.
LEMMA DenominatorIsLeast ==
  ASSUME NEW x \in Number
  PROVE  /\ denominator[x] \in 1..x[2]
         /\ IsDenominator(x, denominator[x])
         /\ \A j \in 1..(denominator[x] - 1) : ~IsDenominator(x, j)
<1> DEFINE S == {k \in 1..x[2] : IsDenominator(x, k)}
<1>0. x[1] \in Int /\ x[2] \in Nat \ {0}
  BY DEF Number
<1>2. x[2] \in S
  BY <1>0, DenominatorMeans
<1>3. PICK m \in S : \A n \in S : m <= n
  <2>1. S \subseteq Nat /\ S # {}
    BY <1>0, <1>2
  <2> HIDE DEF S
  <2> QED
    BY <2>1, LeastNatural
<1>4. m \in 1..x[2] /\ IsDenominator(x, m) /\ \A j \in 1..(m - 1) : ~IsDenominator(x, j)
  BY <1>0, <1>3
<1> HIDE DEF S
<1>5. denominator[x] = CHOOSE k \in 1..x[2] :
                          IsDenominator(x, k) /\ \A j \in 1..(k - 1) : ~IsDenominator(x, j)
  BY DEF denominator
<1> QED
  BY <1>4, <1>5

\* Reducing a number does not change its value.
LEMMA ReducedValue ==
  ASSUME NEW x \in Number
  PROVE  /\ reduced[x] \in Number
         /\ reduced[x][1] * x[2] = x[1] * reduced[x][2]
         /\ reduced[x][2] = denominator[x]
<1> DEFINE k == denominator[x]
<1>0. x[1] \in Int /\ x[2] \in Nat \ {0}
  BY DEF Number
<1>1. k \in Nat \ {0} /\ IsDenominator(x, k)
  BY <1>0, DenominatorIsLeast
<1>2. reduced[x] = <<(x[1] * k) \div x[2], k>>
  BY DEF reduced
<1> HIDE DEF k
<1>3. x[1] * k \in Int
  BY <1>0, <1>1
<1>4. /\ (x[1] * k) \div x[2] \in Int
      /\ x[1] * k = ((x[1] * k) \div x[2]) * x[2]
  BY <1>0, <1>1, <1>3, Divides DEF IsDenominator
<1> QED
  BY <1>0, <1>1, <1>2, <1>4 DEF Number, k

\* Equal numbers reduce to the same pair: the lowest terms of a number are unique.
LEMMA EqualReduced ==
  ASSUME NEW x \in Number, NEW y \in Number, x[1] * y[2] = y[1] * x[2]
  PROVE  reduced[x] = reduced[y]
<1>0. x[1] \in Int /\ x[2] \in Nat \ {0} /\ y[1] \in Int /\ y[2] \in Nat \ {0}
  BY DEF Number
<1>1. ASSUME NEW u \in Number, NEW v \in Number, u[1] * v[2] = v[1] * u[2],
             NEW k \in Nat, IsDenominator(u, k)
      PROVE  IsDenominator(v, k)
  <2>0. u[1] \in Int /\ u[2] \in Nat \ {0} /\ v[1] \in Int /\ v[2] \in Nat \ {0}
    BY DEF Number
  <2>1. PICK m \in Int : u[1] * k = m * u[2]
    BY <1>1, DenominatorMeans
  <2>2. (v[1] * k) * u[2] = (m * v[2]) * u[2]
    <3>1. (u[1] * k) * v[2] = (m * u[2]) * v[2]
      BY <2>1
    <3>2. (u[1] * k) * v[2] = (u[1] * v[2]) * k
      BY <2>0
    <3>3. (v[1] * u[2]) * k = (v[1] * k) * u[2]
      BY <2>0
    <3>4. (m * u[2]) * v[2] = (m * v[2]) * u[2]
      BY <2>0
    <3> QED
      BY <1>1, <3>1, <3>2, <3>3, <3>4
  <2>3. v[1] * k = m * v[2]
    <3>1. v[1] * k \in Int /\ m * v[2] \in Int
      BY <2>0
    <3> QED
      BY <2>0, <2>2, <3>1, Cancel
  <2> QED
    BY <2>3, DenominatorMeans
<1>2. /\ denominator[x] \in Nat \ {0} /\ denominator[y] \in Nat \ {0}
      /\ IsDenominator(x, denominator[x]) /\ IsDenominator(y, denominator[y])
      /\ \A j \in 1..(denominator[x] - 1) : ~IsDenominator(x, j)
      /\ \A j \in 1..(denominator[y] - 1) : ~IsDenominator(y, j)
  BY <1>0, DenominatorIsLeast
<1>3. IsDenominator(y, denominator[x]) /\ IsDenominator(x, denominator[y])
  BY <1>1, <1>2
<1>4. denominator[x] = denominator[y]
  BY <1>2, <1>3
<1> DEFINE a == reduced[x][1]
           b == reduced[y][1]
           k == denominator[x]
<1>5. /\ a \in Int /\ b \in Int /\ reduced[x] = <<a, k>> /\ reduced[y] = <<b, k>>
      /\ a * x[2] = x[1] * k /\ b * y[2] = y[1] * k
  BY <1>4, ReducedValue DEF Number
<1>6. k \in Int
  BY <1>2
<1> HIDE DEF a, b, k
<1>7. (a * x[2]) * y[2] = (b * y[2]) * x[2]
  <2>1. (x[1] * k) * y[2] = (x[1] * y[2]) * k
    BY <1>0, <1>6
  <2>2. (y[1] * k) * x[2] = (y[1] * x[2]) * k
    BY <1>0, <1>6
  <2> QED
    BY <1>5, <2>1, <2>2
<1>8. a * (x[2] * y[2]) = b * (x[2] * y[2]) /\ x[2] * y[2] \in Nat \ {0}
  BY <1>0, <1>5, <1>7
<1>9. a = b
  BY <1>5, <1>8, Cancel
<1> QED
  BY <1>5, <1>9

\* The numerator and the denominator of a number.
LEMMA Parts ==
  ASSUME NEW x \in Number
  PROVE  x[1] \in Int /\ x[2] \in Nat \ {0} /\ x = <<x[1], x[2]>>
BY DEF Number

\* The unreduced product and difference of two numbers are numbers.
LEMMA PartsOfProduct ==
  ASSUME NEW x \in Number, NEW y \in Number
  PROVE  /\ <<x[1] * y[1], x[2] * y[2]>> \in Number
         /\ <<x[1] * y[2] - y[1] * x[2], x[2] * y[2]>> \in Number
BY Parts DEF Number

\* Reducing a number brings it to lowest terms.
LEMMA ReducedInLowestTerms ==
  ASSUME NEW x \in Number
  PROVE  reduced[x] \in LowestTerms
BY ReducedValue, EqualReduced DEF LowestTerms

\* In lowest terms, equal numbers are equal pairs.
LEMMA SameNumber ==
  ASSUME NEW x \in LowestTerms, NEW y \in LowestTerms, x[1] * y[2] = y[1] * x[2]
  PROVE  x = y
BY EqualReduced DEF LowestTerms

\* Numbers in lowest terms are numbers.
LEMMA LowestTermsAreNumbers == LowestTerms \subseteq Number
BY DEF LowestTerms

\* So are 0 and 1, and they are in lowest terms.
LEMMA Constants == Zero \in LowestTerms /\ One \in LowestTerms
<1>1. ASSUME NEW n \in {0, 1} PROVE <<n, 1>> \in LowestTerms
  <2> DEFINE x == <<n, 1>>
  <2>1. x \in Number /\ x[1] = n /\ x[2] = 1
    BY DEF Number
  <2>2. denominator[x] = 1
    BY <2>1, DenominatorIsLeast
  <2>3. reduced[x] \in Number /\ reduced[x][1] * 1 = n * reduced[x][2] /\ reduced[x][2] = 1
    BY <2>1, <2>2, ReducedValue
  <2>4. reduced[x] = <<n, 1>>
    BY <2>3, Parts
  <2> QED
    BY <2>1, <2>4 DEF LowestTerms
<1> QED
  BY <1>1 DEF Zero, One

\* A product is in lowest terms, and commutes.
LEMMA TimesType ==
  ASSUME NEW x \in Number, NEW y \in Number
  PROVE  Times(x, y) \in LowestTerms /\ Times(x, y) \in Number /\ Times(x, y) = Times(y, x)
<1>1. Times(x, y) = Times(y, x)
  BY Parts DEF Times
<1> QED
  BY <1>1, PartsOfProduct, ReducedInLowestTerms, LowestTermsAreNumbers DEF Times

\* A difference is in lowest terms.
LEMMA MinusType ==
  ASSUME NEW x \in Number, NEW y \in Number
  PROVE  Minus(x, y) \in LowestTerms /\ Minus(x, y) \in Number
BY PartsOfProduct, ReducedInLowestTerms, LowestTermsAreNumbers DEF Minus

\* It does not matter whether a factor was reduced before.
LEMMA TimesReduced ==
  ASSUME NEW x \in Number, NEW y \in Number
  PROVE  Times(reduced[x], y) = Times(x, y)
<1> DEFINE r == reduced[x]
<1>1. r \in Number /\ r[1] * x[2] = x[1] * r[2]
  BY ReducedValue
<1> HIDE DEF r
<1>2. /\ <<r[1] * y[1], r[2] * y[2]>> \in Number
      /\ <<x[1] * y[1], x[2] * y[2]>> \in Number
  BY <1>1, PartsOfProduct
<1>3. (r[1] * y[1]) * (x[2] * y[2]) = (x[1] * y[1]) * (r[2] * y[2])
  <2>0. /\ r[1] \in Int /\ r[2] \in Int /\ x[1] \in Int /\ x[2] \in Int
        /\ y[1] \in Int /\ y[2] \in Int
    BY <1>1, Parts
  <2>1. (r[1] * x[2]) * (y[1] * y[2]) = (x[1] * r[2]) * (y[1] * y[2])
    BY <1>1
  <2>2. (r[1] * x[2]) * (y[1] * y[2]) = (r[1] * y[1]) * (x[2] * y[2])
    BY <2>0
  <2>3. (x[1] * r[2]) * (y[1] * y[2]) = (x[1] * y[1]) * (r[2] * y[2])
    BY <2>0
  <2> QED
    BY <2>1, <2>2, <2>3
<1>4. reduced[<<r[1] * y[1], r[2] * y[2]>>] = reduced[<<x[1] * y[1], x[2] * y[2]>>]
  BY <1>2, <1>3, EqualReduced
<1> QED
  BY <1>4 DEF Times, r

\* Products associate.
LEMMA TimesAssociates ==
  ASSUME NEW x \in Number, NEW y \in Number, NEW z \in Number
  PROVE  Times(Times(x, y), z) = Times(x, Times(y, z))
<1> DEFINE xy == <<x[1] * y[1], x[2] * y[2]>>
           yz == <<y[1] * z[1], y[2] * z[2]>>
<1>1. xy \in Number /\ yz \in Number
  BY PartsOfProduct
<1>2. Times(x, y) = reduced[xy] /\ Times(y, z) = reduced[yz]
  BY DEF Times
<1>3. Times(xy, z) = Times(x, yz)
  <2>1. /\ x[1] \in Int /\ x[2] \in Int /\ y[1] \in Int /\ y[2] \in Int
        /\ z[1] \in Int /\ z[2] \in Int
    BY Parts
  <2>2. (x[1] * y[1]) * z[1] = x[1] * (y[1] * z[1]) /\ (x[2] * y[2]) * z[2] = x[2] * (y[2] * z[2])
    BY <2>1
  <2> QED
    BY <2>2 DEF Times
<1> HIDE DEF xy, yz
<1>4. Times(reduced[xy], z) = Times(xy, z)
  BY <1>1, TimesReduced
<1>5. Times(x, reduced[yz]) = Times(reduced[yz], x) /\ Times(yz, x) = Times(x, yz)
  BY <1>1, TimesType, ReducedValue
<1>6. Times(reduced[yz], x) = Times(yz, x)
  BY <1>1, TimesReduced
<1> QED
  BY <1>2, <1>3, <1>4, <1>5, <1>6

\* A product with 1, and with 0.
LEMMA TimesOne ==
  ASSUME NEW x \in LowestTerms
  PROVE  Times(x, One) = x /\ Times(x, Zero) = Zero
<1>1. x \in Number /\ reduced[x] = x /\ x[1] \in Int /\ x[2] \in Nat \ {0} /\ x = <<x[1], x[2]>>
  BY Parts DEF LowestTerms
<1>2. Times(x, One) = reduced[<<x[1], x[2]>>]
  BY <1>1 DEF Times, One
<1>3. Times(x, Zero) = reduced[<<0, x[2]>>]
  BY <1>1 DEF Times, Zero
<1>4. <<0, x[2]>> \in Number /\ Zero \in Number /\ reduced[Zero] = Zero
  BY <1>1, Constants DEF Number, LowestTerms
<1>5. reduced[<<0, x[2]>>] = reduced[Zero]
  BY <1>1, <1>4, EqualReduced DEF Zero
<1> QED
  BY <1>1, <1>2, <1>3, <1>4, <1>5

\* 1 over a positive number, not reduced.
Inverted(y) == <<y[2], y[1]>>

\* Dividing by a positive number is multiplying by its inverse.
LEMMA OverIsTimes ==
  ASSUME NEW x \in Number, NEW y \in Number, Positive(y)
  PROVE  /\ Inverted(y) \in Number /\ Positive(Inverted(y))
         /\ Over(x, y) = Times(x, Inverted(y))
         /\ Times(y, Inverted(y)) = One
<1>1. x[1] \in Int /\ x[2] \in Nat \ {0} /\ y[1] \in Nat \ {0} /\ y[2] \in Nat \ {0}
  BY Parts DEF Positive
<1>2. Inverted(y) \in Number /\ Positive(Inverted(y))
  BY <1>1 DEF Number, Positive, Inverted
<1>3. Over(x, y) = Times(x, Inverted(y))
  BY <1>1 DEF Over, Times, Inverted
<1>4. One \in Number /\ reduced[One] = One
  BY Constants DEF LowestTerms
<1>5. Times(y, Inverted(y)) = reduced[<<y[1] * y[2], y[2] * y[1]>>]
  BY DEF Times, Inverted
<1>6. y[1] * y[2] = y[2] * y[1] /\ y[1] * y[2] \in Nat \ {0}
  BY <1>1
<1>7. ASSUME NEW n \in Nat \ {0} PROVE reduced[<<n, n>>] = reduced[One]
  BY <1>4, EqualReduced DEF One, Number
<1> QED
  BY <1>2, <1>3, <1>4, <1>5, <1>6, <1>7

\* Division and multiplication by a positive number undo each other.
LEMMA OverUndoesTimes ==
  ASSUME NEW x \in LowestTerms, NEW y \in Number, Positive(y)
  PROVE  /\ Over(x, y) \in LowestTerms
         /\ Times(Over(x, y), y) = x
         /\ Over(Times(x, y), y) = x
<1> DEFINE i == Inverted(y)
<1>1. /\ i \in Number /\ Over(x, y) = Times(x, i) /\ Times(y, i) = One /\ Times(i, y) = One
      /\ x \in Number
  BY OverIsTimes, TimesType, LowestTermsAreNumbers
<1>2. Times(x, y) \in Number /\ Over(Times(x, y), y) = Times(Times(x, y), i)
  BY <1>1, OverIsTimes, TimesType
<1> HIDE DEF i
<1>3. Times(Times(x, i), y) = Times(x, Times(i, y)) /\ Times(Times(x, y), i) = Times(x, Times(y, i))
  BY <1>1, TimesAssociates
<1>4. Over(x, y) \in LowestTerms
  BY <1>1, TimesType
<1> QED
  BY <1>1, <1>2, <1>3, <1>4, TimesOne

\* The order of numbers is total and transitive.
LEMMA Orders ==
  ASSUME NEW x \in Number, NEW y \in Number, NEW z \in Number
  PROVE  /\ Below(x, y) \/ AtMost(y, x)
         /\ Below(x, y) => AtMost(x, y)
         /\ Below(x, y) /\ AtMost(y, z) => Below(x, z)
         /\ AtMost(x, y) /\ Below(y, z) => Below(x, z)
         /\ AtMost(x, y) /\ AtMost(y, z) => AtMost(x, z)
<1>0. /\ x[1] \in Int /\ x[2] \in Nat \ {0} /\ y[1] \in Int /\ y[2] \in Nat \ {0}
      /\ z[1] \in Int /\ z[2] \in Nat \ {0}
  BY Parts
<1> DEFINE xy == x[1] * y[2]
           yx == y[1] * x[2]
           yz == y[1] * z[2]
           zy == z[1] * y[2]
           xz == x[1] * z[2]
           zx == z[1] * x[2]
<1>1. /\ xy \in Int /\ yx \in Int /\ yz \in Int /\ zy \in Int /\ xz \in Int /\ zx \in Int
  BY <1>0
<1>2. /\ Below(x, y) <=> xy < yx
      /\ Below(y, x) <=> yx < xy
      /\ Below(y, z) <=> yz < zy
      /\ Below(z, y) <=> zy < yz
      /\ Below(x, z) <=> xz < zx
      /\ Below(z, x) <=> zx < xz
  BY DEF Below
<1>3. /\ xy * z[2] = xz * y[2]
      /\ yx * z[2] = yz * x[2]
      /\ zy * x[2] = zx * y[2]
  BY <1>0
<1> HIDE DEF xy, yx, yz, zy, xz, zx
<1>4. /\ xy * z[2] \in Int /\ yx * z[2] \in Int /\ zy * x[2] \in Int
  BY <1>0, <1>1
<1>5. /\ xy < yx <=> xz * y[2] < yz * x[2]
      /\ yx < xy <=> yz * x[2] < xz * y[2]
  BY <1>0, <1>1, <1>3, Cancel
<1>6. /\ yz < zy <=> yz * x[2] < zx * y[2]
      /\ zy < yz <=> zx * y[2] < yz * x[2]
  <2>1. /\ yz * x[2] < zy * x[2] <=> yz < zy
        /\ zy * x[2] < yz * x[2] <=> zy < yz
    BY <1>0, <1>1, Cancel
  <2> QED
    BY <1>3, <2>1
<1>7. /\ xz < zx <=> xz * y[2] < zx * y[2]
      /\ zx < xz <=> zx * y[2] < xz * y[2]
  BY <1>0, <1>1, Cancel
<1> QED
  BY <1>1, <1>2, <1>3, <1>4, <1>5, <1>6, <1>7 DEF AtMost

\* Reducing a number does not move it in the order.
LEMMA BelowReduced ==
  ASSUME NEW x \in Number, NEW y \in Number
  PROVE  /\ Below(reduced[x], y) <=> Below(x, y)
         /\ Below(y, reduced[x]) <=> Below(y, x)
<1> DEFINE r == reduced[x]
<1>1. r \in Number /\ r[1] * x[2] = x[1] * r[2]
  BY ReducedValue
<1> HIDE DEF r
<1>2. AtMost(r, x) /\ AtMost(x, r)
  <2>1. r[1] * x[2] \in Int
    BY <1>1, Parts
  <2> QED
    BY <1>1, <2>1 DEF AtMost, Below
<1>3. /\ Below(r, y) <=> Below(x, y)
      /\ Below(y, r) <=> Below(y, x)
  BY <1>1, <1>2, Orders
<1> QED
  BY <1>3 DEF r

\* A positive factor keeps the order.
LEMMA BelowTimes ==
  ASSUME NEW x \in Number, NEW y \in Number, NEW z \in Number, Positive(z)
  PROVE  Below(Times(x, z), Times(y, z)) <=> Below(x, y)
<1> DEFINE xz == <<x[1] * z[1], x[2] * z[2]>>
           yz == <<y[1] * z[1], y[2] * z[2]>>
<1>0. /\ x[1] \in Int /\ x[2] \in Nat \ {0} /\ y[1] \in Int /\ y[2] \in Nat \ {0}
      /\ z[1] \in Nat \ {0} /\ z[2] \in Nat \ {0}
  BY Parts DEF Positive
<1>1. xz \in Number /\ yz \in Number
  BY PartsOfProduct
<1>2. Below(xz, yz) <=> Below(x, y)
  <2>1. /\ (x[1] * z[1]) * (y[2] * z[2]) = (x[1] * y[2]) * (z[1] * z[2])
        /\ (y[1] * z[1]) * (x[2] * z[2]) = (y[1] * x[2]) * (z[1] * z[2])
        /\ z[1] * z[2] \in Nat \ {0}
        /\ x[1] * y[2] \in Int /\ y[1] * x[2] \in Int
    BY <1>0
  <2>2. (x[1] * y[2]) * (z[1] * z[2]) < (y[1] * x[2]) * (z[1] * z[2]) <=> x[1] * y[2] < y[1] * x[2]
    BY <2>1, Cancel
  <2> QED
    BY <2>1, <2>2 DEF Below
<1>3. Times(x, z) = reduced[xz] /\ Times(y, z) = reduced[yz]
  BY DEF Times
<1> HIDE DEF xz, yz
<1>4. reduced[xz] \in Number
  BY <1>1, ReducedValue
<1> QED
  BY <1>1, <1>2, <1>3, <1>4, BelowReduced

\* What is positive, and stays so under a product, and when a difference is.
LEMMA PositiveMeans ==
  ASSUME NEW x \in Number, NEW y \in Number
  PROVE  /\ Positive(x) <=> Below(Zero, x)
         /\ Positive(reduced[x]) <=> Positive(x)
         /\ Positive(x) /\ Positive(y) => Positive(Times(x, y))
         /\ AtMost(Zero, x) /\ AtMost(Zero, y) => AtMost(Zero, Times(x, y))
         /\ Positive(Minus(y, x)) <=> Below(x, y)
<1>0. /\ x[1] \in Int /\ x[2] \in Nat \ {0} /\ y[1] \in Int /\ y[2] \in Nat \ {0}
  BY Parts
<1>1. \A z \in Number : /\ Positive(z) <=> Below(Zero, z)
                        /\ AtMost(Zero, z) <=> z[1] >= 0
  BY Parts DEF Positive, Below, AtMost, Zero
<1>2. Zero \in Number
  BY Constants, LowestTermsAreNumbers
<1>3. \A z \in Number : /\ reduced[z] \in Number
                        /\ Positive(reduced[z]) <=> Positive(z)
                        /\ AtMost(Zero, reduced[z]) <=> AtMost(Zero, z)
  BY <1>1, <1>2, BelowReduced, ReducedValue DEF AtMost
<1>4. /\ <<x[1] * y[1], x[2] * y[2]>> \in Number
      /\ <<y[1] * x[2] - x[1] * y[2], y[2] * x[2]>> \in Number
  BY PartsOfProduct
<1>5. Positive(x) /\ Positive(y) => Positive(Times(x, y))
  <2>1. Positive(x) /\ Positive(y) => x[1] * y[1] > 0
    BY <1>0 DEF Positive
  <2> QED
    BY <1>3, <1>4, <2>1 DEF Positive, Times
<1>6. AtMost(Zero, x) /\ AtMost(Zero, y) => AtMost(Zero, Times(x, y))
  <2>1. x[1] >= 0 /\ y[1] >= 0 => x[1] * y[1] >= 0
    BY <1>0
  <2>2. AtMost(Zero, x) /\ AtMost(Zero, y) => AtMost(Zero, <<x[1] * y[1], x[2] * y[2]>>)
    BY <1>1, <1>4, <2>1
  <2> QED
    BY <1>3, <1>4, <2>2 DEF Times
<1>7. Positive(Minus(y, x)) <=> Below(x, y)
  <2>1. x[1] * y[2] \in Int /\ y[1] * x[2] \in Int
    BY <1>0
  <2>2. Positive(<<y[1] * x[2] - x[1] * y[2], y[2] * x[2]>>) <=> Below(x, y)
    BY <2>1 DEF Positive, Below
  <2> QED
    BY <1>3, <1>4, <2>2 DEF Minus
<1> QED
  BY <1>1, <1>3, <1>5, <1>6, <1>7

\* A fee makes what is bought dearer and what is sold cheaper, and takes less than all of it.
LEMMA FeesMakeWorse ==
  ASSUME NEW fee \in LowestTerms, AtMost(Zero, fee), Below(fee, One)
  PROVE  /\ Plus(One, fee) \in LowestTerms /\ AtMost(One, Plus(One, fee))
         /\ Minus(One, fee) \in LowestTerms /\ AtMost(Minus(One, fee), One)
         /\ Positive(Minus(One, fee)) /\ Positive(Plus(One, fee))
<1> DEFINE m == Minus(Zero, fee)
<1>1. Zero \in Number /\ One \in Number /\ fee \in Number
  BY Constants, LowestTermsAreNumbers
<1>2. /\ m \in Number /\ Plus(One, fee) = Minus(One, m)
      /\ Minus(One, m) \in LowestTerms /\ Minus(One, fee) \in LowestTerms
  BY <1>1, MinusType DEF Plus
<1>3. Positive(Minus(One, fee))
  BY <1>1, PositiveMeans
<1>4. ASSUME NEW x \in Number
      PROVE  /\ AtMost(x, Zero) <=> AtMost(One, Minus(One, x))
             /\ AtMost(Zero, x) <=> AtMost(Minus(One, x), One)
             /\ AtMost(Zero, x) <=> AtMost(Minus(Zero, x), Zero)
  <2>0. x[1] \in Int /\ x[2] \in Nat \ {0}
    BY Parts
  <2> DEFINE u == <<One[1] * x[2] - x[1] * One[2], One[2] * x[2]>>
             v == <<Zero[1] * x[2] - x[1] * Zero[2], Zero[2] * x[2]>>
  <2>1. u \in Number /\ v \in Number /\ Minus(One, x) = reduced[u] /\ Minus(Zero, x) = reduced[v]
    BY <1>1, PartsOfProduct DEF Minus
  <2>2. /\ AtMost(x, Zero) <=> x[1] <= 0
        /\ AtMost(Zero, x) <=> x[1] >= 0
    BY <2>0 DEF AtMost, Below, Zero
  <2>3. u = <<x[2] - x[1], x[2]>> /\ v = <<-x[1], x[2]>>
    BY <2>0 DEF One, Zero
  <2>4. /\ AtMost(One, u) <=> x[1] <= 0
        /\ AtMost(u, One) <=> x[1] >= 0
        /\ AtMost(v, Zero) <=> x[1] >= 0
    BY <2>0, <2>3 DEF AtMost, Below, One, Zero
  <2> HIDE DEF u, v
  <2> QED
    BY <1>1, <2>1, <2>2, <2>4, BelowReduced DEF AtMost
<1>5. AtMost(m, Zero) /\ AtMost(One, Minus(One, m)) /\ AtMost(Minus(One, fee), One)
  BY <1>1, <1>2, <1>4
<1>6. Positive(Minus(One, m))
  <2>1. Below(Zero, One)
    BY DEF Below, Zero, One
  <2> QED
    BY <1>1, <1>2, <1>5, <2>1, Orders, PositiveMeans, LowestTermsAreNumbers
<1> QED
  BY <1>2, <1>3, <1>5, <1>6

\* A product of four, its inner factors swapped.
LEMMA TimesRearranges ==
  ASSUME NEW a \in Number, NEW b \in Number, NEW c \in Number, NEW d \in Number
  PROVE  Times(Times(a, b), Times(c, d)) = Times(Times(a, c), Times(b, d))
<1>1. Times(c, d) \in Number /\ Times(b, d) \in Number /\ Times(b, c) = Times(c, b)
  BY TimesType
<1>2. Times(Times(a, b), Times(c, d)) = Times(a, Times(b, Times(c, d)))
  BY <1>1, TimesAssociates
<1>3. Times(b, Times(c, d)) = Times(c, Times(b, d))
  BY <1>1, TimesAssociates
<1>4. Times(a, Times(c, Times(b, d))) = Times(Times(a, c), Times(b, d))
  BY <1>1, TimesAssociates
<1> QED
  BY <1>2, <1>3, <1>4

\* Two positive numbers on the same side of 1 have their product there too.
LEMMA SideOfOne ==
  ASSUME NEW x \in Number, NEW y \in Number, Positive(x), Positive(y)
  PROVE  /\ Below(One, x) /\ Below(One, y) => Below(One, Times(x, y))
         /\ Below(x, One) /\ Below(y, One) => Below(Times(x, y), One)
<1>1. One \in Number /\ Times(x, y) \in Number /\ Times(One, y) \in Number
  BY Constants, LowestTermsAreNumbers, TimesType
<1>2. /\ Below(One, x) <=> Below(Times(One, y), Times(x, y))
      /\ Below(x, One) <=> Below(Times(x, y), Times(One, y))
  BY <1>1, BelowTimes
<1>3. Times(One, y) = reduced[y]
  BY Parts DEF Times, One
<1>4. /\ Below(One, Times(One, y)) <=> Below(One, y)
      /\ Below(Times(One, y), One) <=> Below(y, One)
  BY <1>1, <1>3, BelowReduced
<1> QED
  BY <1>1, <1>2, <1>4, Orders

-----------------------------------------------------------------------------
(* The steps of a triangle, their volumes and its profit. *)

\* A step with a side, a positive price and a volume, as the search creates and adjusts it.
SoundStep(s) ==
  /\ s = [market |-> s.market, buy |-> s.buy, price |-> s.price, volume |-> s.volume]
  /\ s.buy \in BOOLEAN
  /\ s.price \in LowestTerms /\ Positive(s.price)
  /\ s.volume \in LowestTerms /\ AtMost(Zero, s.volume)

\* Whatever the market, its fee is at least 0 and below 1.
LEMMA TradeFeeSound ==
  ASSUME NEW market
  PROVE  /\ TradeFee(market) \in LowestTerms
         /\ AtMost(Zero, TradeFee(market)) /\ Below(TradeFee(market), One)
BY FeesAssumption DEF TradeFee

\* After the fee a ticker still sells below the price it buys at.
LEMMA PricesAfterFee ==
  ASSUME NEW t, IsTicker(t), NEW market
  PROVE  LET buyPrice == Times(t.ask, Plus(One, TradeFee(market)))
             sellPrice == Times(t.bid, Minus(One, TradeFee(market)))
         IN  /\ buyPrice \in LowestTerms /\ Positive(buyPrice)
             /\ sellPrice \in LowestTerms /\ Positive(sellPrice)
             /\ Below(sellPrice, buyPrice)
<1> DEFINE dearer == Plus(One, TradeFee(market))
           cheaper == Minus(One, TradeFee(market))
<1>1. /\ dearer \in LowestTerms /\ AtMost(One, dearer) /\ Positive(dearer)
      /\ cheaper \in LowestTerms /\ AtMost(cheaper, One) /\ Positive(cheaper)
  BY TradeFeeSound, FeesMakeWorse
<1>2. /\ t.bid \in LowestTerms /\ t.ask \in LowestTerms
      /\ Below(Zero, t.bid) /\ Below(t.bid, t.ask)
  BY DEF IsTicker
<1> HIDE DEF dearer, cheaper
<1>3. /\ t.bid \in Number /\ t.ask \in Number /\ dearer \in Number /\ cheaper \in Number
      /\ Zero \in Number /\ One \in Number
  BY <1>1, <1>2, Constants, LowestTermsAreNumbers
<1>4. Positive(t.bid) /\ Positive(t.ask)
  BY <1>2, <1>3, Orders, PositiveMeans
<1>5. /\ Times(t.ask, dearer) \in LowestTerms /\ Times(t.ask, dearer) \in Number
      /\ Times(t.bid, cheaper) \in LowestTerms /\ Times(t.bid, cheaper) \in Number
      /\ Positive(Times(t.ask, dearer)) /\ Positive(Times(t.bid, cheaper))
  BY <1>1, <1>3, <1>4, TimesType, PositiveMeans
<1>6. AtMost(t.ask, Times(t.ask, dearer))
  <2>1. Times(t.ask, One) = t.ask /\ Times(t.ask, One) = Times(One, t.ask)
    BY <1>2, <1>3, TimesOne, TimesType
  <2>2. AtMost(Times(One, t.ask), Times(dearer, t.ask))
    BY <1>1, <1>3, <1>4, BelowTimes DEF AtMost
  <2> QED
    BY <1>3, <2>1, <2>2, TimesType
<1>7. AtMost(Times(t.bid, cheaper), t.bid)
  <2>1. Times(t.bid, One) = t.bid /\ Times(t.bid, One) = Times(One, t.bid)
    BY <1>2, <1>3, TimesOne, TimesType
  <2>2. AtMost(Times(cheaper, t.bid), Times(One, t.bid))
    BY <1>1, <1>3, <1>4, BelowTimes DEF AtMost
  <2> QED
    BY <1>3, <2>1, <2>2, TimesType
<1>8. Below(Times(t.bid, cheaper), t.ask)
  BY <1>2, <1>3, <1>5, <1>7, Orders
<1>9. Below(Times(t.bid, cheaper), Times(t.ask, dearer))
  BY <1>3, <1>5, <1>6, <1>8, Orders
<1> QED
  BY <1>5, <1>9 DEF dearer, cheaper

\* Each step _create_chain_step makes of a ticker is sound, on the side the coin asks for.
LEMMA ChainStepSound ==
  ASSUME NEW t, IsTicker(t), NEW market, NEW coin
  PROVE  /\ SoundStep(ChainStep(market, t, coin))
         /\ ChainStep(market, t, coin).buy = (coin = market.base)
<1> DEFINE buyPrice == Times(t.ask, Plus(One, TradeFee(market)))
           sellPrice == Times(t.bid, Minus(One, TradeFee(market)))
           buy == coin = market.base
           price == IF buy THEN buyPrice ELSE sellPrice
           volume == IF buy THEN t.askQuantity ELSE Times(t.bidQuantity, price)
<1>1. /\ buyPrice \in LowestTerms /\ Positive(buyPrice)
      /\ sellPrice \in LowestTerms /\ Positive(sellPrice)
  BY PricesAfterFee
<1>2. ChainStep(market, t, coin) = [market |-> market, buy |-> buy, price |-> price, volume |-> volume]
  BY DEF ChainStep
<1> HIDE DEF buyPrice, sellPrice
<1>3. price \in LowestTerms /\ Positive(price)
  BY <1>1
<1>4. /\ t.askQuantity \in LowestTerms /\ AtMost(Zero, t.askQuantity)
      /\ t.bidQuantity \in LowestTerms /\ AtMost(Zero, t.bidQuantity)
  BY DEF IsTicker
<1>5. buy \in BOOLEAN
  OBVIOUS
<1> HIDE DEF price
<1>6. volume \in LowestTerms /\ AtMost(Zero, volume)
  <2>1. price \in Number /\ t.bidQuantity \in Number /\ Zero \in Number
    BY <1>3, <1>4, Constants, LowestTermsAreNumbers
  <2>2. AtMost(Zero, price)
    BY <1>3, <2>1, PositiveMeans, Orders
  <2> QED
    BY <1>4, <2>1, <2>2, TimesType, PositiveMeans
<1> HIDE DEF buy, volume
<1> QED
  BY <1>2, <1>3, <1>5, <1>6 DEF SoundStep, buy

\* What a step gets is what it proposes divided by its price factor, and back.
LEMMA StepVolumes ==
  ASSUME NEW s, SoundStep(s)
  PROVE  /\ PriceFactor(s) \in LowestTerms /\ Positive(PriceFactor(s))
         /\ Gets(s) \in LowestTerms /\ AtMost(Zero, Gets(s))
         /\ Proposes(s) \in LowestTerms /\ AtMost(Zero, Proposes(s))
         /\ Proposes(s) = Times(Gets(s), PriceFactor(s))
         /\ Positive(s.volume) => Positive(Gets(s)) /\ Positive(Proposes(s))
<1> DEFINE p == s.price
           v == s.volume
           i == Inverted(p)
<1>1. /\ p \in LowestTerms /\ p \in Number /\ Positive(p)
      /\ v \in LowestTerms /\ v \in Number /\ AtMost(Zero, v)
      /\ Zero \in Number /\ One \in Number
  BY Constants, LowestTermsAreNumbers DEF SoundStep
<1>2. AtMost(Zero, p)
  BY <1>1, PositiveMeans, Orders
<1>3. /\ Times(v, p) \in LowestTerms /\ Times(v, p) \in Number /\ AtMost(Zero, Times(v, p))
      /\ Positive(v) => Positive(Times(v, p))
  BY <1>1, <1>2, TimesType, PositiveMeans
<1>4. CASE s.buy
  <2>1. PriceFactor(s) = p /\ Gets(s) = v /\ Proposes(s) = Times(v, p)
    BY <1>4 DEF PriceFactor, Gets, Proposes
  <2> HIDE DEF p, v
  <2> QED
    BY <1>1, <1>3, <2>1 DEF v
<1>5. CASE ~s.buy
  <2>1. PriceFactor(s) = Over(One, p) /\ Gets(s) = Times(v, p) /\ Proposes(s) = v
    BY <1>5 DEF PriceFactor, Gets, Proposes
  <2>2. i \in Number /\ Positive(i) /\ Over(One, p) = Times(One, i) /\ Times(p, i) = One
    BY <1>1, OverIsTimes
  <2> HIDE DEF p, v, i
  <2>3. Times(One, i) = Times(i, One) /\ Times(One, i) \in LowestTerms
    BY <1>1, <2>2, TimesType
  <2>4. Positive(Times(One, i))
    BY <1>1, <2>2, PositiveMeans DEF One, Positive
  <2>5. Times(Times(v, p), Times(i, One)) = v
    <3>1. Times(Times(v, p), Times(i, One)) = Times(v, Times(p, Times(i, One)))
      BY <1>1, <2>2, TimesType, TimesAssociates
    <3>2. Times(p, Times(i, One)) = Times(Times(p, i), One)
      BY <1>1, <2>2, TimesAssociates
    <3>3. Times(One, One) = One /\ Times(v, One) = v
      BY <1>1, Constants, TimesOne
    <3> QED
      BY <2>2, <3>1, <3>2, <3>3
  <2> QED
    BY <1>1, <1>3, <2>1, <2>2, <2>3, <2>4, <2>5 DEF v
<1> QED
  BY <1>4, <1>5 DEF SoundStep

\* What a step gets, from what it proposes.
LEMMA GetsIsOver ==
  ASSUME NEW s, SoundStep(s)
  PROVE  Gets(s) = Over(Proposes(s), PriceFactor(s))
BY StepVolumes, OverUndoesTimes, LowestTermsAreNumbers

\* _adjust_step_volume makes the step spend exactly what it is given: no more than the
\* volume the step was created with if and only if the step could take it.
LEMMA AdjustedSound ==
  ASSUME NEW s, SoundStep(s), NEW spent \in LowestTerms, AtMost(Zero, spent)
  PROVE  /\ SoundStep(AdjustedStep(s, spent))
         /\ Proposes(AdjustedStep(s, spent)) = spent
         /\ PriceFactor(AdjustedStep(s, spent)) = PriceFactor(s)
         /\ AtMost(AdjustedStep(s, spent).volume, s.volume) <=> AtMost(spent, Proposes(s))
         /\ spent = Proposes(s) => AdjustedStep(s, spent).volume = s.volume
         /\ Positive(spent) => Positive(AdjustedStep(s, spent).volume)
<1> DEFINE p == s.price
           v == s.volume
           w == IF s.buy THEN Over(spent, p) ELSE spent
           a == AdjustedStep(s, spent)
<1>1. /\ p \in LowestTerms /\ p \in Number /\ Positive(p)
      /\ v \in LowestTerms /\ v \in Number /\ AtMost(Zero, v)
      /\ spent \in Number /\ Zero \in Number
  BY Constants, LowestTermsAreNumbers DEF SoundStep
<1>2. a = [market |-> s.market, buy |-> s.buy, price |-> p, volume |-> w]
  <2>1. s = [market |-> s.market, buy |-> s.buy, price |-> s.price, volume |-> s.volume]
    BY DEF SoundStep
  <2>2. a = [s EXCEPT !.volume = w]
    BY DEF AdjustedStep
  <2> HIDE DEF w, a
  <2> QED
    BY <2>1, <2>2
<1>3. s.buy \in BOOLEAN
  BY DEF SoundStep
<1>4. /\ w \in LowestTerms /\ AtMost(Zero, w)
      /\ Proposes(a) = spent
      /\ AtMost(w, v) <=> AtMost(spent, Proposes(s))
      /\ spent = Proposes(s) => w = v
      /\ Positive(spent) => Positive(w)
  <2>1. CASE s.buy
    <3>1. w = Over(spent, p) /\ Proposes(s) = Times(v, p)
      BY <2>1 DEF Proposes
    <3>2. Proposes(a) = Times(w, p)
      <4> HIDE DEF w, a, p
      <4> QED
        BY <2>1, <1>2 DEF Proposes
    <3> HIDE DEF p, v, w, a
    <3>3. w \in LowestTerms /\ w \in Number /\ Times(w, p) = spent /\ Over(Times(v, p), p) = v
      BY <1>1, <3>1, OverUndoesTimes, LowestTermsAreNumbers
    <3>4. AtMost(w, v) <=> AtMost(Times(w, p), Times(v, p))
      BY <1>1, <3>3, BelowTimes DEF AtMost
    <3>5. AtMost(Zero, w) /\ (Positive(spent) => Positive(w))
      <4>1. Inverted(p) \in Number /\ Positive(Inverted(p)) /\ w = Times(spent, Inverted(p))
        BY <1>1, <3>1, OverIsTimes
      <4>2. AtMost(Zero, Inverted(p))
        BY <1>1, <4>1, PositiveMeans, Orders
      <4> QED
        BY <1>1, <4>1, <4>2, PositiveMeans
    <3> QED
      BY <3>1, <3>2, <3>3, <3>4, <3>5
  <2>2. CASE ~s.buy
    <3>1. w = spent /\ Proposes(s) = v
      BY <2>2 DEF Proposes
    <3>2. Proposes(a) = w
      <4> HIDE DEF w, a, p
      <4> QED
        BY <2>2, <1>2 DEF Proposes
    <3> HIDE DEF p, v, w, a
    <3> QED
      BY <3>1, <3>2
  <2> QED
    BY <1>3, <2>1, <2>2
<1>5. PriceFactor(a) = PriceFactor(s)
  <2> HIDE DEF a, w
  <2> QED
    BY <1>2 DEF PriceFactor
<1> HIDE DEF a, w
<1>6. SoundStep(a) /\ a.volume = w
  BY <1>1, <1>2, <1>3, <1>4 DEF SoundStep
<1> QED
  BY <1>4, <1>5, <1>6 DEF a

\* The smaller of two numbers is one of them and exceeds neither.
LEMMA LeastOfTwo ==
  ASSUME NEW x \in LowestTerms, NEW y \in LowestTerms
  PROVE  /\ Least(x, y) \in {x, y} /\ Least(x, y) \in LowestTerms
         /\ AtMost(Least(x, y), x) /\ AtMost(Least(x, y), y)
BY Orders, LowestTermsAreNumbers DEF Least, AtMost

\* Three such steps.
SoundChain(chain) == \A i \in Legs : SoundStep(chain[i])

\* coinA_max_available is the most that all three markets can take, and one of them
\* can take no more.
LEMMA MaxAvailableFits ==
  ASSUME NEW chain, SoundChain(chain), \A i \in Legs : Positive(chain[i].volume)
  PROVE  LET p == [i \in Legs |-> PriceFactor(chain[i])]
             pr == [i \in Legs |-> Proposes(chain[i])]
             max == MaxAvailable(chain)
             at2 == Times(pr[2], p[1])
             at3 == Times(Times(pr[3], p[2]), p[1])
         IN  /\ max \in LowestTerms /\ Positive(max)
             /\ AtMost(max, pr[1]) /\ AtMost(max, at2) /\ AtMost(max, at3)
             /\ max \in {pr[1], at2, at3}
<1> DEFINE p(i) == PriceFactor(chain[i])
           pr(i) == Proposes(chain[i])
           g(i) == Gets(chain[i])
           at2 == Times(pr(2), p(1))
           at3 == Times(Times(pr(3), p(2)), p(1))
           rest == Least(at2, at3)
           max == MaxAvailable(chain)
<1>1. ASSUME NEW i \in Legs
      PROVE  /\ p(i) \in LowestTerms /\ p(i) \in Number /\ Positive(p(i))
             /\ pr(i) \in LowestTerms /\ pr(i) \in Number /\ Positive(pr(i))
             /\ Over(pr(i), g(i)) = p(i)
  <2>1. /\ p(i) \in LowestTerms /\ p(i) \in Number /\ Positive(p(i))
        /\ pr(i) \in LowestTerms /\ pr(i) \in Number /\ Positive(pr(i))
        /\ g(i) \in LowestTerms /\ g(i) \in Number /\ Positive(g(i))
        /\ pr(i) = Times(g(i), p(i))
    BY <1>1, StepVolumes, LowestTermsAreNumbers DEF SoundChain
  <2> HIDE DEF p, pr, g
  <2>2. Times(g(i), p(i)) = Times(p(i), g(i))
    BY <2>1, TimesType
  <2> QED
    BY <2>1, <2>2, OverUndoesTimes
<1>2. /\ p(1) \in Number /\ Positive(p(1)) /\ p(2) \in Number /\ Positive(p(2))
      /\ pr(1) \in LowestTerms /\ pr(1) \in Number /\ Positive(pr(1))
      /\ pr(2) \in Number /\ Positive(pr(2)) /\ pr(3) \in Number /\ Positive(pr(3))
      /\ Over(pr(1), g(1)) = p(1) /\ Over(pr(2), g(2)) = p(2)
  BY <1>1 DEF Legs
<1>3. max = Least(pr(1), rest)
  <2>1. max = Least(pr(1), Least(Times(pr(2), Over(pr(1), g(1))),
                                 Times(Times(pr(3), Over(pr(2), g(2))), Over(pr(1), g(1)))))
    BY DEF MaxAvailable
  <2> HIDE DEF p, pr, g, max
  <2> QED
    BY <1>2, <2>1
<1> HIDE DEF p, pr, g, max
<1>4. /\ at2 \in LowestTerms /\ at2 \in Number /\ Positive(at2)
      /\ at3 \in LowestTerms /\ at3 \in Number /\ Positive(at3)
  BY <1>2, TimesType, PositiveMeans
<1> HIDE DEF at2, at3
<1>5. /\ rest \in {at2, at3} /\ rest \in LowestTerms /\ rest \in Number
      /\ AtMost(rest, at2) /\ AtMost(rest, at3)
  BY <1>4, LeastOfTwo
<1> HIDE DEF rest
<1>6. /\ max \in {pr(1), rest} /\ max \in LowestTerms /\ max \in Number
      /\ AtMost(max, pr(1)) /\ AtMost(max, rest)
  BY <1>2, <1>3, <1>5, LeastOfTwo, LowestTermsAreNumbers
<1>7. AtMost(max, at2) /\ AtMost(max, at3)
  BY <1>4, <1>5, <1>6, Orders
<1>8. Positive(max) /\ max \in {pr(1), at2, at3}
  BY <1>2, <1>4, <1>5, <1>6
<1> QED
  BY <1>6, <1>7, <1>8 DEF p, pr, max, at2, at3, Legs

\* Dividing both sides by a positive number.
LEMMA AtMostOver ==
  ASSUME NEW x \in LowestTerms, NEW y \in LowestTerms, NEW p \in Number, Positive(p)
  PROVE  /\ AtMost(Over(x, p), y) <=> AtMost(x, Times(y, p))
         /\ x = Times(y, p) => Over(x, p) = y
<1>1. /\ x \in Number /\ y \in Number
      /\ Over(x, p) \in Number /\ Times(Over(x, p), p) = x /\ Over(Times(y, p), p) = y
  BY OverUndoesTimes, LowestTermsAreNumbers
<1>2. AtMost(Over(x, p), y) <=> AtMost(Times(Over(x, p), p), Times(y, p))
  BY <1>1, BelowTimes DEF AtMost
<1> QED
  BY <1>1, <1>2

\* The chain all of whose volumes are positive, matched.
LEMMA MatchedPositive ==
  ASSUME NEW chain, SoundChain(chain), \A i \in Legs : Positive(chain[i].volume)
  PROVE  LET m == Matched(chain)
             p == [i \in Legs |-> PriceFactor(chain[i])]
         IN  /\ \A i \in Legs : SoundStep(m[i]) /\ PriceFactor(m[i]) = p[i]
             /\ \A i \in 1..2 : Proposes(m[i + 1]) = Gets(m[i])
             /\ \A i \in Legs : AtMost(m[i].volume, chain[i].volume)
             /\ \E i \in Legs : m[i].volume = chain[i].volume
             /\ Positive(m[1].volume)
<1> DEFINE m == Matched(chain)
           p(i) == PriceFactor(chain[i])
           pr(i) == Proposes(chain[i])
           max == MaxAvailable(chain)
           at2 == Times(pr(2), p(1))
           at32 == Times(pr(3), p(2))
           at3 == Times(at32, p(1))
           one == AdjustedStep(chain[1], max)
           two == AdjustedStep(chain[2], Gets(one))
           three == AdjustedStep(chain[3], Gets(two))
<1>1. m = <<one, two, three>>
  <2>1. ~\E i \in 1..3 : chain[i].volume = Zero
    BY DEF Legs, Positive, Zero
  <2> QED
    BY <2>1 DEF Matched
<1>2. /\ max \in LowestTerms /\ Positive(max)
      /\ AtMost(max, pr(1)) /\ AtMost(max, at2) /\ AtMost(max, at3)
      /\ max \in {pr(1), at2, at3}
  BY MaxAvailableFits DEF Legs
<1>3. ASSUME NEW i \in Legs
      PROVE  /\ SoundStep(chain[i])
             /\ p(i) \in LowestTerms /\ p(i) \in Number /\ Positive(p(i))
             /\ pr(i) \in LowestTerms /\ pr(i) \in Number
  BY <1>3, StepVolumes, LowestTermsAreNumbers DEF SoundChain
<1>4. /\ SoundStep(chain[1]) /\ SoundStep(chain[2]) /\ SoundStep(chain[3])
      /\ p(1) \in Number /\ Positive(p(1)) /\ p(2) \in Number /\ Positive(p(2))
      /\ pr(1) \in LowestTerms /\ pr(2) \in LowestTerms /\ pr(3) \in LowestTerms
      /\ pr(2) \in Number /\ pr(3) \in Number
  BY <1>3 DEF Legs
<1>5. at32 \in LowestTerms
  <2> HIDE DEF p, pr
  <2> QED
    BY <1>4, TimesType
<1>6. AtMost(Zero, max)
  BY <1>2, Constants, LowestTermsAreNumbers, PositiveMeans, Orders
<1>7. /\ SoundStep(one) /\ Proposes(one) = max /\ PriceFactor(one) = p(1)
      /\ AtMost(one.volume, chain[1].volume)
      /\ max = pr(1) => one.volume = chain[1].volume
      /\ Positive(one.volume)
  <2> HIDE DEF max
  <2> QED
    BY <1>2, <1>4, <1>6, AdjustedSound
<1>8. Gets(one) \in LowestTerms /\ AtMost(Zero, Gets(one)) /\ Gets(one) = Over(max, p(1))
  <2> HIDE DEF one
  <2> QED
    BY <1>7, StepVolumes, GetsIsOver
<1>9. /\ AtMost(Gets(one), pr(2)) /\ AtMost(Gets(one), at32)
      /\ max = at2 => Gets(one) = pr(2)
      /\ max = at3 => Gets(one) = at32
  <2> DEFINE spent == Gets(one)
  <2>1. spent = Over(max, p(1))
    BY <1>8
  <2> HIDE DEF p, pr, max, at32, spent
  <2> QED
    BY <1>2, <1>4, <1>5, <2>1, AtMostOver DEF spent
<1>10. /\ SoundStep(two) /\ Proposes(two) = Gets(one) /\ PriceFactor(two) = p(2)
       /\ AtMost(two.volume, chain[2].volume)
       /\ Gets(one) = pr(2) => two.volume = chain[2].volume
  <2> DEFINE spent == Gets(one)
  <2>1. spent \in LowestTerms /\ AtMost(Zero, spent) /\ AtMost(spent, pr(2))
    BY <1>8, <1>9
  <2> HIDE DEF spent
  <2>2. LET a == AdjustedStep(chain[2], spent)
        IN  /\ SoundStep(a) /\ Proposes(a) = spent /\ PriceFactor(a) = p(2)
            /\ AtMost(a.volume, chain[2].volume)
            /\ spent = pr(2) => a.volume = chain[2].volume
    BY <1>4, <2>1, AdjustedSound
  <2> QED
    BY <2>2 DEF spent
<1>11. Gets(two) \in LowestTerms /\ AtMost(Zero, Gets(two)) /\ Gets(two) = Over(Gets(one), p(2))
  <2> HIDE DEF two, one
  <2> QED
    BY <1>10, StepVolumes, GetsIsOver
<1>12. /\ AtMost(Gets(two), pr(3))
       /\ Gets(one) = at32 => Gets(two) = pr(3)
  <2> DEFINE spent == Gets(two)
             before == Gets(one)
  <2>1. spent = Over(before, p(2)) /\ before \in LowestTerms /\ AtMost(before, at32)
    BY <1>8, <1>9, <1>11
  <2> HIDE DEF p, pr, spent, before
  <2>2. AtMost(spent, pr(3)) /\ (before = at32 => spent = pr(3))
    BY <1>4, <2>1, AtMostOver
  <2> QED
    BY <2>2 DEF spent, before
<1>13. /\ SoundStep(three) /\ Proposes(three) = Gets(two) /\ PriceFactor(three) = p(3)
       /\ AtMost(three.volume, chain[3].volume)
       /\ Gets(two) = pr(3) => three.volume = chain[3].volume
  <2> DEFINE spent == Gets(two)
  <2>1. spent \in LowestTerms /\ AtMost(Zero, spent) /\ AtMost(spent, pr(3))
    BY <1>11, <1>12
  <2> HIDE DEF spent
  <2>2. LET a == AdjustedStep(chain[3], spent)
        IN  /\ SoundStep(a) /\ Proposes(a) = spent /\ PriceFactor(a) = p(3)
            /\ AtMost(a.volume, chain[3].volume)
            /\ spent = pr(3) => a.volume = chain[3].volume
    BY <1>4, <2>1, AdjustedSound
  <2> QED
    BY <2>2 DEF spent
<1> HIDE DEF one, two, three, p, pr, max, at2, at32, at3, m
<1>14. m[1] = one /\ m[2] = two /\ m[3] = three
  BY <1>1
<1>15. \E i \in Legs : m[i].volume = chain[i].volume
  BY <1>2, <1>7, <1>9, <1>10, <1>12, <1>13, <1>14 DEF Legs
<1>16. /\ \A i \in Legs : SoundStep(m[i]) /\ PriceFactor(m[i]) = p(i)
       /\ \A i \in Legs : AtMost(m[i].volume, chain[i].volume)
       /\ Positive(m[1].volume)
  BY <1>7, <1>10, <1>13, <1>14 DEF Legs
<1>17. \A i \in 1..2 : Proposes(m[i + 1]) = Gets(m[i])
  <2>1. Proposes(m[2]) = Gets(m[1]) /\ Proposes(m[3]) = Gets(m[2])
    BY <1>10, <1>13, <1>14
  <2> QED
    BY <2>1
<1> QED
  BY <1>15, <1>16, <1>17 DEF m, p

\* A chain one of whose steps has no volume is matched to no volume at all.
LEMMA MatchedZero ==
  ASSUME NEW chain, SoundChain(chain), \E i \in Legs : chain[i].volume = Zero
  PROVE  LET m == Matched(chain)
         IN  \A i \in Legs : m[i].volume = Zero /\ Proposes(m[i]) = Zero /\ Gets(m[i]) = Zero
<1> DEFINE m == Matched(chain)
<1>1. m = [i \in 1..3 |-> [chain[i] EXCEPT !.volume = Zero]]
  BY DEF Matched, Legs
<1> SUFFICES ASSUME NEW i \in Legs
             PROVE  m[i].volume = Zero /\ Proposes(m[i]) = Zero /\ Gets(m[i]) = Zero
  OBVIOUS
<1> DEFINE s == m[i]
           p == s.price
<1>2. m[i] = [chain[i] EXCEPT !.volume = Zero]
  BY <1>1 DEF Legs
<1>3. SoundStep(chain[i])
  BY DEF SoundChain
<1> HIDE DEF m
<1>4. s.volume = Zero /\ p = chain[i].price
  BY <1>2, <1>3 DEF SoundStep
<1>5. p \in LowestTerms /\ Zero \in Number /\ p \in Number
  BY <1>3, <1>4, Constants, LowestTermsAreNumbers DEF SoundStep
<1> HIDE DEF s, p
<1>6. Times(Zero, p) = Zero
  BY <1>5, TimesOne, TimesType
<1>7. Proposes(s) = Zero /\ Gets(s) = Zero
  BY <1>4, <1>6 DEF Proposes, Gets, p
<1> QED
  BY <1>4, <1>7 DEF s

\* A chain has a positive volume at each step or none at one of them.
LEMMA VolumesPositiveOrZero ==
  ASSUME NEW chain, SoundChain(chain)
  PROVE  \/ \A i \in Legs : Positive(chain[i].volume)
         \/ \E i \in Legs : chain[i].volume = Zero
<1>1. ASSUME NEW v \in LowestTerms, AtMost(Zero, v), v # Zero PROVE Positive(v)
  <2>1. v \in Number /\ v[1] \in Int /\ v[2] \in Nat \ {0} /\ Zero \in LowestTerms
    BY Constants, LowestTermsAreNumbers, Parts
  <2>2. v[1] >= 0
    BY <1>1, <2>1 DEF AtMost, Below, Zero
  <2>3. v[1] # 0
    <3>1. v[1] = 0 => v[1] * Zero[2] = Zero[1] * v[2]
      BY <2>1 DEF Zero
    <3> QED
      BY <1>1, <2>1, <3>1, SameNumber
  <2> QED
    BY <2>1, <2>2, <2>3 DEF Positive
<1> QED
  BY <1>1 DEF SoundChain, SoundStep

\* calc_and_return_max_available_triangle_volume makes a largest trade of every chain.
LEMMA MatchedLargest ==
  ASSUME NEW chain, SoundChain(chain)
  PROVE  LET m == Matched(chain)
         IN  /\ \A i \in 1..2 : Proposes(m[i + 1]) = Gets(m[i])
             /\ \A i \in Legs : AtMost(m[i].volume, chain[i].volume)
             /\ \E i \in Legs : m[i].volume = chain[i].volume
<1>1. CASE \A i \in Legs : Positive(chain[i].volume)
  BY <1>1, MatchedPositive
<1>2. CASE \E i \in Legs : chain[i].volume = Zero
  <2> DEFINE m == Matched(chain)
  <2>1. \A i \in Legs : m[i].volume = Zero /\ Proposes(m[i]) = Zero /\ Gets(m[i]) = Zero
    BY <1>2, MatchedZero
  <2> HIDE DEF m
  <2>2. \A i \in 1..2 : Proposes(m[i + 1]) = Gets(m[i])
    BY <2>1 DEF Legs
  <2>3. \A i \in Legs : AtMost(m[i].volume, chain[i].volume)
    BY <2>1 DEF SoundChain, SoundStep
  <2> QED
    BY <1>2, <2>1, <2>2, <2>3 DEF m
<1> QED
  BY <1>1, <1>2, VolumesPositiveOrZero

\* The profit find computes for a chain is positive exactly when its matched
\* volumes bring in more than they spend.
LEMMA ProfitIsGain ==
  ASSUME NEW chain, SoundChain(chain)
  PROVE  LET m == Matched(chain)
         IN  Positive(Profit(chain)) <=> Below(Proposes(m[1]), Gets(m[3]))
<1> DEFINE m == Matched(chain)
           p(i) == PriceFactor(chain[i])
           round == Times(p(1), Times(p(2), p(3)))
           roi == Roi(chain)
<1>1. /\ p(1) \in Number /\ Positive(p(1)) /\ p(2) \in Number /\ Positive(p(2))
      /\ p(3) \in Number /\ Positive(p(3))
  <2>1. \A i \in Legs : p(i) \in Number /\ Positive(p(i))
    BY StepVolumes, LowestTermsAreNumbers DEF SoundChain
  <2> QED
    BY <2>1 DEF Legs
<1>2. roi = Minus(One, round) /\ Profit(chain) = Times(m[1].volume, roi)
  BY DEF Roi, Profit
<1>3. Zero \in LowestTerms /\ Zero \in Number /\ One \in LowestTerms /\ One \in Number
  BY Constants, LowestTermsAreNumbers
<1>4. /\ round \in LowestTerms /\ round \in Number
      /\ roi \in LowestTerms /\ roi \in Number
      /\ Positive(roi) <=> Below(round, One)
  <2> HIDE DEF p, roi
  <2>1. round \in LowestTerms /\ round \in Number
    BY <1>1, TimesType
  <2> HIDE DEF round
  <2> QED
    BY <1>2, <1>3, <2>1, MinusType, PositiveMeans
<1>5. CASE \A i \in Legs : Positive(chain[i].volume)
  <2> DEFINE volume == m[1].volume
             back == Gets(m[3])
  <2>1. /\ \A i \in Legs : SoundStep(m[i]) /\ PriceFactor(m[i]) = p(i)
        /\ \A i \in 1..2 : Proposes(m[i + 1]) = Gets(m[i])
        /\ Positive(volume)
    BY <1>5, MatchedPositive
  <2> HIDE DEF m, p, round, roi
  <2>2. /\ SoundStep(m[1]) /\ SoundStep(m[2]) /\ SoundStep(m[3])
        /\ PriceFactor(m[1]) = p(1) /\ PriceFactor(m[2]) = p(2) /\ PriceFactor(m[3]) = p(3)
        /\ Proposes(m[2]) = Gets(m[1]) /\ Proposes(m[3]) = Gets(m[2])
    BY <2>1 DEF Legs
  <2>3. /\ Proposes(m[1]) = Times(Gets(m[1]), p(1))
        /\ Proposes(m[2]) = Times(Gets(m[2]), p(2))
        /\ Proposes(m[3]) = Times(back, p(3))
        /\ back \in LowestTerms /\ back \in Number
        /\ Positive(Proposes(m[1]))
        /\ volume \in LowestTerms /\ volume \in Number
    <3>1. volume \in LowestTerms /\ volume \in Number
      BY <2>2, LowestTermsAreNumbers DEF SoundStep
    <3> HIDE DEF volume
    <3> QED
      BY <2>1, <2>2, <3>1, StepVolumes, LowestTermsAreNumbers DEF volume
  <2>4. Proposes(m[1]) = Times(Times(Times(back, p(3)), p(2)), p(1))
    BY <2>2, <2>3
  <2> HIDE DEF back
  <2>5. Proposes(m[1]) = Times(round, back)
    <3>1. /\ Times(back, p(3)) \in Number /\ Times(p(3), p(2)) \in Number
          /\ Times(p(3), p(2)) = Times(p(2), p(3)) /\ Times(p(2), p(3)) \in Number
      BY <1>1, <2>3, TimesType
    <3>2. Times(Times(back, p(3)), p(2)) = Times(back, Times(p(2), p(3)))
      BY <1>1, <2>3, <3>1, TimesAssociates
    <3>3. Times(Times(back, Times(p(2), p(3))), p(1)) = Times(back, Times(Times(p(2), p(3)), p(1)))
      BY <1>1, <2>3, <3>1, TimesAssociates
    <3>4. Times(Times(p(2), p(3)), p(1)) = round
      BY <1>1, <3>1, TimesType DEF round
    <3>5. Times(back, round) = Times(round, back)
      BY <1>4, <2>3, TimesType
    <3> QED
      BY <2>4, <3>2, <3>3, <3>4, <3>5
  <2>6. Positive(back)
    <3>1. AtMost(Zero, back) /\ SoundStep(m[3])
      BY <2>2, StepVolumes DEF back
    <3>2. back # Zero
      <4>1. Times(round, Zero) = Zero /\ ~Positive(Zero)
        BY <1>4, TimesOne DEF Positive, Zero
      <4> QED
        BY <2>3, <2>5, <4>1
    <3>3. back[1] \in Int /\ back[2] \in Nat \ {0} /\ back[1] >= 0
      BY <2>3, <3>1, Parts DEF AtMost, Below, Zero
    <3>4. back[1] # 0
      <4>1. back[1] = 0 => back[1] * Zero[2] = Zero[1] * back[2]
        BY <3>3 DEF Zero
      <4> QED
        BY <1>3, <2>3, <3>2, <4>1, SameNumber
    <3> QED
      BY <3>3, <3>4 DEF Positive
  <2>7. Below(round, One) <=> Below(Proposes(m[1]), back)
    <3>1. Times(One, back) = back
      BY <1>3, <2>3, TimesType, TimesOne
    <3>2. Below(round, One) <=> Below(Times(round, back), Times(One, back))
      BY <1>3, <1>4, <2>3, <2>6, BelowTimes
    <3> QED
      BY <2>5, <3>1, <3>2
  <2>8. Positive(Times(volume, roi)) <=> Positive(roi)
    <3> HIDE DEF volume
    <3>1. Times(Zero, volume) = Zero
      BY <1>3, <2>3, TimesType, TimesOne
    <3>2. Below(Zero, roi) <=> Below(Zero, Times(roi, volume))
      BY <1>3, <1>4, <2>1, <2>3, <3>1, BelowTimes
    <3>3. Times(roi, volume) \in Number /\ Times(roi, volume) = Times(volume, roi)
      BY <1>4, <2>3, TimesType
    <3> QED
      BY <1>4, <3>2, <3>3, PositiveMeans
  <2> QED
    BY <1>2, <1>4, <2>7, <2>8 DEF back, volume, m
<1>6. CASE \E i \in Legs : chain[i].volume = Zero
  <2>1. /\ m[1].volume = Zero /\ Proposes(m[1]) = Zero /\ Gets(m[3]) = Zero
    BY <1>6, MatchedZero DEF Legs
  <2> HIDE DEF m, roi
  <2>2. Profit(chain) = Zero
    BY <1>2, <1>3, <1>4, <2>1, TimesType, TimesOne
  <2>3. ~Positive(Zero) /\ ~Below(Zero, Zero)
    BY DEF Positive, Below, Zero
  <2> QED
    BY <2>1, <2>2, <2>3 DEF m
<1> QED
  BY <1>5, <1>6, VolumesPositiveOrZero

\* Buying a coin and selling it again on one ticker costs more than it brings in.
LEMMA ThereAndBack ==
  ASSUME NEW t, IsTicker(t), NEW market, market.base # market.quote
  PROVE  LET there == PriceFactor(ChainStep(market, t, market.base))
             back == PriceFactor(ChainStep(market, t, market.quote))
         IN  Below(One, Times(there, back))
<1> DEFINE buyPrice == Times(t.ask, Plus(One, TradeFee(market)))
           sellPrice == Times(t.bid, Minus(One, TradeFee(market)))
           i == Inverted(sellPrice)
<1>1. /\ buyPrice \in LowestTerms /\ Positive(buyPrice)
      /\ sellPrice \in LowestTerms /\ Positive(sellPrice)
      /\ Below(sellPrice, buyPrice)
  BY PricesAfterFee
<1>2. /\ PriceFactor(ChainStep(market, t, market.base)) = buyPrice
      /\ PriceFactor(ChainStep(market, t, market.quote)) = Over(One, sellPrice)
  BY DEF ChainStep, PriceFactor
<1> HIDE DEF buyPrice, sellPrice
<1>3. buyPrice \in Number /\ sellPrice \in Number /\ One \in LowestTerms /\ One \in Number
  BY <1>1, Constants, LowestTermsAreNumbers
<1>4. /\ i \in Number /\ Positive(i) /\ Over(One, sellPrice) = Times(One, i)
      /\ Times(sellPrice, i) = One
  BY <1>1, <1>3, OverIsTimes
<1> HIDE DEF i
<1>5. Below(One, Times(buyPrice, i))
  BY <1>1, <1>3, <1>4, BelowTimes
<1>6. Times(buyPrice, Times(One, i)) = Times(buyPrice, i)
  <2>1. Times(One, i) = Times(i, One) /\ Times(buyPrice, i) \in LowestTerms
    BY <1>3, <1>4, TimesType
  <2>2. Times(Times(buyPrice, i), One) = Times(buyPrice, i)
    BY <2>1, TimesOne
  <2> QED
    BY <1>3, <1>4, <2>1, <2>2, TimesAssociates
<1> QED
  BY <1>2, <1>4, <1>5, <1>6

\* Two ways round cannot both end below 1 if every leg, there and back, ends above 1.
LEMMA RoundBothWays ==
  ASSUME NEW p1 \in Number, NEW p2 \in Number, NEW p3 \in Number,
         NEW q1 \in Number, NEW q2 \in Number, NEW q3 \in Number,
         Positive(p1), Positive(p2), Positive(p3), Positive(q1), Positive(q2), Positive(q3),
         Below(One, Times(p1, q1)), Below(One, Times(p2, q2)), Below(One, Times(p3, q3))
  PROVE  ~(/\ Below(Times(p1, Times(p2, p3)), One)
           /\ Below(Times(q3, Times(q2, q1)), One))
<1> DEFINE p23 == Times(p2, p3)
           q23 == Times(q2, q3)
           there == Times(p1, p23)
           back == Times(q3, Times(q2, q1))
           legs23 == Times(Times(p2, q2), Times(p3, q3))
<1>1. /\ p23 \in Number /\ q23 \in Number /\ Positive(p23) /\ Positive(q23)
      /\ Times(p1, q1) \in Number /\ Positive(Times(p1, q1))
      /\ Times(p2, q2) \in Number /\ Positive(Times(p2, q2))
      /\ Times(p3, q3) \in Number /\ Positive(Times(p3, q3))
      /\ Times(q2, q1) \in Number /\ Times(q2, q1) = Times(q1, q2) /\ One \in Number
  BY TimesType, PositiveMeans, Constants, LowestTermsAreNumbers
<1>2. back = Times(q1, q23)
  <2>1. back = Times(Times(q1, q2), q3)
    BY <1>1, TimesType
  <2> QED
    BY <2>1, TimesAssociates
<1>3. Times(there, back) = Times(Times(p1, q1), Times(p23, q23))
  <2> HIDE DEF p23, q23, back
  <2> QED
    BY <1>1, <1>2, TimesRearranges
<1>4. Times(p23, q23) = legs23
  BY TimesRearranges
<1>5. Below(One, legs23) /\ legs23 \in Number /\ Positive(legs23)
  BY <1>1, SideOfOne, TimesType, PositiveMeans
<1>6. Below(One, Times(Times(p1, q1), legs23))
  <2> HIDE DEF legs23
  <2> QED
    BY <1>1, <1>5, SideOfOne
<1>7. there \in Number /\ back \in Number /\ Positive(there) /\ Positive(back)
  <2> HIDE DEF p23, q23, back
  <2> QED
    BY <1>1, <1>2, TimesType, PositiveMeans
<1> HIDE DEF there, back, p23, q23, legs23
<1>8. Below(there, One) /\ Below(back, One) => Below(Times(there, back), One)
  BY <1>7, SideOfOne
<1>9. ~(Below(there, One) /\ Below(back, One))
  BY <1>1, <1>3, <1>4, <1>6, <1>7, <1>8, Orders, TimesType DEF AtMost
<1> QED
  BY <1>9 DEF there, back, p23

-----------------------------------------------------------------------------
(* One triangle, priced. *)

\* The steps created so far are those of the first legs.
StepOf(i) == ChainStep(Market(i), tickers[i], NextLeg(i))
FirstSteps(n) == [i \in 1..n |-> StepOf(i)]

TriangleInv ==
  /\ buys \in [Legs -> BOOLEAN]
  /\ tickers \in [Legs -> Tickers]
  /\ \E n \in 0..3 : steps = FirstSteps(n)
  /\ Done => /\ steps = FirstSteps(3)
             /\ matched = Matched(steps) /\ profit = Profit(steps)

\* The next step appended to the first ones.
LEMMA StepAppended ==
  ASSUME NEW n \in 0..2
  PROVE  Append(FirstSteps(n), StepOf(n + 1)) = FirstSteps(n + 1)
<1> DEFINE S == {StepOf(i) : i \in Legs}
<1>1. FirstSteps(n) \in [1..n -> S]
  BY DEF FirstSteps, Legs
<1>2. FirstSteps(n) \in Seq(S) /\ Len(FirstSteps(n)) = n
  BY <1>1
<1>3. StepOf(n + 1) \in S
  BY DEF Legs
<1> HIDE DEF S
<1>4. Append(FirstSteps(n), StepOf(n + 1))
        = [i \in 1..(n + 1) |-> IF i = n + 1 THEN StepOf(n + 1) ELSE FirstSteps(n)[i]]
  BY <1>2, <1>3
<1>5. \A i \in 1..(n + 1) :
        (IF i = n + 1 THEN StepOf(n + 1) ELSE FirstSteps(n)[i]) = StepOf(i)
  BY DEF FirstSteps
<1> QED
  BY <1>4, <1>5 DEF FirstSteps

\* There are as many first steps as asked for.
LEMMA LenFirstSteps ==
  ASSUME NEW n \in 0..3
  PROVE  Len(FirstSteps(n)) = n
<1>1. FirstSteps(n) \in [1..n -> {StepOf(i) : i \in Legs}]
  BY DEF FirstSteps, Legs
<1> QED
  BY <1>1

\* The steps are created in the order of the legs from tickers that stay, and what is
\* calculated is calculated from all three (the inductive invariant).
LEMMA TriangleInductive == TSpec => []TriangleInv
<1>1. TInit => TriangleInv
  <2> SUFFICES ASSUME TInit PROVE TriangleInv
    OBVIOUS
  <2>1. steps = FirstSteps(0)
    BY DEF TInit, FirstSteps
  <2> QED
    BY <2>1 DEF TInit, TriangleInv, Done
<1>2. TriangleInv /\ [TNext]_tvars => TriangleInv'
  <2> SUFFICES ASSUME TriangleInv, [TNext]_tvars PROVE TriangleInv'
    OBVIOUS
  <2>1. ASSUME buys' = buys, tickers' = tickers
        PROVE  \A n \in 0..3 : FirstSteps(n)' = FirstSteps(n)
    BY <2>1 DEF FirstSteps, StepOf, Market
  <2>2. CASE CreateStep
    <3>1. PICK n \in 0..3 : steps = FirstSteps(n)
      BY DEF TriangleInv
    <3>2. Len(steps) = n /\ n \in 0..2
      <4>1. Len(FirstSteps(n)) = n
        BY LenFirstSteps
      <4> QED
        BY <2>2, <3>1, <4>1 DEF CreateStep
    <3>3. steps' = Append(FirstSteps(n), StepOf(n + 1))
      BY <2>2, <3>1, <3>2 DEF CreateStep, StepOf
    <3>4. steps' = FirstSteps(n + 1)
      BY <3>2, <3>3, StepAppended
    <3>5. ~Done
      <4>1. Len(FirstSteps(3)) = 3
        BY LenFirstSteps
      <4>2. ASSUME steps = FirstSteps(3) PROVE FALSE
        <5>1. Len(steps) = 3
          BY <4>1, <4>2
        <5> QED
          BY <3>2, <5>1
      <4> QED
        BY <4>2 DEF TriangleInv
    <3>6. buys' = buys /\ tickers' = tickers /\ ~Done'
      BY <2>2, <3>5 DEF CreateStep, Done
    <3>7. FirstSteps(n + 1)' = FirstSteps(n + 1)
      BY <2>1, <3>2, <3>6
    <3> QED
      BY <3>2, <3>4, <3>6, <3>7 DEF TriangleInv
  <2>3. CASE Calculate
    <3>1. PICK n \in 0..3 : steps = FirstSteps(n)
      BY DEF TriangleInv
    <3>2. n = 3
      BY <2>3, <3>1, LenFirstSteps DEF Calculate
    <3>3. /\ buys' = buys /\ tickers' = tickers /\ steps' = steps
          /\ matched' = Matched(steps) /\ profit' = Profit(steps)
      BY <2>3 DEF Calculate
    <3>4. FirstSteps(3)' = FirstSteps(3)
      BY <2>1, <3>3
    <3> QED
      BY <3>1, <3>2, <3>3, <3>4 DEF TriangleInv
  <2>4. CASE UNCHANGED tvars
    <3>1. \A n \in 0..3 : FirstSteps(n)' = FirstSteps(n)
      BY <2>1, <2>4 DEF tvars
    <3> QED
      BY <2>4, <3>1 DEF TriangleInv, tvars, Done
  <2> QED
    BY <2>2, <2>3, <2>4 DEF TNext
<1> QED
  BY <1>1, <1>2, PTL DEF TSpec

\* The chain that was matched is sound, its steps those of the three legs.
LEMMA StepsSound ==
  ASSUME TriangleInv, Done
  PROVE  /\ SoundChain(steps)
         /\ \A i \in Legs : steps[i] = StepOf(i)
<1>1. \A i \in Legs : steps[i] = StepOf(i)
  BY DEF TriangleInv, FirstSteps, Legs
<1>2. \A i \in Legs : SoundStep(StepOf(i))
  BY TickersAssumption, ChainStepSound DEF StepOf, TriangleInv
<1> QED
  BY <1>1, <1>2 DEF SoundChain

\* The matched chain is a trade, and the largest one its markets can take: each leg
\* spends what the one before brought in, none exceeds its market, one uses its market
\* up (calc_and_return_max_available_triangle_volume), for any tickers and fees.
THEOREM LargestTrade == TSpec => []MatchedIsLargestTrade
<1>1. TriangleInv => MatchedIsLargestTrade
  <2> SUFFICES ASSUME TriangleInv, Done
               PROVE  /\ \A i \in 1..2 : Proposes(matched[i + 1]) = Gets(matched[i])
                      /\ \A i \in Legs : AtMost(matched[i].volume, steps[i].volume)
                      /\ \E i \in Legs : matched[i].volume = steps[i].volume
    BY DEF MatchedIsLargestTrade
  <2>1. matched = Matched(steps) /\ SoundChain(steps)
    BY StepsSound DEF TriangleInv
  <2> QED
    BY <2>1, MatchedLargest
<1> QED
  BY <1>1, TriangleInductive, PTL

\* find fires a chain exactly when trading the matched volumes round the triangle brings
\* in more of the first coin than it spends, for any tickers and fees.
THEOREM ProfitGains == TSpec => []ProfitMeansGain
<1>1. TriangleInv => ProfitMeansGain
  <2> SUFFICES ASSUME TriangleInv, Done
               PROVE  Positive(profit) <=> Below(Proposes(matched[1]), Gets(matched[3]))
    BY DEF ProfitMeansGain
  <2>1. matched = Matched(steps) /\ profit = Profit(steps) /\ SoundChain(steps)
    BY StepsSound DEF TriangleInv
  <2> QED
    BY <2>1, ProfitIsGain
<1> QED
  BY <1>1, TriangleInductive, PTL

\* No triangle is profitable both ways round on the same tickers, whatever the spreads
\* and the fees.
THEOREM OneWayOnly == TSpec => []NeverBothWays
<1>1. TriangleInv => NeverBothWays
  <2> SUFFICES ASSUME TriangleInv, Done
               PROVE  ~(Positive(Roi(steps)) /\ Positive(Roi(WayBack)))
    BY DEF NeverBothWays
  <2> DEFINE p(i) == PriceFactor(StepOf(i))
             backStep(i) == ChainStep(Market(i), tickers[i], i)
             q(i) == PriceFactor(backStep(i))
  <2>1. ASSUME NEW i \in Legs
        PROVE  /\ p(i) \in Number /\ Positive(p(i)) /\ q(i) \in Number /\ Positive(q(i))
               /\ Below(One, Times(p(i), q(i)))
    <3> DEFINE market == Market(i)
               t == tickers[i]
    <3>0. IsTicker(t)
      BY <2>1, TickersAssumption DEF TriangleInv
    <3>1. SoundStep(StepOf(i)) /\ SoundStep(backStep(i))
      BY <3>0, ChainStepSound DEF StepOf
    <3>2. p(i) \in Number /\ Positive(p(i)) /\ q(i) \in Number /\ Positive(q(i))
      <4> HIDE DEF backStep
      <4> QED
        BY <3>1, StepVolumes, LowestTermsAreNumbers
    <3>3. market.base # market.quote /\ {i, NextLeg(i)} = {market.base, market.quote}
      BY <2>1 DEF Market, NextLeg, Legs
    <3> HIDE DEF market, t
    <3>4. Below(One, Times(PriceFactor(ChainStep(market, t, market.base)),
                           PriceFactor(ChainStep(market, t, market.quote))))
      BY <3>0, <3>3, ThereAndBack
    <3>5. \/ NextLeg(i) = market.base /\ i = market.quote
          \/ NextLeg(i) = market.quote /\ i = market.base
      BY <3>3
    <3>6. /\ p(i) = PriceFactor(ChainStep(market, t, NextLeg(i)))
          /\ q(i) = PriceFactor(ChainStep(market, t, i))
      BY DEF StepOf, market, t
    <3>7. Times(p(i), q(i)) = Times(q(i), p(i))
      BY <3>2, TimesType
    <3> HIDE DEF p, q, backStep
    <3> QED
      BY <3>2, <3>4, <3>5, <3>6, <3>7
  <2>2. /\ Roi(steps) = Minus(One, Times(p(1), Times(p(2), p(3))))
        /\ Roi(WayBack) = Minus(One, Times(q(3), Times(q(2), q(1))))
    <3>1. steps[1] = StepOf(1) /\ steps[2] = StepOf(2) /\ steps[3] = StepOf(3)
      BY StepsSound DEF Legs
    <3>2. WayBack[1] = backStep(3) /\ WayBack[2] = backStep(2) /\ WayBack[3] = backStep(1)
      BY DEF WayBack
    <3> QED
      BY <3>1, <3>2 DEF Roi
  <2> HIDE DEF p, q
  <2>3. /\ p(1) \in Number /\ p(2) \in Number /\ p(3) \in Number
        /\ q(1) \in Number /\ q(2) \in Number /\ q(3) \in Number
        /\ Positive(p(1)) /\ Positive(p(2)) /\ Positive(p(3))
        /\ Positive(q(1)) /\ Positive(q(2)) /\ Positive(q(3))
        /\ Below(One, Times(p(1), q(1))) /\ Below(One, Times(p(2), q(2)))
        /\ Below(One, Times(p(3), q(3)))
    BY <2>1 DEF Legs
  <2>4. ~(/\ Below(Times(p(1), Times(p(2), p(3))), One)
          /\ Below(Times(q(3), Times(q(2), q(1))), One))
    BY <2>3, RoundBothWays
  <2>5. /\ Times(p(1), Times(p(2), p(3))) \in Number
        /\ Times(q(3), Times(q(2), q(1))) \in Number /\ One \in Number
    BY <2>3, TimesType, Constants, LowestTermsAreNumbers
  <2> QED
    BY <2>2, <2>4, <2>5, PositiveMeans
<1> QED
  BY <1>1, TriangleInductive, PTL

-----------------------------------------------------------------------------
(* The chains of a search: gains, and never both ways round a triangle. *)

\* The way of a path, coin by coin, and the path that goes it backwards.
Hops(path) == {<<path.coins[i], path.coins[i + 1]>> : i \in 1..3}
Opposite(p, q) == Hops(q) = {<<hop[2], hop[1]>> : hop \in Hops(p)}

\* A chain is profitable on these books exactly when its trade brings in more than it spends.
BringsIn(path, books) ==
  LET trade == Matched(StepsOf(path, books))
  IN  Below(Proposes(trade[1]), Gets(trade[3]))

\* The books of a path, out of one for each market.
OnBooks(path, shown) == [i \in 1..3 |-> shown[path.markets[i]]]

\* The chains fired by one search all bring in more than they spend on the same books,
\* one for each market.
FiredBringIn ==
  \A c \in Fired : \E shown \in [Markets -> Books] :
    \A d \in Fired : d.search = c.search => BringsIn(d.path, OnBooks(d.path, shown))

\* Of the chains that one search fires, no two go round a triangle in opposite ways.
FiredOneWay ==
  \A c, d \in Fired : c.search = d.search => ~Opposite(c.path, d.path)

\* The books of a path in a copy of the data.
BooksOf(path, shown) == [i \in 1..3 |-> shown[path.markets[i]].book]

\* What a search stored: the profitable chains are gains and go one way.
Consistent(chains) ==
  LET gains == {c \in chains : IsProfitable(c)}
  IN  /\ gains # {} => \E shown \in [Markets -> Books] :
                         \A c \in gains : BringsIn(c.path, OnBooks(c.path, shown))
      /\ \A c, d \in gains : ~Opposite(c.path, d.path)

\* Every ticker on its way or in the data shows a book, and every chain is priced on the
\* books of the copy it was computed from.
PricedInv ==
  /\ lPc = "put" => lEvent.book \in Books
  /\ \A m \in DOMAIN data : data[m].book \in Books
  /\ \A m \in DOMAIN snapshot : snapshot[m].book \in Books
  /\ \A c \in result : c.profit = ProfitOf(c.path, BooksOf(c.path, snapshot))
  /\ \A i \in DOMAIN allQueue : Consistent(allQueue[i])

\* Rotating a product of three changes nothing.
LEMMA TimesRotates ==
  ASSUME NEW x \in Number, NEW y \in Number, NEW z \in Number
  PROVE  Times(x, Times(y, z)) = Times(y, Times(z, x))
<1>1. Times(y, z) \in Number /\ Times(z, x) = Times(x, z) /\ Times(x, y) = Times(y, x)
  BY TimesType
<1>2. Times(Times(x, y), z) = Times(x, Times(y, z))
  BY TimesAssociates
<1>3. Times(Times(y, x), z) = Times(y, Times(x, z))
  BY TimesAssociates
<1> QED
  BY <1>1, <1>2, <1>3

\* A product with a factor that is at least 0 is positive only if the other factor is.
LEMMA PositiveFactor ==
  ASSUME NEW x \in Number, NEW y \in Number, AtMost(Zero, x), Positive(Times(x, y))
  PROVE  Positive(y)
<1> DEFINE product == <<x[1] * y[1], x[2] * y[2]>>
<1>1. x[1] \in Int /\ y[1] \in Int /\ x[2] \in Nat \ {0}
  BY Parts
<1>2. x[1] >= 0
  BY <1>1 DEF AtMost, Below, Zero
<1>3. product \in Number /\ Positive(reduced[product])
  BY PartsOfProduct DEF Times
<1>4. Positive(product)
  <2> HIDE DEF product
  <2> QED
    BY <1>3, PositiveMeans
<1>5. x[1] * y[1] > 0
  BY <1>4 DEF Positive
<1>6. y[1] > 0
  <2>1. y[1] <= 0 => x[1] * y[1] <= 0
    BY <1>1, <1>2
  <2>2. x[1] * y[1] \in Int
    BY <1>1
  <2> QED
    BY <1>1, <1>5, <2>1, <2>2
<1> QED
  BY <1>6 DEF Positive

\* A chain with a profit has a positive roi.
LEMMA ProfitNeedsRoi ==
  ASSUME NEW chain, SoundChain(chain), Positive(Profit(chain))
  PROVE  Positive(Roi(chain))
<1> DEFINE volume == Matched(chain)[1].volume
<1>1. volume \in Number /\ AtMost(Zero, volume)
  <2>1. CASE \A i \in Legs : Positive(chain[i].volume)
    <3> DEFINE m == Matched(chain)
    <3>1. \A i \in Legs : SoundStep(m[i])
      BY <2>1, MatchedPositive
    <3> HIDE DEF m
    <3>2. SoundStep(m[1])
      BY <3>1 DEF Legs
    <3> QED
      BY <3>2, LowestTermsAreNumbers DEF SoundStep, m
  <2>2. CASE \E i \in Legs : chain[i].volume = Zero
    <3>1. volume = Zero
      BY <2>2, MatchedZero DEF Legs
    <3> HIDE DEF volume
    <3> QED
      BY <3>1, Constants, LowestTermsAreNumbers DEF AtMost, Below, Zero
  <2> QED
    BY <2>1, <2>2, VolumesPositiveOrZero
<1>2. Roi(chain) \in Number
  <2>1. \A i \in Legs : PriceFactor(chain[i]) \in Number
    BY StepVolumes, LowestTermsAreNumbers DEF SoundChain
  <2>2. /\ PriceFactor(chain[1]) \in Number /\ PriceFactor(chain[2]) \in Number
        /\ PriceFactor(chain[3]) \in Number
    BY <2>1 DEF Legs
  <2> QED
    BY <2>2, TimesType, MinusType, Constants, LowestTermsAreNumbers DEF Roi
<1>3. Profit(chain) = Times(volume, Roi(chain))
  BY DEF Profit
<1> HIDE DEF volume
<1> QED
  BY <1>1, <1>2, <1>3, PositiveFactor

\* What a coin costs in the one before it on the way, per unit and fee included.
Cost(market, ticker, coin) == PriceFactor(ChainStep(market, ticker, coin))

\* On a market, going there and back costs more than it brings in.
LEMMA CostsBothWays ==
  ASSUME NEW t, IsTicker(t), NEW m \in Markets, NEW a, NEW b, CoinsOf(m) = {a, b}
  PROVE  /\ Cost(m, t, a) \in Number /\ Positive(Cost(m, t, a))
         /\ Cost(m, t, b) \in Number /\ Positive(Cost(m, t, b))
         /\ Below(One, Times(Cost(m, t, b), Cost(m, t, a)))
<1>1. ASSUME NEW coin
      PROVE  Cost(m, t, coin) \in Number /\ Positive(Cost(m, t, coin))
  <2> DEFINE s == ChainStep(m, t, coin)
  <2>1. SoundStep(s)
    BY ChainStepSound
  <2> HIDE DEF s
  <2>2. PriceFactor(s) \in Number /\ Positive(PriceFactor(s))
    BY <2>1, StepVolumes, LowestTermsAreNumbers
  <2> QED
    BY <2>2 DEF s, Cost
<1>2. m.base # m.quote /\ {m.base, m.quote} = {a, b}
  BY NextCoinIsOther DEF CoinsOf
<1>3. Below(One, Times(Cost(m, t, m.base), Cost(m, t, m.quote)))
  BY <1>2, ThereAndBack DEF Cost
<1>4. Times(Cost(m, t, m.base), Cost(m, t, m.quote)) = Times(Cost(m, t, m.quote), Cost(m, t, m.base))
  BY <1>1, TimesType
<1>5. \/ m.base = b /\ m.quote = a
      \/ m.base = a /\ m.quote = b
  BY <1>2
<1> QED
  BY <1>1, <1>3, <1>4, <1>5

\* The roi of a path is what is left of 1 after the costs of its three hops.
LEMMA RoiOfPath ==
  ASSUME NEW p \in Paths3, NEW shown, NEW m1, NEW m2, NEW m3, NEW a, NEW b, NEW c,
         p.markets[1] = m1, p.markets[2] = m2, p.markets[3] = m3,
         p.coins[1] = a, p.coins[2] = b, p.coins[3] = c
  PROVE  Roi(StepsOf(p, BooksOf(p, shown)))
           = Minus(One, Times(Cost(m1, shown[m1].book, b),
                              Times(Cost(m2, shown[m2].book, c), Cost(m3, shown[m3].book, a))))
<1> DEFINE steps_ == StepsOf(p, BooksOf(p, shown))
<1>1. p.coins = <<a, b, c, a>>
  BY PathSides
<1>2. p.coins[2] = b /\ p.coins[3] = c /\ p.coins[4] = a
  BY <1>1
<1>3. /\ steps_[1] = ChainStep(m1, shown[m1].book, b)
      /\ steps_[2] = ChainStep(m2, shown[m2].book, c)
      /\ steps_[3] = ChainStep(m3, shown[m3].book, a)
  <2>1. \A i \in 1..3 : steps_[i] = ChainStep(p.markets[i], shown[p.markets[i]].book, p.coins[i + 1])
    BY DEF StepsOf, BooksOf
  <2> HIDE DEF steps_
  <2>2. 1 \in 1..3 /\ 2 \in 1..3 /\ 3 \in 1..3 /\ 1 + 1 = 2 /\ 2 + 1 = 3 /\ 3 + 1 = 4
    OBVIOUS
  <2> QED
    BY <1>2, <2>1, <2>2
<1> HIDE DEF steps_
<1> QED
  BY <1>3 DEF Roi, Cost, steps_

\* A path that goes another one backwards starts at one of its three coins, and takes
\* its markets in the opposite order.
LEMMA OppositePaths ==
  ASSUME NEW p \in Paths3, NEW q \in Paths3, Opposite(p, q),
         NEW m1, NEW m2, NEW m3, NEW a, NEW b, NEW c,
         p.markets[1] = m1, p.markets[2] = m2, p.markets[3] = m3,
         p.coins[1] = a, p.coins[2] = b, p.coins[3] = c
  PROVE  \/ /\ q.coins[1] = a /\ q.coins[2] = c /\ q.coins[3] = b
            /\ q.markets[1] = m3 /\ q.markets[2] = m2 /\ q.markets[3] = m1
         \/ /\ q.coins[1] = b /\ q.coins[2] = a /\ q.coins[3] = c
            /\ q.markets[1] = m1 /\ q.markets[2] = m3 /\ q.markets[3] = m2
         \/ /\ q.coins[1] = c /\ q.coins[2] = b /\ q.coins[3] = a
            /\ q.markets[1] = m2 /\ q.markets[2] = m1 /\ q.markets[3] = m3
<1> DEFINE x == q.coins[1]
           y == q.coins[2]
           z == q.coins[3]
<1>1. ASSUME NEW r \in Paths3
      PROVE  /\ Hops(r) = {<<r.coins[1], r.coins[2]>>, <<r.coins[2], r.coins[3]>>,
                           <<r.coins[3], r.coins[1]>>}
             /\ r.coins[1] # r.coins[2] /\ r.coins[2] # r.coins[3] /\ r.coins[3] # r.coins[1]
  <2>1. r.coins[4] = r.coins[1]
    <3>1. r.coins = <<r.coins[1], r.coins[2], r.coins[3], r.coins[1]>>
      BY PathSides
    <3> QED
      BY <3>1
  <2>2. 1..3 = {1, 2, 3} /\ 1 + 1 = 2 /\ 2 + 1 = 3 /\ 3 + 1 = 4
    OBVIOUS
  <2>3. Hops(r) = {<<r.coins[1], r.coins[2]>>, <<r.coins[2], r.coins[3]>>, <<r.coins[3], r.coins[4]>>}
    BY <2>2 DEF Hops
  <2>4. \A i \in 1..3 : r.markets[i] \in Markets
    BY PathSides
  <2>5. ASSUME NEW i \in 1..3 PROVE r.markets[i].base # r.markets[i].quote
    BY <2>4, NextCoinIsOther DEF CoinsOf
  <2> QED
    BY <2>1, <2>2, <2>3, <2>5, PathSides DEF CoinsOf
<1>2. {<<x, y>>, <<y, z>>, <<z, x>>} = {<<b, a>>, <<c, b>>, <<a, c>>}
  <2>1. Hops(q) = {<<x, y>>, <<y, z>>, <<z, x>>}
    BY <1>1
  <2>2. Hops(p) = {<<a, b>>, <<b, c>>, <<c, a>>}
    BY <1>1
  <2>3. {<<hop[2], hop[1]>> : hop \in Hops(p)} = {<<b, a>>, <<c, b>>, <<a, c>>}
    BY <2>2
  <2> QED
    BY <2>1, <2>3 DEF Opposite
<1>3. a # b /\ b # c /\ c # a
  BY <1>1
<1>4. \/ x = a /\ y = c /\ z = b
      \/ x = b /\ y = a /\ z = c
      \/ x = c /\ y = b /\ z = a
  <2>1. ASSUME NEW u, NEW v, <<u, v>> \in {<<x, y>>, <<y, z>>, <<z, x>>}
        PROVE  (u = b /\ v = a) \/ (u = c /\ v = b) \/ (u = a /\ v = c)
    <3>1. <<u, v>> = <<b, a>> \/ <<u, v>> = <<c, b>> \/ <<u, v>> = <<a, c>>
      BY <1>2, <2>1
    <3> QED
      BY <3>1
  <2>2. /\ (x = b /\ y = a) \/ (x = c /\ y = b) \/ (x = a /\ y = c)
        /\ (y = b /\ z = a) \/ (y = c /\ z = b) \/ (y = a /\ z = c)
        /\ (z = b /\ x = a) \/ (z = c /\ x = b) \/ (z = a /\ x = c)
    <3> HIDE DEF x, y, z
    <3> QED
      BY <2>1
  <2> HIDE DEF x, y, z
  <2> QED
    BY <1>3, <2>2
<1>5. /\ m1 \in Listed /\ m2 \in Listed /\ m3 \in Listed
      /\ CoinsOf(m1) = {a, b} /\ CoinsOf(m2) = {b, c} /\ CoinsOf(m3) = {c, a}
  BY PathSides DEF Markets, Listed
<1>6. /\ q.markets[1] \in Listed /\ q.markets[2] \in Listed /\ q.markets[3] \in Listed
      /\ CoinsOf(q.markets[1]) = {x, y} /\ CoinsOf(q.markets[2]) = {y, z}
      /\ CoinsOf(q.markets[3]) = {z, x}
  BY PathSides DEF Markets, Listed
<1> HIDE DEF x, y, z
<1>7. ASSUME NEW m \in Listed, NEW n \in Listed, NEW S, CoinsOf(m) = S, CoinsOf(n) = S
      PROVE  m = n
  BY <1>7, CoinsTellMarket
<1>8. {b, c} = {c, b} /\ {a, b} = {b, a} /\ {c, a} = {a, c}
  OBVIOUS
<1>9. CASE x = a /\ y = c /\ z = b
  <2>1. q.markets[1] = m3 /\ q.markets[2] = m2 /\ q.markets[3] = m1
    BY <1>5, <1>6, <1>7, <1>8, <1>9
  <2> QED
    BY <1>9, <2>1 DEF x, y, z
<1>10. CASE x = b /\ y = a /\ z = c
  <2>1. q.markets[1] = m1 /\ q.markets[2] = m3 /\ q.markets[3] = m2
    BY <1>5, <1>6, <1>7, <1>8, <1>10
  <2> QED
    BY <1>10, <2>1 DEF x, y, z
<1>11. CASE x = c /\ y = b /\ z = a
  <2>1. q.markets[1] = m2 /\ q.markets[2] = m1 /\ q.markets[3] = m3
    BY <1>5, <1>6, <1>7, <1>8, <1>11
  <2> QED
    BY <1>11, <2>1 DEF x, y, z
<1> QED
  BY <1>4, <1>9, <1>10, <1>11

\* On the same tickers two opposite paths do not both have a positive roi.
LEMMA NotBothWays ==
  ASSUME NEW p \in Paths3, NEW q \in Paths3, Opposite(p, q), NEW shown,
         \A i \in 1..3 : IsTicker(shown[p.markets[i]].book)
  PROVE  ~(/\ Positive(Roi(StepsOf(p, BooksOf(p, shown))))
           /\ Positive(Roi(StepsOf(q, BooksOf(q, shown)))))
<1> DEFINE m1 == p.markets[1]
           m2 == p.markets[2]
           m3 == p.markets[3]
           a == p.coins[1]
           b == p.coins[2]
           c == p.coins[3]
           p1 == Cost(m1, shown[m1].book, b)
           q1 == Cost(m1, shown[m1].book, a)
           p2 == Cost(m2, shown[m2].book, c)
           q2 == Cost(m2, shown[m2].book, b)
           p3 == Cost(m3, shown[m3].book, a)
           q3 == Cost(m3, shown[m3].book, c)
           back == Times(q3, Times(q2, q1))
<1>1. /\ m1 \in Markets /\ CoinsOf(m1) = {a, b}
      /\ m2 \in Markets /\ CoinsOf(m2) = {b, c}
      /\ m3 \in Markets /\ CoinsOf(m3) = {c, a}
  BY PathSides
<1>2. IsTicker(shown[m1].book) /\ IsTicker(shown[m2].book) /\ IsTicker(shown[m3].book)
  OBVIOUS
<1>3. Roi(StepsOf(p, BooksOf(p, shown))) = Minus(One, Times(p1, Times(p2, p3)))
  BY RoiOfPath
<1>4. \/ Roi(StepsOf(q, BooksOf(q, shown))) = Minus(One, Times(q3, Times(q2, q1)))
      \/ Roi(StepsOf(q, BooksOf(q, shown))) = Minus(One, Times(q1, Times(q3, q2)))
      \/ Roi(StepsOf(q, BooksOf(q, shown))) = Minus(One, Times(q2, Times(q1, q3)))
  <2>1. \/ /\ q.coins[1] = a /\ q.coins[2] = c /\ q.coins[3] = b
           /\ q.markets[1] = m3 /\ q.markets[2] = m2 /\ q.markets[3] = m1
        \/ /\ q.coins[1] = b /\ q.coins[2] = a /\ q.coins[3] = c
           /\ q.markets[1] = m1 /\ q.markets[2] = m3 /\ q.markets[3] = m2
        \/ /\ q.coins[1] = c /\ q.coins[2] = b /\ q.coins[3] = a
           /\ q.markets[1] = m2 /\ q.markets[2] = m1 /\ q.markets[3] = m3
    BY OppositePaths
  <2> HIDE DEF m1, m2, m3, a, b, c
  <2> QED
    BY <2>1, RoiOfPath
<1> HIDE DEF m1, m2, m3, a, b, c
<1>5. /\ p1 \in Number /\ Positive(p1) /\ q1 \in Number /\ Positive(q1)
      /\ Below(One, Times(p1, q1))
  BY <1>1, <1>2, CostsBothWays
<1>6. /\ p2 \in Number /\ Positive(p2) /\ q2 \in Number /\ Positive(q2)
      /\ Below(One, Times(p2, q2))
  BY <1>1, <1>2, CostsBothWays
<1>7. /\ p3 \in Number /\ Positive(p3) /\ q3 \in Number /\ Positive(q3)
      /\ Below(One, Times(p3, q3))
  BY <1>1, <1>2, CostsBothWays
<1> HIDE DEF p1, p2, p3, q1, q2, q3
<1>8. Roi(StepsOf(q, BooksOf(q, shown))) = Minus(One, back)
  <2>1. Times(q1, Times(q3, q2)) = back /\ Times(q2, Times(q1, q3)) = back
    BY <1>5, <1>6, <1>7, TimesRotates
  <2> QED
    BY <1>4, <2>1
<1>9. /\ Times(p1, Times(p2, p3)) \in Number /\ back \in Number /\ One \in Number
  BY <1>5, <1>6, <1>7, TimesType, Constants, LowestTermsAreNumbers
<1>10. ~(Below(Times(p1, Times(p2, p3)), One) /\ Below(back, One))
  BY <1>5, <1>6, <1>7, RoundBothWays
<1>11. ASSUME NEW u \in Number PROVE Positive(Minus(One, u)) <=> Below(u, One)
  BY <1>9, PositiveMeans
<1> HIDE DEF back
<1> QED
  BY <1>3, <1>8, <1>9, <1>10, <1>11

\* The list of profits, read at a path and three books.
LEMMA ProfitInList ==
  ASSUME NEW p \in Paths3, NEW books \in [1..3 -> Books]
  PROVE  ProfitOf(p, books) = Profit(StepsOf(p, books))
<1> DEFINE IsOf(e) == e.path = p /\ e.books = books
           entry == CHOOSE e \in Profits : IsOf(e)
<1>1. \E e \in Profits : IsOf(e)
  <2> DEFINE e == [path |-> p, books |-> books, profit |-> Profit(StepsOf(p, books))]
  <2>1. e \in Profits
    BY DEF Profits
  <2>2. IsOf(e)
    OBVIOUS
  <2> HIDE DEF e, IsOf
  <2> QED
    BY <2>1, <2>2
<1>2. entry \in Profits /\ IsOf(entry)
  <2> HIDE DEF IsOf
  <2> QED
    BY <1>1
<1> HIDE DEF entry
<1>3. PICK q \in Paths3, b \in [1..3 -> Books] :
        entry = [path |-> q, books |-> b, profit |-> Profit(StepsOf(q, b))]
  BY <1>2 DEF Profits
<1>4. entry.profit = Profit(StepsOf(p, books))
  BY <1>2, <1>3
<1> QED
  BY <1>4 DEF ProfitOf, entry

\* The steps of a path on books of its markets are sound.
LEMMA StepsOfSound ==
  ASSUME NEW p, NEW books \in [1..3 -> Books]
  PROVE  SoundChain(StepsOf(p, books))
<1> SUFFICES ASSUME NEW i \in Legs PROVE SoundStep(StepsOf(p, books)[i])
  BY DEF SoundChain
<1>1. StepsOf(p, books)[i] = ChainStep(p.markets[i], books[i], p.coins[i + 1])
  BY DEF StepsOf, Legs
<1>2. IsTicker(books[i])
  BY SearchAssumption DEF Legs
<1> QED
  BY <1>1, <1>2, ChainStepSound

\* What a search has found brings in more than it spends, and goes one way.
LEMMA ResultConsistent ==
  ASSUME ResultInv, PricedInv
  PROVE  Consistent(result)
<1>1. ASSUME NEW c \in result, IsProfitable(c)
      PROVE  /\ c.path \in Paths3 /\ BooksOf(c.path, snapshot) \in [1..3 -> Books]
             /\ Positive(Profit(StepsOf(c.path, BooksOf(c.path, snapshot))))
  <2>1. c.path \in ToSearch /\ IsComplete(c.path, snapshot)
    BY DEF ResultInv
  <2>2. c.path \in Paths3
    BY <2>1 DEF ToSearch, PathsThrough
  <2>3. BooksOf(c.path, snapshot) \in [1..3 -> Books]
    BY <2>1 DEF BooksOf, IsComplete, PricedInv
  <2>4. c.profit = Profit(StepsOf(c.path, BooksOf(c.path, snapshot)))
    BY <2>2, <2>3, ProfitInList DEF PricedInv
  <2> QED
    BY <1>1, <2>2, <2>3, <2>4 DEF IsProfitable, Positive
<1>2. ASSUME NEW e \in result, IsProfitable(e)
      PROVE  \E shown \in [Markets -> Books] :
               \A c \in result : IsProfitable(c) => BringsIn(c.path, OnBooks(c.path, shown))
  <2> DEFINE some == CHOOSE b \in Books : TRUE
             shown == [m \in Markets |-> IF m \in DOMAIN snapshot THEN snapshot[m].book ELSE some]
  <2>1. some \in Books
    <3>1. BooksOf(e.path, snapshot)[1] \in Books
      BY <1>1, <1>2
    <3> QED
      BY <3>1
  <2>2. shown \in [Markets -> Books]
    <3> HIDE DEF some
    <3> QED
      BY <2>1 DEF PricedInv
  <2>3. ASSUME NEW c \in result, IsProfitable(c)
        PROVE  BringsIn(c.path, OnBooks(c.path, shown))
    <3> DEFINE books == OnBooks(c.path, shown)
    <3>1. \A i \in 1..3 : c.path.markets[i] \in Markets /\ c.path.markets[i] \in DOMAIN snapshot
      BY <1>1, <2>3, PathSides DEF ResultInv, IsComplete
    <3>2. books = BooksOf(c.path, snapshot)
      BY <3>1 DEF OnBooks, BooksOf
    <3>3. books \in [1..3 -> Books] /\ Positive(Profit(StepsOf(c.path, books)))
      BY <1>1, <2>3, <3>2
    <3> HIDE DEF books
    <3> QED
      BY <3>3, StepsOfSound, ProfitIsGain DEF BringsIn, books
  <2> HIDE DEF shown
  <2> QED
    BY <2>2, <2>3
<1>3. ASSUME NEW c \in result, NEW d \in result, IsProfitable(c), IsProfitable(d)
      PROVE  ~Opposite(c.path, d.path)
  <2>1. /\ c.path \in Paths3 /\ BooksOf(c.path, snapshot) \in [1..3 -> Books]
        /\ Positive(Profit(StepsOf(c.path, BooksOf(c.path, snapshot))))
        /\ d.path \in Paths3 /\ BooksOf(d.path, snapshot) \in [1..3 -> Books]
        /\ Positive(Profit(StepsOf(d.path, BooksOf(d.path, snapshot))))
    BY <1>1, <1>3
  <2>2. /\ Positive(Roi(StepsOf(c.path, BooksOf(c.path, snapshot))))
        /\ Positive(Roi(StepsOf(d.path, BooksOf(d.path, snapshot))))
    BY <2>1, StepsOfSound, ProfitNeedsRoi
  <2>3. \A i \in 1..3 : IsTicker(snapshot[c.path.markets[i]].book)
    <3>1. \A i \in 1..3 : snapshot[c.path.markets[i]].book \in Books
      BY <2>1 DEF ResultInv, IsComplete, PricedInv
    <3> QED
      BY <3>1, SearchAssumption
  <2> QED
    BY <2>1, <2>2, <2>3, NotBothWays
<1> QED
  BY <1>2, <1>3 DEF Consistent

\* What the listener and the search do keeps every book and every price in place.
LEMMA PricedInductive ==
  ASSUME ResultInv, StoredInv, PricedInv, [Next]_vars
  PROVE  PricedInv'
<1> DEFINE pricedVars == <<lPc, lEvent, data, snapshot, result, allQueue>>
<1>a. /\ lPc = "put" => lEvent.book \in Books
      /\ \A m \in DOMAIN data : data[m].book \in Books
      /\ \A m \in DOMAIN snapshot : snapshot[m].book \in Books
      /\ \A c \in result : c.profit = ProfitOf(c.path, BooksOf(c.path, snapshot))
      /\ \A i \in DOMAIN allQueue : Consistent(allQueue[i])
  BY DEF PricedInv
<1>1. CASE UNCHANGED pricedVars
  BY <1>1, <1>a DEF PricedInv, BooksOf, Consistent
<1> HIDE DEF pricedVars
<1>2. CASE Pop
  <2>1. lEvent'.book \in Books /\ UNCHANGED <<data, snapshot, result, allQueue>>
    BY <1>2 DEF Pop, thread
  <2> QED
    BY <1>a, <2>1 DEF PricedInv, BooksOf, Consistent
<1>3. CASE Put
  <2>1. /\ lPc = "put" /\ lPc' # "put" /\ UNCHANGED <<lEvent, snapshot, result, allQueue>>
        /\ \/ data' = data
           \/ data' = Refreshed(data, BaseQuote[lEvent.symbol], lEvent)
    BY <1>3 DEF Put, thread
  <2>2. \A m \in DOMAIN data' : data'[m].book \in Books
    BY <1>a, <2>1 DEF Refreshed
  <2> QED
    BY <1>a, <2>1, <2>2 DEF PricedInv, BooksOf, Consistent
<1>4. CASE Notify
  <2>1. lPc' # "put" /\ UNCHANGED <<data, snapshot, result, allQueue>>
    BY <1>4 DEF Notify, thread
  <2> QED
    BY <1>a, <2>1 DEF PricedInv, BooksOf, Consistent
<1>5. CASE Copy
  <2>1. aPc = "copy" /\ snapshot' = data /\ UNCHANGED <<lPc, lEvent, data, result, allQueue>>
    BY <1>5 DEF Copy, listener
  <2>2. result' = {}
    BY <2>1 DEF ResultInv, Searching
  <2> QED
    BY <1>a, <2>1, <2>2 DEF PricedInv, Consistent
<1>6. CASE Examine
  <2>1. UNCHANGED <<lPc, lEvent, data, snapshot, allQueue>>
    BY <1>6 DEF Examine, listener
  <2>2. PICK path : \E chain \in Examined(path) : result' = result \union {chain}
    BY <1>6, Zenon DEF Examine
  <2>c. PICK chain \in Examined(path) : result' = result \union {chain}
    BY <2>2
  <2>3. chain.path = path /\ chain.profit = ProfitOf(path, BooksOf(path, snapshot))
    <3>1. PICK inUsd : chain = ChainOf(path, snapshot, inUsd)
      BY DEF Examined
    <3> QED
      BY <3>1 DEF ChainOf, BooksOf
  <2>4. \A c \in result' : c.profit = ProfitOf(c.path, BooksOf(c.path, snapshot))
    BY <1>a, <2>c, <2>3
  <2> QED
    BY <1>a, <2>1, <2>4 DEF PricedInv, BooksOf, Consistent
<1>7. CASE Store
  <2>1. /\ UNCHANGED <<lPc, lEvent, data>> /\ allQueue' = Append(allQueue, result)
        /\ snapshot' = << >> /\ result' = {}
    BY <1>7 DEF Store, listener
  <2>2. DOMAIN snapshot' = {}
    BY <2>1
  <2>3. \A i \in DOMAIN allQueue' : Consistent(allQueue'[i])
    <3>1. /\ Len(allQueue) \in Nat /\ DOMAIN allQueue = 1..Len(allQueue)
          /\ DOMAIN allQueue' = 1..(Len(allQueue) + 1)
          /\ \A i \in 1..Len(allQueue) : allQueue'[i] = allQueue[i]
          /\ allQueue'[Len(allQueue) + 1] = result
      BY <2>1, PutAtEnd DEF StoredInv
    <3>2. \A i \in DOMAIN allQueue' : i \in DOMAIN allQueue \/ i = Len(allQueue) + 1
      BY <3>1
    <3> QED
      BY <1>a, <3>1, <3>2, ResultConsistent
  <2>4. \A c \in result' : FALSE
    BY <2>1
  <2> QED
    BY <1>a, <2>1, <2>2, <2>3, <2>4 DEF PricedInv, Consistent
<1>8. CASE Get \/ Skip \/ Fire \/ UNCHANGED vars
  <2>1. UNCHANGED pricedVars
    BY <1>8 DEF Get, Skip, Fire, vars, listener, thread, pricedVars
  <2> QED
    BY <1>1, <2>1
<1> QED
  BY <1>2, <1>3, <1>4, <1>5, <1>6, <1>7, <1>8 DEF Next, ListenerNext, ThreadNext

\* Books and prices are in place in every state of the search.
LEMMA SearchIsPriced == Spec => [](SearchInv /\ PricedInv)
<1>1. Init => PricedInv
  <2> SUFFICES ASSUME Init PROVE PricedInv
    OBVIOUS
  <2>1. lPc = "pop" /\ data = << >> /\ snapshot = << >> /\ result = {} /\ allQueue = << >>
    BY DEF Init
  <2>2. DOMAIN << >> = {}
    OBVIOUS
  <2> QED
    BY <2>1, <2>2 DEF PricedInv
<1>2. SearchInv /\ PricedInv /\ [Next]_vars => PricedInv'
  BY PricedInductive DEF SearchInv
<1> QED
  BY <1>1, <1>2, SearchInductive, PTL DEF Spec

\* All that one search has fired was found and priced together.
LEMMA FiredTogether ==
  ASSUME SearchInv, PricedInv, NEW c \in Fired
  PROVE  \E found :
           /\ Consistent(found)
           /\ \A d \in Fired : d.search = c.search => d \in found /\ IsProfitable(d)
<1>1. ASSUME NEW e \in Fired
      PROVE  /\ IsProfitable(e)
             /\ \/ e \in result
                \/ \E i \in DOMAIN allQueue : e \in allQueue[i]
  <2>1. e \in {x \in Stored : IsProfitable(x)} \/ e \in profitable
    BY DEF SearchInv, FiredOnceAndStored
  <2> QED
    BY <2>1 DEF SearchInv, ResultInv, Stored
<1>2. /\ \A e \in result : e.search = Len(allQueue)
      /\ \A i \in DOMAIN allQueue : \A e \in allQueue[i] : e.search = i - 1
      /\ \A i \in DOMAIN allQueue : i \in Int /\ i - 1 # Len(allQueue)
  <2>1. Len(allQueue) \in Nat /\ DOMAIN allQueue = 1..Len(allQueue)
    BY PutAtEnd DEF SearchInv, StoredInv
  <2> QED
    BY <2>1 DEF SearchInv, ResultInv, StoredInv
<1>3. CASE c \in result
  <2>1. \A d \in Fired : d.search = c.search => d \in result /\ IsProfitable(d)
    BY <1>1, <1>2, <1>3
  <2>2. Consistent(result)
    BY ResultConsistent DEF SearchInv
  <2> QED
    BY <2>1, <2>2
<1>4. CASE \E i \in DOMAIN allQueue : c \in allQueue[i]
  <2>1. PICK i \in DOMAIN allQueue : c \in allQueue[i]
    BY <1>4
  <2>2. ASSUME NEW d \in Fired, d.search = c.search
        PROVE  d \in allQueue[i] /\ IsProfitable(d)
    <3>1. c.search = i - 1 /\ d \notin result
      BY <1>2, <2>1, <2>2
    <3>2. PICK j \in DOMAIN allQueue : d \in allQueue[j]
      BY <1>1, <3>1
    <3>3. j - 1 = i - 1 /\ i \in Int /\ j \in Int
      BY <1>2, <2>2, <3>1, <3>2
    <3>4. j = i
      BY <3>3
    <3> QED
      BY <1>1, <3>2, <3>4
  <2>3. Consistent(allQueue[i])
    BY DEF PricedInv
  <2> QED
    BY <2>2, <2>3
<1> QED
  BY <1>1, <1>3, <1>4

\* What TradeManager is handed of one search is worth trading: on one and the same book
\* for each market, every chain brings in more of its first coin than it spends, though
\* the listener goes on refreshing the data meanwhile.
THEOREM FiredChainsGain == Spec => []FiredBringIn
<1>1. SearchInv /\ PricedInv => FiredBringIn
  <2> SUFFICES ASSUME SearchInv, PricedInv, NEW c \in Fired
               PROVE  \E shown \in [Markets -> Books] :
                        \A d \in Fired :
                          d.search = c.search => BringsIn(d.path, OnBooks(d.path, shown))
    BY DEF FiredBringIn
  <2>1. PICK found :
          /\ Consistent(found)
          /\ \A d \in Fired : d.search = c.search => d \in found /\ IsProfitable(d)
    BY FiredTogether
  <2>2. c \in found /\ IsProfitable(c)
    BY <2>1
  <2> QED
    BY <2>1, <2>2 DEF Consistent
<1> QED
  BY <1>1, SearchIsPriced, PTL

\* A search never hands over the same triangle both ways round: TradeManager is not made to
\* buy with one chain what it sells with another.
THEOREM SearchFiresOneWay == Spec => []FiredOneWay
<1>1. SearchInv /\ PricedInv => FiredOneWay
  <2> SUFFICES ASSUME SearchInv, PricedInv, NEW c \in Fired, NEW d \in Fired, c.search = d.search
               PROVE  ~Opposite(c.path, d.path)
    BY DEF FiredOneWay
  <2>1. PICK found :
          /\ Consistent(found)
          /\ \A e \in Fired : e.search = c.search => e \in found /\ IsProfitable(e)
    BY FiredTogether
  <2>2. c \in found /\ IsProfitable(c) /\ d \in found /\ IsProfitable(d)
    BY <2>1
  <2> QED
    BY <2>1, <2>2 DEF Consistent
<1> QED
  BY <1>1, SearchIsPriced, PTL
=============================================================================
