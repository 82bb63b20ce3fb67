----------------------------- MODULE MarketData -----------------------------
(***************************************************************************)
(* The tables of MarketData: which markets are traded, the triangular      *)
(* paths through them, the latest ticker of each.  A market is a pair of   *)
(* a base and a quote coin, known to the exchange by a symbol.             *)
(***************************************************************************)
EXTENDS TriangleMath, FiniteSets, TLC

CONSTANTS BaseQuote,  \* symbol_to_base_quote_coins
          OnlyCoins,  \* ARBITRAGE_COINS
          UsdCoins    \* Binance.USD_COINS

CoinsOf(market) == {market.base, market.quote}

\* The exchange lists a pair of coins once, whichever of the two is the base.
ASSUME BaseQuoteAssumption ==
  /\ IsFiniteSet(DOMAIN BaseQuote)
  /\ \A s \in DOMAIN BaseQuote : BaseQuote[s].base # BaseQuote[s].quote
  /\ \A s, t \in DOMAIN BaseQuote : CoinsOf(BaseQuote[s]) = CoinsOf(BaseQuote[t]) => s = t
  /\ UsdCoins \subseteq OnlyCoins

Markets == {m \in {BaseQuote[s] : s \in DOMAIN BaseQuote} : CoinsOf(m) \subseteq OnlyCoins}

TradingCoins == UNION {CoinsOf(m) : m \in Markets}

\* market_paths: the markets a coin can be traded on.
MarketPaths(coin) == {m \in Markets : coin \in CoinsOf(m)}

\* _get_next_coin
NextCoin(market, prev) == IF prev = market.quote THEN market.base ELSE market.quote

\* The way through three markets from a coin, wherever it leads.
PathOf(coin, m1, m2, m3) ==
  LET second == NextCoin(m1, coin)
  IN [coins |-> <<coin, second, NextCoin(m2, second), coin>>, markets |-> <<m1, m2, m3>>]

PathsFrom(coin) ==
  {PathOf(coin, m1, m2, m3) : m1 \in MarketPaths(coin), m2 \in Markets, m3 \in Markets}

\* Each market trades the coin the one before led to, the last one for the first.
ComesBack(path) ==
  /\ path.coins[2] # path.coins[1] /\ path.coins[3] # path.coins[2]
  /\ path.markets[2] \in MarketPaths(path.coins[2])
  /\ path.markets[3] \in MarketPaths(path.coins[3])
  /\ NextCoin(path.markets[3], path.coins[3]) = path.coins[1]

\* _unfold_all_possible_3_paths: every way to leave a coin and be back in three
\* markets.
Paths3 == {path \in UNION {PathsFrom(coin) : coin \in TradingCoins} : ComesBack(path)}

\* Mutant of PathsThrough: the paths that start with the market.
PathsThroughFirst(market) == {p \in Paths3 : p.markets[1] = market}

\* market_to_coinpaths, and filter_path3_by_markets for one market.
PathsThrough(market) == {p \in Paths3 : \E i \in 1..3 : p.markets[i] = market}

\* _is_in_trading_coins
InTradingCoins(market) == CoinsOf(market) \subseteq TradingCoins

\* Mutant of Refreshed: keeps the ticker that is there.
RefreshedOnce(data, market, ticker) ==
  IF InTradingCoins(market) THEN data @@ (market :> ticker) ELSE data

\* What put makes of the data once the symbol is known.
Refreshed(data, market, ticker) ==
  IF InTradingCoins(market)
  THEN [m \in DOMAIN data \union {market} |-> IF m = market THEN ticker ELSE data[m]]
  ELSE data

\* get_coin_price_in_usd: USD_COINS is a set, the first of its coins that gives a
\* price may be any of them.
PricesInUsd(data, coin) ==
  LET forward(usd) == [base |-> coin, quote |-> usd]
      backward(usd) == [base |-> usd, quote |-> coin]
      prices == {data[forward(usd)].book.bid : usd \in {u \in UsdCoins : forward(u) \in DOMAIN data}}
                \cup {Over(One, data[backward(usd)].book.ask) :
                        usd \in {u \in UsdCoins : /\ forward(u) \notin DOMAIN data
                                                  /\ backward(u) \in DOMAIN data}}
  IN IF prices = {} THEN {Zero} ELSE prices
=============================================================================
