--------------------------- MODULE TriangleVolume ---------------------------
(***************************************************************************)
(* One triangle A -> B -> C -> A priced by PetroniusArbiter, for every way *)
(* its markets may be quoted and every small ticker: TriangleMath checked  *)
(* against what a trade round the triangle really spends and brings in.    *)
(***************************************************************************)
EXTENDS TriangleMath

CONSTANTS Tickers,    \* the tickers a market may show, bid below ask
          UsdPrices   \* of the first coin, which is no USD coin itself

ASSUME TickersAssumption == \A t \in Tickers : IsTicker(t)

Legs == 1..3

VARIABLES buys,      \* the side of each leg: which coin of the market is its base
          tickers,   \* of the three markets
          usdPrice,
          steps,     \* created so far, one per leg
          matched,   \* the steps with their volumes matched, << >> before
          profit, profitUsd

tvars == <<buys, tickers, usdPrice, steps, matched, profit, profitUsd>>

\* Leg i goes from coin i to the next one.
NextLeg(i) == (i % 3) + 1
Market(i) == IF buys[i] THEN [base |-> NextLeg(i), quote |-> i]
                        ELSE [base |-> i, quote |-> NextLeg(i)]

TInit ==
  /\ buys \in [Legs -> BOOLEAN]
  /\ tickers \in [Legs -> Tickers]
  /\ usdPrice \in UsdPrices
  /\ steps = << >> /\ matched = << >>
  /\ profit = Zero /\ profitUsd = Zero

CreateStep ==
  /\ Len(steps) < 3
  /\ LET i == Len(steps) + 1
     IN steps' = Append(steps, ChainStep(Market(i), tickers[i], NextLeg(i)))
  /\ UNCHANGED <<buys, tickers, usdPrice, matched, profit, profitUsd>>

Calculate ==
  /\ Len(steps) = 3 /\ matched = << >>
  /\ matched' = Matched(steps)
  /\ profit' = Profit(steps)
  /\ profitUsd' = ProfitUsd(FALSE, profit', usdPrice)
  /\ UNCHANGED <<buys, tickers, usdPrice, steps>>

TNext == CreateStep \/ Calculate

TSpec == TInit /\ [][TNext]_tvars

-----------------------------------------------------------------------------
Done == matched # << >>
Positive(x) == x[1] > 0
\* The matched chain is a trade: each leg spends exactly what the one before it
\* brought in, none exceeds the volume its step was created with, and it is the
\* largest such trade, some leg using up its step
\* (calc_and_return_max_available_triangle_volume).
MatchedIsLargestTrade ==
  Done => /\ \A i \in 1..2 : Proposes(matched[i + 1]) = Gets(matched[i])
          /\ \A i \in Legs : AtMost(matched[i].volume, steps[i].volume)
          /\ \E i \in Legs : matched[i].volume = steps[i].volume

\* find fires a chain when its profit is positive: exactly when trading the
\* matched volumes brings in more of the first coin than it spends.
ProfitMeansGain ==
  Done => (Positive(profit) <=> Below(Proposes(matched[1]), Gets(matched[3])))

\* The way back round the triangle, on the same tickers.
WayBack == <<ChainStep(Market(3), tickers[3], 3), ChainStep(Market(2), tickers[2], 2),
             ChainStep(Market(1), tickers[1], 1)>>

\* As a bid is below its ask and the fees only make both worse, a triangle is
\* never profitable both ways round.
NeverBothWays == Done => ~(Positive(Roi(steps)) /\ Positive(Roi(WayBack)))
=============================================================================
