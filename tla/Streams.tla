------------------------------ MODULE Streams ------------------------------
(***************************************************************************)
(* BinanceDataListener._create_streams: the list of all markets cut into   *)
(* websocket streams of a limited number of subscriptions, market by       *)
(* market.  A market is its place in the list; a stream is the pair of     *)
(* its first and its last market.                                          *)
(***************************************************************************)
EXTENDS Integers, Sequences

VARIABLES markets, limit,   \* the inputs: len(markets), and the library's limit
                            \* get_limit_of_subscriptions_per_stream (1024)
          market,           \* the loop: the next market
          markets_sub,      \* ... the first market gathered and not subscribed to yet
          i, loops,
          streams           \* created so far

vars == <<markets, limit, market, markets_sub, i, loops, streams>>

CeilDiv(a, b) == (a + b - 1) \div b

divisor == CeilDiv(markets, limit)
max_subscriptions == CeilDiv(markets, divisor)

Init ==
  /\ markets \in Nat \ {0} /\ limit \in Nat \ {0, 1}
  /\ market = 1 /\ markets_sub = 1
  /\ i = 1 /\ loops = 1
  /\ streams = << >>

\* One stream takes them all.
CreateOnly ==
  /\ markets <= max_subscriptions /\ market = 1
  /\ streams' = << <<1, markets>> >>
  /\ market' = markets + 1 /\ markets_sub' = markets + 1
  /\ UNCHANGED <<markets, limit, i, loops>>

IsFull == i = max_subscriptions \/ loops * max_subscriptions + i = markets

\* One round of the loop over the markets: after a stream is created i is set to 1
\* and then counted up as in every round.
Gather ==
  /\ markets > max_subscriptions /\ market <= markets
  /\ market' = market + 1
  /\ IF IsFull
     THEN /\ streams' = Append(streams, <<markets_sub, market>>)
          /\ markets_sub' = market + 1
          /\ i' = 2 /\ loops' = loops + 1
     ELSE i' = i + 1 /\ UNCHANGED <<markets_sub, loops, streams>>
  /\ UNCHANGED <<markets, limit>>

Next == CreateOnly \/ Gather

Spec == Init /\ [][Next]_vars

-----------------------------------------------------------------------------
\* No stream asks for more than the library takes, and no market is subscribed to
\* twice: the streams are consecutive pieces of the list (listener.py:83-89).
StreamsFit ==
  \A s \in DOMAIN streams :
    /\ streams[s][2] < market
    /\ streams[s][2] - streams[s][1] + 1 \in 1..limit
    /\ streams[s][1] = IF s = 1 THEN 1 ELSE streams[s - 1][2] + 1

\* What markets_sub still holds when the loop is over is subscribed to by nobody.
Done == market > markets
LeftOut == market - markets_sub

\* The counter going astray after the first stream costs fewer markets than there
\* had to be streams, and not a whole stream: all but these are heard of.
FewLeftOut ==
  Done => /\ LeftOut < divisor
          /\ markets > max_subscriptions => LeftOut <= max_subscriptions - 2
=============================================================================
