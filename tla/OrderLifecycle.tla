--------------------------- MODULE OrderLifecycle ---------------------------
(***************************************************************************)
(* What the order flow promises of every single order, with no queue, no   *)
(* threads, no messages and no failures in sight: it is fired, posted at   *)
(* most once, settled by the exchange, and shown in the orders table by    *)
(* one row, that never claims what did not happen and, if it is written    *)
(* again, only moves on with the order.  OrderFlow implements it.          *)
(***************************************************************************)
EXTENDS Naturals

CONSTANT Orders

VARIABLES fired,   \* the orders handed to the executors
          posts,   \* how many times each was posted
          fate,    \* its status at the exchange
          row      \* the status its row shows

vars == <<fired, posts, fate, row>>

Final == {"FILLED", "EXPIRED"}

Init ==
  /\ fired = {}
  /\ posts = [o \in Orders |-> 0]
  /\ fate = [o \in Orders |-> "unknown"]
  /\ row = [o \in Orders |-> "none"]

Fire(o) ==
  /\ o \notin fired
  /\ fired' = fired \union {o}
  /\ UNCHANGED <<posts, fate, row>>

\* The exchange takes the order, or never hears of it.
Post(o) ==
  /\ o \in fired /\ posts[o] = 0
  /\ posts' = [posts EXCEPT ![o] = 1]
  /\ \E status \in {"unknown", "NEW"} \union Final : fate' = [fate EXCEPT ![o] = status]
  /\ UNCHANGED <<fired, row>>

Settle(o) ==
  /\ fate[o] = "NEW"
  /\ \E status \in Final : fate' = [fate EXCEPT ![o] = status]
  /\ UNCHANGED <<fired, posts, row>>

\* What a row may truthfully show: where the order is, that it was once open, or
\* that something went wrong.
Truths(o) == {"ERROR"} \union (IF fate[o] = "unknown" THEN {} ELSE {"NEW", fate[o]})

\* A row may be brought up to date, and never goes back.
MovesOn(was, is) ==
  \/ was = "none"
  \/ was = "ERROR" /\ is # "ERROR"
  \/ was = "NEW" /\ is \in Final

Write(o) ==
  /\ posts[o] = 1
  /\ \E status \in Truths(o) :
       MovesOn(row[o], status) /\ row' = [row EXCEPT ![o] = status]
  /\ UNCHANGED <<fired, posts, fate>>

Next == \E o \in Orders : Fire(o) \/ Post(o) \/ Settle(o) \/ Write(o)

Spec == Init /\ [][Next]_vars
=============================================================================
