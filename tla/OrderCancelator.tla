-------------------------- MODULE OrderCancelator --------------------------
(***************************************************************************)
(* The thread that cancels orders resting for too long                     *)
(* (exchange/order_cancelator.py), started when limit orders are good till *)
(* cancelled, next to the executors, the exchange and the listener of      *)
(* OrderFlow.  It lists the open orders, keeps ours whose age, by the      *)
(* local clock, exceeds the time to live, and cancels them one by one;     *)
(* an order may be filled between the listing and its turn.                *)
(***************************************************************************)
EXTENDS OrderFlow

VARIABLES cpc, orders_to_cancel,   \* the thread: its place and its list
          old                      \* the open orders past ORDER_CANCELATOR_ORDER_TTL_MS

cancelator == <<cpc, orders_to_cancel>>
cvars == <<vars, cancelator, old>>

CInit == Init /\ cpc = "sleep" /\ orders_to_cancel = {} /\ old = {}

\* get_open_orders, less the orders that are not ours and those still young; an
\* exception in it ends the round (@safely).  The thread is not there at all when
\* orders are immediate or cancelled (__main__.py:153).
List ==
  /\ GoodTillCancelled /\ cpc = "sleep"
  /\ \/ /\ Works
        /\ orders_to_cancel' = {o \in old : exchange[o] = "NEW"}
     \/ Fails /\ UNCHANGED orders_to_cancel
  /\ cpc' = IF orders_to_cancel' = {} THEN "sleep" ELSE "cancel"
  /\ UNCHANGED <<queue, executors, exchange, clock, events, table, listener, posted>>

\* The exchange cancels an order that is still open; its reply may be lost.
Cancelled(o) ==
  /\ exchange[o] = "NEW" /\ Report(o, "EXPIRED")
  /\ Works \/ Fails

\* Mutant of NotCancelled: the exception not caught, and the thread ended.
NotCancelledUnsafely(o) ==
  /\ IF exchange[o] = "NEW" THEN Fails ELSE Works
  /\ cpc' = "dead"
  /\ UNCHANGED <<exchange, clock, events>>

\* cancel_order raises, as the order was filled meanwhile or the call failed; the
\* others get their turn all the same (@safely).
NotCancelled(o) ==
  /\ IF exchange[o] = "NEW" THEN Fails ELSE Works
  /\ cpc' = IF orders_to_cancel = {o} THEN "sleep" ELSE "cancel"
  /\ UNCHANGED <<exchange, clock, events>>

Cancel ==
  /\ cpc = "cancel"
  /\ \E o \in orders_to_cancel :
       /\ \/ Cancelled(o) /\ cpc' = IF orders_to_cancel = {o} THEN "sleep" ELSE "cancel"
          \/ NotCancelled(o)
       /\ orders_to_cancel' = orders_to_cancel \ {o}
  /\ UNCHANGED <<queue, executors, table, listener, posted>>

\* Time passes: three seconds after the exchange took it an open order is old.
Age(o) ==
  /\ exchange[o] = "NEW" /\ o \notin old
  /\ old' = old \union {o}
  /\ UNCHANGED <<vars, cancelator>>

StillOpen == old' = {o \in old : exchange'[o] = "NEW"}

CNext ==
  \/ (List \/ Cancel) /\ StillOpen
  \/ \E o \in Orders : Age(o)
  \/ Next /\ UNCHANGED cancelator /\ StillOpen

CSpec == CInit /\ [][CNext]_cvars

\* The cancelator loops on a timer for ever, and time passes.
CFairSpec ==
  /\ CSpec /\ ExecutorsRun
  /\ WF_cvars((List \/ Cancel) /\ StillOpen)
  /\ \A o \in Orders : WF_cvars(Age(o))

-----------------------------------------------------------------------------
\* No order rests at the exchange for ever, with calls failing at any point and
\* orders being filled while the list is worked off.
NoOrderRestsForever == \A o \in Orders : exchange[o] = "NEW" ~> exchange[o] # "NEW"
=============================================================================
