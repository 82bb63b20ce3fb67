----------------------------- MODULE OrderFlow -----------------------------
(***************************************************************************)
(* The life of an order after TradeManager put it on fire_orders_queue:    *)
(* the OrderExecutor threads post it (trade/executor.py), the exchange     *)
(* works it and reports over a websocket, BinanceOrderListener reads the   *)
(* reports (exchange/binance/order_listener.py), and executors and         *)
(* listener write one DynamoDB row per order through OrderDao              *)
(* (db/order_dao.py).  A call to the exchange or to DynamoDB can fail; a   *)
(* post can fail after the exchange took the order.                        *)
(***************************************************************************)
EXTENDS Integers, Sequences, FiniteSets

CONSTANTS Orders, Executors,
          SENTINEL,           \* "SHUTDOWN"
          GoodTillCancelled,  \* BINANCE_LIMIT_ORDER_DEFAULT_TIME_IN_FORCE: GTC or IOC
          MaxLag,             \* how much later than its transaction an event is stamped
          MaxFailures         \* bound of the model: calls that fail, events lost

ASSUME FlowAssumption ==
  /\ SENTINEL \notin Orders
  /\ Executors # {}
  /\ GoodTillCancelled \in BOOLEAN
  /\ MaxLag \in Nat /\ MaxFailures \in Nat

VARIABLES
  fire_orders_queue,
  produced,                  \* history: all that was ever put there from outside
  pc, msg, result, found,    \* per executor: its place in the loop and its locals
  exchange,                  \* the status of each order at the exchange
  clock,                     \* exchange time
  events,                    \* executionReports on their way to the listener
  table,                     \* DynamoDB, one row per order or NoRow
  lpc, event, order, prev,   \* the listener: its place and its locals
  failures,
  posted                     \* history: how many times each order was posted

queue == <<fire_orders_queue, produced>>
executors == <<pc, msg, result, found>>
listener == <<lpc, event, order, prev>>
vars == <<queue, executors, exchange, clock, events, table, listener, failures, posted>>

\* The fields of an Order the flow depends on: status, transaction_time (-1 until
\* a REST reply sets it) and the time of event_raw_order, 0 if there is none.
Record(status, tx, ev) == [status |-> status, tx |-> tx, ev |-> ev]
NoRow == Record("none", -1, 0)

\* Mutant of ErrorOrder: the order saved as it was, when its post failed.
UnmarkedOrder == Record("NEW", -1, 0)

ErrorOrder == Record("ERROR", -1, 0)

Answers == IF GoodTillCancelled THEN {"NEW", "FILLED", "EXPIRED"} ELSE {"FILLED", "EXPIRED"}

Init ==
  /\ fire_orders_queue = << >> /\ produced = << >>
  /\ pc = [e \in Executors |-> "get"]
  /\ msg = [e \in Executors |-> SENTINEL]
  /\ result = [e \in Executors |-> NoRow]
  /\ found = [e \in Executors |-> NoRow]
  /\ exchange = [o \in Orders |-> "unknown"] /\ clock = 1
  /\ events = << >>
  /\ table = [o \in Orders |-> NoRow]
  /\ lpc = "pop" /\ event = << >> /\ order = NoRow /\ prev = NoRow
  /\ failures = 0
  /\ posted = [o \in Orders |-> 0]

Works == UNCHANGED failures
Fails == failures < MaxFailures /\ failures' = failures + 1

-----------------------------------------------------------------------------
(* OrderDao *)

\* put_order: when get_order found a row, it is that row which is stored again,
\* with only created_at, updated_at and the chain's hash set: what is new in the
\* order is not.
ToStore(row, new) == IF row # NoRow THEN row ELSE new

PutItem(o, row, new) == table' = [table EXCEPT ![o] = ToStore(row, new)]

-----------------------------------------------------------------------------
(* OrderExecutor.run, one thread *)

Goto(e, label) == pc' = [pc EXCEPT ![e] = label]

\* Mutants of Get: the message looked at and left in the queue; the newest one
\* taken.
GetPeeking(e) ==
  /\ pc[e] = "get" /\ fire_orders_queue # << >>
  /\ msg' = [msg EXCEPT ![e] = Head(fire_orders_queue)]
  /\ Goto(e, IF msg'[e] = SENTINEL THEN "resend" ELSE "post")
  /\ UNCHANGED <<queue, result, found, exchange, clock, events, table, listener, failures,
                 posted>>
GetLast(e) ==
  /\ pc[e] = "get" /\ fire_orders_queue # << >>
  /\ msg' = [msg EXCEPT ![e] = fire_orders_queue[Len(fire_orders_queue)]]
  /\ fire_orders_queue' = SubSeq(fire_orders_queue, 1, Len(fire_orders_queue) - 1)
  /\ Goto(e, IF msg'[e] = SENTINEL THEN "resend" ELSE "post")
  /\ UNCHANGED <<produced, result, found, exchange, clock, events, table, listener, failures,
                 posted>>

\* The blocking get.
Get(e) ==
  /\ pc[e] = "get" /\ fire_orders_queue # << >>
  /\ msg' = [msg EXCEPT ![e] = Head(fire_orders_queue)]
  /\ fire_orders_queue' = Tail(fire_orders_queue)
  /\ Goto(e, IF msg'[e] = SENTINEL THEN "resend" ELSE "post")
  /\ UNCHANGED <<produced, result, found, exchange, clock, events, table, listener, failures,
                 posted>>

\* Mutant of OnSentinel: the message kept from the others.
OnSentinelKeeping(e) ==
  /\ pc[e] = "resend"
  /\ Goto(e, "ended")
  /\ UNCHANGED <<queue, msg, result, found, exchange, clock, events, table, listener,
                 failures, posted>>

\* _on_sentinel: "Re-send for others".
OnSentinel(e) ==
  /\ pc[e] = "resend"
  /\ fire_orders_queue' = Append(fire_orders_queue, SENTINEL)
  /\ Goto(e, "ended")
  /\ UNCHANGED <<produced, msg, result, found, exchange, clock, events, table, listener,
                 failures, posted>>

\* The exchange gives the order a status and reports it, in an event stamped with
\* the time of the transaction or a moment later.
Report(o, status) ==
  /\ exchange' = [exchange EXCEPT ![o] = status]
  /\ clock' = clock + 1
  /\ \E lag \in 0..MaxLag :
       events' = Append(events, [order |-> o, status |-> status, time |-> clock + lag])

\* _post_order: the exchange takes the order and the reply comes back; or there
\* is an exception and the order becomes an "ERROR": the exchange refused it, was
\* not reached, or took it and the reply was lost.
Post(e) ==
  /\ pc[e] = "post"
  /\ posted' = [posted EXCEPT ![msg[e]] = @ + 1]
  /\ \/ \E status \in Answers :
          /\ Report(msg[e], status)
          /\ \/ Works /\ result' = [result EXCEPT ![e] = Record(status, clock, 0)]
             \/ Fails /\ result' = [result EXCEPT ![e] = ErrorOrder]
     \/ /\ Fails /\ result' = [result EXCEPT ![e] = ErrorOrder]
        /\ UNCHANGED <<exchange, clock, events>>
  /\ Goto(e, "save")
  /\ UNCHANGED <<queue, msg, found, table, listener>>

\* put_order, as far as its get_order: an exception ends it and not the thread.
Save(e) ==
  /\ pc[e] = "save"
  /\ \/ Works /\ found' = [found EXCEPT ![e] = table[msg[e]]] /\ Goto(e, "put")
     \/ Fails /\ UNCHANGED found /\ Goto(e, "get")
  /\ UNCHANGED <<queue, msg, result, exchange, clock, events, table, listener, posted>>

\* ... and from there to its end.
Put(e) ==
  /\ pc[e] = "put"
  /\ \/ Works /\ PutItem(msg[e], found[e], result[e])
     \/ Fails /\ UNCHANGED table
  /\ Goto(e, "get")
  /\ UNCHANGED <<queue, msg, result, found, exchange, clock, events, listener, posted>>

Executor(e) == Get(e) \/ OnSentinel(e) \/ Post(e) \/ Save(e) \/ Put(e)

-----------------------------------------------------------------------------
(* BinanceOrderListener.on_exchange_event, in the thread of the data listener *)

Pop ==
  /\ lpc = "pop" /\ events # << >>
  /\ event' = Head(events) /\ events' = Tail(events)
  /\ lpc' = "check"
  /\ UNCHANGED <<queue, executors, exchange, clock, table, order, prev, failures, posted>>

Later(a, b) == IF a > b THEN a ELSE b

\* _check_that_event_order_is_older_than_last_update: an event with no row is
\* dropped, and so is one older than the event already in the row; a failure of
\* get_order is caught by nobody up to the end of the thread.
Check ==
  /\ lpc = "check"
  /\ LET row == table[event.order]
     IN \/ /\ Works /\ row # NoRow
           /\ event.time > Later(row.tx, row.ev)
           /\ order' = Record(event.status, -1, event.time)
           /\ lpc' = "save"
        \/ /\ Works /\ row # NoRow
           /\ event.time <= Later(row.tx, row.ev) /\ event.time > row.ev
           /\ order' = [row EXCEPT !.ev = event.time]
           /\ lpc' = "save"
        \/ /\ Works
           /\ row = NoRow \/ event.time <= row.ev
           /\ lpc' = "pop" /\ UNCHANGED order
        \/ Fails /\ lpc' = "dead" /\ UNCHANGED order
  /\ UNCHANGED <<queue, executors, exchange, clock, events, table, event, prev, posted>>

SaveEvent ==
  /\ lpc = "save"
  /\ \/ Works /\ prev' = table[event.order] /\ lpc' = "put"
     \/ Fails /\ UNCHANGED prev /\ lpc' = "pop"
  /\ UNCHANGED <<queue, executors, exchange, clock, events, table, event, order, posted>>

PutEvent ==
  /\ lpc = "put"
  /\ \/ Works /\ PutItem(event.order, prev, order)
     \/ Fails /\ UNCHANGED table
  /\ lpc' = "pop"
  /\ UNCHANGED <<queue, executors, exchange, clock, events, event, order, prev, posted>>

Listener == Pop \/ Check \/ SaveEvent \/ PutEvent

-----------------------------------------------------------------------------
(* What surrounds them *)

Sent == \E i \in DOMAIN produced : produced[i] = SENTINEL

\* TradeManager fires an order, or the shutdown message is sent.
Produce(m) ==
  /\ \A i \in DOMAIN produced : produced[i] # m
  /\ fire_orders_queue' = Append(fire_orders_queue, m)
  /\ produced' = Append(produced, m)
  /\ UNCHANGED <<executors, exchange, clock, events, table, listener, failures, posted>>

\* A resting order is filled or cancelled.
Settle(o) ==
  /\ exchange[o] = "NEW"
  /\ \E status \in {"FILLED", "EXPIRED"} : Report(o, status)
  /\ UNCHANGED <<queue, executors, table, listener, failures, posted>>

\* The websocket reconnects: what it would have brought is gone.
LoseEvent ==
  /\ events # << >> /\ Fails
  /\ events' = Tail(events)
  /\ UNCHANGED <<queue, executors, exchange, clock, table, listener, posted>>

Next ==
  \/ \E e \in Executors : Executor(e)
  \/ Listener
  \/ \E m \in Orders \union {SENTINEL} : Produce(m)
  \/ \E o \in Orders : Settle(o)
  \/ LoseEvent

Spec == Init /\ [][Next]_vars

\* An executor is never stopped but by an empty queue: every call it makes
\* returns or raises.
ExecutorsRun == \A e \in Executors : WF_vars(Executor(e))

-----------------------------------------------------------------------------
Labels == {"get", "resend", "post", "save", "put", "ended"}
Rows == [status : {"none", "ERROR", "NEW", "FILLED", "EXPIRED"}, tx : Int, ev : Nat]

TypeOK ==
  /\ fire_orders_queue \in Seq(Orders \union {SENTINEL})
  /\ produced \in Seq(Orders \union {SENTINEL})
  /\ pc \in [Executors -> Labels]
  /\ msg \in [Executors -> Orders \union {SENTINEL}]
  /\ \A e \in Executors : pc[e] \in {"post", "save", "put"} => msg[e] \in Orders
  /\ result \in [Executors -> Rows] /\ found \in [Executors -> Rows]
  /\ exchange \in [Orders -> {"unknown", "NEW", "FILLED", "EXPIRED"}]
  /\ table \in [Orders -> Rows]
  /\ lpc \in {"pop", "check", "save", "put", "dead"}
  /\ posted \in [Orders -> Nat]

\* Three threads share the queue and no order is posted twice, whatever fails:
\* nothing retries a post, not even one whose reply was lost.
PostedAtMostOnce == \A o \in Orders : posted[o] <= 1

-----------------------------------------------------------------------------
InQueue(m) == \E i \in DOMAIN fire_orders_queue : fire_orders_queue[i] = m
Produced(m) == \E i \in DOMAIN produced : produced[i] = m
Holds(e, m) == msg[e] = m /\ pc[e] \in {"post", "resend"}

\* Nothing put on the queue is lost or doubled: an order not yet posted is either
\* in the queue or with one executor, and never both.
NothingLost ==
  \A o \in Orders :
    /\ Produced(o) <=> posted[o] > 0 \/ InQueue(o) \/ \E e \in Executors : Holds(e, o)
    /\ ~(InQueue(o) /\ (posted[o] > 0 \/ \E e \in Executors : Holds(e, o)))
    /\ \A e, f \in Executors : Holds(e, o) /\ Holds(f, o) => e = f

\* The one shutdown message reaches every executor: it is always in the queue, or
\* with the executor that is about to send it on.
SentinelSurvives ==
  Produced(SENTINEL) => InQueue(SENTINEL) \/ \E e \in Executors : pc[e] = "resend"

AheadOfShutdown(o) ==
  \E i \in DOMAIN produced :
    produced[i] = o /\ \A j \in 1..i : produced[j] # SENTINEL

\* When the last executor has ended, every order queued before the shutdown
\* message was posted.
ShutdownDrains ==
  (\A e \in Executors : pc[e] = "ended")
    => \A o \in Orders : Produced(SENTINEL) /\ AheadOfShutdown(o) => posted[o] = 1

-----------------------------------------------------------------------------
(* What the invariants above rest on: the inductive invariant is their        *)
(* conjunction with these (OrderFlowProofs.tla).                              *)

Reported == [order : Orders, status : {"NEW", "FILLED", "EXPIRED"}, time : Nat]

LocalsTyped ==
  /\ clock \in Nat /\ failures \in Nat
  /\ events \in Seq(Reported)
  /\ lpc \notin {"pop", "dead"} => event \in Reported
  /\ order \in Rows /\ prev \in Rows

\* An order is in one place only, and an executor resends nothing but SENTINEL.
OnePlace ==
  /\ \A i, j \in DOMAIN fire_orders_queue :
       fire_orders_queue[i] = fire_orders_queue[j] /\ fire_orders_queue[i] \in Orders => i = j
  /\ \A e \in Executors : pc[e] = "resend" => msg[e] = SENTINEL
  /\ \A e \in Executors : pc[e] = "post" => posted[msg[e]] = 0

\* The queue is first in first out: no executor has seen the shutdown message
\* while an order produced ahead of it is still in the queue.
ShutdownIsLast ==
  /\ InQueue(SENTINEL) => Produced(SENTINEL)
  /\ \A o \in Orders : AheadOfShutdown(o) =>
       \A i, j \in DOMAIN fire_orders_queue :
         fire_orders_queue[i] = o /\ fire_orders_queue[j] = SENTINEL => i < j
  /\ (\E e \in Executors : pc[e] \in {"resend", "ended"}) =>
       /\ Produced(SENTINEL)
       /\ \A o \in Orders : AheadOfShutdown(o) => ~InQueue(o)

-----------------------------------------------------------------------------
\* A row never shows more than what happened: it exists only once the order was
\* posted, a final status in it is the one the order has at the exchange, and
\* only an order that met a failure is shown as an error.
RowTruthful ==
  \A o \in Orders :
    table[o] # NoRow =>
      /\ posted[o] = 1
      /\ table[o].status \in {"FILLED", "EXPIRED"} => exchange[o] = table[o].status
      /\ table[o].status = "NEW" => exchange[o] # "unknown"
      /\ table[o].status = "ERROR" => failures > 0

\* Every order fired ahead of the shutdown message is posted, and recorded when
\* nothing fails, however the executors share the queue.
EveryOrderRecorded ==
  \A o \in Orders : AheadOfShutdown(o) ~> posted[o] = 1 /\ (failures = 0 => table[o] # NoRow)
-----------------------------------------------------------------------------
Lifecycle == INSTANCE OrderLifecycle
               WITH fired <- {o \in Orders : Produced(o)},
                    posts <- posted,
                    fate <- exchange,
                    row <- [o \in Orders |-> table[o].status]

\* Executors, listener, lost replies and late events together keep what the
\* lifecycle promises of each order: one post, and one row that is true when it is
\* written and, however often it is, never goes back behind what it showed.
EachOrderHasItsLifecycle == Lifecycle!Spec
=============================================================================
