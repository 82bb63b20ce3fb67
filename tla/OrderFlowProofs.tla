--------------------------- MODULE OrderFlowProofs ---------------------------
(***************************************************************************)
(* What the flow of orders guarantees for any orders, any number of        *)
(* executor threads, and any number of failures: no order is lost or       *)
(* doubled, the rows of the orders table are truthful and OrderLifecycle   *)
(* is implemented, with the cancelator at work (CSpec) or without (Spec).  *)
(***************************************************************************)
EXTENDS OrderCancelator, TLAPS

Messages == Orders \union {SENTINEL}

\* Taking the head of a queue: what was in it is the head or still in it.
LEMMA HeadOrTail ==
  ASSUME NEW S, NEW q \in Seq(S), q # << >>
  PROVE  /\ Head(q) \in S /\ Tail(q) \in Seq(S)
         /\ Len(q) \in Nat \ {0} /\ Head(q) = q[1]
         /\ DOMAIN q = 1..Len(q) /\ DOMAIN Tail(q) = 1..(Len(q) - 1)
         /\ \A i \in DOMAIN Tail(q) : Tail(q)[i] = q[i + 1]
OBVIOUS

\* Appending to a queue: what was in it stays where it was, the new comes last.
LEMMA AppendedLast ==
  ASSUME NEW S, NEW q \in Seq(S), NEW x \in S
  PROVE  /\ Append(q, x) \in Seq(S)
         /\ Len(q) \in Nat
         /\ DOMAIN q = 1..Len(q) /\ DOMAIN Append(q, x) = 1..(Len(q) + 1)
         /\ \A i \in DOMAIN q : Append(q, x)[i] = q[i]
         /\ Append(q, x)[Len(q) + 1] = x
OBVIOUS

\* What the exchange reports is a well-typed event at the end of the stream.
LEMMA ReportTyped ==
  ASSUME LocalsTyped, exchange \in [Orders -> {"unknown", "NEW", "FILLED", "EXPIRED"}],
         NEW o \in Orders, NEW status \in {"NEW", "FILLED", "EXPIRED"}, Report(o, status)
  PROVE  /\ exchange' \in [Orders -> {"unknown", "NEW", "FILLED", "EXPIRED"}]
         /\ clock' \in Nat /\ events' \in Seq(Reported)
<1>1. PICK lag \in 0..MaxLag :
        events' = Append(events, [order |-> o, status |-> status, time |-> clock + lag])
  BY DEF Report
<1>2. [order |-> o, status |-> status, time |-> clock + lag] \in Reported
  BY DEF Reported, LocalsTyped
<1> QED
  BY <1>1, <1>2, AppendedLast DEF Report, LocalsTyped

\* A call that works or fails leaves a count of failures.
LEMMA FailuresCounted == ASSUME LocalsTyped, Works \/ Fails PROVE failures' \in Nat
<1>1. failures \in Nat
  BY DEF LocalsTyped
<1> QED
  BY <1>1 DEF Works, Fails

TypeInv == TypeOK /\ LocalsTyped

\* Taking a message from the queue keeps every variable in its type (executor.py:57-58).
LEMMA GetTyped == ASSUME TypeInv, NEW e \in Executors, Get(e) PROVE TypeInv'
<1>1. /\ Head(fire_orders_queue) \in Messages
      /\ Tail(fire_orders_queue) \in Seq(Messages)
  BY HeadOrTail DEF Get, TypeInv, TypeOK, Messages
<1> QED
  BY <1>1 DEF Get, TypeInv, TypeOK, LocalsTyped, Goto, Labels, queue, listener, Messages

\* Sending the shutdown message on keeps the types (executor.py:98-102).
LEMMA OnSentinelTyped == ASSUME TypeInv, NEW e \in Executors, OnSentinel(e) PROVE TypeInv'
<1>1. fire_orders_queue' \in Seq(Messages)
  BY AppendedLast DEF OnSentinel, TypeInv, TypeOK, Messages
<1> QED
  BY <1>1 DEF OnSentinel, TypeInv, TypeOK, LocalsTyped, Goto, Labels, queue, listener, Messages

\* A post keeps the types, whether the exchange answers, refuses the order or takes
\* it and the reply is lost (executor.py:35-52).
LEMMA PostTyped == ASSUME TypeInv, NEW e \in Executors, Post(e) PROVE TypeInv'
<1>1. msg[e] \in Orders
  BY DEF Post, TypeInv, TypeOK
<1>2. /\ exchange' \in [Orders -> {"unknown", "NEW", "FILLED", "EXPIRED"}]
      /\ clock' \in Nat /\ events' \in Seq(Reported)
      /\ failures' \in Nat
      /\ result' \in [Executors -> Rows]
  <2>1. CASE \E status \in Answers :
               /\ Report(msg[e], status)
               /\ \/ Works /\ result' = [result EXCEPT ![e] = Record(status, clock, 0)]
                  \/ Fails /\ result' = [result EXCEPT ![e] = ErrorOrder]
    <3>1. PICK status \in Answers :
            /\ Report(msg[e], status)
            /\ \/ Works /\ result' = [result EXCEPT ![e] = Record(status, clock, 0)]
               \/ Fails /\ result' = [result EXCEPT ![e] = ErrorOrder]
      BY <2>1
    <3>2. status \in {"NEW", "FILLED", "EXPIRED"}
      BY DEF Answers
    <3>3. Record(status, clock, 0) \in Rows /\ ErrorOrder \in Rows
      BY <3>2 DEF Record, ErrorOrder, Rows, TypeInv, LocalsTyped
    <3>4. failures' \in Nat
      BY <3>1 DEF Works, Fails, TypeInv, LocalsTyped
    <3>5. result' \in [Executors -> Rows]
      BY <3>1, <3>3 DEF TypeInv, TypeOK
    <3> QED
      BY <1>1, <3>1, <3>2, <3>4, <3>5, ReportTyped DEF TypeInv, TypeOK
  <2>2. CASE /\ Fails /\ result' = [result EXCEPT ![e] = ErrorOrder]
             /\ UNCHANGED <<exchange, clock, events>>
    <3>1. ErrorOrder \in Rows
      BY DEF ErrorOrder, Record, Rows
    <3>2. /\ result \in [Executors -> Rows] /\ failures \in Nat
          /\ exchange \in [Orders -> {"unknown", "NEW", "FILLED", "EXPIRED"}]
          /\ clock \in Nat /\ events \in Seq(Reported)
      BY DEF TypeInv, TypeOK, LocalsTyped
    <3> QED
      BY <2>2, <3>1, <3>2 DEF Fails
  <2> QED
    BY <2>1, <2>2 DEF Post
<1>3. posted' \in [Orders -> Nat]
  <2>1. posted' = [posted EXCEPT ![msg[e]] = posted[msg[e]] + 1]
    BY DEF Post
  <2>2. posted \in [Orders -> Nat]
    BY DEF TypeInv, TypeOK
  <2> QED
    BY <1>1, <2>1, <2>2
<1> QED
  BY <1>1, <1>2, <1>3 DEF Post, TypeInv, TypeOK, LocalsTyped, Goto, Labels, queue, listener

\* Reading the row ahead of its update keeps the types (order_dao.py:29-30).
LEMMA SaveTyped == ASSUME TypeInv, NEW e \in Executors, Save(e) PROVE TypeInv'
<1>1. failures' \in Nat
  BY FailuresCounted DEF Save, TypeInv
<1>2. found' \in [Executors -> Rows]
  BY DEF Save, TypeInv, TypeOK
<1>3. pc' \in [Executors -> Labels] /\ pc'[e] \in {"put", "get"}
  BY DEF Save, TypeInv, TypeOK, Goto, Labels
<1>4. \A f \in Executors : pc'[f] \in {"post", "save", "put"} => msg[f] \in Orders
  BY DEF Save, TypeInv, TypeOK, Goto
<1> QED
  BY <1>1, <1>2, <1>3, <1>4 DEF Save, TypeInv, TypeOK, LocalsTyped, queue, listener

\* Writing the row of a posted order keeps the types (order_dao.py:31-44).
LEMMA PutTyped == ASSUME TypeInv, NEW e \in Executors, Put(e) PROVE TypeInv'
<1>1. table' \in [Orders -> Rows]
  BY DEF Put, PutItem, ToStore, TypeInv, TypeOK
<1>2. failures' \in Nat
  BY FailuresCounted DEF Put, TypeInv
<1>3. pc' \in [Executors -> Labels]
  BY DEF Put, TypeInv, TypeOK, Goto, Labels
<1>4. \A f \in Executors : pc'[f] \in {"post", "save", "put"} => msg[f] \in Orders
  BY DEF Put, TypeInv, TypeOK, Goto
<1> QED
  BY <1>1, <1>2, <1>3, <1>4 DEF Put, TypeInv, TypeOK, LocalsTyped, queue, listener

\* Each step of the order listener keeps the types (order_listener.py:21-62).
LEMMA ListenerTyped == ASSUME TypeInv, Listener PROVE TypeInv'
<1>1. CASE Pop
  <2>1. Head(events) \in Reported /\ Tail(events) \in Seq(Reported)
    BY <1>1, HeadOrTail DEF Pop, TypeInv, LocalsTyped
  <2> QED
    BY <1>1, <2>1 DEF Pop, TypeInv, TypeOK, LocalsTyped, queue, executors
<1>2. CASE Check
  <2>1. order' \in Rows
    <3>1. event \in Reported /\ table[event.order] \in Rows
      BY <1>2 DEF Check, TypeInv, TypeOK, LocalsTyped, Reported
    <3>2. Record(event.status, -1, event.time) \in Rows
      BY <3>1 DEF Reported, Rows, Record
    <3>3. [table[event.order] EXCEPT !.ev = event.time] \in Rows
      BY <3>1 DEF Reported, Rows
    <3>4. order \in Rows
      BY DEF TypeInv, LocalsTyped
    <3> QED
      BY <1>2, <3>2, <3>3, <3>4 DEF Check
  <2>2. failures' \in Nat
    BY <1>2, FailuresCounted DEF Check, TypeInv
  <2>3. lpc' \in {"pop", "save", "dead"} /\ event' = event /\ event \in Reported
    BY <1>2 DEF Check, TypeInv, LocalsTyped
  <2> QED
    BY <1>2, <2>1, <2>2, <2>3 DEF Check, TypeInv, TypeOK, LocalsTyped, queue, executors
<1>3. CASE SaveEvent
  <2>1. event \in Reported /\ table[event.order] \in Rows
    BY <1>3 DEF SaveEvent, TypeInv, TypeOK, LocalsTyped, Reported
  <2>2. failures' \in Nat
    BY <1>3, FailuresCounted DEF SaveEvent, TypeInv
  <2>3. prev' \in Rows /\ lpc' \in {"pop", "put"} /\ event' = event
    BY <1>3, <2>1 DEF SaveEvent, TypeInv, LocalsTyped
  <2> QED
    BY <1>3, <2>1, <2>2, <2>3 DEF SaveEvent, TypeInv, TypeOK, LocalsTyped, queue, executors
<1>4. CASE PutEvent
  <2>1. table' \in [Orders -> Rows]
    BY <1>4 DEF PutEvent, PutItem, ToStore, TypeInv, TypeOK, LocalsTyped, Reported
  <2>2. failures' \in Nat
    BY <1>4, FailuresCounted DEF PutEvent, TypeInv
  <2> QED
    BY <1>4, <2>1, <2>2 DEF PutEvent, TypeInv, TypeOK, LocalsTyped, queue, executors
<1> QED
  BY <1>1, <1>2, <1>3, <1>4 DEF Listener

\* Firing an order, or sending the shutdown message, keeps the types (manager.py:121-130).
LEMMA ProduceTyped == ASSUME TypeInv, NEW m \in Messages, Produce(m) PROVE TypeInv'
<1>1. fire_orders_queue' \in Seq(Messages) /\ produced' \in Seq(Messages)
  BY AppendedLast DEF Produce, TypeInv, TypeOK, Messages
<1> QED
  BY <1>1 DEF Produce, TypeInv, TypeOK, LocalsTyped, executors, listener, Messages

\* The exchange settling a resting order keeps the types.
LEMMA SettleTyped == ASSUME TypeInv, NEW o \in Orders, Settle(o) PROVE TypeInv'
<1>1. PICK status \in {"FILLED", "EXPIRED"} : Report(o, status)
  BY DEF Settle
<1>2. /\ exchange' \in [Orders -> {"unknown", "NEW", "FILLED", "EXPIRED"}]
      /\ clock' \in Nat /\ events' \in Seq(Reported)
  BY <1>1, ReportTyped DEF TypeInv, TypeOK
<1> QED
  BY <1>2 DEF Settle, TypeInv, TypeOK, LocalsTyped, queue, executors, listener

\* A reconnection that loses an event keeps the types.
LEMMA LoseEventTyped == ASSUME TypeInv, LoseEvent PROVE TypeInv'
<1>1. Tail(events) \in Seq(Reported)
  BY HeadOrTail DEF LoseEvent, TypeInv, LocalsTyped
<1>2. failures' \in Nat
  BY FailuresCounted DEF LoseEvent, TypeInv
<1> QED
  BY <1>1, <1>2 DEF LoseEvent, TypeInv, TypeOK, LocalsTyped, queue, executors, listener

\* Every variable keeps its range, the rows of the table and the events on their
\* way included, whatever fails and whoever races whom.
LEMMA TypeInductive == TypeInv /\ [Next]_vars => TypeInv'
<1> SUFFICES ASSUME TypeInv, [Next]_vars PROVE TypeInv'
  OBVIOUS
<1>1. ASSUME NEW e \in Executors, Executor(e) PROVE TypeInv'
  BY <1>1, GetTyped, OnSentinelTyped, PostTyped, SaveTyped, PutTyped DEF Executor
<1>2. CASE Listener
  BY <1>2, ListenerTyped
<1>3. ASSUME NEW m \in Messages, Produce(m) PROVE TypeInv'
  BY <1>3, ProduceTyped
<1>4. ASSUME NEW o \in Orders, Settle(o) PROVE TypeInv'
  BY <1>4, SettleTyped
<1>5. CASE LoseEvent
  BY <1>5, LoseEventTyped
<1>6. CASE UNCHANGED vars
  BY <1>6 DEF vars, queue, executors, listener, TypeInv, TypeOK, LocalsTyped
<1> QED
  BY <1>1, <1>2, <1>3, <1>4, <1>5, <1>6 DEF Next, Messages

\* Initially every order is new and every executor waits.
LEMMA TypeInitially == Init => TypeInv
BY DEF Init, TypeInv, TypeOK, LocalsTyped, Labels, Rows, NoRow, Record

\* The types hold of any behaviour of the order flow.
LEMMA TypeInvHolds == Spec => []TypeInv
BY TypeInitially, TypeInductive, PTL DEF Spec

\* The type invariant the runs check: executors hold orders when they post and
\* save, whatever fails.
THEOREM TypeCorrect == Spec => []TypeOK
<1>1. TypeInv => TypeOK
  BY DEF TypeInv
<1> QED
  BY <1>1, TypeInvHolds, PTL

-----------------------------------------------------------------------------
(* No order is lost or posted twice                                          *)

FlowInv == PostedAtMostOnce /\ NothingLost /\ OnePlace

\* FlowInv only depends on which orders are in the queue, held, produced and
\* posted; steps that leave these alone preserve it.
others == <<fire_orders_queue, produced, pc, msg, posted>>

\* A step that touches neither the queue nor what the executors hold keeps FlowInv:
\* the listener and the exchange cannot lose or double an order.
LEMMA OthersKeepFlow == ASSUME FlowInv, UNCHANGED others PROVE FlowInv'
BY DEF FlowInv, others, PostedAtMostOnce, NothingLost, OnePlace, Produced, InQueue, Holds

\* What taking a message does to the queue and to who holds what.
LEMMA GetEffect ==
  ASSUME TypeInv, FlowInv, NEW e \in Executors, Get(e)
  PROVE  /\ InQueue(Head(fire_orders_queue))
         /\ \A o \in Orders : InQueue(o)' <=> InQueue(o) /\ o # Head(fire_orders_queue)
         /\ \A o \in Orders : ~Holds(e, o)
         /\ \A f \in Executors : \A o \in Orders :
              Holds(f, o)' <=> Holds(f, o) \/ (f = e /\ o = Head(fire_orders_queue))
<1> DEFINE q == fire_orders_queue
<1>1. /\ q \in Seq(Messages) /\ q # << >> /\ fire_orders_queue' = Tail(q)
      /\ pc \in [Executors -> Labels] /\ msg \in [Executors -> Messages]
  BY DEF Get, TypeInv, TypeOK, Messages
<1>2. /\ Len(q) \in Nat \ {0} /\ Head(q) = q[1]
      /\ DOMAIN q = 1..Len(q) /\ DOMAIN Tail(q) = 1..(Len(q) - 1)
      /\ \A i \in DOMAIN Tail(q) : Tail(q)[i] = q[i + 1]
  BY <1>1, HeadOrTail
<1>3. InQueue(Head(q))
  BY <1>2 DEF InQueue
<1>4. ASSUME NEW o \in Orders PROVE InQueue(o)' <=> InQueue(o) /\ o # Head(q)
  <2>1. ASSUME InQueue(o)' PROVE InQueue(o) /\ o # Head(q)
    <3>1. PICK i \in 1..(Len(q) - 1) : q[i + 1] = o
      BY <1>1, <1>2, <2>1 DEF InQueue
    <3>2. i + 1 \in DOMAIN q /\ 1 \in DOMAIN q /\ i + 1 # 1
      BY <1>2
    <3> QED
      BY <1>2, <3>1, <3>2 DEF InQueue, FlowInv, OnePlace
  <2>2. ASSUME InQueue(o), o # Head(q) PROVE InQueue(o)'
    <3>1. PICK i \in 1..Len(q) : q[i] = o
      BY <1>2, <2>2 DEF InQueue
    <3>2. i - 1 \in DOMAIN Tail(q) /\ (i - 1) + 1 = i
      BY <1>2, <2>2, <3>1
    <3> QED
      BY <1>1, <1>2, <3>1, <3>2 DEF InQueue
  <2> QED
    BY <2>1, <2>2
<1>5. /\ \A o \in Orders : ~Holds(e, o)
      /\ \A f \in Executors : \A o \in Orders :
           Holds(f, o)' <=> Holds(f, o) \/ (f = e /\ o = Head(q))
  BY <1>1 DEF Get, Goto, Holds
<1> QED
  BY <1>3, <1>4, <1>5

\* Taking a message moves an order from the queue to one executor, and from nowhere
\* else (executor.py:57).
LEMMA GetKeepsFlow == ASSUME TypeInv, FlowInv, NEW e \in Executors, Get(e) PROVE FlowInv'
<1> DEFINE q == fire_orders_queue
<1>1. /\ produced' = produced /\ posted' = posted /\ posted \in [Orders -> Nat]
  BY DEF Get, TypeInv, TypeOK
<1>2. NothingLost' /\ PostedAtMostOnce'
  BY <1>1, GetEffect DEF FlowInv, NothingLost, PostedAtMostOnce, Produced
<1>3. OnePlace'
  <2>1. /\ q \in Seq(Messages) /\ q # << >> /\ fire_orders_queue' = Tail(q)
        /\ pc \in [Executors -> Labels] /\ msg \in [Executors -> Messages]
    BY DEF Get, TypeInv, TypeOK, Messages
  <2>2. /\ Len(q) \in Nat \ {0} /\ Head(q) \in Messages
        /\ DOMAIN q = 1..Len(q) /\ DOMAIN Tail(q) = 1..(Len(q) - 1)
        /\ \A i \in DOMAIN Tail(q) : Tail(q)[i] = q[i + 1]
    BY <2>1, HeadOrTail
  <2>3. ASSUME NEW i \in DOMAIN Tail(q), NEW j \in DOMAIN Tail(q),
               Tail(q)[i] = Tail(q)[j], Tail(q)[i] \in Orders
        PROVE  i = j
    <3>1. i + 1 \in DOMAIN q /\ j + 1 \in DOMAIN q /\ q[i + 1] = q[j + 1] /\ q[i + 1] \in Orders
      BY <2>2, <2>3
    <3>2. i + 1 = j + 1
      BY <3>1 DEF FlowInv, OnePlace
    <3> QED
      BY <2>2, <3>2
  <2>4. \A f \in Executors : pc'[f] = "resend" => msg'[f] = SENTINEL
    BY <2>1 DEF Get, Goto, FlowInv, OnePlace
  <2>5. \A f \in Executors : pc'[f] = "post" => posted[msg'[f]] = 0
    <3>1. Head(q) \in Orders => posted[Head(q)] = 0
      BY <1>1, GetEffect DEF FlowInv, NothingLost
    <3> QED
      BY <2>1, <2>2, <3>1 DEF Get, Goto, FlowInv, OnePlace, Messages
  <2> QED
    BY <1>1, <2>1, <2>3, <2>4, <2>5 DEF OnePlace
<1> QED
  BY <1>2, <1>3 DEF FlowInv

\* Putting a message in the queue.
LEMMA AppendEffect ==
  ASSUME TypeInv, NEW m \in Messages, fire_orders_queue' = Append(fire_orders_queue, m)
  PROVE  /\ \A x : InQueue(x)' <=> InQueue(x) \/ x = m
         /\ fire_orders_queue' \in Seq(Messages) /\ Len(fire_orders_queue) \in Nat
         /\ DOMAIN fire_orders_queue = 1..Len(fire_orders_queue)
         /\ DOMAIN fire_orders_queue' = 1..(Len(fire_orders_queue) + 1)
         /\ \A i \in DOMAIN fire_orders_queue : fire_orders_queue'[i] = fire_orders_queue[i]
         /\ fire_orders_queue'[Len(fire_orders_queue) + 1] = m
<1> DEFINE q == fire_orders_queue
<1>1. q \in Seq(Messages)
  BY DEF TypeInv, TypeOK, Messages
<1>2. /\ Append(q, m) \in Seq(Messages)
      /\ Len(q) \in Nat
      /\ DOMAIN q = 1..Len(q) /\ DOMAIN Append(q, m) = 1..(Len(q) + 1)
      /\ \A i \in DOMAIN q : Append(q, m)[i] = q[i]
      /\ Append(q, m)[Len(q) + 1] = m
  BY <1>1, AppendedLast
<1>3. ASSUME NEW x PROVE InQueue(x)' <=> InQueue(x) \/ x = m
  BY <1>2 DEF InQueue
<1> QED
  BY <1>2, <1>3

\* Sending SENTINEL on moves no order (executor.py:98-102).
LEMMA OnSentinelKeepsFlow ==
  ASSUME TypeInv, FlowInv, NEW e \in Executors, OnSentinel(e) PROVE FlowInv'
<1>1. /\ SENTINEL \in Messages /\ SENTINEL \notin Orders
      /\ fire_orders_queue' = Append(fire_orders_queue, SENTINEL)
      /\ UNCHANGED <<produced, msg, posted>>
      /\ pc' = [pc EXCEPT ![e] = "ended"] /\ pc[e] = "resend" /\ msg[e] = SENTINEL
      /\ pc \in [Executors -> Labels]
  BY FlowAssumption DEF OnSentinel, Goto, Messages, FlowInv, OnePlace, TypeInv, TypeOK
<1>2. \A o \in Orders : InQueue(o)' <=> InQueue(o)
  BY <1>1, AppendEffect
<1>3. \A f \in Executors : \A o \in Orders : Holds(f, o)' <=> Holds(f, o)
  BY <1>1 DEF Holds
<1>4. NothingLost' /\ PostedAtMostOnce'
  BY <1>1, <1>2, <1>3 DEF FlowInv, NothingLost, PostedAtMostOnce, Produced
<1>5. OnePlace'
  <2>1. \A i, j \in DOMAIN fire_orders_queue' :
          fire_orders_queue'[i] = fire_orders_queue'[j] /\ fire_orders_queue'[i] \in Orders => i = j
    BY <1>1, AppendEffect DEF FlowInv, OnePlace
  <2> QED
    BY <1>1, <2>1 DEF FlowInv, OnePlace
<1> QED
  BY <1>4, <1>5 DEF FlowInv

\* The order an executor posts was in that executor's hands only, so it is posted for
\* the first time (executor.py:35-52).
LEMMA PostKeepsFlow == ASSUME TypeInv, FlowInv, NEW e \in Executors, Post(e) PROVE FlowInv'
<1>1. /\ msg[e] \in Orders /\ posted[msg[e]] = 0 /\ posted \in [Orders -> Nat]
      /\ posted' = [posted EXCEPT ![msg[e]] = posted[msg[e]] + 1]
      /\ pc[e] = "post" /\ pc' = [pc EXCEPT ![e] = "save"] /\ pc \in [Executors -> Labels]
      /\ UNCHANGED <<fire_orders_queue, produced, msg>>
  BY DEF Post, Goto, queue, TypeInv, TypeOK, FlowInv, OnePlace
<1>2. \A o \in Orders : posted'[o] = IF o = msg[e] THEN 1 ELSE posted[o]
  BY <1>1
<1>3. \A o \in Orders : (InQueue(o)' <=> InQueue(o)) /\ (Produced(o)' <=> Produced(o))
  BY <1>1 DEF InQueue, Produced
<1>4. /\ Holds(e, msg[e])
      /\ \A f \in Executors : \A o \in Orders : Holds(f, o)' <=> Holds(f, o) /\ f # e
  BY <1>1 DEF Holds
<1>5. PostedAtMostOnce'
  BY <1>2 DEF PostedAtMostOnce, FlowInv
<1>6. NothingLost'
  BY <1>1, <1>2, <1>3, <1>4 DEF FlowInv, NothingLost, Holds
<1>7. \A f \in Executors : pc'[f] = "post" => posted'[msg[f]] = 0
  <2> SUFFICES ASSUME NEW f \in Executors, pc'[f] = "post" PROVE posted'[msg[f]] = 0
    OBVIOUS
  <2>1. f # e /\ pc[f] = "post" /\ msg[f] \in Orders /\ posted[msg[f]] = 0
    BY <1>1 DEF TypeInv, TypeOK, FlowInv, OnePlace
  <2>2. Holds(f, msg[f])
    BY <2>1 DEF Holds
  <2>3. msg[f] # msg[e]
    BY <1>1, <1>4, <2>1, <2>2 DEF FlowInv, NothingLost
  <2> QED
    BY <1>2, <2>1, <2>3
<1> QED
  BY <1>1, <1>5, <1>6, <1>7 DEF FlowInv, OnePlace

\* Recording a posted order does not put it back in play (executor.py:74-80).
LEMMA SaveKeepsFlow ==
  ASSUME TypeInv, FlowInv, NEW e \in Executors, Save(e) \/ Put(e) PROVE FlowInv'
<1>1. /\ pc[e] \in {"save", "put"} /\ pc \in [Executors -> Labels]
      /\ pc' = [pc EXCEPT ![e] = "put"] \/ pc' = [pc EXCEPT ![e] = "get"]
      /\ UNCHANGED <<fire_orders_queue, produced, msg, posted>>
  BY DEF Save, Put, Goto, queue, TypeInv, TypeOK
<1>2. \A f \in Executors : \A o \in Orders : Holds(f, o)' <=> Holds(f, o)
  BY <1>1 DEF Holds
<1>3. \A o \in Orders : (InQueue(o)' <=> InQueue(o)) /\ (Produced(o)' <=> Produced(o))
  BY <1>1 DEF InQueue, Produced
<1>4. PostedAtMostOnce' /\ NothingLost'
  BY <1>1, <1>2, <1>3 DEF FlowInv, PostedAtMostOnce, NothingLost
<1>5. OnePlace'
  BY <1>1 DEF FlowInv, OnePlace
<1> QED
  BY <1>4, <1>5 DEF FlowInv

\* What is produced next: the message, after all that was.
LEMMA ProduceEffect ==
  ASSUME TypeInv, NEW m \in Messages, Produce(m)
  PROVE  /\ ~Produced(m)
         /\ \A x : Produced(x)' <=> Produced(x) \/ x = m
         /\ produced \in Seq(Messages) /\ Len(produced) \in Nat
         /\ DOMAIN produced = 1..Len(produced) /\ DOMAIN produced' = 1..(Len(produced) + 1)
         /\ \A i \in DOMAIN produced : produced'[i] = produced[i]
         /\ produced'[Len(produced) + 1] = m
<1>1. produced \in Seq(Messages) /\ produced' = Append(produced, m)
  BY DEF TypeInv, TypeOK, Messages, Produce
<1>2. /\ Len(produced) \in Nat
      /\ DOMAIN produced = 1..Len(produced) /\ DOMAIN produced' = 1..(Len(produced) + 1)
      /\ \A i \in DOMAIN produced : produced'[i] = produced[i]
      /\ produced'[Len(produced) + 1] = m
  BY <1>1, AppendedLast
<1>3. ~Produced(m)
  BY DEF Produce, Produced
<1>4. ASSUME NEW x PROVE Produced(x)' <=> Produced(x) \/ x = m
  BY <1>2 DEF Produced
<1> QED
  BY <1>1, <1>2, <1>3, <1>4

\* A newly fired order is in the queue once and nowhere else (manager.py:121-130).
LEMMA ProduceKeepsFlow == ASSUME TypeInv, FlowInv, NEW m \in Messages, Produce(m) PROVE FlowInv'
<1>1. /\ fire_orders_queue' = Append(fire_orders_queue, m)
      /\ UNCHANGED <<pc, msg, posted>> /\ posted \in [Orders -> Nat]
  BY DEF Produce, executors, TypeInv, TypeOK
<1>2. \A o \in Orders : (InQueue(o)' <=> InQueue(o) \/ o = m) /\ (Produced(o)' <=> Produced(o) \/ o = m)
  BY <1>1, AppendEffect, ProduceEffect
<1>3. \A f \in Executors : \A o \in Orders : Holds(f, o)' <=> Holds(f, o)
  BY <1>1 DEF Holds
<1>4. m \in Orders => ~InQueue(m) /\ posted[m] = 0 /\ \A f \in Executors : ~Holds(f, m)
  BY <1>1, ProduceEffect DEF FlowInv, NothingLost
<1>5. PostedAtMostOnce' /\ NothingLost'
  BY <1>1, <1>2, <1>3, <1>4 DEF FlowInv, PostedAtMostOnce, NothingLost
<1>6. OnePlace'
  <2>1. \A i, j \in DOMAIN fire_orders_queue' :
          fire_orders_queue'[i] = fire_orders_queue'[j] /\ fire_orders_queue'[i] \in Orders => i = j
    BY <1>1, <1>4, AppendEffect DEF FlowInv, OnePlace, InQueue
  <2> QED
    BY <1>1, <2>1 DEF FlowInv, OnePlace
<1> QED
  BY <1>5, <1>6 DEF FlowInv

\* FlowInv is inductive relative to the types: one case for each action.
LEMMA FlowInductive == FlowInv /\ TypeInv /\ [Next]_vars => FlowInv'
<1> SUFFICES ASSUME TypeInv, FlowInv, [Next]_vars PROVE FlowInv'
  OBVIOUS
<1>1. ASSUME NEW e \in Executors, Executor(e) PROVE FlowInv'
  BY <1>1, GetKeepsFlow, OnSentinelKeepsFlow, PostKeepsFlow, SaveKeepsFlow DEF Executor
<1>2. ASSUME NEW m \in Messages, Produce(m) PROVE FlowInv'
  BY <1>2, ProduceKeepsFlow
<1>3. CASE Listener
  BY <1>3, OthersKeepFlow
     DEF Listener, Pop, Check, SaveEvent, PutEvent, others, queue, executors
<1>4. ASSUME NEW o \in Orders, Settle(o) PROVE FlowInv'
  BY <1>4, OthersKeepFlow DEF Settle, others, queue, executors
<1>5. CASE LoseEvent
  BY <1>5, OthersKeepFlow DEF LoseEvent, others, queue, executors
<1>6. CASE UNCHANGED vars
  BY <1>6, OthersKeepFlow DEF vars, others, queue, executors
<1> QED
  BY <1>1, <1>2, <1>3, <1>4, <1>5, <1>6 DEF Next, Messages

\* FlowInv holds while nothing has been fired.
LEMMA FlowInitially == Init => FlowInv
<1> SUFFICES ASSUME Init PROVE FlowInv
  OBVIOUS
<1>1. /\ fire_orders_queue = << >> /\ produced = << >>
      /\ pc = [e \in Executors |-> "get"] /\ posted = [o \in Orders |-> 0]
  BY DEF Init
<1> QED
  BY <1>1 DEF FlowInv, PostedAtMostOnce, NothingLost, OnePlace, Produced, InQueue, Holds

\* FlowInv holds of every behaviour, for any number of orders, executors and failures.
LEMMA FlowHolds == Spec => []FlowInv
BY FlowInitially, FlowInductive, TypeInvHolds, PTL DEF Spec

\* No order is posted to the exchange twice, by whatever executors, and whatever
\* reply is lost.
THEOREM NoOrderPostedTwice == Spec => []PostedAtMostOnce
<1>1. FlowInv => PostedAtMostOnce
  BY DEF FlowInv
<1> QED
  BY <1>1, FlowHolds, PTL

\* An order is never lost on its way from the trade manager to its post, and
\* never in two places.
THEOREM NoOrderLost == Spec => []NothingLost
<1>1. FlowInv => NothingLost
  BY DEF FlowInv
<1> QED
  BY <1>1, FlowHolds, PTL

-----------------------------------------------------------------------------
(* The shutdown message reaches every executor, and last                     *)

ShutdownInv == SentinelSurvives /\ ShutdownIsLast

OthersThanOrders == <<fire_orders_queue, produced, pc>>

\* A step that touches neither the queue nor the executors' places keeps ShutdownInv.
LEMMA OthersKeepShutdown == ASSUME ShutdownInv, UNCHANGED OthersThanOrders PROVE ShutdownInv'
BY DEF ShutdownInv, OthersThanOrders, SentinelSurvives, ShutdownIsLast, Produced, InQueue,
       AheadOfShutdown

\* Nor does it matter where an executor is that is not about to end.
LEMMA BusyKeepsShutdown ==
  ASSUME TypeInv, ShutdownInv, NEW e \in Executors, Post(e) \/ Save(e) \/ Put(e)
  PROVE  ShutdownInv'
<1>1. /\ pc \in [Executors -> Labels]
      /\ pc[e] \notin {"resend", "ended"} /\ pc'[e] \notin {"resend", "ended"}
      /\ \A f \in Executors \ {e} : pc'[f] = pc[f]
      /\ UNCHANGED <<fire_orders_queue, produced>>
  BY DEF Post, Save, Put, Goto, queue, TypeInv, TypeOK
<1> QED
  BY <1>1 DEF ShutdownInv, SentinelSurvives, ShutdownIsLast, Produced, InQueue, AheadOfShutdown

\* The queue being first in first out, an executor that takes SENTINEL leaves none of
\* the orders produced ahead of it in the queue (executor.py:57).
LEMMA GetKeepsShutdown ==
  ASSUME TypeInv, ShutdownInv, NEW e \in Executors, Get(e) PROVE ShutdownInv'
<1> DEFINE q == fire_orders_queue
<1>1. /\ q \in Seq(Messages) /\ q # << >> /\ fire_orders_queue' = Tail(q)
      /\ pc \in [Executors -> Labels] /\ pc[e] = "get" /\ produced' = produced
      /\ pc' = [pc EXCEPT ![e] = IF Head(q) = SENTINEL THEN "resend" ELSE "post"]
  <2>1. msg'[e] = Head(q)
    BY DEF Get, TypeInv, TypeOK
  <2> QED
    BY <2>1 DEF Get, Goto, TypeInv, TypeOK, Messages
<1>2. /\ Len(q) \in Nat \ {0} /\ Head(q) = q[1]
      /\ DOMAIN q = 1..Len(q) /\ DOMAIN Tail(q) = 1..(Len(q) - 1)
      /\ \A i \in DOMAIN Tail(q) : Tail(q)[i] = q[i + 1]
  BY <1>1, HeadOrTail
<1>3. \A x : InQueue(x)' => InQueue(x)
  BY <1>1, <1>2 DEF InQueue
<1>4. InQueue(SENTINEL) => InQueue(SENTINEL)' \/ Head(q) = SENTINEL
  <2> SUFFICES ASSUME InQueue(SENTINEL), Head(q) # SENTINEL PROVE InQueue(SENTINEL)'
    OBVIOUS
  <2>1. PICK i \in 1..Len(q) : q[i] = SENTINEL
    BY <1>2 DEF InQueue
  <2>2. i - 1 \in DOMAIN Tail(q) /\ (i - 1) + 1 = i
    BY <1>2, <2>1
  <2> QED
    BY <1>1, <1>2, <2>1, <2>2 DEF InQueue
<1>5. \A x : Produced(x)' <=> Produced(x)
  BY <1>1 DEF Produced
<1>6. \A o \in Orders : AheadOfShutdown(o)' <=> AheadOfShutdown(o)
  BY <1>1 DEF AheadOfShutdown
<1>7. SentinelSurvives'
  BY <1>1, <1>4, <1>5 DEF ShutdownInv, SentinelSurvives
<1>8. ASSUME NEW o \in Orders, AheadOfShutdown(o),
             NEW i \in DOMAIN Tail(q), NEW j \in DOMAIN Tail(q),
             Tail(q)[i] = o, Tail(q)[j] = SENTINEL
      PROVE  i < j
  <2>1. i + 1 \in DOMAIN q /\ j + 1 \in DOMAIN q /\ q[i + 1] = o /\ q[j + 1] = SENTINEL
    BY <1>2, <1>8
  <2>2. i + 1 < j + 1
    BY <1>8, <2>1 DEF ShutdownInv, ShutdownIsLast
  <2> QED
    BY <1>2, <2>2
<1>9. ASSUME NEW f \in Executors, pc'[f] \in {"resend", "ended"}
      PROVE  Produced(SENTINEL)' /\ \A o \in Orders : AheadOfShutdown(o)' => ~InQueue(o)'
  <2>1. CASE pc[f] \in {"resend", "ended"}
    BY <1>3, <1>5, <1>6, <2>1 DEF ShutdownInv, ShutdownIsLast
  <2>2. CASE pc[f] \notin {"resend", "ended"}
    <3>1. Head(q) = SENTINEL
      BY <1>1, <1>9, <2>2
    <3>2. InQueue(SENTINEL) /\ 1 \in DOMAIN q /\ q[1] = SENTINEL
      BY <1>2, <3>1 DEF InQueue
    <3>3. ASSUME NEW o \in Orders, AheadOfShutdown(o), InQueue(o) PROVE FALSE
      <4>1. PICK i \in 1..Len(q) : q[i] = o
        BY <1>2, <3>3 DEF InQueue
      <4>2. i < 1
        BY <1>2, <3>2, <3>3, <4>1 DEF ShutdownInv, ShutdownIsLast
      <4> QED
        BY <4>2
    <3> QED
      BY <1>3, <1>5, <1>6, <3>2, <3>3 DEF ShutdownInv, ShutdownIsLast
  <2> QED
    BY <2>1, <2>2
<1>10. ShutdownIsLast'
  <2>1. InQueue(SENTINEL)' => Produced(SENTINEL)'
    BY <1>3, <1>5 DEF ShutdownInv, ShutdownIsLast
  <2> QED
    BY <1>1, <1>6, <1>8, <1>9, <2>1 DEF ShutdownIsLast
<1> QED
  BY <1>7, <1>10 DEF ShutdownInv

\* Re-sent, SENTINEL is last in a queue that holds no order produced ahead of it
\* (executor.py:98-102).
LEMMA OnSentinelKeepsShutdown ==
  ASSUME TypeInv, ShutdownInv, NEW e \in Executors, OnSentinel(e) PROVE ShutdownInv'
<1>1. /\ SENTINEL \in Messages /\ SENTINEL \notin Orders
      /\ fire_orders_queue' = Append(fire_orders_queue, SENTINEL)
      /\ produced' = produced
      /\ pc \in [Executors -> Labels] /\ pc[e] = "resend" /\ pc' = [pc EXCEPT ![e] = "ended"]
  BY FlowAssumption DEF OnSentinel, Goto, Messages, TypeInv, TypeOK
<1>2. Produced(SENTINEL) /\ \A o \in Orders : AheadOfShutdown(o) => ~InQueue(o)
  BY <1>1 DEF ShutdownInv, ShutdownIsLast
<1>3. Produced(SENTINEL)' /\ \A o \in Orders : AheadOfShutdown(o)' => ~InQueue(o)'
  <2>1. \A o \in Orders : InQueue(o)' <=> InQueue(o)
    BY <1>1, AppendEffect
  <2> QED
    BY <1>1, <1>2, <2>1 DEF Produced, AheadOfShutdown
<1>4. InQueue(SENTINEL)'
  BY <1>1, AppendEffect
<1> QED
  BY <1>3, <1>4 DEF ShutdownInv, SentinelSurvives, ShutdownIsLast, InQueue

\* What is produced after SENTINEL is behind it; SENTINEL is behind all produced before.
LEMMA ProduceKeepsShutdown ==
  ASSUME TypeInv, ShutdownInv, NEW m \in Messages, Produce(m) PROVE ShutdownInv'
<1>1. fire_orders_queue' = Append(fire_orders_queue, m) /\ pc' = pc /\ SENTINEL \notin Orders
  BY FlowAssumption DEF Produce, executors
<1>2. \A x : (InQueue(x)' <=> InQueue(x) \/ x = m) /\ (Produced(x)' <=> Produced(x) \/ x = m)
  BY <1>1, AppendEffect, ProduceEffect
  \* An order is ahead of the shutdown message if it was, or if it is the new one
  \* and there is no such message yet.
<1>3. ASSUME NEW o \in Orders, AheadOfShutdown(o)'
      PROVE  AheadOfShutdown(o) \/ (o = m /\ ~Produced(SENTINEL))
  <2>1. PICK i \in DOMAIN produced' :
          produced'[i] = o /\ \A j \in 1..i : produced'[j] # SENTINEL
    BY <1>3 DEF AheadOfShutdown
  <2>2. CASE i \in DOMAIN produced
    <3>1. \A j \in 1..i : j \in DOMAIN produced /\ produced'[j] = produced[j]
      BY <2>2, ProduceEffect
    <3> QED
      BY <2>1, <2>2, <3>1, ProduceEffect DEF AheadOfShutdown
  <2>3. CASE i \notin DOMAIN produced
    <3>1. i = Len(produced) + 1 /\ o = m
      BY <2>1, <2>3, ProduceEffect
    <3>2. \A j \in DOMAIN produced : produced[j] # SENTINEL
      BY <2>1, <3>1, ProduceEffect
    <3> QED
      BY <3>1, <3>2 DEF Produced
  <2> QED
    BY <2>2, <2>3
<1>4. SentinelSurvives'
  BY <1>1, <1>2 DEF ShutdownInv, SentinelSurvives
<1>5. InQueue(SENTINEL)' => Produced(SENTINEL)'
  BY <1>2 DEF ShutdownInv, ShutdownIsLast
<1>6. ASSUME NEW o \in Orders, AheadOfShutdown(o)',
             NEW i \in DOMAIN fire_orders_queue', NEW j \in DOMAIN fire_orders_queue',
             fire_orders_queue'[i] = o, fire_orders_queue'[j] = SENTINEL
      PROVE  i < j
  <2>1. CASE j \notin DOMAIN fire_orders_queue
    \* The shutdown message is the new one, and o is not.
    <3>1. j = Len(fire_orders_queue) + 1 /\ i # j
      BY <1>1, <1>6, <2>1, AppendEffect
    <3> QED
      BY <1>1, <1>6, <3>1, AppendEffect
  <2>2. CASE j \in DOMAIN fire_orders_queue
    <3>1. fire_orders_queue[j] = SENTINEL
      BY <1>1, <1>6, <2>2, AppendEffect
    <3>2. Produced(SENTINEL)
      BY <2>2, <3>1 DEF InQueue, ShutdownInv, ShutdownIsLast
    <3>3. AheadOfShutdown(o) /\ Produced(o)
      BY <1>3, <1>6, <3>2 DEF AheadOfShutdown, Produced
    <3>4. o # m
      BY <3>3, ProduceEffect
    <3>5. i \in DOMAIN fire_orders_queue /\ fire_orders_queue[i] = o
      BY <1>1, <1>6, <3>4, AppendEffect
    <3> QED
      BY <2>2, <3>1, <3>3, <3>5 DEF ShutdownInv, ShutdownIsLast
  <2> QED
    BY <2>1, <2>2
<1>7. ASSUME NEW f \in Executors, pc'[f] \in {"resend", "ended"}
      PROVE  Produced(SENTINEL)' /\ \A o \in Orders : AheadOfShutdown(o)' => ~InQueue(o)'
  <2>1. Produced(SENTINEL) /\ \A o \in Orders : AheadOfShutdown(o) => ~InQueue(o)
    BY <1>1, <1>7 DEF ShutdownInv, ShutdownIsLast
  <2>2. \A o \in Orders : AheadOfShutdown(o)' => AheadOfShutdown(o) /\ o # m
    BY <1>3, <2>1, ProduceEffect DEF AheadOfShutdown, Produced
  <2> QED
    BY <1>2, <2>1, <2>2
<1>8. ShutdownIsLast'
  BY <1>5, <1>6, <1>7 DEF ShutdownIsLast
<1> QED
  BY <1>4, <1>8 DEF ShutdownInv

\* ShutdownInv is inductive relative to the types: one case for each action.
LEMMA ShutdownInductive == ShutdownInv /\ TypeInv /\ [Next]_vars => ShutdownInv'
<1> SUFFICES ASSUME TypeInv, ShutdownInv, [Next]_vars PROVE ShutdownInv'
  OBVIOUS
<1>1. ASSUME NEW e \in Executors, Executor(e) PROVE ShutdownInv'
  BY <1>1, GetKeepsShutdown, OnSentinelKeepsShutdown, BusyKeepsShutdown DEF Executor
<1>2. ASSUME NEW m \in Messages, Produce(m) PROVE ShutdownInv'
  BY <1>2, ProduceKeepsShutdown
<1>3. CASE Listener
  BY <1>3, OthersKeepShutdown
     DEF Listener, Pop, Check, SaveEvent, PutEvent, OthersThanOrders, queue, executors
<1>4. ASSUME NEW o \in Orders, Settle(o) PROVE ShutdownInv'
  BY <1>4, OthersKeepShutdown DEF Settle, OthersThanOrders, queue, executors
<1>5. CASE LoseEvent
  BY <1>5, OthersKeepShutdown DEF LoseEvent, OthersThanOrders, queue, executors
<1>6. CASE UNCHANGED vars
  BY <1>6, OthersKeepShutdown DEF vars, OthersThanOrders, queue, executors
<1> QED
  BY <1>1, <1>2, <1>3, <1>4, <1>5, <1>6 DEF Next, Messages

\* Before anything is fired there is no shutdown message.
LEMMA ShutdownInitially == Init => ShutdownInv
<1> SUFFICES ASSUME Init PROVE ShutdownInv
  OBVIOUS
<1>1. fire_orders_queue = << >> /\ produced = << >> /\ pc = [e \in Executors |-> "get"]
  BY DEF Init
<1> QED
  BY <1>1 DEF ShutdownInv, SentinelSurvives, ShutdownIsLast, Produced, InQueue, AheadOfShutdown

\* ShutdownInv holds of every behaviour.
LEMMA ShutdownHolds == Spec => []ShutdownInv
BY ShutdownInitially, ShutdownInductive, TypeInvHolds, PTL DEF Spec

\* The one shutdown message is never used up: until every executor has ended it
\* is in the queue or about to be put there again.
THEOREM SentinelNeverUsedUp == Spec => []SentinelSurvives
<1>1. ShutdownInv => SentinelSurvives
  BY DEF ShutdownInv
<1> QED
  BY <1>1, ShutdownHolds, PTL

\* With all executors ended, an order queued ahead of the shutdown message is neither
\* in the queue nor with any of them: it was posted.
LEMMA AllPostedAtTheEnd == TypeInv /\ FlowInv /\ ShutdownInv => ShutdownDrains
<1> SUFFICES ASSUME TypeInv, FlowInv, ShutdownInv,
                    \A e \in Executors : pc[e] = "ended",
                    NEW o \in Orders, AheadOfShutdown(o)
             PROVE  posted[o] = 1
  BY DEF ShutdownDrains
<1>1. PICK e \in Executors : TRUE
  BY FlowAssumption
<1>2. ~InQueue(o)
  BY <1>1 DEF ShutdownInv, ShutdownIsLast
<1>3. \A f \in Executors : ~Holds(f, o)
  BY DEF Holds
<1>4. Produced(o)
  BY DEF AheadOfShutdown, Produced
<1>5. posted[o] \in Nat /\ posted[o] <= 1 /\ posted[o] > 0
  BY <1>2, <1>3, <1>4 DEF FlowInv, NothingLost, PostedAtMostOnce, TypeInv, TypeOK
<1> QED
  BY <1>5

\* A shutdown drains the queue: when all executors have ended, every order put
\* there ahead of the shutdown message has been posted.
THEOREM ShutdownLeavesNothing == Spec => []ShutdownDrains
BY AllPostedAtTheEnd, TypeInvHolds, FlowHolds, ShutdownHolds, PTL
-----------------------------------------------------------------------------
(* The rows of the orders table, and the lifecycle of each order. *)

InHand(e) == pc[e] \in {"post", "save", "put"}
Recording(e) == pc[e] \in {"save", "put"}

\* What may be said of an order, and remains true once it is.
Truthful(o, status) ==
  \/ status = "ERROR" /\ failures > 0
  \/ status = "NEW" /\ exchange[o] # "unknown"
  \/ status \in {"FILLED", "EXPIRED"} /\ exchange[o] = status

\* An order is in the hands of one executor, up to the end of its recording.
HandsApart == \A e, f \in Executors : InHand(e) /\ InHand(f) /\ msg[e] = msg[f] => e = f

\* The executor that records an order is the first to do so, and has seen that it is.
RecordsFirst ==
  \A e \in Executors :
    /\ Recording(e) => /\ posted[msg[e]] = 1 /\ table[msg[e]] = NoRow
                       /\ Truthful(msg[e], result[e].status)
    /\ pc[e] = "put" => found[e] = NoRow

RowsTrue ==
  \A o \in Orders : table[o] = NoRow \/ (posted[o] = 1 /\ Truthful(o, table[o].status))

UnknownUntilPosted == \A o \in Orders : posted[o] = 0 => exchange[o] = "unknown"

\* The listener is only busy with an order that has a row, and will store that row.
ListenerKeepsRow ==
  /\ lpc \in {"save", "put"} => table[event.order] # NoRow
  /\ lpc = "put" => prev = table[event.order]

RowInv == HandsApart /\ RecordsFirst /\ RowsTrue /\ UnknownUntilPosted /\ ListenerKeepsRow

\* An order at the exchange moves towards its final status.
Moves ==
  /\ failures' >= failures
  /\ \A o \in Orders : \/ exchange'[o] = exchange[o]
                       \/ exchange[o] \in {"unknown", "NEW"} /\ exchange'[o] # "unknown"

\* The executors, the table, the listener and the posts are left alone, and only
\* resting orders move.
records == <<pc, msg, result, found, table, lpc, event, prev, posted>>
Outside ==
  /\ Moves /\ UNCHANGED records
  /\ \A o \in Orders : exchange[o] = "unknown" => exchange'[o] = "unknown"

\* As orders only move towards their end, what is true of one remains so.
LEMMA TruthKept ==
  ASSUME TypeInv, TypeInv', Moves, NEW o \in Orders, NEW s, Truthful(o, s) PROVE Truthful(o, s)'
BY DEF Moves, Truthful, TypeInv, TypeOK, LocalsTyped

\* Steps that leave executors, table and listener alone keep the rows true.
LEMMA OutsideKeepsRows == ASSUME TypeInv, TypeInv', RowInv, Outside PROVE RowInv'
<1>1. UNCHANGED records /\ Moves
  BY DEF Outside
<1>2. HandsApart' /\ ListenerKeepsRow'
  BY <1>1 DEF RowInv, HandsApart, InHand, ListenerKeepsRow, records
<1>3. RecordsFirst'
  <2>1. \A e \in Executors : Recording(e) => msg[e] \in Orders
    BY DEF TypeInv, TypeOK, Recording
  <2> QED
    BY <1>1, <2>1, TruthKept DEF RowInv, RecordsFirst, Recording, records
<1>4. RowsTrue'
  BY <1>1, TruthKept DEF RowInv, RowsTrue, records
<1>5. UnknownUntilPosted'
  BY <1>1 DEF RowInv, UnknownUntilPosted, Outside, records
<1> QED
  BY <1>2, <1>3, <1>4, <1>5 DEF RowInv

\* Settling a resting order, with or without a failure.
LEMMA ReportMoves ==
  ASSUME TypeInv, NEW o \in Orders, NEW status \in {"NEW", "FILLED", "EXPIRED"},
         exchange[o] \in {"unknown", "NEW"}, Report(o, status), Works \/ Fails
  PROVE  /\ Moves
         /\ exchange[o] = "NEW" => \A p \in Orders : exchange[p] = "unknown" => exchange'[p] = "unknown"
<1>1. /\ exchange' = [exchange EXCEPT ![o] = status]
      /\ exchange \in [Orders -> {"unknown", "NEW", "FILLED", "EXPIRED"}] /\ failures \in Nat
  BY DEF Report, TypeInv, TypeOK, LocalsTyped
<1> QED
  BY <1>1 DEF Moves, Works, Fails

\* A message taken is in nobody else's hands, not even recorded by somebody.
LEMMA GetKeepsRows ==
  ASSUME TypeInv, TypeInv', FlowInv, RowInv, NEW e \in Executors, Get(e) PROVE RowInv'
<1> DEFINE o == Head(fire_orders_queue)
<1>1. /\ pc[e] = "get" /\ pc \in [Executors -> Labels] /\ msg \in [Executors -> Messages]
      /\ msg' = [msg EXCEPT ![e] = o]
      /\ pc' = [pc EXCEPT ![e] = IF o = SENTINEL THEN "resend" ELSE "post"]
      /\ UNCHANGED <<result, found, exchange, table, listener, failures, posted>>
      /\ InQueue(o)
  <2>1. msg'[e] = o /\ InQueue(o)
    BY GetEffect DEF Get, TypeInv, TypeOK
  <2> QED
    BY <2>1 DEF Get, Goto, TypeInv, TypeOK, Messages
<1>2. ASSUME NEW f \in Executors, f # e, InHand(f)' PROVE msg'[f] = msg[f] /\ InHand(f) /\ msg[f] # o
  <2>1. msg'[f] = msg[f] /\ pc'[f] = pc[f] /\ InHand(f) /\ msg[f] \in Orders
    BY <1>1, <1>2 DEF InHand, TypeInv, TypeOK
  <2>2. pc[f] = "post" => Holds(f, msg[f])
    BY DEF Holds
  <2>3. Recording(f) => posted[msg[f]] = 1
    BY DEF RowInv, RecordsFirst
  <2> QED
    BY <1>1, <2>1, <2>2, <2>3 DEF FlowInv, NothingLost, InHand, Recording
<1>3. HandsApart'
  BY <1>1, <1>2 DEF RowInv, HandsApart, InHand
<1>4. \A f \in Executors : Recording(f)' => f # e /\ Recording(f) /\ msg'[f] = msg[f] /\ pc'[f] = pc[f]
  BY <1>1 DEF Recording
<1>5. RecordsFirst'
  BY <1>1, <1>4 DEF RowInv, RecordsFirst, Recording, Truthful
<1> QED
  BY <1>1, <1>3, <1>5
     DEF RowInv, RowsTrue, Truthful, UnknownUntilPosted, ListenerKeepsRow, listener

\* An executor that ends has nothing in hand.
LEMMA OnSentinelKeepsRows ==
  ASSUME TypeInv, RowInv, NEW e \in Executors, OnSentinel(e) PROVE RowInv'
<1>1. /\ pc[e] = "resend" /\ pc' = [pc EXCEPT ![e] = "ended"] /\ pc \in [Executors -> Labels]
      /\ UNCHANGED <<msg, result, found, exchange, table, listener, failures, posted>>
  BY DEF OnSentinel, Goto, TypeInv, TypeOK
<1>2. \A f \in Executors : /\ InHand(f)' => InHand(f)
                           /\ Recording(f)' => Recording(f)
                           /\ pc'[f] = "put" => pc[f] = "put"
  BY <1>1 DEF InHand, Recording
<1> QED
  BY <1>1, <1>2 DEF RowInv, HandsApart, RecordsFirst, RowsTrue, Truthful, UnknownUntilPosted,
                    ListenerKeepsRow, listener

\* What the executor has in hand after its post is true: the answer of the exchange,
\* or an error after a failure.
LEMMA PostEffect ==
  ASSUME TypeInv, NEW e \in Executors, Post(e), msg[e] \in Orders, exchange[msg[e]] = "unknown"
  PROVE  /\ \A p \in Orders \ {msg[e]} : exchange'[p] = exchange[p]
         /\ Moves /\ Truthful(msg[e], result[e].status)'
         /\ \A f \in Executors \ {e} : result'[f] = result[f]
<1> DEFINE o == msg[e]
<1>1. /\ exchange \in [Orders -> {"unknown", "NEW", "FILLED", "EXPIRED"}] /\ failures \in Nat
      /\ result \in [Executors -> Rows] /\ msg' = msg
  BY DEF Post, TypeInv, TypeOK, LocalsTyped
<1>2. ASSUME NEW status \in Answers, Report(o, status),
             \/ Works /\ result' = [result EXCEPT ![e] = Record(status, clock, 0)]
             \/ Fails /\ result' = [result EXCEPT ![e] = ErrorOrder]
      PROVE  /\ \A p \in Orders \ {o} : exchange'[p] = exchange[p]
             /\ Moves /\ Truthful(o, result[e].status)'
  <2>1. status \in {"NEW", "FILLED", "EXPIRED"} /\ exchange' = [exchange EXCEPT ![o] = status]
    BY <1>2 DEF Answers, Report
  <2>2. Moves
    BY <1>2, <2>1, ReportMoves
  <2>3. exchange'[o] = status
    BY <1>1, <2>1
  <2>4. CASE Works /\ result' = [result EXCEPT ![e] = Record(status, clock, 0)]
    <3>1. result'[e].status = status
      BY <1>1, <2>4 DEF Record
    <3> QED
      BY <1>1, <2>1, <2>2, <2>3, <3>1 DEF Truthful
  <2>5. CASE Fails /\ result' = [result EXCEPT ![e] = ErrorOrder]
    <3>1. result'[e].status = "ERROR" /\ failures' > 0
      BY <1>1, <2>5 DEF Record, ErrorOrder, Fails
    <3> QED
      BY <1>1, <2>1, <2>2, <3>1 DEF Truthful
  <2> QED
    BY <1>2, <2>4, <2>5
<1>3. CASE /\ Fails /\ result' = [result EXCEPT ![e] = ErrorOrder]
           /\ UNCHANGED <<exchange, clock, events>>
  <2>1. result'[e].status = "ERROR" /\ failures' > 0 /\ failures' >= failures
    BY <1>1, <1>3 DEF Record, ErrorOrder, Fails
  <2> QED
    BY <1>1, <1>3, <2>1 DEF Truthful, Moves
<1>4. \A f \in Executors \ {e} : result'[f] = result[f]
  BY <1>1 DEF Post
<1> QED
  BY <1>2, <1>3, <1>4 DEF Post

\* An order that is posted has no row yet, and what is to be recorded of it is true
\* (executor.py:35-52).
LEMMA PostKeepsRows ==
  ASSUME TypeInv, TypeInv', FlowInv, RowInv, NEW e \in Executors, Post(e) PROVE RowInv'
<1> DEFINE o == msg[e]
<1>1. /\ pc[e] = "post" /\ o \in Orders /\ posted[o] = 0 /\ exchange[o] = "unknown"
      /\ pc' = [pc EXCEPT ![e] = "save"] /\ pc \in [Executors -> Labels]
      /\ posted' = [posted EXCEPT ![o] = posted[o] + 1] /\ posted \in [Orders -> Nat]
      /\ UNCHANGED <<msg, found, table, listener>>
  BY DEF Post, Goto, TypeInv, TypeOK, FlowInv, OnePlace, RowInv, UnknownUntilPosted
<1>2. /\ \A p \in Orders \ {o} : exchange'[p] = exchange[p]
      /\ Moves /\ Truthful(o, result[e].status)'
      /\ \A f \in Executors \ {e} : result'[f] = result[f]
  BY <1>1, PostEffect
<1>3. /\ posted'[o] = 1 /\ \A p \in Orders \ {o} : posted'[p] = posted[p]
      /\ \A f \in Executors \ {e} : pc'[f] = pc[f]
      /\ pc'[e] = "save"
  BY <1>1
<1>4. \A f \in Executors : Recording(f) => f # e /\ msg[f] \in Orders /\ msg[f] # o
  BY <1>1 DEF Recording, RowInv, RecordsFirst, TypeInv, TypeOK
<1>5. HandsApart'
  BY <1>1, <1>3 DEF RowInv, HandsApart, InHand
<1>6. RecordsFirst'
  <2>1. ASSUME NEW f \in Executors, f # e, Recording(f)'
        PROVE  /\ posted'[msg'[f]] = 1 /\ table'[msg'[f]] = NoRow
               /\ Truthful(msg[f], result[f].status)'
    <3>1. Recording(f) /\ msg[f] \in Orders \ {o}
      BY <1>3, <1>4, <2>1 DEF Recording
    <3>2. Truthful(msg[f], result[f].status) /\ result'[f] = result[f]
      BY <1>2, <2>1, <3>1 DEF RowInv, RecordsFirst
    <3>3. Truthful(msg[f], result[f].status)'
      BY <1>1, <1>2, <3>1, <3>2 DEF Truthful, Moves, TypeInv, TypeOK, LocalsTyped
    <3> QED
      BY <1>1, <1>2, <1>3, <2>1, <3>1, <3>3 DEF RowInv, RecordsFirst
  <2>2. table[o] = NoRow
    BY <1>1 DEF RowInv, RowsTrue
  <2> QED
    BY <1>1, <1>2, <1>3, <2>1, <2>2 DEF RowInv, RecordsFirst, Recording
<1>7. RowsTrue'
  BY <1>1, <1>2, <1>3, TruthKept DEF RowInv, RowsTrue
<1>8. UnknownUntilPosted' /\ ListenerKeepsRow'
  BY <1>1, <1>2, <1>3 DEF RowInv, UnknownUntilPosted, ListenerKeepsRow, listener
<1> QED
  BY <1>5, <1>6, <1>7, <1>8 DEF RowInv

\* Reading the row of an order in hand finds none (order_dao.py:29-30).
LEMMA SaveKeepsRows ==
  ASSUME TypeInv, TypeInv', RowInv, NEW e \in Executors, Save(e) PROVE RowInv'
<1>1. /\ pc[e] = "save" /\ pc \in [Executors -> Labels] /\ found \in [Executors -> Rows]
      /\ \/ pc' = [pc EXCEPT ![e] = "put"] /\ found' = [found EXCEPT ![e] = table[msg[e]]]
         \/ pc' = [pc EXCEPT ![e] = "get"] /\ UNCHANGED found
      /\ UNCHANGED <<msg, result, exchange, table, listener, posted>>
      /\ Moves
  BY DEF Save, Goto, Works, Fails, Moves, TypeInv, TypeOK, LocalsTyped
<1>2. \A f \in Executors : /\ InHand(f)' => InHand(f)
                           /\ Recording(f)' => Recording(f) /\ msg[f] \in Orders
  BY <1>1 DEF InHand, Recording, TypeInv, TypeOK
<1>3. table[msg[e]] = NoRow
  BY <1>1 DEF RowInv, RecordsFirst, Recording
<1>4. \A f \in Executors : pc'[f] = "put" => found'[f] = NoRow
  BY <1>1, <1>3 DEF RowInv, RecordsFirst
<1>5. RecordsFirst'
  BY <1>1, <1>2, <1>4, TruthKept DEF RowInv, RecordsFirst
<1>6. RowsTrue'
  BY <1>1, TruthKept DEF RowInv, RowsTrue
<1> QED
  BY <1>1, <1>2, <1>5, <1>6 DEF RowInv, HandsApart, UnknownUntilPosted, ListenerKeepsRow, listener

\* The first to record an order writes its row.
LEMMA PutEffect ==
  ASSUME TypeInv, RowInv, NEW e \in Executors, Put(e)
  PROVE  /\ pc[e] = "put" /\ msg[e] \in Orders /\ posted[msg[e]] = 1 /\ table[msg[e]] = NoRow
         /\ Truthful(msg[e], result[e].status)
         /\ \/ table' = [table EXCEPT ![msg[e]] = result[e]] \/ UNCHANGED table
<1>1. /\ pc[e] = "put" /\ msg[e] \in Orders /\ Recording(e)
  BY DEF Put, Recording, TypeInv, TypeOK
<1> QED
  BY <1>1 DEF Put, PutItem, ToStore, RowInv, RecordsFirst

\* The row written is true, and nobody else was about to write it (order_dao.py:31-44).
LEMMA PutKeepsRows ==
  ASSUME TypeInv, TypeInv', RowInv, NEW e \in Executors, Put(e) PROVE RowInv'
<1> DEFINE o == msg[e]
<1>1. /\ pc[e] = "put" /\ pc \in [Executors -> Labels] /\ pc' = [pc EXCEPT ![e] = "get"]
      /\ UNCHANGED <<msg, result, found, exchange, listener, posted>>
      /\ Moves /\ table \in [Orders -> Rows]
  BY DEF Put, Goto, Works, Fails, Moves, TypeInv, TypeOK, LocalsTyped
<1>2. \A f \in Executors : /\ InHand(f)' => InHand(f)
                           /\ Recording(f)' => Recording(f) /\ f # e
                           /\ pc'[f] = "put" => pc[f] = "put"
  BY <1>1 DEF InHand, Recording
<1>3. /\ \A p \in Orders \ {o} : table'[p] = table[p]
      /\ table'[o] = NoRow \/ (table'[o] = result[e] /\ posted[o] = 1)
      /\ o \in Orders /\ table[o] = NoRow
  BY <1>1, PutEffect
<1>4. RecordsFirst'
  <2> SUFFICES ASSUME NEW f \in Executors, Recording(f)'
               PROVE  /\ posted[msg[f]] = 1 /\ table'[msg[f]] = NoRow
                      /\ Truthful(msg[f], result[f].status)'
                      /\ pc'[f] = "put" => found[f] = NoRow
    BY <1>1 DEF RecordsFirst, Recording
  <2>1. Recording(f) /\ f # e /\ msg[f] \in Orders
    BY <1>2 DEF Recording, TypeInv, TypeOK
  <2>2. msg[f] # o
    BY <1>1, <2>1 DEF RowInv, HandsApart, InHand, Recording
  <2> QED
    BY <1>1, <1>2, <1>3, <2>1, <2>2, TruthKept DEF RowInv, RecordsFirst
<1>5. RowsTrue'
  <2>1. Truthful(o, result[e].status)'
    BY <1>1, <1>3, PutEffect, TruthKept
  <2> QED
    BY <1>1, <1>3, <2>1, TruthKept DEF RowInv, RowsTrue
<1>6. ListenerKeepsRow'
  <2>1. ASSUME lpc \in {"save", "put"} PROVE event.order \in Orders /\ event.order # o
    BY <1>3, <2>1 DEF RowInv, ListenerKeepsRow, TypeInv, LocalsTyped, Reported
  <2> QED
    BY <1>1, <1>3, <2>1 DEF RowInv, ListenerKeepsRow, listener
<1> QED
  BY <1>1, <1>2, <1>4, <1>5, <1>6 DEF RowInv, HandsApart, UnknownUntilPosted

\* The listener stores the row it read, so no event ever changes a row.
LEMMA ListenerWritesNothing == ASSUME TypeInv, RowInv, Listener PROVE UNCHANGED table
<1>1. CASE PutEvent
  <2>1. /\ prev = table[event.order] /\ prev # NoRow
        /\ event.order \in Orders /\ table \in [Orders -> Rows]
    BY <1>1 DEF PutEvent, RowInv, ListenerKeepsRow, TypeInv, TypeOK, LocalsTyped, Reported
  <2> QED
    BY <1>1, <2>1 DEF PutEvent, PutItem, ToStore
<1> QED
  BY <1>1 DEF Listener, Pop, Check, SaveEvent

\* The listener's steps keep the rows true, and the row it read is still the one there.
LEMMA ListenerKeepsRows == ASSUME TypeInv, TypeInv', RowInv, Listener PROVE RowInv'
<1>1. /\ UNCHANGED <<pc, msg, result, found, exchange, table, posted>> /\ Moves
  BY ListenerWritesNothing
     DEF Listener, Pop, Check, SaveEvent, PutEvent, executors, Works, Fails, Moves, TypeInv,
         TypeOK, LocalsTyped
<1>2. ListenerKeepsRow'
  BY <1>1 DEF Listener, Pop, Check, SaveEvent, PutEvent, RowInv, ListenerKeepsRow
<1>3. RecordsFirst'
  <2>1. \A e \in Executors : Recording(e) => msg[e] \in Orders
    BY DEF TypeInv, TypeOK, Recording
  <2> QED
    BY <1>1, <2>1, TruthKept DEF RowInv, RecordsFirst, Recording
<1>4. RowsTrue'
  BY <1>1, TruthKept DEF RowInv, RowsTrue
<1> QED
  BY <1>1, <1>2, <1>3, <1>4 DEF RowInv, HandsApart, InHand, UnknownUntilPosted

\* RowInv is inductive relative to the types and to FlowInv: one case for each action.
LEMMA RowsInductive == RowInv /\ TypeInv /\ TypeInv' /\ FlowInv /\ [Next]_vars => RowInv'
<1> SUFFICES ASSUME TypeInv, TypeInv', FlowInv, RowInv, [Next]_vars PROVE RowInv'
  OBVIOUS
<1>0. failures \in Nat
  BY DEF TypeInv, LocalsTyped
<1>1. ASSUME NEW e \in Executors, Executor(e) PROVE RowInv'
  BY <1>1, GetKeepsRows, OnSentinelKeepsRows, PostKeepsRows, SaveKeepsRows, PutKeepsRows
     DEF Executor
<1>2. ASSUME NEW m \in Messages, Produce(m) PROVE RowInv'
  BY <1>0, <1>2, OutsideKeepsRows DEF Produce, Outside, Moves, records, executors, listener
<1>3. CASE Listener
  BY <1>3, ListenerKeepsRows
<1>4. ASSUME NEW o \in Orders, Settle(o) PROVE RowInv'
  <2>1. PICK status \in {"FILLED", "EXPIRED"} : Report(o, status)
    BY <1>4 DEF Settle
  <2>2. Moves /\ \A p \in Orders : exchange[p] = "unknown" => exchange'[p] = "unknown"
    <3>1. exchange' = [exchange EXCEPT ![o] = status] /\ exchange[o] = "NEW" /\ failures' = failures
      BY <1>4, <2>1 DEF Settle, Report
    <3> QED
      BY <1>0, <3>1 DEF Moves, TypeInv, TypeOK
  <2> QED
    BY <1>4, <2>2, OutsideKeepsRows DEF Settle, Outside, records, executors, listener
<1>5. CASE LoseEvent
  BY <1>0, <1>5, OutsideKeepsRows
     DEF LoseEvent, Fails, Outside, Moves, records, executors, listener
<1>6. CASE UNCHANGED vars
  BY <1>0, <1>6, OutsideKeepsRows DEF vars, Outside, Moves, records, executors, listener
<1> QED
  BY <1>1, <1>2, <1>3, <1>4, <1>5, <1>6 DEF Next, Messages

\* RowInv holds while no order was posted.
LEMMA RowsInitially == Init => RowInv
<1> SUFFICES ASSUME Init PROVE RowInv
  OBVIOUS
<1>1. /\ pc = [e \in Executors |-> "get"] /\ table = [o \in Orders |-> NoRow]
      /\ exchange = [o \in Orders |-> "unknown"] /\ lpc = "pop"
  BY DEF Init
<1> QED
  BY <1>1 DEF RowInv, HandsApart, InHand, RecordsFirst, Recording, RowsTrue, UnknownUntilPosted,
              ListenerKeepsRow

-----------------------------------------------------------------------------
(* With the cancelator at work                                               *)

\* The cancelator only ever deals with orders of ours.
CancelatorTyped == orders_to_cancel \subseteq Orders /\ old \subseteq Orders

CInv == CancelatorTyped /\ TypeInv /\ FlowInv /\ RowInv

\* What the cancelator does, seen from the flow: a failure, or an open order settled.
LEMMA CancelatorEffect ==
  ASSUME CancelatorTyped, List \/ Cancel
  PROVE  /\ UNCHANGED <<queue, executors, table, listener, posted>>
         /\ Works \/ Fails
         /\ \/ UNCHANGED <<exchange, clock, events>>
            \/ \E o \in Orders : exchange[o] = "NEW" /\ Report(o, "EXPIRED")
<1>1. CASE List
  BY <1>1 DEF List
<1>2. CASE Cancel
  <2>1. PICK o \in orders_to_cancel : Cancelled(o) \/ NotCancelled(o)
    BY <1>2 DEF Cancel
  <2>2. o \in Orders
    BY DEF CancelatorTyped
  <2>3. CASE Cancelled(o)
    BY <1>2, <2>2, <2>3 DEF Cancel, Cancelled
  <2>4. CASE NotCancelled(o)
    BY <1>2, <2>4 DEF Cancel, NotCancelled
  <2> QED
    BY <2>1, <2>3, <2>4
<1> QED
  BY <1>1, <1>2

\* The cancelator's steps keep all that is known of the flow.
LEMMA CancelatorKeepsAll == ASSUME CInv, List \/ Cancel PROVE (TypeInv /\ FlowInv /\ RowInv)'
<1>1. /\ UNCHANGED <<queue, executors, table, listener, posted>>
      /\ Works \/ Fails
      /\ exchange \in [Orders -> {"unknown", "NEW", "FILLED", "EXPIRED"}]
      /\ failures \in Nat
  BY CancelatorEffect DEF CInv, TypeInv, TypeOK, LocalsTyped
<1>2. /\ exchange' \in [Orders -> {"unknown", "NEW", "FILLED", "EXPIRED"}]
      /\ clock' \in Nat /\ events' \in Seq(Reported)
  BY CancelatorEffect, ReportTyped DEF CInv, TypeInv, TypeOK, LocalsTyped
<1>3. TypeInv'
  BY <1>1, <1>2, FailuresCounted
     DEF CInv, TypeInv, TypeOK, LocalsTyped, queue, executors, listener
<1>4. FlowInv'
  BY <1>1, OthersKeepFlow DEF CInv, others, queue, executors
<1>5. Moves /\ \A o \in Orders : exchange[o] = "unknown" => exchange'[o] = "unknown"
  <2>1. CASE UNCHANGED exchange
    BY <1>1, <2>1 DEF Works, Fails, Moves
  <2>2. ASSUME NEW o \in Orders, exchange[o] = "NEW", Report(o, "EXPIRED")
        PROVE <1>5
    BY <1>1, <2>2, ReportMoves DEF CInv
  <2> QED
    BY <2>1, <2>2, CancelatorEffect DEF CInv
<1>6. RowInv'
  BY <1>1, <1>3, <1>5, OutsideKeepsRows DEF CInv, Outside, records, executors, listener
<1> QED
  BY <1>3, <1>4, <1>6

\* Everything above holds with the cancelator at work as well.
LEMMA CInductive == CInv /\ [CNext]_cvars => CInv'
<1> SUFFICES ASSUME CInv, [CNext]_cvars PROVE CInv'
  OBVIOUS
<1>1. CASE (List \/ Cancel) /\ StillOpen
  <2>1. CancelatorTyped'
    BY <1>1 DEF CInv, CancelatorTyped, List, Cancel, StillOpen
  <2> QED
    BY <1>1, <2>1, CancelatorKeepsAll DEF CInv
<1>2. ASSUME UNCHANGED vars \/ Next, CancelatorTyped' PROVE CInv'
  BY <1>2, TypeInductive, FlowInductive, RowsInductive DEF CInv
<1>3. ASSUME NEW o \in Orders, Age(o) PROVE CInv'
  BY <1>2, <1>3 DEF Age, CInv, CancelatorTyped, cancelator
<1>4. CASE Next /\ UNCHANGED cancelator /\ StillOpen
  BY <1>2, <1>4 DEF CInv, CancelatorTyped, cancelator, StillOpen
<1>5. CASE UNCHANGED cvars
  BY <1>2, <1>5 DEF cvars, CInv, CancelatorTyped, cancelator
<1> QED
  BY <1>1, <1>3, <1>4, <1>5 DEF CNext

\* All of it holds of every behaviour of the composition.
LEMMA CHolds == CSpec => []CInv
<1>1. CInit => CInv
  BY TypeInitially, FlowInitially, RowsInitially DEF CInit, CInv, CancelatorTyped
<1> QED
  BY <1>1, CInductive, PTL DEF CSpec

\* And of every behaviour without the cancelator.
LEMMA RowsHold == Spec => [](TypeInv /\ FlowInv /\ RowInv)
BY TypeInvHolds, FlowHolds, RowsInitially, RowsInductive, PTL DEF Spec

\* A row never claims what did not happen: it exists only once the order was posted,
\* a final status in it is the order's at the exchange, and only a failure makes an
\* "ERROR"; the cancelator and the late events included (order_dao.py:20-44).
THEOREM RowsAreTruthful == CSpec => []RowTruthful
<1>1. CInv => RowTruthful
  <2> SUFFICES ASSUME RowInv, NEW o \in Orders, table[o] # NoRow
               PROVE  /\ posted[o] = 1
                      /\ table[o].status \in {"FILLED", "EXPIRED"} => exchange[o] = table[o].status
                      /\ table[o].status = "NEW" => exchange[o] # "unknown"
                      /\ table[o].status = "ERROR" => failures > 0
    BY DEF CInv, RowTruthful
  <2>1. posted[o] = 1 /\ Truthful(o, table[o].status)
    BY DEF RowInv, RowsTrue
  <2> QED
    BY <2>1 DEF Truthful
<1> QED
  BY <1>1, CHolds, PTL

-----------------------------------------------------------------------------
(* Nothing goes unrecorded                                                   *)

\* As long as nothing failed, an order that was posted has its row, or one executor
\* is recording it.
RowOnItsWay(o) == table[o] # NoRow \/ \E e \in Executors : Recording(e) /\ msg[e] = o
UnfailedInv == failures = 0 => \A o \in Orders : posted[o] = 1 => RowOnItsWay(o)

\* When the last executor has ended and nothing failed, every order fired ahead of
\* the shutdown message was posted and has its row.
RecordedAtTheEnd ==
  failures = 0 /\ (\A e \in Executors : pc[e] = "ended")
    => \A o \in Orders : AheadOfShutdown(o) => posted[o] = 1 /\ table[o] # NoRow

\* Steps that leave posts, table and recordings alone.
LEMMA OthersKeepUnfailed ==
  ASSUME TypeInv, UnfailedInv, failures' >= failures, UNCHANGED <<posted, table>>,
         \A e \in Executors : Recording(e) => Recording(e)' /\ msg'[e] = msg[e]
  PROVE  UnfailedInv'
BY DEF UnfailedInv, RowOnItsWay, TypeInv, LocalsTyped

\* A posted order is in its executor's hands, which then read its row and write it:
\* only a failure interrupts that (executor.py:35-70, order_dao.py:28-44).
LEMMA ExecutorKeepsUnfailed ==
  ASSUME TypeInv, TypeInv', RowInv, UnfailedInv, NEW e \in Executors, Executor(e)
  PROVE  UnfailedInv'
<1>1. /\ pc \in [Executors -> Labels] /\ msg \in [Executors -> Messages]
      /\ failures \in Nat /\ table \in [Orders -> Rows] /\ posted \in [Orders -> Nat]
  BY DEF TypeInv, TypeOK, LocalsTyped, Messages
<1>2. CASE Get(e)
  <2>1. ASSUME NEW f \in Executors, Recording(f) PROVE Recording(f)' /\ msg'[f] = msg[f]
    BY <1>1, <1>2, <2>1 DEF Get, Goto, Recording
  <2> QED
    BY <1>1, <1>2, <2>1, OthersKeepUnfailed DEF Get, listener
<1>3. CASE OnSentinel(e)
  <2>1. ASSUME NEW f \in Executors, Recording(f) PROVE Recording(f)' /\ msg'[f] = msg[f]
    BY <1>1, <1>3, <2>1 DEF OnSentinel, Goto, Recording
  <2> QED
    BY <1>1, <1>3, <2>1, OthersKeepUnfailed DEF OnSentinel, listener
<1>4. CASE Post(e)
  <2> SUFFICES ASSUME failures' = 0, NEW o \in Orders, posted'[o] = 1 PROVE RowOnItsWay(o)'
    BY DEF UnfailedInv
  <2>1. /\ pc' = [pc EXCEPT ![e] = "save"] /\ UNCHANGED <<msg, table>> /\ pc[e] = "post"
        /\ posted' = [posted EXCEPT ![msg[e]] = @ + 1] /\ failures = 0
    BY <1>1, <1>4 DEF Post, Goto, Works, Fails
  <2>2. CASE o = msg[e]
    BY <1>1, <2>1, <2>2 DEF RowOnItsWay, Recording
  <2>3. CASE o # msg[e]
    <3>1. RowOnItsWay(o)
      BY <1>1, <2>1, <2>3 DEF UnfailedInv
    <3> QED
      BY <1>1, <2>1, <3>1 DEF RowOnItsWay, Recording
  <2> QED
    BY <2>2, <2>3
<1>5. CASE Save(e)
  <2>1. CASE Works
    <3>1. ASSUME NEW f \in Executors, Recording(f) PROVE Recording(f)' /\ msg'[f] = msg[f]
      BY <1>1, <1>5, <2>1, <3>1 DEF Save, Goto, Works, Fails, Recording
    <3> QED
      BY <1>1, <1>5, <2>1, <3>1, OthersKeepUnfailed DEF Save, Works, listener
  <2>2. CASE Fails
    BY <1>1, <2>2 DEF Fails, UnfailedInv
  <2> QED
    BY <1>5, <2>1, <2>2 DEF Save
<1>6. CASE Put(e)
  <2>1. CASE Works /\ PutItem(msg[e], found[e], result[e])
    <3>1. /\ Recording(e) /\ msg[e] \in Orders /\ found[e] = NoRow
          /\ Truthful(msg[e], result[e].status)
          /\ pc' = [pc EXCEPT ![e] = "get"] /\ UNCHANGED <<msg, posted, failures>>
      BY <1>6, <2>1 DEF Put, Goto, Works, RowInv, RecordsFirst, Recording, TypeInv, TypeOK
    <3>2. table' = [table EXCEPT ![msg[e]] = result[e]] /\ result[e] # NoRow
      BY <2>1, <3>1 DEF PutItem, ToStore, Truthful, NoRow, Record
    <3> SUFFICES ASSUME failures = 0, NEW o \in Orders, posted[o] = 1 PROVE RowOnItsWay(o)'
      BY <3>1 DEF UnfailedInv
    <3>3. CASE o = msg[e]
      BY <1>1, <3>1, <3>2, <3>3 DEF RowOnItsWay
    <3>4. CASE o # msg[e]
      <4>1. RowOnItsWay(o)
        BY DEF UnfailedInv
      <4> QED
        BY <1>1, <3>1, <3>2, <3>4, <4>1 DEF RowOnItsWay, Recording
    <3> QED
      BY <3>3, <3>4
  <2>2. CASE Fails
    BY <1>1, <2>2 DEF Fails, UnfailedInv
  <2> QED
    BY <1>6, <2>1, <2>2 DEF Put
<1> QED
  BY <1>2, <1>3, <1>4, <1>5, <1>6 DEF Executor

\* With the rows known, and the cancelator at work, nothing goes unrecorded.
LEMMA UnfailedInductive == UnfailedInv /\ CInv /\ CInv' /\ [CNext]_cvars => UnfailedInv'
<1> SUFFICES ASSUME UnfailedInv, TypeInv, TypeInv', RowInv, CInv, [CNext]_cvars
             PROVE  UnfailedInv'
  BY DEF CInv
<1>0. failures \in Nat
  BY DEF TypeInv, LocalsTyped
<1>1. ASSUME UNCHANGED <<pc, msg, table, posted>>, failures' >= failures PROVE UnfailedInv'
  BY <1>1, OthersKeepUnfailed DEF Recording
<1>2. CASE List \/ Cancel
  BY <1>0, <1>1, <1>2, CancelatorEffect DEF CInv, Works, Fails, executors
<1>3. CASE Listener
  BY <1>0, <1>1, <1>3, ListenerWritesNothing
     DEF Listener, Pop, Check, SaveEvent, PutEvent, Works, Fails, executors
<1>4. ASSUME NEW m \in Messages, Produce(m) PROVE UnfailedInv'
  BY <1>0, <1>1, <1>4 DEF Produce, executors
<1>5. ASSUME NEW o \in Orders, Settle(o) PROVE UnfailedInv'
  BY <1>0, <1>1, <1>5 DEF Settle, executors
<1>6. CASE LoseEvent
  BY <1>0, <1>1, <1>6 DEF LoseEvent, Fails, executors
<1>7. CASE UNCHANGED vars
  BY <1>0, <1>1, <1>7 DEF vars, executors
<1> QED
  BY <1>2, <1>3, <1>4, <1>5, <1>6, <1>7, ExecutorKeepsUnfailed
     DEF CNext, Next, Age, cvars, Messages

\* The shutdown message is not used up with the cancelator at work either.
LEMMA CShutdownInductive == ShutdownInv /\ CInv /\ [CNext]_cvars => ShutdownInv'
<1> SUFFICES ASSUME ShutdownInv, CInv, TypeInv, [CNext]_cvars PROVE ShutdownInv'
  BY DEF CInv
<1>1. CASE List \/ Cancel
  BY <1>1, CancelatorEffect, OthersKeepShutdown DEF CInv, OthersThanOrders, queue, executors
<1>2. CASE [Next]_vars
  BY <1>2, ShutdownInductive
<1> QED
  BY <1>1, <1>2 DEF CNext, Age, cvars

\* Every order fired ahead of the shutdown message has been posted and recorded by
\* the time the executors have ended, unless a call failed: what EveryOrderRecorded
\* says, short of that they end (executor.py:54-75).
THEOREM NothingUnrecordedAtTheEnd == CSpec => []RecordedAtTheEnd
<1>1. CInit => UnfailedInv /\ ShutdownInv
  BY ShutdownInitially DEF Init, CInit, UnfailedInv
<1>2. CInv /\ UnfailedInv /\ ShutdownInv => RecordedAtTheEnd
  <2> SUFFICES ASSUME CInv, UnfailedInv, ShutdownInv, failures = 0,
                      \A e \in Executors : pc[e] = "ended",
                      NEW o \in Orders, AheadOfShutdown(o)
               PROVE  posted[o] = 1 /\ table[o] # NoRow
    BY DEF RecordedAtTheEnd
  <2>0. Produced(SENTINEL)
    BY FlowAssumption DEF ShutdownInv, ShutdownIsLast
  <2>1. posted[o] = 1
    BY <2>0, AllPostedAtTheEnd DEF CInv, ShutdownDrains
  <2>2. \A e \in Executors : ~Recording(e)
    BY DEF Recording
  <2> QED
    BY <2>1, <2>2 DEF UnfailedInv, RowOnItsWay
<1> QED
  BY <1>1, <1>2, CHolds, UnfailedInductive, CShutdownInductive, PTL DEF CSpec

-----------------------------------------------------------------------------
(* The refinement                                                            *)

\* Nothing fired, nothing posted, no rows: the lifecycle's initial state.
LEMMA LifecycleInit == Init => Lifecycle!Init
BY DEF Init, Lifecycle!Init, Produced, NoRow, Record

\* The lifecycle's state, as mapped, only depends on these.
shown == <<produced, posted, exchange, table>>

\* A step that leaves these alone is none of the lifecycle.
LEMMA ShownUnchanged == ASSUME UNCHANGED shown PROVE UNCHANGED Lifecycle!vars
BY DEF shown, Lifecycle!vars, Produced

\* Firing an order; the shutdown message is none.
LEMMA ProduceImplements ==
  ASSUME TypeInv, NEW m \in Messages, Produce(m) PROVE [Lifecycle!Next]_Lifecycle!vars
<1>1. /\ ~Produced(m) /\ \A x : Produced(x)' <=> Produced(x) \/ x = m
      /\ UNCHANGED <<posted, exchange, table>>
  BY ProduceEffect DEF Produce, executors
<1>2. CASE m \in Orders
  <2>1. Lifecycle!Fire(m)
    BY <1>1, <1>2 DEF Lifecycle!Fire
  <2> QED
    BY <1>2, <2>1 DEF Lifecycle!Next
<1>3. CASE m \notin Orders
  BY <1>1, <1>3 DEF Lifecycle!vars
<1> QED
  BY <1>2, <1>3

\* A post, whatever the exchange makes of it, is the one post of the order.
LEMMA PostImplements ==
  ASSUME TypeInv, FlowInv, RowInv, NEW e \in Executors, Post(e) PROVE Lifecycle!Next
<1> DEFINE o == msg[e]
<1>1. /\ o \in Orders /\ posted[o] = 0 /\ exchange[o] = "unknown"
      /\ posted' = [posted EXCEPT ![o] = posted[o] + 1]
      /\ exchange \in [Orders -> {"unknown", "NEW", "FILLED", "EXPIRED"}]
      /\ UNCHANGED <<produced, table>>
  BY DEF Post, queue, TypeInv, TypeOK, FlowInv, OnePlace, RowInv, UnknownUntilPosted
<1>2. Produced(o)
  <2>1. Holds(e, o)
    BY DEF Post, Holds
  <2> QED
    BY <1>1, <2>1 DEF FlowInv, NothingLost
<1>3. \E status \in {"unknown", "NEW", "FILLED", "EXPIRED"} :
        exchange' = [exchange EXCEPT ![o] = status]
  <2>1. CASE UNCHANGED exchange
    BY <1>1, <2>1
  <2>2. CASE \E status \in Answers : Report(o, status)
    BY <2>2 DEF Answers, Report
  <2> QED
    BY <2>1, <2>2 DEF Post
<1>4. Lifecycle!Post(o)
  <2>1. posted' = [posted EXCEPT ![o] = 1] /\ posted[o] = 0
    BY <1>1
  <2>2. \E status \in {"unknown", "NEW"} \union Lifecycle!Final :
          exchange' = [exchange EXCEPT ![o] = status]
    BY <1>3 DEF Lifecycle!Final
  <2>3. /\ UNCHANGED <<{p \in Orders : Produced(p)}, [p \in Orders |-> table[p].status]>>
        /\ o \in {p \in Orders : Produced(p)}
    BY <1>1, <1>2 DEF Produced
  <2> QED
    BY <2>1, <2>2, <2>3 DEF Lifecycle!Post
<1> QED
  BY <1>1, <1>4 DEF Lifecycle!Next

\* The first write of a row: what is written again is what was there.
LEMMA PutImplements ==
  ASSUME TypeInv, RowInv, NEW e \in Executors, Put(e) PROVE [Lifecycle!Next]_Lifecycle!vars
<1>0. PICK o \in Orders : o = msg[e]
  BY PutEffect
<1>1. /\ o \in Orders /\ posted[o] = 1 /\ table[o] = NoRow
      /\ Truthful(o, result[e].status)
      /\ \/ table' = [table EXCEPT ![o] = result[e]] \/ UNCHANGED table
      /\ table \in [Orders -> Rows]
      /\ UNCHANGED <<produced, posted, exchange>>
  BY <1>0, PutEffect DEF Put, queue, TypeInv, TypeOK
<1>2. CASE UNCHANGED table
  BY <1>1, <1>2, ShownUnchanged DEF shown
<1>3. CASE table' = [table EXCEPT ![o] = result[e]]
  <2>1. result[e].status \in Lifecycle!Truths(o)
    BY <1>1 DEF Truthful, Lifecycle!Truths
  <2>2. /\ [p \in Orders |-> table'[p].status]
             = [[p \in Orders |-> table[p].status] EXCEPT ![o] = result[e].status]
        /\ table[o].status = "none"
    <3>1. \A p \in Orders : table'[p] = IF p = o THEN result[e] ELSE table[p]
      BY <1>1, <1>3
    <3>2. [p \in Orders |-> table'[p].status]
            = [[p \in Orders |-> table[p].status] EXCEPT ![o] = result[e].status]
      BY <3>1
    <3>3. table[o] = NoRow
      BY <1>1
    <3> QED
      BY <3>2, <3>3 DEF NoRow, Record
  <2>3. Lifecycle!Write(o)
    BY <1>1, <2>1, <2>2 DEF Lifecycle!Write, Lifecycle!MovesOn, Produced
  <2>4. Lifecycle!Next
    BY <2>3 DEF Lifecycle!Next
  <2> QED
    BY <2>4
<1> QED
  BY <1>1, <1>2, <1>3

\* An open order comes to its end, by a fill or by the cancelator.
LEMMA ReportImplements ==
  ASSUME NEW o \in Orders, exchange[o] = "NEW", NEW status \in {"FILLED", "EXPIRED"},
         Report(o, status), UNCHANGED <<produced, posted, table>>
  PROVE  Lifecycle!Next
<1>1. Lifecycle!Settle(o)
  BY DEF Lifecycle!Settle, Lifecycle!Final, Report, Produced
<1> QED
  BY <1>1 DEF Lifecycle!Next

\* Every step of the flow is a step of the lifecycle or shows nothing of itself.
LEMMA FlowStepImplements ==
  TypeInv /\ FlowInv /\ RowInv /\ [Next]_vars => [Lifecycle!Next]_Lifecycle!vars
<1> SUFFICES ASSUME TypeInv, FlowInv, RowInv, [Next]_vars
             PROVE  [Lifecycle!Next]_Lifecycle!vars
  OBVIOUS
<1>1. ASSUME NEW e \in Executors, Executor(e) PROVE [Lifecycle!Next]_Lifecycle!vars
  <2>1. CASE Get(e) \/ OnSentinel(e) \/ Save(e)
    BY <2>1, ShownUnchanged DEF Get, OnSentinel, Save, shown, queue
  <2> QED
    BY <1>1, <2>1, PostImplements, PutImplements DEF Executor
<1>2. CASE Listener
  <2>1. UNCHANGED <<produced, posted, exchange>>
    BY <1>2 DEF Listener, Pop, Check, SaveEvent, PutEvent, queue
  <2> QED
    BY <1>2, <2>1, ListenerWritesNothing, ShownUnchanged DEF shown
<1>3. ASSUME NEW m \in Messages, Produce(m) PROVE [Lifecycle!Next]_Lifecycle!vars
  BY <1>3, ProduceImplements
<1>4. ASSUME NEW o \in Orders, Settle(o) PROVE [Lifecycle!Next]_Lifecycle!vars
  BY <1>4, ReportImplements DEF Settle, queue
<1>5. CASE LoseEvent
  BY <1>5, ShownUnchanged DEF LoseEvent, shown, queue
<1>6. CASE UNCHANGED vars
  BY <1>6, ShownUnchanged DEF vars, shown, queue
<1> QED
  BY <1>1, <1>2, <1>3, <1>4, <1>5, <1>6 DEF Next, Messages

\* So is every step of the cancelator: a cancelled order has expired.
LEMMA CancelatorStepImplements == CInv /\ [CNext]_cvars => [Lifecycle!Next]_Lifecycle!vars
<1> SUFFICES ASSUME CInv, [CNext]_cvars PROVE [Lifecycle!Next]_Lifecycle!vars
  OBVIOUS
<1>1. CASE List \/ Cancel
  BY <1>1, CancelatorEffect, ReportImplements, ShownUnchanged DEF CInv, shown, queue
<1>2. CASE [Next]_vars
  BY <1>2, FlowStepImplements DEF CInv
<1> QED
  BY <1>1, <1>2 DEF CNext, cvars, Age

\* Threads, queue, lost replies and late events together keep what OrderLifecycle
\* promises of each order.
THEOREM FlowImplementsLifecycle == Spec => EachOrderHasItsLifecycle
BY RowsHold, LifecycleInit, FlowStepImplements, PTL
   DEF Spec, EachOrderHasItsLifecycle, Lifecycle!Spec

\* And with the cancelator at work.
THEOREM CancelatorKeepsLifecycle == CSpec => EachOrderHasItsLifecycle
<1>1. CInit => Lifecycle!Init
  BY LifecycleInit DEF CInit
<1> QED
  BY <1>1, CHolds, CancelatorStepImplements, PTL
     DEF CSpec, EachOrderHasItsLifecycle, Lifecycle!Spec
=============================================================================
