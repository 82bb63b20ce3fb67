---------------------------- MODULE ChainRecords ----------------------------
(***************************************************************************)
(* The thread that stores the profitable chains (__main__.py,              *)
(* _run_store_positive_arbitrage, and db/arbitrage_dao.py) behind the      *)
(* trade manager: it takes the chains off store_positive_arbitrages_queue  *)
(* and writes each, as it is by then, to DynamoDB.  The chain is the very  *)
(* object the trade manager commented on.                                  *)
(***************************************************************************)
EXTENDS TradeManager

CONSTANTS MaxTaken,     \* bounds of the model: chains the thread gets to,
          MaxFailures   \* puts that fail

ASSUME RecordsAssumption == MaxTaken \in Nat /\ MaxFailures \in Nat

VARIABLES taken,      \* how many chains the thread took off the queue (the queue of
                      \* TradeManager keeps all that was ever put there)
          spc,        \* "put" when it has yet to write the last one it took
          record,     \* the comment in each chain's DynamoDB record, or "none"
          lost        \* the chains whose put failed

store == <<taken, spc, record, lost>>
rvars == <<vars, store>>

RInit == Init /\ taken = 0 /\ spc = "get" /\ record = [c \in Chains |-> "none"] /\ lost = {}

Take ==
  /\ spc = "get" /\ taken < Len(store_positive_arbitrages_queue)
  /\ taken < MaxTaken
  /\ taken' = taken + 1 /\ spc' = "put"
  /\ UNCHANGED <<vars, record, lost>>

InHand == store_positive_arbitrages_queue[taken]

\* Mutant of NotPut: the exception not caught, and the thread ended.
NotPutUnsafely ==
  /\ Cardinality(lost) < MaxFailures
  /\ lost' = lost \union {InHand} /\ spc' = "ended"
  /\ UNCHANGED record

\* An exception in put_profitable_arbitrage costs the record, not the thread.
NotPut ==
  /\ Cardinality(lost) < MaxFailures
  /\ lost' = lost \union {InHand} /\ spc' = "get"
  /\ UNCHANGED record

PutProfitableArbitrage ==
  /\ spc = "put"
  /\ \/ record' = [record EXCEPT ![InHand] = comment[InHand]] /\ spc' = "get" /\ UNCHANGED lost
     \/ NotPut
  /\ UNCHANGED <<vars, taken>>

RNext ==
  \/ Take \/ PutProfitableArbitrage
  \/ Next /\ UNCHANGED store

RSpec == RInit /\ [][RNext]_rvars

\* Neither thread can block but on an empty queue.
RFairSpec ==
  /\ RSpec
  /\ WF_rvars(TradeManagerStep /\ UNCHANGED store)
  /\ WF_rvars(Take \/ PutProfitableArbitrage)

-----------------------------------------------------------------------------
\* What the record of a chain says is what became of it, for good: the store thread
\* never sees a chain the trade manager is not done with, and "Orders created
\* successfully" is in the record if and only if the orders were fired.
RecordTellsFate ==
  \A c \in Chains : record[c] # "none" =>
    /\ record[c] = comment[c]
    /\ record[c] = "created" <=> \E i \in Legs : <<c, i>> \in fired

\* Every chain of a batch ahead of the shutdown message gets a record, whatever
\* becomes of it and whatever is raised on the way, but the one whose put fails.
EveryChainRecorded ==
  \A c \in Chains : Ahead(c) ~> record[c] # "none" \/ c \in lost
=============================================================================
