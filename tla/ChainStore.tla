----------------------------- MODULE ChainStore -----------------------------
(***************************************************************************)
(* The thread that stores all chains searched (__main__.py,                *)
(* _run_store_arbitrages, and db/arbitrage_dao.py) behind the search: it   *)
(* gathers the results of searches in a buffer and sends that to Firehose  *)
(* as one batch when it is half as long as a batch may be.                 *)
(***************************************************************************)
EXTENDS ArbitrageSearch

CONSTANT KINESIS_MAX_BATCH_SIZE

\* A search never finds so many chains that half a batch and they make too many.
ASSUME BatchAssumption ==
  /\ KINESIS_MAX_BATCH_SIZE \in Nat
  /\ \A m \in Markets : 2 * Cardinality(PathsThrough(m)) <= KINESIS_MAX_BATCH_SIZE

VARIABLES taken,          \* how many results the thread took off all_arbitrages_queue
          chains_buffer,
          batches         \* what Firehose got

store == <<taken, chains_buffer, batches>>
svars == <<vars, store>>

SInit == Init /\ taken = 0 /\ chains_buffer = {} /\ batches = << >>

\* Mutant of IsFull: the buffer grown to the whole batch size.
IsFullAtMax(buffer) == Cardinality(buffer) >= KINESIS_MAX_BATCH_SIZE

IsFull(buffer) == Cardinality(buffer) >= KINESIS_MAX_BATCH_SIZE \div 2

\* Mutant of Kept: a full buffer not cleared.
KeptAll(buffer) == buffer

\* chains_buffer.clear()
Kept(buffer) == IF IsFull(buffer) THEN {} ELSE buffer

\* The buffer is cleared whether or not the put succeeds (@safely).
TakeChains ==
  /\ taken < Len(allQueue) /\ taken' = taken + 1
  /\ LET buffer == chains_buffer \cup allQueue[taken']
     IN /\ chains_buffer' = Kept(buffer)
        /\ \/ IsFull(buffer) /\ batches' = Append(batches, buffer)
           \/ UNCHANGED batches
  /\ UNCHANGED vars

SNext ==
  \/ TakeChains
  \/ Next /\ UNCHANGED store

SSpec == SInit /\ [][SNext]_svars

SFairSpec == SSpec /\ WF_svars((Put \/ Notify) /\ UNCHANGED store) /\ WF_svars(ThreadNext /\ UNCHANGED store)

-----------------------------------------------------------------------------
\* "Max size kinesis accepts is 500. Make it twice lower to ensure no overfill
\* happens" (__main__.py:77): whatever the searches return, no batch is too long.
BatchFits == \A i \in DOMAIN batches : Cardinality(batches[i]) <= KINESIS_MAX_BATCH_SIZE

\* No chain is stored twice, nor one that was stored kept to be stored again.
StoredOnce ==
  LET batch(i) == IF i = 0 THEN chains_buffer ELSE batches[i]
  IN \A i, j \in {0} \cup DOMAIN batches : i # j => batch(i) \cap batch(j) = {}
=============================================================================
