---------------------------- MODULE RecentChains ----------------------------
(***************************************************************************)
(* The duplication cache of RecentArbitragersFilter                        *)
(* (patron_arby/trade/recent_arbitragers_filter.py), as operators on an    *)
(* explicit table so that the filter's own specification and TradeManager  *)
(* can both use it.  A table is a function from the keys it holds (the     *)
(* chain's path and ROI) to the millisecond they were registered at.       *)
(***************************************************************************)
EXTENDS Integers

CONSTANTS Keys,   \* what _to_key yields: the markets of the chain and its roi
          TTL     \* arbitrage_duplication_ttl, in clock units

ASSUME TTLAssumption == TTL \in Nat

EmptyTable == [k \in {} |-> 0]

IsTable(table) == DOMAIN table \subseteq Keys /\ table \in [DOMAIN table -> Nat]

\* recent_chains.pop(key, 0): what the cache holds for the key, 0 if nothing.
LastSeen(table, key) == IF key \in DOMAIN table THEN table[key] ELSE 0

\* Mutant of Contained: the window closed on the right.
ContainedUpToTTL(table, key, time) == time - LastSeen(table, key) <= TTL

Contained(table, key, time) == time - LastSeen(table, key) < TTL

\* Mutants of Registered: setdefault for the pop and the store, so that a key keeps
\* the time it was first seen at; a popped key left behind as a tombstone.
RegisteredFirst(table, key, time) ==
  [k \in DOMAIN table \union {key} |-> IF k \in DOMAIN table THEN table[k] ELSE time]
RegisteredWithTombstone(table, key, time) ==
  [k \in DOMAIN table \union {key} |->
     IF k # key THEN table[k] ELSE IF Contained(table, key, time) THEN -1 ELSE time]

\* The call pops the key whatever it then decides, and stores it again only
\* when the chain was not a duplication.
Registered(table, key, time) ==
  LET kept == IF Contained(table, key, time)
              THEN DOMAIN table \ {key}
              ELSE DOMAIN table \union {key}
  IN [k \in kept |-> IF k = key THEN time ELSE table[k]]
=============================================================================
