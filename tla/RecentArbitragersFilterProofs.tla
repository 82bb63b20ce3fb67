------------------- MODULE RecentArbitragersFilterProofs -------------------
(***************************************************************************)
(* What the duplication filter guarantees for every window, every set of   *)
(* keys and every run of the clock.                                        *)
(***************************************************************************)
EXTENDS RecentArbitragersFilter, TLAPS

\* A call of the filter keeps the cache a table from keys to times.
LEMMA RegisteredIsTable ==
  ASSUME NEW table, IsTable(table), NEW key \in Keys, NEW time \in Nat
  PROVE  IsTable(Registered(table, key, time))
BY DEF IsTable, Registered

\* After a call the key is cached exactly when the call let it through, at the
\* time of the call, and no other key is touched.
LEMMA RegisteredEffect ==
  ASSUME NEW table, IsTable(table), NEW key \in Keys, NEW time \in Nat
  PROVE  /\ Contained(table, key, time) => key \notin DOMAIN Registered(table, key, time)
         /\ ~Contained(table, key, time) =>
              /\ key \in DOMAIN Registered(table, key, time)
              /\ Registered(table, key, time)[key] = time
         /\ \A k \in Keys \ {key} :
              /\ k \in DOMAIN Registered(table, key, time) <=> k \in DOMAIN table
              /\ k \in DOMAIN table => Registered(table, key, time)[k] = table[k]
BY DEF IsTable, Registered

\* The state is well typed: the clock, the cache and the two history tables
\* keep their ranges under every call of the filter.
THEOREM TypeCorrect == Spec => []TypeOK
<1>1. Init => TypeOK
  BY ClockAssumption DEF Init, TypeOK, IsTable, EmptyTable
<1>2. TypeOK /\ [Next]_vars => TypeOK'
  <2> SUFFICES ASSUME TypeOK, [Next]_vars PROVE TypeOK'
    OBVIOUS
  <2>1. CASE Tick
    BY <2>1 DEF Tick, TypeOK
  <2>2. ASSUME NEW k \in Keys, Drop(k) PROVE TypeOK'
    BY <2>2, RegisteredIsTable DEF Drop, TypeOK
  <2>3. ASSUME NEW k \in Keys, Pass(k) PROVE TypeOK'
    BY <2>3, RegisteredIsTable DEF Pass, TypeOK
  <2>4. CASE UNCHANGED vars
    BY <2>4 DEF vars, TypeOK
  <2> QED
    BY <2>1, <2>2, <2>3, <2>4 DEF Next
<1> QED
  BY <1>1, <1>2, PTL DEF Spec

\* The clock never falls below the time the process started at, so a time it
\* shows is never the 0 that stands for "not registered".
LEMMA ClockStarted == Spec => [](now >= Start)
<1>1. Init => now >= Start
  BY ClockAssumption DEF Init
<1>2. TypeOK /\ now >= Start /\ [Next]_vars => (now >= Start)'
  BY ClockAssumption DEF TypeOK, Next, Tick, Drop, Pass, vars
<1> QED
  BY <1>1, <1>2, TypeCorrect, PTL DEF Spec

\* How the cache of the code relates to the history: it holds the time a key was
\* last let through, or has forgotten the key as a sighting was dropped since (or
\* as it never passed).
CacheMatchesHistory ==
  \A k \in Keys :
    IF k \in DOMAIN recent_chains
    THEN recent_chains[k] = passed[k] /\ passed[k] > 0
    ELSE dropped[k] > 0 \/ passed[k] = 0

\* The inductive invariant of the two action properties.
IInv == TypeOK /\ now >= Start /\ CacheMatchesHistory

\* It is inductive relative to the types and to the clock having started:
\* a pass registers the chain at `now`, a drop registers nothing.
LEMMA IInvInductive == IInv /\ [Next]_vars => CacheMatchesHistory'
<1> SUFFICES ASSUME IInv, [Next]_vars PROVE CacheMatchesHistory'
  OBVIOUS
<1> USE DEF IInv
<1>1. CASE Tick
  BY <1>1 DEF Tick, CacheMatchesHistory
<1>2. ASSUME NEW k \in Keys, Drop(k) PROVE CacheMatchesHistory'
  <2>1. dropped'[k] > 0 /\ \A j \in Keys \ {k} : dropped'[j] = dropped[j]
    BY <1>2 DEF Drop, TypeOK
  <2> QED
    BY <1>2, <2>1, RegisteredEffect DEF Drop, TypeOK, CacheMatchesHistory
<1>3. ASSUME NEW k \in Keys, Pass(k) PROVE CacheMatchesHistory'
  <2>1. /\ passed'[k] = now /\ now > 0
        /\ \A j \in Keys \ {k} : passed'[j] = passed[j] /\ dropped'[j] = dropped[j]
    BY <1>3, ClockAssumption DEF Pass, TypeOK
  <2> QED
    BY <1>3, <2>1, RegisteredEffect DEF Pass, TypeOK, CacheMatchesHistory
<1>4. CASE UNCHANGED vars
  BY <1>4 DEF vars, CacheMatchesHistory
<1> QED
  BY <1>1, <1>2, <1>3, <1>4 DEF Next

\* It holds of the empty table the filter starts with, and so at all times.
LEMMA CacheInvHolds == Spec => []IInv
<1>1. Init => CacheMatchesHistory
  BY DEF Init, EmptyTable, CacheMatchesHistory
<1> QED
  BY <1>1, IInvInductive, TypeCorrect, ClockStarted, PTL DEF Spec, IInv

\* A sighting is only ever thrown away as a repeat of a chain that was let
\* through within the window.
THEOREM DropsAreRepeats == Spec => DropsOnlyRecentRepeats
<1>1. IInv /\ [Next]_vars => [\A k \in Keys : dropped'[k] > dropped[k] => WithinWindow(k)]_vars
  <2> SUFFICES ASSUME IInv, Next, NEW k \in Keys, dropped'[k] > dropped[k]
               PROVE  WithinWindow(k)
    OBVIOUS
  <2>1. Drop(k)
    BY DEF Next, Tick, Drop, Pass, IInv, TypeOK
  <2> QED
    BY <2>1, ClockAssumption, TTLAssumption
    DEF IInv, TypeOK, CacheMatchesHistory, Drop, Contained, LastSeen, WithinWindow
<1> QED
  BY <1>1, CacheInvHolds, PTL DEF Spec, DropsOnlyRecentRepeats

\* Of two sightings in a row within the window one is dropped: after a pass the
\* cache holds the time of it, which the next call compares with.
THEOREM RepeatsNotTradedInARow == Spec => NeverTwiceInARow
<1>1. IInv /\ [Next]_vars =>
        [\A k \in Keys : LetThrough(k) /\ WithinWindow(k) => dropped[k] > 0]_vars
  <2> SUFFICES ASSUME IInv, Next, NEW k \in Keys, LetThrough(k), WithinWindow(k)
               PROVE  dropped[k] > 0
    OBVIOUS
  <2>1. Pass(k)
    BY DEF Next, Tick, Drop, Pass, IInv, TypeOK, LetThrough
  <2>2. k \notin DOMAIN recent_chains
    BY <2>1 DEF IInv, CacheMatchesHistory, Pass, Contained, LastSeen, WithinWindow
  <2> QED
    BY <2>2 DEF IInv, TypeOK, CacheMatchesHistory, WithinWindow
<1> QED
  BY <1>1, CacheInvHolds, PTL DEF Spec, NeverTwiceInARow
=============================================================================
