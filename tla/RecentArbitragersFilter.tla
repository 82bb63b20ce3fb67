---------------------- MODULE RecentArbitragersFilter ----------------------
(***************************************************************************)
(* RecentArbitragersFilter: one call of register_and_return_contained per  *)
(* arbitrage chain, under a wall clock that only moves forward.            *)
(***************************************************************************)
EXTENDS RecentChains

CONSTANTS Start,    \* the clock when the process starts (epoch milliseconds)
          MaxTime   \* bound of the model: the clock stops there

\* A missing key reads as registered at time 0: far in the past for any epoch
\* clock, which is what keeps a first sighting from being a duplication.
ASSUME ClockAssumption == Start \in Nat /\ Start >= TTL /\ Start > 0 /\ MaxTime \in Nat

VARIABLES now,            \* current_time_ms()
          recent_chains,
          passed,         \* history: when the key was last let through, 0 if never
          dropped         \* history: calls answered "duplication" since then

vars == <<now, recent_chains, passed, dropped>>

TypeOK ==
  /\ now \in Nat
  /\ IsTable(recent_chains)
  /\ passed \in [Keys -> Nat]
  /\ dropped \in [Keys -> Nat]

Init ==
  /\ now = Start
  /\ recent_chains = EmptyTable
  /\ passed = [k \in Keys |-> 0]
  /\ dropped = [k \in Keys |-> 0]

Tick ==
  /\ now < MaxTime
  /\ now' = now + 1
  /\ UNCHANGED <<recent_chains, passed, dropped>>

\* register_and_return_contained returns True: the chain is thrown away.
Drop(k) ==
  /\ Contained(recent_chains, k, now)
  /\ recent_chains' = Registered(recent_chains, k, now)
  /\ dropped' = [dropped EXCEPT ![k] = @ + 1]
  /\ UNCHANGED <<now, passed>>

\* ... returns False: the chain goes on to be priced and ordered.
Pass(k) ==
  /\ ~Contained(recent_chains, k, now)
  /\ recent_chains' = Registered(recent_chains, k, now)
  /\ passed' = [passed EXCEPT ![k] = now]
  /\ dropped' = [dropped EXCEPT ![k] = 0]
  /\ UNCHANGED now

Next == Tick \/ \E k \in Keys : Drop(k) \/ Pass(k)

Spec == Init /\ [][Next]_vars

-----------------------------------------------------------------------------
\* The call that is under way lets the chain through: at another time than it did
\* before, or at the same one after a drop.
LetThrough(k) == passed'[k] # passed[k] \/ dropped'[k] < dropped[k]

\* The chain was last let through less than the time frame ago.
WithinWindow(k) == passed[k] > 0 /\ now - passed[k] < TTL

\* A chain is only ever dropped because the same chain passed less than TTL ago.
DropsOnlyRecentRepeats ==
  [][\A k \in Keys : dropped'[k] > dropped[k] => WithinWindow(k)]_vars

\* Of two sightings of a chain that follow each other within the time frame, at
\* least one is dropped: the same opportunity is not traded twice in a row.
NeverTwiceInARow ==
  [][\A k \in Keys : LetThrough(k) /\ WithinWindow(k) => dropped[k] > 0]_vars

\* What config/base.py:24 says of the time frame: "If we see same arbitrage chain,
\* with the same profit, coming within the given time frame, we throttle it".
\* The code forgets the key as it drops a chain, and lets the next one through.
ThrottledWithinWindow == [][\A k \in Keys : LetThrough(k) => ~WithinWindow(k)]_vars
=============================================================================
