-------------------------- MODULE CircuitBreaker ---------------------------
(***************************************************************************)
(* The per-upstream in-flight cap (crates/control/src/upstream/            *)
(* circuit_breaker.rs): UpstreamGroup::try_acquire and RequestPermit.      *)
(*                                                                         *)
(* in_flight is one atomic counter without a lock around it.  An attempt   *)
(* adds one first and looks at the prior value afterwards; an attempt that *)
(* found the cap full takes its one back in a second atomic step.  Each    *)
(* atomic read-modify-write is an action.  With max_requests = 0 a permit  *)
(* counts nothing and neither taking nor dropping one changes any state:   *)
(* this module is about a cap that is set.  Transaction extends it with     *)
(* the request that takes and drops the permit.                            *)
(***************************************************************************)
EXTENDS Integers, FiniteSets

CONSTANTS
  Requests,        \* concurrent proxied requests for the upstream
  MaxRequests      \* max_requests, not 0 (unlimited)

ASSUME BreakerAssumption ==
  /\ IsFiniteSet(Requests)
  /\ MaxRequests \in Nat \ {0}

VARIABLES
  in_flight,       \* the atomic counter
  slot             \* of each request: "idle", "over" (added to a full cap), "permit"

vars == <<in_flight, slot>>

Holding == {r \in Requests : slot[r] = "permit"}
BackingOut == {r \in Requests : slot[r] = "over"}

Init ==
  /\ in_flight = 0
  /\ slot = [r \in Requests |-> "idle"]

\* try_acquire: in_flight.fetch_add(1), whose prior value decides.
FetchAddOffByOneMut(r) ==
  /\ slot[r] = "idle"
  /\ in_flight' = in_flight + 1
  /\ slot' = [slot EXCEPT ![r] = IF in_flight > MaxRequests THEN "over" ELSE "permit"]

FetchAdd(r) ==
  /\ slot[r] = "idle"
  /\ in_flight' = in_flight + 1
  /\ slot' = [slot EXCEPT ![r] = IF in_flight >= MaxRequests THEN "over" ELSE "permit"]

\* try_acquire: the increment is taken back and the caller gets None.
BackOut(r) ==
  /\ slot[r] = "over"
  /\ in_flight' = in_flight - 1
  /\ slot' = [slot EXCEPT ![r] = "idle"]

\* RequestPermit::drop, on whichever path the request ends.
Drop(r) ==
  /\ slot[r] = "permit"
  /\ in_flight' = in_flight - 1
  /\ slot' = [slot EXCEPT ![r] = "idle"]

Next ==
  \E r \in Requests : FetchAdd(r) \/ BackOut(r) \/ Drop(r)

Spec == Init /\ [][Next]_vars

----------------------------------------------------------------------------
TypeOK ==
  /\ in_flight \in Nat
  /\ slot \in [Requests -> {"idle", "over", "permit"}]

\* The counter is the permits out plus the attempts that have yet to back out:
\* no path leaks a slot or gives one back twice, and the unsigned counter never
\* goes below zero (try_acquire, RequestPermit::drop).
CounterExact ==
  in_flight = Cardinality(Holding) + Cardinality(BackingOut)

\* "concurrent callers never hold more than max_requests permits at once"
\* (try_acquire), whatever the interleaving of optimistic increments.
CapRespected == Cardinality(Holding) <= MaxRequests

\* The breaker implements a bounded set of slots: the permits out.
Slots == INSTANCE BoundedSlots
           WITH Max <- MaxRequests, taken <- Cardinality(Holding)

\* Every step of the breaker is one slot taken, one given back or neither, and
\* the optimistic increments are invisible (try_acquire, RequestPermit::drop).
ImplementsSlots == Slots!Spec
============================================================================
