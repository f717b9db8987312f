--------------------------- MODULE LoadBalancer ----------------------------
(***************************************************************************)
(* Picking an instance of an upstream (crates/control/src/upstream/lb.rs): *)
(* round_robin_pick, least_request_pick, maglev_pick and the load guard a  *)
(* Pick carries, for the first attempt of a forward and for the picks that *)
(* replace it on a retry (crates/server/src/forward.rs).                   *)
(*                                                                         *)
(* Eligibility is read lock-free, one instance at a time, in two passes    *)
(* over the instance list.  The prober, passive failures and outlier       *)
(* detection change it between any two reads; they may turn any instance   *)
(* either way (InstanceHealth, OutlierDetection), so here eligibility is   *)
(* a set that flips freely.  Reading an instance is one action.            *)
(***************************************************************************)
EXTENDS UpstreamGroup

CONSTANTS
  Algorithms,     \* the algorithms to check: "round_robin",
                  \* "least_request", "maglev"
  Weight,         \* weight of each instance, at least one
  CursorRange     \* 2^w: where the usize cursor wraps

ASSUME LbAssumption ==
  /\ Algorithms \subseteq {"round_robin", "least_request", "maglev"}
  /\ Weight \in [Instances -> Nat \ {0}]
  /\ CursorRange \in Nat \ {0}

None == 0                         \* no instance

VARIABLES
  lb,             \* LbState: the group's algorithm, fixed when it is built
  eligible,       \* healthy and not outlier-ejected, right now
  rr,             \* the group's round-robin cursor
  in_flight,      \* per instance: the least-request load signal
  pc,             \* where each task is
  exclude,        \* the instance a retry must avoid, or None
  pass,           \* the scan under way: next index, eligible seen, the ordinals
                  \* wanted (lo, hi), the instances found there, the last seen
  current,        \* the Pick a task forwards with, or None
  replacement,    \* the Pick that will replace it after the backoff, or None
  steady          \* history: instances other than exclude that have been
                  \* eligible ever since the pick under way began

pickVars == <<lb, eligible, rr, in_flight, pc, exclude, pass, current,
              replacement, steady>>

NoPass == [at |-> 1, seen |-> 0, lo |-> 0, hi |-> 0, x |-> None, y |-> None, last |-> None]

PickInit ==
  /\ lb \in Algorithms
  /\ eligible \in SUBSET Instances
  /\ rr = 0
  /\ in_flight = [i \in Instances |-> 0]
  /\ pc = [t \in Tasks |-> "idle"]
  /\ exclude = [t \in Tasks |-> None]
  /\ pass = [t \in Tasks |-> NoPass]
  /\ current = [t \in Tasks |-> None]
  /\ replacement = [t \in Tasks |-> None]
  /\ steady = [t \in Tasks |-> {}]

Goto(t, l) == pc' = [pc EXCEPT ![t] = l]

\* is_eligible: an excluded instance is not eligible for this pick.
is_eligible_ignores_excludeMut(t, i) == i \in eligible
is_eligible(t, i) == i \in eligible /\ i # exclude[t]

----------------------------------------------------------------------------
\* A pick begins: pick for a new forward, pick_excluding for a retry.

Begin(t, ex) ==
  /\ exclude' = [exclude EXCEPT ![t] = ex]
  /\ pass' = [pass EXCEPT ![t] = NoPass]
  /\ steady' = [steady EXCEPT ![t] = eligible \ {ex}]
  /\ Goto(t, IF lb = "maglev" THEN "lookup" ELSE "count")
  /\ UNCHANGED <<eligible, rr, in_flight, current, replacement>>

pick(t) == pc[t] = "idle" /\ Begin(t, None)

pick_excluding(t) == pc[t] = "forwarding" /\ Begin(t, current[t])

\* maglev_pick: the table names a primary for the key (whichever it is), or
\* there is no key; a primary that cannot serve falls back to round-robin.
Lookup(t, primary) ==
  /\ pc[t] = "lookup"
  /\ IF primary # None /\ is_eligible(t, primary)
     THEN /\ pass' = [pass EXCEPT ![t].x = primary, ![t].y = primary]
          /\ Goto(t, "choose")
     ELSE Goto(t, "count") /\ UNCHANGED pass
  /\ UNCHANGED <<eligible, rr, in_flight, exclude, current, replacement, steady>>

\* First pass: count the eligible, one read at a time.
Count(t) ==
  LET p == pass[t] IN
  /\ pc[t] = "count"
  /\ p.at <= N
  /\ pass' = [pass EXCEPT ![t] = [p EXCEPT !.at = @ + 1,
                                           !.seen = IF is_eligible(t, p.at) THEN @ + 1 ELSE @]]
  /\ UNCHANGED <<eligible, rr, in_flight, pc, exclude, current, replacement, steady>>

\* The count is zero: the pick is None.
NothingEligible(t) ==
  /\ pc[t] = "count"
  /\ pass[t].at > N
  /\ pass[t].seen = 0
  /\ Goto(t, "choose")
  /\ UNCHANGED <<eligible, rr, in_flight, exclude, pass, current, replacement, steady>>

\* Round-robin: the cursor's prior value modulo the count is the target.
Target(t) ==
  LET p == pass[t] IN
  /\ pc[t] = "count"
  /\ p.at > N
  /\ p.seen > 0
  /\ lb # "least_request"
  /\ rr' = (rr + 1) % CursorRange
  /\ pass' = [pass EXCEPT ![t] = [NoPass EXCEPT !.lo = rr % p.seen, !.hi = rr % p.seen]]
  /\ Goto(t, "find")
  /\ UNCHANGED <<eligible, in_flight, exclude, current, replacement, steady>>

\* Least-request: two distinct ordinals below the count, or the only one
\* (rng::two_distinct_below).
Sample(t) ==
  LET p == pass[t] IN
  /\ pc[t] = "count"
  /\ p.at > N
  /\ p.seen > 0
  /\ lb = "least_request"
  /\ \E lo, hi \in 0..(p.seen - 1) :
       /\ lo < hi \/ p.seen = 1
       /\ pass' = [pass EXCEPT ![t] = [NoPass EXCEPT !.lo = lo, !.hi = hi]]
  /\ Goto(t, "find")
  /\ UNCHANGED <<eligible, rr, in_flight, exclude, current, replacement, steady>>

\* The second pass ends with the list, or as soon as a single wanted ordinal is
\* found (round-robin, and least-request with one eligible instance).
PassOver(t) == pass[t].at > N \/ (pass[t].lo = pass[t].hi /\ pass[t].x # None)

\* Second pass: remember the instances at the wanted ordinals and the last one.
Find(t) ==
  LET p == pass[t] IN
  /\ pc[t] = "find"
  /\ ~PassOver(t)
  /\ pass' = [pass EXCEPT ![t] =
       IF is_eligible(t, p.at)
       THEN [p EXCEPT !.at = @ + 1, !.seen = @ + 1, !.last = p.at,
                      !.x = IF p.seen = p.lo THEN p.at ELSE @,
                      !.y = IF p.seen = p.hi THEN p.at ELSE @]
       ELSE [p EXCEPT !.at = @ + 1]]
  /\ UNCHANGED <<eligible, rr, in_flight, pc, exclude, current, replacement, steady>>

\* Round-robin gives the last eligible instance seen when the target is gone.
FoundNoFallbackMut(t) ==
  /\ pc[t] = "find"
  /\ PassOver(t)
  /\ UNCHANGED pass
  /\ Goto(t, "choose")
  /\ UNCHANGED <<eligible, rr, in_flight, exclude, current, replacement, steady>>

Found(t) ==
  LET p == pass[t] IN
  /\ pc[t] = "find"
  /\ PassOver(t)
  /\ pass' = [pass EXCEPT ![t] = IF lb # "least_request" /\ p.x = None
                                 THEN [p EXCEPT !.x = p.last, !.y = p.last] ELSE p]
  /\ Goto(t, "choose")
  /\ UNCHANGED <<eligible, rr, in_flight, exclude, current, replacement, steady>>

----------------------------------------------------------------------------
\* lower_load: the smaller (in_flight + 1) / weight, the first on a tie.
lower_load(x, y) ==
  (in_flight[x] + 1) * Weight[y] <= (in_flight[y] + 1) * Weight[x]

\* What the pick returns.  Least-request needs both candidates (cand_lo?,
\* cand_hi?); round-robin and maglev have set both to the same instance.  The
\* two loads are read at one moment here: no property depends on which of two
\* eligible candidates wins.
Chosen(t) ==
  LET p == pass[t] IN
  IF p.x = None \/ p.y = None THEN None
  ELSE IF lower_load(p.x, p.y) THEN p.x ELSE p.y

\* metered_pick counts the chosen instance's load, unmetered_pick does not.
Metered(i) ==
  IF lb = "least_request" THEN [in_flight EXCEPT ![i] = @ + 1] ELSE in_flight

\* InstanceLoad::drop
Dropped(load, i) ==
  IF lb = "least_request" THEN [load EXCEPT ![i] = @ - 1] ELSE load

\* The pick's local state goes out of scope.
EndPick(t) ==
  /\ exclude' = [exclude EXCEPT ![t] = None]
  /\ pass' = [pass EXCEPT ![t] = NoPass]
  /\ steady' = [steady EXCEPT ![t] = {}]

\* pick found an instance: the forward goes out with it.
PickFirst(t) ==
  /\ pc[t] = "choose"
  /\ current[t] = None
  /\ Chosen(t) # None
  /\ current' = [current EXCEPT ![t] = Chosen(t)]
  /\ in_flight' = Metered(Chosen(t))
  /\ EndPick(t)
  /\ Goto(t, "forwarding")
  /\ UNCHANGED <<eligible, rr, replacement>>

\* pick_excluding found one: the old Pick is kept while the backoff lasts.
PickReplacement(t) ==
  /\ pc[t] = "choose"
  /\ current[t] # None
  /\ Chosen(t) # None
  /\ replacement' = [replacement EXCEPT ![t] = Chosen(t)]
  /\ in_flight' = Metered(Chosen(t))
  /\ EndPick(t)
  /\ Goto(t, "backoff")
  /\ UNCHANGED <<eligible, rr, current>>

\* pick returned None: 503; pick_excluding returned None: the outcome stands.
PickNone(t) ==
  /\ pc[t] = "choose"
  /\ Chosen(t) = None
  /\ Goto(t, IF current[t] = None THEN "idle" ELSE "finish")
  /\ EndPick(t)
  /\ UNCHANGED <<eligible, rr, in_flight, current, replacement>>

\* The backoff is over: pick = next drops the old guard.
HandOffLeaksMut(t) ==
  /\ pc[t] = "backoff"
  /\ current' = [current EXCEPT ![t] = replacement[t]]
  /\ replacement' = [replacement EXCEPT ![t] = None]
  /\ Goto(t, "forwarding")
  /\ UNCHANGED <<eligible, rr, in_flight, exclude, pass, steady>>

HandOff(t) ==
  /\ pc[t] = "backoff"
  /\ in_flight' = Dropped(in_flight, current[t])
  /\ current' = [current EXCEPT ![t] = replacement[t]]
  /\ replacement' = [replacement EXCEPT ![t] = None]
  /\ Goto(t, "forwarding")
  /\ UNCHANGED <<eligible, rr, exclude, pass, steady>>

\* The forward is over, or its task was dropped, also during a backoff: every
\* guard it still has is dropped with it.
DropAll(t) ==
  LET first  == Dropped(in_flight, current[t])
  IN  /\ pc[t] \in {"forwarding", "backoff", "finish"}
      /\ in_flight' = IF replacement[t] = None THEN first
                      ELSE Dropped(first, replacement[t])
      /\ current' = [current EXCEPT ![t] = None]
      /\ replacement' = [replacement EXCEPT ![t] = None]
      /\ Goto(t, "idle")
      /\ UNCHANGED <<eligible, rr, exclude, pass, steady>>

\* The prober or outlier detection turns an instance.
Flip(i) ==
  /\ eligible' = IF i \in eligible THEN eligible \ {i} ELSE eligible \cup {i}
  /\ steady' = [t \in Tasks |-> steady[t] \cap eligible']
  /\ UNCHANGED <<rr, in_flight, pc, exclude, pass, current, replacement>>

Step(t) ==
  \/ pick(t) \/ pick_excluding(t)
  \/ \E primary \in Instances \cup {None} : Lookup(t, primary)
  \/ Count(t) \/ NothingEligible(t) \/ Target(t) \/ Sample(t)
  \/ Find(t) \/ Found(t)
  \/ PickFirst(t) \/ PickReplacement(t) \/ PickNone(t)
  \/ HandOff(t) \/ DropAll(t)

PickNext ==
  /\ UNCHANGED lb
  /\ \/ \E t \in Tasks : Step(t)
     \/ \E i \in Instances : Flip(i)

PickSpec == PickInit /\ [][PickNext]_pickVars

----------------------------------------------------------------------------
Passes ==
  [at : 1..N + 1, seen : 0..N, lo : 0..N, hi : 0..N,
   x : 0..N, y : 0..N, last : 0..N]

PickTypeOK ==
  /\ lb \in Algorithms
  /\ eligible \subseteq Instances
  /\ rr \in 0..CursorRange - 1
  /\ in_flight \in [Instances -> Nat]
  /\ pc \in [Tasks -> {"idle", "lookup", "count", "find", "choose",
                       "forwarding", "backoff", "finish"}]
  /\ exclude \in [Tasks -> Instances \cup {None}]
  /\ pass \in [Tasks -> Passes]
  /\ current \in [Tasks -> Instances \cup {None}]
  /\ replacement \in [Tasks -> Instances \cup {None}]
  /\ steady \in [Tasks -> SUBSET Instances]

\* The task is about to turn its request away although an instance could have
\* served it all along.
SpuriousNone(t) == pc[t] = "choose" /\ Chosen(t) = None /\ steady[t] # {}

\* Round-robin, and maglev through its fallback, never turn a request away
\* while some instance could serve it, however the others flip between the two
\* passes (round_robin_pick: "rather than a spurious None").
NoSpuriousNone ==
  lb # "least_request" => \A t \in Tasks : ~SpuriousNone(t)

\* A retry never goes back to the instance that just failed, also when the
\* lists it was chosen from have changed meanwhile (pick_excluding).
RetryMovesOn ==
  \A t \in Tasks : replacement[t] # None => replacement[t] # current[t]

\* The least-request load of an instance is the number of guards alive on it:
\* through retries, where a task holds the old and the new guard at once, and
\* when a task is dropped half-way (Pick, InstanceLoad::drop).
LoadExact ==
  \A i \in Instances :
    in_flight[i] = IF lb # "least_request" THEN 0
                   ELSE Cardinality({t \in Tasks : current[t] = i})
                        + Cardinality({t \in Tasks : replacement[t] = i})
============================================================================
