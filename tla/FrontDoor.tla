----------------------------- MODULE FrontDoor -----------------------------
(***************************************************************************)
(* The front door of the proxy: loading a manifest (Control::              *)
(* from_manifest_path), and what proxy_core does with a request up to the  *)
(* choice of an upstream group: build the contract's view of it, normalise *)
(* the path, select a route, consult the native rate limiter               *)
(* (crates/control/src/ratelimit.rs), run the request filters, and walk    *)
(* the weighted split (crates/control/src/weighted.rs).                    *)
(*                                                                         *)
(* Requests are concurrent tasks.  A limiter cell is a mutex over          *)
(* <<tokens, last_refill>>, but the clock is read before the lock; the     *)
(* split's cursor is an atomic, and eligibility is read instance by        *)
(* instance, bit by bit, while instances fail and recover.  The wall clock *)
(* may step back.                                                          *)
(***************************************************************************)
EXTENDS Manifest, TokenBucket, Headers

CONSTANTS
  Sources,        \* candidate -> [parses, manifest, store]
  Inbound,        \* candidate -> the requests sent to it, each [uri_authority, host,
                  \* path, query, method, headers, peer], a peer being [family, net, host]
  InFlight,       \* candidate -> how many tasks it is given at once
  Tasks,          \* a set of 1..n
  Hash,           \* the limiter's keyed hash, of a peer's key
  IP_SLOTS,
  Interval,       \* one second of the clock
  Boot,           \* the clock at start
  ClockMax,       \* bound on the clock
  MaxStepBacks,   \* bound on how often the clock is set back
  UsizeMax        \* the cursor wraps past it

\* The times are u64 milliseconds, the slots and the cursor usize; the manifests
\* and layouts are what the parser makes of a file.
ASSUME FrontDoorAssumption ==
  /\ ClockMax \in 0..U64Max /\ Boot \in 0..ClockMax /\ Interval \in 1..U64Max
  /\ IP_SLOTS \in Nat \ {0} /\ UsizeMax \in Nat
  /\ \A c \in DOMAIN Sources : Parsed(Sources[c])

VARIABLES
  status,     \* "down" or "serving"
  candidate,  \* the candidate read last
  active,     \* the routes in force: limiter, filters, split and its groups of each
  clock,      \* the wall clock, 0 for the epoch and anything before it
  setbacks,   \* how often it was set back
  cell,       \* <<route, slot>> -> the limiter's <<tokens, last_refill>>
  ledger,     \* <<route, slot>> -> what it granted so far (history)
  cursor,     \* route -> the split's cursor
  healthy,    \* the instances whose health bit is up
  ejected,    \* the instances whose ejection window has not passed
  task        \* task -> its request

vars == <<status, candidate, active, clock, setbacks, cell, ledger, cursor, healthy, ejected, task>>

NoSource == "no source"

\* What a load makes of each candidate: all of it is a function of the source.
Config == [c \in {d \in DOMAIN Sources : Accepted(Sources[d])} |-> Compiled(Sources[c])]

Unused == [granted |-> 0, first |-> 0, hi |-> 0, due |-> Unset]

Idle == [pc |-> "idle"]

Init ==
  /\ status = "down"
  /\ candidate = NoSource
  /\ clock = Boot
  /\ setbacks = 0
  /\ active = <<>>
  /\ cell = <<>>
  /\ ledger = <<>>
  /\ cursor = <<>>
  /\ healthy = {}
  /\ ejected = {}
  /\ task = [t \in Tasks |-> Idle]

\* The routes go into force, each with the groups its backends name, with a
\* zeroed cell for every slot of every limiter and every split's cursor at 0.
Install(routes, registry) ==
  LET limited == {k \in DOMAIN routes : routes[k].rate_limit # NoLimit} IN
  /\ active' = [k \in DOMAIN routes |->
                 [rate_limit |-> routes[k].rate_limit, backends |-> routes[k].backends,
                  filters |-> routes[k].filters,
                  groups |-> [g \in Range(routes[k].backends.groups) |-> registry[g]]]]
  /\ cell' = [k \in limited \X (0..(IP_SLOTS - 1)) |-> <<0, 0>>]
  /\ ledger' = [k \in limited \X (0..(IP_SLOTS - 1)) |-> Unused]
  /\ cursor' = [k \in DOMAIN routes |-> 0]

\* Control::from_manifest_path: everything is built before anything serves, and
\* any failure leaves the process without a configuration.  No instance is in
\* rotation before its first probe.
from_manifest_path(c) ==
  /\ status = "down"
  /\ candidate' = c
  /\ IF c \in DOMAIN Config
     THEN status' = "serving" /\ Install(Config[c].routes, Config[c].registry)
     ELSE UNCHANGED <<status, active, cell, ledger, cursor>>
  /\ UNCHANGED <<clock, setbacks, healthy, ejected, task>>

----------------------------------------------------------------------------
(* Arrival.                                                                *)

\* The authority is the URI's (HTTP/2), else Host's, else empty.
to_http_request(in) ==
  [method    |-> in.method,
   path      |-> in.path,
   query     |-> in.query,
   authority |-> IF in.uri_authority # NONE THEN in.uri_authority
                 ELSE IF in.host # NONE THEN in.host
                 ELSE [name |-> "", decorated |-> FALSE],
   headers   |-> headers_to_vec(in.headers)]

\* What proxy_core_inner makes of the head: the status it answers with, or the
\* route and the request the filters will see.
Admit(config, in) ==
  LET raw  == to_http_request(in)
      path == normalize_path(raw.path)
      http == [raw EXCEPT !.path = path,
                          !.headers = set_forwarded(@, in.peer.host, "https")]
      k    == select(config.routes, http)
  IN  IF path = Rejected THEN [status |-> 400]
      ELSE IF k = 0 THEN [status |-> 404, http |-> http]
      ELSE [status |-> 0, http |-> http, route |-> k,
            forwarded |-> rewrite_path(path, config.routes[k].strip_prefix)]

\* Nothing of the above depends on when it is done.
Admitted == [c \in DOMAIN Config |-> [in \in Inbound[c] |-> Admit(Config[c], in)]]

Limit(k) == active[k].rate_limit
Split(k) == active[k].backends

Arrive(t, in) ==
  /\ task[t] = Idle
  /\ t <= InFlight[candidate]
  /\ LET a == Admitted[candidate][in] IN
     task' = [task EXCEPT ![t] =
               IF a.status = 400 THEN [pc |-> "400", in |-> in]
               ELSE IF a.status = 404 THEN [pc |-> "404", in |-> in]
               ELSE [pc |-> IF Limit(a.route) = NoLimit THEN "chain" ELSE "clock",
                     in |-> in, route |-> a.route]]
  /\ UNCHANGED <<status, candidate, active, clock, setbacks, cell, ledger, cursor, healthy,
                 ejected>>

----------------------------------------------------------------------------
(* The native rate limit.                                                  *)

\* NativeRateLimit::new: rate tokens a second, up to burst.
bucket_spec(k) == [capacity |-> Limit(k).burst, refill_tokens |-> Limit(k).rate,
             refill_interval_ms |-> Interval]

\* v4 by address, also when mapped into v6; v6 by its /64.
ip_key_bytes(p) == IF p.family = "v6" THEN <<p.net>> ELSE <<p.net, p.host>>

ASSUME HashAssumption ==
  \A c \in DOMAIN Sources : \A in \in Inbound[c] : Hash[ip_key_bytes(in.peer)] \in Nat

slot_for_ip(p) == Hash[ip_key_bytes(p)] % IP_SLOTS

\* The cell a request is charged to.
CellOf(k, p) == <<k, IF Limit(k).key = "client_ip" THEN slot_for_ip(p) ELSE 0>>

\* NativeRateLimit::check reads the clock before the cell is locked.
ReadClock(t) ==
  /\ task[t].pc = "clock"
  /\ task' = [task EXCEPT ![t] = [pc |-> "limit", in |-> @.in, route |-> @.route,
                                now |-> clock]]
  /\ UNCHANGED <<status, candidate, active, clock, setbacks, cell, ledger, cursor, healthy,
                 ejected>>

\* The history of a cell: what it granted since it was first consulted, and the
\* earliest time a caller it refused since its last grant was told to come back.
\* A cell that is ahead of the clock promises nothing.
Entered(l, now, answer) ==
  [granted |-> l.granted + (IF answer.allowed THEN 1 ELSE 0),
   first   |-> IF l = Unused THEN now ELSE l.first,
   hi      |-> IF l.hi > now THEN l.hi ELSE now,
   due     |-> IF answer.allowed THEN Unset
               ELSE IF answer.state[2] > clock THEN l.due
               ELSE LET at == clock + div_ceil(answer.retry_after_ms, Interval) * Interval
                    IN  IF l.due = Unset \/ at < l.due THEN at ELSE l.due]

\* NativeRateLimit::check_at under the cell's lock; a refusal is answered 429.
check_at(t) ==
  /\ task[t].pc = "limit"
  /\ LET k == CellOf(task[t].route, task[t].in.peer)
         answer == apply_bucket(cell[k], 1, bucket_spec(task[t].route), task[t].now)
     IN  /\ cell' = [cell EXCEPT ![k] = answer.state]
         /\ ledger' = [ledger EXCEPT ![k] = Entered(@, task[t].now, answer)]
         /\ task' = [task EXCEPT ![t] =
                      IF answer.allowed
                      THEN [pc |-> "chain", in |-> @.in, route |-> @.route]
                      ELSE [pc |-> "429", in |-> @.in, now |-> @.now, due |-> ledger[k].due]]
  /\ UNCHANGED <<status, candidate, active, clock, setbacks, cursor, healthy, ejected>>

----------------------------------------------------------------------------
(* The request filters, and the pick of a group.                           *)

\* An instance is a group and a place in its list: those of a group and those a
\* pick may end at, and the fields of a look at one group.
Instances(k, g) == {g} \X DOMAIN active[k].groups[g].instances
Reach(k) == UNION {Instances(k, g) : g \in Range(Split(k).groups)}
Begin == [who |-> 1, bit |-> "health", clear |-> {}]

\* The route's chain forwards, or answers in its own right; a route without
\* filters forwards.
Dispatch(t) ==
  /\ task[t].pc = "chain"
  /\ task' = [task EXCEPT ![t] = [pc |-> "probe", in |-> @.in, route |-> @.route, at |-> 1,
                                look |-> Begin,
                                steady |-> Reach(@.route) \cap (healthy \ ejected)]]
  /\ UNCHANGED <<status, candidate, active, clock, setbacks, cell, ledger, cursor, healthy,
                 ejected>>

Respond(t) ==
  /\ task[t].pc = "chain"
  /\ active[task[t].route].filters # <<>>
  /\ task' = [task EXCEPT ![t] = [pc |-> "filtered", in |-> @.in]]
  /\ UNCHANGED <<status, candidate, active, clock, setbacks, cell, ledger, cursor, healthy,
                 ejected>>

Fail(t) == [pc |-> "503", in |-> task[t].in, steady |-> task[t].steady]

(***************************************************************************)
(* UpstreamGroup::has_eligible, one atomic load at a time: of each         *)
(* instance is_healthy and then, where outliers are ejected,               *)
(* is_outlier_ejected.  clear holds what is not ejected by the clock that  *)
(* eligibility_ctx read once: a window that passes later still counts.     *)
(* The clock is read in one step with the first is_healthy, since whatever *)
(* comes between the two can as well come before or after both.            *)
(***************************************************************************)
Ctx(k, g, look) ==
  IF look = Begin THEN [look EXCEPT !.clear = Instances(k, g) \ ejected] ELSE look

has_eligible(k, g, look) ==
  LET insts == active[k].groups[g].instances
      check_outlier == active[k].groups[g].outlier_enabled
      inst  == <<g, look.who>>
      loaded == Ctx(k, g, look)
  IN  IF look.bit = "health" /\ inst \in healthy /\ check_outlier
        THEN [answer |-> "reading", look |-> [loaded EXCEPT !.bit = "outlier"]]
      ELSE IF IF look.bit = "health" THEN inst \in healthy ELSE inst \in look.clear
        THEN [answer |-> "yes", look |-> Begin]
      ELSE IF look.who < Len(insts)
        THEN [answer |-> "reading", look |-> [loaded EXCEPT !.who = @ + 1, !.bit = "health"]]
      ELSE [answer |-> "no", look |-> Begin]

\* WeightedBackends::pick, the early-out: groups.iter().any(has_eligible).
ProbeGroup(t) ==
  /\ task[t].pc = "probe"
  /\ LET groups == Split(task[t].route).groups
         found  == IF task[t].at \notin DOMAIN groups THEN [answer |-> "no", look |-> Begin]
                   ELSE has_eligible(task[t].route, groups[task[t].at], task[t].look)
     IN  task' = [task EXCEPT ![t] =
                   IF found.answer = "reading" THEN [@ EXCEPT !.look = found.look]
                   ELSE IF found.answer = "yes"
                   THEN [pc |-> "advance", in |-> @.in, route |-> @.route, steady |-> @.steady]
                   ELSE IF @.at < Len(groups)
                   THEN [@ EXCEPT !.at = task[t].at + 1, !.look = Begin]
                   ELSE Fail(t)]
  /\ UNCHANGED <<status, candidate, active, clock, setbacks, cell, ledger, cursor, healthy,
                 ejected>>

\* cursor.fetch_add(1) % len; an empty table is answered like an outage.  The
\* cursor of a table of one entry is kept at 0, since all its values are alike.
Advance(t) ==
  /\ task[t].pc = "advance"
  /\ LET k == task[t].route IN
     IF Split(k).table = <<>> THEN task' = [task EXCEPT ![t] = Fail(t)] /\ UNCHANGED cursor ELSE
     /\ cursor' = [cursor EXCEPT ![k] = IF Len(Split(k).table) = 1 THEN 0
                                             ELSE (@ + 1) % (UsizeMax + 1)]
     /\ task' = [task EXCEPT ![t] = [pc |-> "scan", in |-> @.in, route |-> k,
                                   steady |-> @.steady, off |-> 0, look |-> Begin,
                                   start |-> cursor[k] % Len(Split(k).table)]]
  /\ UNCHANGED <<status, candidate, active, clock, setbacks, cell, ledger, healthy, ejected>>

\* The group at one entry of the walk.
GroupAt(split, i) == split.groups[split.table[(i % Len(split.table)) + 1]]

ScanShortMut(t) ==
  /\ task[t].pc = "scan"
  /\ LET split == Split(task[t].route)
         group == GroupAt(split, task[t].start + task[t].off)
         found == has_eligible(task[t].route, group, task[t].look)
     IN  task' = [task EXCEPT ![t] =
                   IF found.answer = "reading" THEN [@ EXCEPT !.look = found.look]
                   ELSE IF found.answer = "yes"
                   THEN [pc |-> "forwarded", in |-> @.in, to |-> group]
                   ELSE IF @.off + 2 < Len(split.table)
                   THEN [@ EXCEPT !.off = task[t].off + 1, !.look = Begin]
                   ELSE Fail(t)]
  /\ UNCHANGED <<status, candidate, active, clock, setbacks, cell, ledger, cursor, healthy,
                 ejected>>

\* The walk ends after len entries.
Scan(t) ==
  /\ task[t].pc = "scan"
  /\ LET split == Split(task[t].route)
         group == GroupAt(split, task[t].start + task[t].off)
         found == has_eligible(task[t].route, group, task[t].look)
     IN  task' = [task EXCEPT ![t] =
                   IF found.answer = "reading" THEN [@ EXCEPT !.look = found.look]
                   ELSE IF found.answer = "yes"
                   THEN [pc |-> "forwarded", in |-> @.in, to |-> group]
                   ELSE IF @.off + 1 < Len(split.table)
                   THEN [@ EXCEPT !.off = task[t].off + 1, !.look = Begin]
                   ELSE Fail(t)]
  /\ UNCHANGED <<status, candidate, active, clock, setbacks, cell, ledger, cursor, healthy,
                 ejected>>

\* The request is answered, or in the hands of forward; the task serves another.
Done(t) ==
  /\ task[t].pc \in {"400", "404", "429", "filtered", "forwarded", "503"}
  /\ task' = [task EXCEPT ![t] = Idle]
  /\ UNCHANGED <<status, candidate, active, clock, setbacks, cell, ledger, cursor, healthy,
                 ejected>>

----------------------------------------------------------------------------
(* The world.                                                              *)

UsesClock == \E k \in DOMAIN active : Limit(k) # NoLimit
UsesHealth == \E k \in DOMAIN active : Len(Split(k).groups) > 1

Tick ==
  /\ status = "serving" /\ UsesClock
  /\ clock < ClockMax
  /\ clock' = clock + 1
  /\ UNCHANGED <<status, candidate, active, setbacks, cell, ledger, cursor, healthy, ejected, task>>

\* The wall clock is corrected; what a caller was promised before is void.
SetBack(to) ==
  /\ status = "serving" /\ UsesClock
  /\ setbacks < MaxStepBacks /\ to < clock
  /\ clock' = to
  /\ setbacks' = setbacks + 1
  /\ ledger' = [k \in DOMAIN ledger |-> [ledger[k] EXCEPT !.due = Unset]]
  /\ UNCHANGED <<status, candidate, active, cell, cursor, healthy, ejected, task>>

\* The instances in use, and those that their group may eject.
Fleet == UNION {Reach(k) : k \in DOMAIN active}
Outlier(i) ==
  UsesHealth /\ \E k \in DOMAIN active : i \in Reach(k) /\ active[k].groups[i[1]].outlier_enabled

\* What becomes of the picks when i is out of service: it was not eligible
\* throughout, and an ejection is seen past every clock that was read before.
Unsteady(i, ejection) ==
  task' = [t \in Tasks |->
    IF task[t].pc \in {"probe", "scan"}
    THEN [task[t] EXCEPT !.steady = @ \ {i},
                         !.look.clear = IF ejection THEN @ \ {i} ELSE @]
    ELSE IF task[t].pc = "advance" THEN [task[t] EXCEPT !.steady = @ \ {i}]
    ELSE task[t]]

\* The prober puts an instance into rotation, or takes it out where there is
\* more than one group to choose from.
Flip(i) ==
  /\ UsesHealth \/ i \notin healthy
  /\ healthy' = IF i \in healthy THEN healthy \ {i} ELSE healthy \cup {i}
  /\ IF i \in healthy THEN Unsteady(i, FALSE) ELSE UNCHANGED task
  /\ UNCHANGED <<status, candidate, active, clock, setbacks, cell, ledger, cursor, ejected>>

\* record_outcome ejects it, and its window passes.
Eject(i) ==
  /\ Outlier(i) /\ i \notin ejected
  /\ ejected' = ejected \cup {i}
  /\ Unsteady(i, TRUE)
  /\ UNCHANGED <<status, candidate, active, clock, setbacks, cell, ledger, cursor, healthy>>

Expire(i) ==
  /\ i \in ejected
  /\ ejected' = ejected \ {i}
  /\ UNCHANGED <<status, candidate, active, clock, setbacks, cell, ledger, cursor, healthy, task>>

Next ==
  \/ \E c \in DOMAIN Sources : from_manifest_path(c)
  \/ \E t \in Tasks :
       \/ status = "serving" /\ \E in \in Inbound[candidate] : Arrive(t, in)
       \/ ReadClock(t) \/ check_at(t) \/ Dispatch(t) \/ Respond(t)
       \/ ProbeGroup(t) \/ Advance(t) \/ Scan(t) \/ Done(t)
  \/ Tick
  \/ \E to \in 0..ClockMax : SetBack(to)
  \/ \E i \in Fleet : Flip(i) \/ Eject(i) \/ Expire(i)

Spec == Init /\ [][Next]_vars

----------------------------------------------------------------------------
(* Properties.                                                             *)

\* The path as an origin that resolves dot segments would read it.
Canonical(path) == IF Join(Meant(path)) = <<>> THEN <<"/">> ELSE Join(Meant(path))

\* The names along a path, and whether one path is another without a prefix.
Names(path) == SelectSeq(Segments(path), LAMBDA seg : seg # <<>>)
IsBelow(rest, prefix, path) == rest[1] = "/" /\ Names(path) = Names(prefix) \o Names(rest)

WellRouted(config, in, a) ==
  LET rooted == in.path # <<>> /\ in.path[1] = "/"
      satisfying == {k \in DOMAIN config.routes : Satisfies(config.routes[k], a.http)}
  IN  /\ (a.status = 400) <=> /\ rooted
                             /\ \/ {"ctl", "%2f"} \cap Range(in.path) # {}
                                \/ Escapes(Segments(in.path))
      /\ a.status # 400 =>
           /\ rooted => a.http.path = Canonical(in.path)
           /\ (a.status = 404) <=> (satisfying = {})
      /\ a.status = 0 =>
           /\ a.route \in satisfying
           /\ \A k \in satisfying : LET s == config.routes[a.route]
                                        r == config.routes[k]
                                    IN  ~Outranks(r, s) /\ (k < a.route => Outranks(s, r))
           /\ LET s == config.routes[a.route] IN
              IF s.strip_prefix = NONE \/ ~IsPrefix(s.strip_prefix, a.http.path)
              THEN a.forwarded = a.http.path
              ELSE /\ a.forwarded[1] = "/"
                   /\ IsPrefix(Names(s.strip_prefix), Names(a.http.path)) =>
                        IsBelow(a.forwarded, s.strip_prefix, a.http.path)

WellRoutedTable ==
  [c \in DOMAIN Config |-> [in \in Inbound[c] |-> WellRouted(Config[c], in, Admitted[c][in])]]

(***************************************************************************)
(* A request is refused as malformed exactly when its path is ambiguous or *)
(* climbs above the root; otherwise the path that is matched, shown to the *)
(* filters and forwarded is the one an origin would resolve it to, the     *)
(* route is one that satisfies it on whole segments and that no satisfying *)
(* route outranks (the earliest of equals), there is a 404 only if no      *)
(* route satisfies it, and a rewrite leaves a rooted path, without the     *)
(* segments of the stripped prefix where the path is below it              *)
(* (normalize_path, select, rewrite_path).                                 *)
(***************************************************************************)
RoutedAsMeant ==
  \A t \in Tasks : task[t].pc # "idle" => WellRoutedTable[candidate][task[t].in]

ServableTable == [c \in DOMAIN Config |-> Servable(Sources[c], Config[c])]

(***************************************************************************)
(* A manifest that is accepted can be served: every filter it runs is      *)
(* pinned, signed by a trusted key and bound to its SBOM, and has budgets  *)
(* it can run in; every split serves exact proportions of known groups;    *)
(* every hash table is complete; every limiter can grant; every host name  *)
(* has one certificate that matches its key (build_active, reconcile).     *)
(***************************************************************************)
ConfigServable == status = "serving" => ServableTable[candidate]

(***************************************************************************)
(* However requests interleave and the clock moves, a limiter cell grants  *)
(* no more than its burst and the refills of the seconds that passed       *)
(* between its first consultation and its latest (NativeRateLimit::check,  *)
(* apply_bucket).                                                          *)
(***************************************************************************)
GrantsBounded ==
  \A k \in DOMAIN ledger :
    ledger[k].granted > 0 =>
      ledger[k].granted <= Limit(k[1]).burst
        + Limit(k[1]).rate * ((ledger[k].hi \div Interval) - (ledger[k].first \div Interval))

(***************************************************************************)
(* Whoever comes back after the Retry-After of a 429, no one else having   *)
(* been admitted from the same cell since and the clock not having been    *)
(* set back, is admitted (synth_retry_after, apply_bucket).                *)
(***************************************************************************)
RetryHonest ==
  \A t \in Tasks : task[t].pc = "429" => task[t].due = Unset \/ task[t].now < task[t].due

(***************************************************************************)
(* The split answers 503 only if no instance of the route's backends       *)
(* stayed eligible throughout the pick, although the early-out and the     *)
(* walk read the instances one by one, and the two bits of each one after  *)
(* the other, while they fail, recover and are ejected (WeightedBackends:: *)
(* pick, UpstreamGroup::has_eligible).  Of a group it does not hold: a     *)
(* pick may miss two instances of which always one is eligible.            *)
(***************************************************************************)
SplitNeverSpurious == \A t \in Tasks : task[t].pc = "503" => task[t].steady = {}
============================================================================
