# Plecto: a TLA+ verification project

Plecto is an HTTP proxy whose filters are WebAssembly components. Three crates
carry its logic: `host` runs filters and keeps their state, `control` owns the
configuration, the upstreams and their health, `server` moves requests. This
directory models the parts of them that are concurrent, time-dependent or can
fail half-way, and the pure decisions those parts rest on; it checks them with
TLC on small instances and proves the most important results with TLAPS for all
instances. `PROJECT.json` links every definition to the lines it models, every
property to the run that checks it and every hazard of the code to the
properties that watch it.

## The system

| Part | State it keeps | Operations | What makes it correct |
|---|---|---|---|
| Listeners (`server/src/listener.rs`, `h3/endpoint.rs`) | connection permits, tasks, drain flag | accept, serve, shut down | permits exact, nothing cut early, shutdown ends |
| Manifest and artifacts (`control/src/manifest/`, `lib.rs`, `oci.rs`, `artifact.rs`, `tls.rs`) | none | load, verify, lower | what is accepted can be served, and is what was signed |
| Routing (`route.rs`) | none | `normalize_path`, `select`, `rewrite_path` | one reading of a path, the most specific route |
| Rate limit (`ratelimit.rs`, `host/src/backend.rs`) | a bucket per route or client slot | `check_at`, `apply_bucket` | no more grants than time allows, honest Retry-After |
| Split (`weighted.rs`) | a schedule and a cursor | `pick` | exact shares, no spurious outage |
| Filter chain (`chain.rs`, `snapshot.rs`, `server/src/proxy.rs`, `host/src/lib.rs`) | the pinned generation, the message | request, body and response hooks | forwarded only if passed, responses mirrored, headers intact |
| Outbound calls (`host/src/outbound*.rs`) | a permit per call | policy, lookup, dial, exchange | only vetted addresses dialled, a call ends |
| Transaction (`proxy.rs`, `forward.rs`, `retry.rs`, `body.rs`) | per request: tries, deadline, permit, pick; a gauge | one request from door to answer | no double effect, bounded attempts, always answered |
| Circuit breaker (`upstream/circuit_breaker.rs`) | `in_flight` | `try_acquire`, permit drop | cap respected, every permit returned once |
| Load balancing (`upstream/lb.rs`, `maglev.rs`) | cursor, per-instance load, table | `pick`, `pick_excluding`, guard drop | no spurious refusal, retries move on, load exact |
| Instance health (`upstream/instance.rs`) | two streaks, `ever_healthy`, the rotation bit | probe and passive results | the bit follows the history with its thresholds |
| Outlier detection (`upstream/outlier.rs`) | streak, ejections, window | `record_outcome` | bounded overshoot of the ejection cap, bounded windows |
| Reload (`control_reload.rs`, `reload.rs`, `lib.rs`, `upstream/registry.rs`) | active configuration, registry | `reload_from_disk`, `build_active`, `reconcile` | all or nothing, health kept, no edit lost |
| Health supervisor (`server/src/health.rs`) | last probe per address | one loop, `probe_once` tasks | every address probed, results reach the right instance |
| Trusted pool (`host/src/lib.rs`) | idle instances, `live`, trap streak, cooldown, a condvar | `checkout`, `run_pooled`, `clear_breaker` | slots counted exactly, never more instances than `cap`, no lost wakeup |
| Host-held state (`host/src/lib.rs`, `backend.rs`) | a key-value map, charges per filter and in total | `set`, `delete`, `increment`, `try_acquire`, `admit`, `release` | charges match what is held, caps hold in the store |

How they meet: a connection takes a permit and becomes requests. A request takes
a snapshot of the active configuration, whose routes hold `Arc`s of upstream
groups; it is routed, limited, shown to the filters and given a group by the
split. It picks an instance through the load balancer, which reads health and
outlier bits, takes a permit of the group's breaker, and reports its outcome to
both detectors; the response goes back through the filters. The supervisor probes
the groups of the registry, not of the active configuration; a reload replaces
both, one after the other. Filters run in pool instances or fresh ones, on
threads that outlive a request whose client went away, and call the host's state
functions and the network from there. The hard behaviours are these meetings:
counts taken lock-free while others change what is counted, clocks read before a
lock, probes that return after a reload, tasks dropped at an await, wakeups,
permits that several paths must give back, and build steps that fail after
others succeeded.

## Modules

| Module | Models | An action is |
|---|---|---|
| `TrustedPool` | checkout and check-in of pool instances | a critical section, or the unlocked work between two |
| `BoundedSlots` | abstract: at most `Max` slots | taking or returning one |
| `CircuitBreaker` | `try_acquire`, `RequestPermit` | one atomic instruction; implements `BoundedSlots` |
| `Transaction` | `proxy_core` to `forward_with_retry`, over `CircuitBreaker` | what a task does between two awaits |
| `InstanceHealth` | `record_probe_*`, `record_passive_failure` | one call, made under the counters' mutex |
| `UpstreamGroup` | the instances of a group, for the next two modules | (constants) |
| `OutlierDetection` | `record_outcome` | the parts under the mutex, and one lock-free read each |
| `LoadBalancer` | the three pick algorithms, load guards, retry hand-off | one read of an instance's eligibility, or a pass's end |
| `ConfigReload` | reload thread, registry, supervisor, probes | a step of the reload thread, a supervisor turn, a probe's result |
| `KvQuota` | quota and the state functions that charge it | one lock's critical section |
| `Listener` | both accept loops, connection tasks, drain | one branch of a `select!`, or a task's next event |
| `FrontDoor` | loading a manifest; a request up to the choice of a group | the load, a clock read, a bucket's critical section, one load of an instance's health or ejection |
| `FilterChain` | a request's hooks, body buffering, outbound calls, reload | a hook's return, or what happens between two awaits |
| `Routing`, `TokenBucket`, `WeightedSplit`, `Maglev`, `Provenance`, `Manifest` | the pure parts `FrontDoor` is built from | (operators) |
| `Headers`, `Outbound` | the pure parts `FilterChain` is built from (`FrontDoor` uses `Headers` too) | (operators) |
| `Lists` | filtering a list, for the modules above | (operators) |

`MC*` modules give constants values and state bounds and symmetry. `*_proofs`
modules hold theorems, and `Folding` those about folds over lists that the
proofs share; `Server_proofs` is about `Transaction` and `Listener`,
`Host_proofs` about `TrustedPool` and `KvQuota`, `Upstream_proofs` about
`InstanceHealth`, `OutlierDetection` and `LoadBalancer`, the others about the
module they are named after. Operators whose name ends in `Mut` are wrong on purpose:
each is a plausible bug in the definition that follows it, and putting it in
that definition's place makes TLC report the property that `PROJECT.json` pairs
it with. No specification uses them.

Names follow the source. Where a variable merges several fields, its comment
says so. Abstractions worth knowing:

* `TrustedPool`: the wall clock is where it stands against `cooldown_until_ms`;
  it may step back, as `SystemTime` may. The trap streak saturates at `U32Max`.
* `LoadBalancer`: eligibility is one bit per instance that flips at any moment
  (`InstanceHealth` and `OutlierDetection` decide when); the Maglev table is any
  function, so the result does not depend on hashing. `Maglev` shows what is built.
* `Transaction`: a pick is any instance or none. Time is two events, "the
  attempt's timer fires" and "the overall deadline has passed".
* `ConfigReload`: a manifest is its upstreams, a token for all else, and the
  stage that rejects it, if one does. `born` tells two `Arc`s of one address
  apart. Hysteresis is left open after the first success. Probes in flight are a
  set: two of the same instance and policy count as one. The addresses of an
  upstream are a list, in which one may occur twice: nothing refuses that. A signal that finds
  another pending is merged with it, as `signal_hook` does.
* `KvQuota`: a value is its length, every key has length one. Counters and
  buckets are keys with a fixed length that are never deleted. `ApartSpec` is
  `Spec` without the steps that bring two calls of one filter to the same key at
  once, which is where the accounting breaks (`kv_race`). What is held is a set
  of units, so that sums are cardinalities.
* `Listener`: connections are used once; what a request does is left out. A
  request of HTTP/1.1 is part of its connection's task; those of h2 (which hyper
  spawns through `TokioExecutor`) and of h3 are tasks of their own. `busy` counts
  the requests whose stream is open, `loose` holds the connections with requests
  that have lost theirs, by a reset or with the connection, and still run.
* `FrontDoor`: a path is a sequence of tokens (`/`, names, dots, one escaped
  slash, one control character). Hashes are ideal: a blob's hash is an
  identifier, a signature says which key signed which hash. The tables `Config`
  and `Admitted` hold the results of the pure operators, computed once; the variable `active` has what a
  request in flight uses of them. Instances start out of rotation; where a
  manifest has no second group to choose from, one that was put into rotation
  stays there. Ejections begin and end at any moment; the clock they are
  measured against is taken not to step back within one look at a group.
* `Maglev`: `fill` is the loop, `build` the table with its `u16` indices.
* `Manifest`: `Parsed` is what the parser guarantees by its types (lists,
  unsigned numbers), and all that the proofs assume of a manifest and of the
  hashes behind the Maglev table.
* `FilterChain`: a filter's edit is fixed, whether it makes it is open. The
  upstream exchange is one step (`Transaction` has the rest) and its timeout is
  not zero. What leaves over TCP goes through `attach_alt_svc` (`Respond`); the
  tasks in `OverQuic` do not, and they are not dropped with their client, since
  `handle_h3_request` runs to its end. A task is one request. `trail` and `edits` record who passed and who
  changed what.

## Runs

| Run | Shows | Bounds |
|---|---|---|
| `pool` | exact slots, physical cap, cooldown only after a streak, nobody stranded, every call returns | 5 threads, 2 instances: three may wait for two, or a waiter, a builder, a holder and newcomers meet; recycling after 2 calls, breaker at 2 traps |
| `health` | the bit equals a definition over the whole history; no overdue transition | histories up to 11, thresholds 2 and 3, `u32` limit 4 so saturation happens |
| `outlier` | overshoot at most one instance per extra task, streaks resolved, windows bounded | 2 tasks, 3 instances, clock to 3, base window of one tick so that a third ejection meets the cap |
| `lb` | no spurious `None` for round robin and Maglev, retries move on, load exact | 2 tasks, 3 instances, all algorithms, cursor that wraps at 4 |
| `transaction` | breaker counter exact and a bounded set of slots, no double effect, attempts within budget, every request answered | 2 requests of every kind, cap 1 so that one sheds or waits for the other, 2 retries, a cancellation, a per-try timeout, an overall one, or both (with neither nothing ends an attempt) |
| `transaction_gauge` (violation) | the in-flight gauge leaks when a task is dropped | one cancellation |
| `reload` | registry and routes agree, health earned and kept, every address probed, no edit lost | 2 edits among 8 manifests, the first of which lists an address twice: enough to change and revert, remove and re-add, fail and retry |
| `kv` | charges exact, caps hold in the store, totals add up | 2 filters, 3 calls, two of them in one filter but never in one key (`ApartSpec`), 3 keys, caps that bind singly and together |
| `kv_race` (violation) | two calls of one filter break the accounting | the same keys, one filter |
| `drain` | connection permits exact, no TCP request cut before the deadline, a completed drain left no connection and no request on an open stream, shutdown ends | 2 TCP and 2 QUIC connections for 2 permits: both transports compete and one must wait; 2 streams per connection |
| `front` | accepted manifests can be served; requests are routed, limited and split as meant | see below |
| `filters` | forwarded only if every filter passed, responses mirrored, only vetted addresses dialled, headers untouched or as the filters left them (and `alt-svc` the listener's, over TCP), every request ends | see below |

`front` loads each of some sixty manifests: eleven to be served, and one for every
check of the load that differs from them in what the check is about. Requests
cover every path of three segments from seven (empty, dots, names, an escaped
slash, a control character) and routes that compete in host, prefix, method,
header and query. Two tasks race at a limiter by route and at a split of 2:4; a
limiter by client address is met by an IPv4 client, the same client mapped into
IPv6 and another that falls in another slot. The clock runs from 3 to 5 with seconds of two ticks, so
that a consultation falls inside and on the edge of a second, and steps back once
to any time; the split's cursor wraps at 4, which is no multiple of its length. One
of the groups of a split ejects outliers and has two instances, so that two of
them may trade places while they are read. `U16Max` is 3, and a manifest has one
instance more than it allows.

`filters` has two requests (one with a body), one over TCP and one over QUIC, with
HTTP/3 advertised, and two generations of a route. The
first chain is a pooled filter that calls out, then a fresh one that reads bodies
and rewrites them; the second is a fresh filter that calls out. One buffer, one
outbound permit per filter, one call per request: with two requests each limit
binds. Only one of the two may leave its call pending (`Careless`), which is
enough for it to outlive its hook while the other needs the permit. The lookup
may answer with nothing, an opted-in private address, a mixed answer or a
reserved address wrapped in IPv6.

The bodyless request has every sort of header: names that Connection lists (one of
them the proxy's own), the client's own forwarding headers, bytes that are not
UTF-8, two lines of one name; the response has two cookies and an `alt-svc` of its own,
which a filter sets too. Filters remove,
overwrite, set a name twice, set a value that reads like the client's garbled
one, one that cannot be encoded, and a hop-by-hop header.

Fairness. `pool`: each thread keeps running and each of its steps ends (epoch
deadlines cut off guests, `wait_for` has a timeout); nothing is assumed of
arrivals or of the clock. `transaction`: tasks are polled, timers fire, the
buffer semaphore is FIFO (strong fairness of its acquire); nothing is assumed of
upstreams. `reload`: the reload thread and the supervisor run and intervals pass;
probes may never end. `drain`: loops and tasks are polled when a branch is ready,
`select!` chooses among ready branches at random, and the drain timer fires;
clients, handshakes and requests may never end. `filters`: per request, one weak
fairness of "its task, its hook or a timer of its call moves": hooks are cut off
by epoch deadlines, body reads and upstreams by timeouts, calls by
`total_timeout` and, once the head is there, by the timeout between chunks.
Upstream answers, lookups and clients need not happen.

Deadlock checking is on except in `front` and `filters`: there a rejected manifest
serves nothing, and a task that has been one request stays at rest.

### Where code and comments part

* `transaction_gauge`: `proxy_core` decrements after an await and has no guard.
* `kv_race`: look-up, charge and write are not atomic for calls of one filter.
  A double charge is never given back; two deletes release twice. `kv` shows,
  and `Host_proofs` proves, that calls on different keys do not disturb each
  other, in one filter or in several.

Not runs, but worth a reader's attention:

* Each `record_outcome` holds its own instance's mutex only, so two may count
  before either ejects and the working minimum of the comment in `outlier.rs` is
  not kept. `OvershootBounded` says how far it goes.
* `least_request_pick` returns `None` when a sampled ordinal vanished between its
  passes (`lb.rs:226`), although `pick` promises `None` only "when nothing is
  eligible". `NoSpuriousNone` therefore leaves that algorithm out.
* The supervisor keeps its times by (upstream, address), and no check refuses an
  address that occurs twice in an upstream. The second instance is then never due,
  so it stays out of rotation until a reload, which gives both listings the first
  instance (`registry.rs:73`). `health.rs:5` has "every instance" probed;
  `EveryAddressProbed` is what holds.
* `WeightedBackends::pick` says its early-out "proved one exists, so this
  terminates with `Some`"; the instance it saw may fail in between.
* `SplitNeverSpurious` asks for an instance that stayed eligible throughout the
  pick. A group that always had one is not enough: `has_eligible` reads one
  instance after the other, so it misses two that trade places, and a `false` does
  not mean that "a `pick` would return `None`" (`lb.rs:277`).
* `weighted.rs:16` promises an order of service "within `< 1` of every backend's
  ideal cumulative count at all times"; with weights 1, 1, 1, 1, 4, 4 the sixth
  backend has been served twice when its share is three. Over a whole schedule
  the shares are exact, which is what `ApportionmentIsExact` says.
* A route may list one upstream twice among its backends; nothing refuses it, and
  its shares add up. `SplitExact` speaks of upstreams, not of entries, for that.
* `checkout` starts `wait_for` anew after each wakeup that it loses to another
  thread, so one checkout can block for longer than `checkout_timeout`.
* `try_acquire` may refuse while fewer than `max_requests` permits are out,
  because attempts backing out are counted too.
* `StoreWithinCaps` has an exception that TLC asked for: `set` gives the bytes of
  a smaller value back before it writes it.
* A changed weight or health policy makes a new, pessimistic instance, whose
  first probe may be an interval away because `last` is keyed by address.
* `Control::reload` is public and takes no lock between `reconcile` and `store`;
  `ConfigReload` models the server, which has one reload thread.
* A limiter cell starts as `(0, 0)` and "refills from epoch on first use": true
  once the clock has passed enough intervals since the epoch. A cell ahead of a
  clock that stepped back refuses for longer than its Retry-After, so
  `RetryHonest` makes no promise then. A reload starts every limiter anew.
* A manifest host with a port or a trailing dot is lower-cased only and matches
  nothing, while a request's is stripped of both.
* The manifest's `[chain]` is checked and loaded; a route without filters of its
  own runs none.
* `rewrite_path` strips by bytes, as its comment says: a `strip_prefix` that is not
  the match prefix can cut a segment in two (`/a` off `/ab` leaves `/b`).
  `RoutedAsMeant` asks for whole segments only where the path is below it.
* `copy_headers_preserving` restores the bytes of an untouched line by its lossy
  form, so two lines of one name with the same lossy form both get the first's
  bytes (`Ambiguous` in `FilterChain`). And a value that a filter sets goes out
  in the client's bytes if it reads like a line the client sent under that name:
  `EditsHold` says "or in the bytes of a line that reads like it".
* An outbound permit is "held for the whole call": it is given back with the
  response head, and `total_timeout` ends there too; the body is bounded by size
  and by the time between chunks. A reload gives each filter new permits.
* The body-buffer permit goes with the request future. When the client leaves
  while a body hook runs, the permit is free and the body still in memory, so
  "bounds total buffered memory" (`body.rs:20`) is not exact. The wait for a
  permit has no timeout of its own.
* `attach_alt_svc` comes after the filters and replaces what is there: over TCP, with
  `[[tls]]` configured, neither the upstream's `alt-svc` nor a filter's reaches the
  client. `HeadersClean` makes that one exception.
* h2 and h3 requests are tasks of their own, which hold no connection permit. A
  drain that is complete for permits may leave some behind whose streams are gone
  (`DrainIsComplete` speaks of requests on open streams), and the drain closes an
  h3 connection under its requests.

## Proofs

All for arbitrary constants that satisfy the named assumptions, which TLC
evaluates on the runs' instances.

* `Server_proofs`, the breaker: `CounterIsExact`, `CapIsRespected`,
  `BreakerImplementsSlots`. The invariant says that `in_flight` is the number of
  requests with a permit or backing out; the argument is how the cardinality
  moves when one request joins or leaves a finite set. With it, a `FetchAdd` that
  sees less than the cap is a step of `BoundedSlots`, and the rest stutter.
* `Server_proofs`, requests: `TransactionUsesBreaker` (every step of a request is a
  step of `CircuitBreaker` or none), hence `TransactionCounts`; `NoEffectTwice`
  and `BudgetIsKept`. The invariant ties the history to the budget: attempts and
  tries left add up to at most `MaxRetries + 1`, a retry is under way only for a
  request without a body, and a request that is not idempotent retries only while
  nothing was delivered.
* `Host_proofs`, the pool: `SlotsAccounted`, `PhysicalIsWithinCap`,
  `NoWaiterIsStranded`, `CooldownFollowsStreak`. `NoStrandedWaiter` is not
  inductive: that a thread blocks only when the pool is full, and that a full
  pool without idle instances has an owner, needs `SlotAccounting`, and that an
  open breaker explains the remaining case needs `CooldownNeedsStreak`. `Inv` is
  their conjunction with types and "a running thread has an instance".
* `Upstream_proofs`, the three machines of an upstream:
  * outlier detection, `CapOvershoot`, `StreaksAreResolved`, `WindowsAreBounded`.
    A bound on the overshoot is not inductive by itself. What is: the ejections
    in force can be ordered and attributed to tasks so that each task's count, if
    it has one under way, takes account of its own ejections and of those before
    them; a task therefore makes no ejection after one that filled the cap, and
    those beyond the cap belong to different tasks. The provers know nothing of
    `2^n`; `PowersGrow` states what is needed of powers of two.
  * picking, `PicksAreNotSpurious`, `RetriesMoveOn`, `LoadIsExact`. The invariant
    follows both passes of a pick: what stayed eligible is among the eligible, and
    once a pass has gone by one of them the count is not zero, or the second pass
    has its target or something to fall back to; nothing it holds is the excluded
    instance, which is the one the task forwards with.
  * health, `HealthTypes`, `TransitionsAreTimely`, `HealthFollowsHistory`, for
    every pair of thresholds including zero, which the code raises to one. The
    reference definition asks for a result of the history that promoted the
    instance and none since that demoted it; the invariant says what the counters
    remember: in rotation the failures since the last success, out of it the
    successes since the last failure.
* `ConfigReload_proofs`: `RoutesMeetRegistry`, `TrafficIsEarned`,
  `ReloadKeepsHealth`, for any manifests and any number of edits. The invariant
  adds: instances are filed under their own upstream; of the listings of one
  address and weight the first alone can be in rotation; probes in
  flight run under the policy of the group that has their instance; probes and
  health concern only instances already born, so a new one has neither; and the
  old and new groups of the swap window agree on instances they share. The case
  analysis of `Instance` (reused or born now) carries the reconcile step.
* `Server_proofs`, connections: `PermitsAreExact`, `CutsAreLate`, `DrainLeavesNothing`. The
  sum of `PermitsExact` is inductive with the types; the argument is again that of
  one connection that joins or leaves a finite set. `DrainIsComplete` needs it:
  all permits home means that no connection and no loop holds one, and that a
  stream needs a live connection.
* `Host_proofs`, the quota: `ChargesWithinCaps` for all behaviours; `ChargesAreExact`,
  `TotalsAreSums`, `StoreStaysWithinCaps` for `ApartSpec`. The hypothesis is the
  weakest that helps: calls of one filter may overlap at both locks as long as
  they are on different keys, and `kv_race` is what happens otherwise. The
  invariant says that the books exist: a charge for every key of every filter,
  which is the size of what is stored there or, where a call has charged and not
  written or removed and not released, of that call's value; a filter's usage is
  the sum of its charges and the number of its keys with one.
* `FilterChain_proofs`: `ForwardedWasPassed`, `ResponsesMirror`,
  `DialledWasVetted`, `PermitsAreExact`, `BuffersAreExact`, for any chains, any
  requests and any number of reloads. `WalkInv` says of each phase which prefix
  of the pinned generation's chain has passed so far (a suffix, reversed, on the
  way back); `CallInv` that the addresses a call has left to try came out of the
  policy of the filter and the generation it belongs to, also when the request is
  gone and the generation is no longer active. The last two theorems are
  invariants no run lists: permits free and held add up, for calls that outlive
  their hooks and for requests dropped in the queue or with a buffer.
  `HeadersAreClean`, in its halves `UntouchedIsKept` and `EditsAreHeld`, rests on
  a fourth invariant, `WordInv`: along the chain, and for every name there is, the
  headers of that name are what the edits made so far say of those of the first
  view (`Word`). Neither half is inductive, since each speaks of what leaves the
  proxy at the end. The lemmas
  under it say what each operation (`Drop`, `set_headers`, `headers_to_vec`,
  `set_forwarded`, `copy_headers_preserving`) makes of the headers of one name; an
  edit of one name leaves every other alone. That inbound headers and the lists
  of an edit are lists is all that is assumed of them.
* `Folding`: what a fold computes. The provers cannot instantiate an induction
  theorem with an operator, but a module whose step is a CONSTANT operator can be
  instantiated, so the induction is done once, over sets of numbers, in a module
  that is instantiated for each loop of the code. Its lemma `FoldRuns` says that a fold has
  a run, one step per element; a property of the loop is then a set of positions
  that contains 0 and is closed under the step. `Kept` and its lemmas say the
  same of `Keep`: the elements that pass the test, in order, none twice.
* `Manifest_proofs`, for anything the parser lets through (`Parsed`):
  * `ApportionmentIsExact`, `SplitIsExact`. Along the run, the deficits add up to
    zero and each is what the backend's weight has earned minus what it was
    served; none of them ever reaches the total, so after one period each is
    zero. The gcd divides every weight, so the reduced table is in proportion.
  * `TableIsComplete`: a skip smaller than a prime size visits every slot before
    it comes back, so a probe ends; a turn that does not end fills a slot; the
    weighted turns serve equal weights equally often. As many instances as a
    `u16` has indices keep their own in the cast, and `validate_lb` admits no more.
  * `AcceptedIsServable`: check by check, what `Accepted` implies of `Compiled`.
* `FrontDoor_proofs`:
  * `SelectedIsBest`: `select` returns a matching route that no matching route
    outranks, the earliest of equals. The order on keys is shown strict and total
    on keys that differ in their index, so a maximum of finitely many exists.
  * `GrantsAreBounded`, `RetriesAreHonest`. The invariant of a cell is a budget:
    tokens left and grants made are at most one burst and the refills of the
    seconds seen, `last_refill` is the start of the latest of them (so a clock
    that steps back refills nothing twice), and a promise made since the last
    grant is at least one interval after it. A consultation that refuses leaves
    no token and saw no refill, so it comes before every such promise. Needs that
    accepted limits are positive, which is proved of `validate_routes`, and that
    the clock stays within `u64`.
  * `ServingIsServable`: the configuration in force is one that was accepted, so
    `AcceptedIsServable` is about it.
  * `SplitsAreNotSpurious`: every instance a pick has passed was unhealthy or
    ejected at some moment of it, so it is not among those that stayed eligible,
    which are healthy and, once the clock is read, clear; and from any cursor one turn of the table meets every group,
    which is `ServingIsServable`'s `SplitComplete`.

Only model-checked:

* all liveness (`EveryCheckoutEnds`, `EveryRequestAnswered`,
  `EveryAddressProbed`, `EditTakesEffect`, `ShutdownEnds`, `EveryRequestEnds`),
  which is out of this prover's reach;
* `RoutedAsMeant`, about what splitting, resolving and joining a path compute.
  `SelectedIsBest` is the part of it that concerns the choice of a route.

## Not modelled

* Telemetry (`observe.rs`): spans and sampling, which no decision reads.
* The streaming prototype (`streaming.rs`): one guest call inside wasmtime, with
  no state between calls; the server does not use it.
* The hyper client and the body adapters (`upstream_client.rs`, `h3/body.rs`):
  their outcomes are events of `Transaction` and `FilterChain`.
* Reading certificates and keys, the handshake, and the redb backend, which only
  an embedder can choose.
* TOML syntax and the encoding behind `content_hash`: a manifest parses or not,
  and two manifests are equal or not.
* The experiments under `spike/` and the example filters.

## Plan

1. Done: pool, breaker, health, outlier detection, load balancing, transaction
   over the breaker, reload with registry and supervisor, quota, listeners and
   drain, the front door with its pure parts, the filter chain with outbound
   calls; proofs about all of them.
2. Next compositions: the transaction with a real picker and detectors in place
   of the open pick; the filter chain over the pool.
3. Next theorems: the dot segments of a path (`RoutedAsMeant`), types of
   `ConfigReload`.
