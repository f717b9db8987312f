------------------------------ MODULE Manifest -----------------------------
(***************************************************************************)
(* The manifest: its defaults (crates/control/src/manifest/mod.rs), its    *)
(* validation (validate.rs, route.rs), its lowering to load options        *)
(* (lowering.rs, LoadOptions of crates/host/src/lib.rs) and its build into *)
(* a live configuration (build_active of crates/control/src/lib.rs).       *)
(*                                                                         *)
(* A source is [manifest, store]: what the operator wrote and the layouts  *)
(* it refers to.  Sizes and times are scaled down; Unset is an absent      *)
(* optional number, NONE an absent optional name.  The timeouts, breaker,  *)
(* health and outlier settings of an upstream are parameters of the        *)
(* modules that model their use.                                           *)
(***************************************************************************)
EXTENDS Routing, WeightedSplit, Maglev, Provenance

CONSTANTS
  MAX_INSTANCE_WEIGHT,
  MAX_HASH_TABLE_SIZE,
  Ceiling,              \* the host's ceilings on outbound timings and sizes
  Murmur                \* address -> <<h1, h2>>, the two halves of its hash

ASSUME ManifestAssumption == Ceiling \in Nat \ {0} /\ U16Max \in Nat

Unset == -1
Or(value, default) == IF value = Unset THEN default ELSE value

----------------------------------------------------------------------------
(* Entries with every optional field absent, as the parser fills them in.  *)

NoHash == [key |-> NONE, header |-> NONE, table_size |-> Unset]
NoLimit == [rate |-> Unset, burst |-> Unset, key |-> NONE]
NoBucket == [capacity |-> Unset, refill_tokens |-> Unset, refill_interval_ms |-> Unset]
NoOutbound == [allow |-> <<>>, declared |-> FALSE]

\* An address without a weight has weight 1.
Address(a) == [address |-> a, weight |-> 1]

Upstream(name, addresses) ==
  [name |-> name, addresses |-> addresses, lb_algorithm |-> "round_robin", hash |-> NoHash,
   outlier_detection |-> FALSE]

RouteMatch(prefix) ==
  [host |-> NONE, path_prefix |-> prefix, method |-> NONE, headers |-> {}, query |-> {}]

Route(prefix) ==
  [match |-> RouteMatch(prefix), filters |-> <<>>, upstream |-> NONE, backends |-> <<>>,
   strip_prefix |-> NONE, rate_limit |-> NoLimit]

FilterEntry(id, source, digest) ==
  [id |-> id, source |-> source, digest |-> digest, isolation |-> "untrusted",
   init_deadline_ms |-> Unset, request_deadline_ms |-> Unset, max_memory_bytes |-> Unset,
   ratelimit |-> NoBucket, outbound |-> NoOutbound]

\* An outbound section that names destinations <<scheme, host, port>>.
OutboundConfig(allow) ==
  [declared |-> TRUE, allow |-> allow, allow_private |-> <<>>, connect_timeout_ms |-> Unset,
   total_timeout_ms |-> Unset, max_response_bytes |-> Unset, max_concurrent |-> Unset]

----------------------------------------------------------------------------
(* Validation.                                                             *)

\* Trial division by 2 and by the odd numbers up to the root.
IsPrimeOddMut(n) == n >= 2 /\ (n % 2 = 0 => n = 2)

is_prime(n) ==
  /\ n >= 2
  /\ n % 2 = 0 => n = 2
  /\ \A d \in {k \in 3..n : k * k <= n /\ k % 2 = 1} : n % d # 0

\* Upstream::validate_lb
validate_lb(up) ==
  /\ \A i \in DOMAIN up.addresses : up.addresses[i].weight \in 1..MAX_INSTANCE_WEIGHT
  /\ (up.lb_algorithm = "maglev") <=> (up.hash # NoHash)
  /\ up.hash # NoHash =>
       /\ up.hash.key = "header" => up.hash.header \notin {NONE, "blank"}
       /\ up.hash.table_size <= MAX_HASH_TABLE_SIZE
       /\ is_prime(up.hash.table_size)
       /\ Len(up.addresses) <= up.hash.table_size
       /\ Len(up.addresses) <= U16Max

\* FilterEntry::validate_outbound, in a build with the outbound-http feature
validate_outbound(ob) ==
  /\ ob.allow # <<>>
  /\ \A i \in DOMAIN ob.allow : ob.allow[i].host # "blank" /\ ob.allow[i].port # 0
  /\ \A i \in DOMAIN ob.allow_private : ob.allow_private[i] # "malformed"
  /\ 0 \notin {ob.connect_timeout_ms, ob.total_timeout_ms, ob.max_response_bytes, ob.max_concurrent}

\* FilterEntry::validate
validate(f) ==
  /\ 0 \notin {f.init_deadline_ms, f.request_deadline_ms, f.max_memory_bytes}
  /\ f.ratelimit # NoBucket =>
       /\ f.ratelimit.capacity # 0
       /\ f.ratelimit.refill_tokens > 0 => f.ratelimit.refill_interval_ms # 0
  /\ f.outbound.declared => validate_outbound(f.outbound)

\* Route::targets: exactly one of upstream and backends.
HasTargets(r) == (r.upstream # NONE) # (r.backends # <<>>)

targets(r) == IF r.upstream # NONE THEN << <<r.upstream, 1>> >> ELSE r.backends

\* route::validate_routes
validate_routes(routes, filters, upstream_names) ==
  \A k \in DOMAIN routes :
    LET r == routes[k]
        ts == targets(r)
    IN  /\ HasTargets(r)
        /\ \A i \in DOMAIN ts : ts[i][1] \in upstream_names
        /\ validate_split([i \in DOMAIN ts |-> ts[i][2]])
        /\ Range(r.filters) \subseteq filters
        /\ r.rate_limit # NoLimit => r.rate_limit.rate # 0 /\ r.rate_limit.burst # 0

\* tls::build_server_configs: every certificate loads with a key that matches it,
\* one per SNI host and at most one default (host NONE).
build_server_configs(tls) ==
  /\ \A i \in DOMAIN tls : tls[i].chain = "ok" /\ tls[i].key = "ok" /\ tls[i].matches
  /\ \A i, j \in DOMAIN tls : tls[i].host = tls[j].host => i = j

\* UpstreamRegistry::reconcile, the checks before it changes anything
Reconcilable(upstreams) ==
  /\ \A i \in DOMAIN upstreams : upstreams[i].addresses # <<>> /\ validate_lb(upstreams[i])
  /\ \A i, j \in DOMAIN upstreams : upstreams[i].name = upstreams[j].name => i = j

----------------------------------------------------------------------------
(* Lowering.                                                               *)

Clamp(n, lo, hi) == IF n < lo THEN lo ELSE IF n > hi THEN hi ELSE n

default_port(scheme) == IF scheme = "https" THEN 443 ELSE 80

\* LoadOptions::with_outbound
with_outbound(ob) ==
  [allow |-> {[scheme |-> ob.allow[i].scheme, host |-> ob.allow[i].host,
               port |-> Or(ob.allow[i].port, default_port(ob.allow[i].scheme))] :
                i \in DOMAIN ob.allow},
   allow_private |-> Range(ob.allow_private) \ {"malformed"},
   connect_timeout |-> Clamp(Or(ob.connect_timeout_ms, 2), 1, Ceiling),
   total_timeout |-> Clamp(Or(ob.total_timeout_ms, 3), 1, Ceiling),
   max_response_bytes |-> Clamp(Or(ob.max_response_bytes, 2), 1, Ceiling),
   max_concurrent |-> Clamp(Or(ob.max_concurrent, 2), 1, Ceiling)]

\* LoadOptions::trusted and untrusted: a trusted filter has the larger init budget.
LoadOptions(isolation) ==
  [isolation |-> isolation,
   init_deadline_ms |-> IF isolation = "trusted" THEN 4 ELSE 2,
   request_deadline_ms |-> 2,
   max_memory_bytes |-> 4,
   ratelimit_bucket |-> NoBucket,
   outbound |-> <<>>]

\* FilterEntry::load_options: what the entry sets overrides the default.
load_options(f) ==
  LET default == LoadOptions(f.isolation) IN
  [default EXCEPT
     !.init_deadline_ms = Or(f.init_deadline_ms, @),
     !.request_deadline_ms = Or(f.request_deadline_ms, @),
     !.max_memory_bytes = Or(f.max_memory_bytes, @),
     !.ratelimit_bucket = f.ratelimit,
     !.outbound = IF f.outbound.declared THEN <<with_outbound(f.outbound)>> ELSE @]

----------------------------------------------------------------------------
(* build_active: the stages in order, and what it makes of a source.       *)

\* What a filter entry's source resolves to.
resolve(src, f) ==
  IF f.source \notin DOMAIN src.store THEN Absent ELSE read_layout(src.store[f.source], f.digest)

FiltersLoad(src) ==
  LET fs == src.manifest.filters IN
  \A i \in DOMAIN fs :
    /\ \A j \in 1..(i - 1) : fs[j].id # fs[i].id
    /\ validate(fs[i])
    /\ resolve(src, fs[i]).ok
    /\ load_inner(src.manifest.trust, fs[i].id, resolve(src, fs[i]).artifact,
                  load_options(fs[i]))

FilterIds(m) == {m.filters[i].id : i \in DOMAIN m.filters}
UpstreamNames(m) == {m.upstreams[i].name : i \in DOMAIN m.upstreams}

\* Reading the manifest and the trust keys, then build_active up to and with the
\* reconcile, which is the last step that can fail.
Accepted(src) ==
  LET m == src.manifest IN
  /\ src.parses
  /\ "malformed" \notin m.trust
  /\ FiltersLoad(src)
  /\ Range(m.chain) \subseteq FilterIds(m)
  /\ validate_routes(m.routes, FilterIds(m), UpstreamNames(m))
  /\ build_server_configs(m.tls)
  /\ Reconcilable(m.upstreams)

LoadedFilter(src, f) ==
  LET a == resolve(src, f).artifact IN
  [artifact |-> a, options |-> load_options(f), reads_body |-> a.component.data.body]

\* A reconciled group: its instances, whether it ejects outliers, and its table
\* if it has one.
Group(up) ==
  [instances |-> up.addresses,
   outlier_enabled |-> up.outlier_detection,
   table |-> IF up.lb_algorithm # "maglev" THEN <<>>
             ELSE <<build([i \in DOMAIN up.addresses |->
                             [h1 |-> Murmur[up.addresses[i].address][1],
                              h2 |-> Murmur[up.addresses[i].address][2],
                              weight |-> up.addresses[i].weight]],
                          up.hash.table_size)>>]

CompiledRoute(r, filters) ==
  [host |-> r.match.host, path_prefix |-> r.match.path_prefix, method |-> r.match.method,
   headers |-> r.match.headers, query |-> r.match.query, filters |-> r.filters,
   reads_body |-> \E i \in DOMAIN r.filters : filters[r.filters[i]].reads_body,
   backends |-> WeightedBackends(targets(r)), strip_prefix |-> r.strip_prefix,
   rate_limit |-> r.rate_limit]

\* ActiveConfig, and the registry the reconcile leaves.
Compiled(src) ==
  LET m == src.manifest
      Entry(id) == m.filters[CHOOSE i \in DOMAIN m.filters : m.filters[i].id = id]
      Named(n)  == m.upstreams[CHOOSE i \in DOMAIN m.upstreams : m.upstreams[i].name = n]
      loaded    == [id \in FilterIds(m) |-> LoadedFilter(src, Entry(id))]
  IN  [filters  |-> loaded,
       chain    |-> m.chain,
       routes   |-> [k \in DOMAIN m.routes |-> CompiledRoute(m.routes[k], loaded)],
       certs    |-> m.tls,
       registry |-> [n \in UpstreamNames(m) |-> Group(Named(n))]]

----------------------------------------------------------------------------
(* What the parser guarantees of a source, by the types it parses into:    *)
(* lists, and unsigned numbers where a number is given.                    *)

Optional == Nat \cup {Unset}

ParsedFilter(f) ==
  /\ {f.init_deadline_ms, f.request_deadline_ms, f.max_memory_bytes} \subseteq Optional
  /\ f.ratelimit = NoBucket \/ f.ratelimit.capacity \in Nat
  /\ f.outbound.declared =>
       /\ IsList(f.outbound.allow) /\ \A i \in DOMAIN f.outbound.allow : f.outbound.allow[i].port \in Optional
       /\ {f.outbound.connect_timeout_ms, f.outbound.total_timeout_ms,
           f.outbound.max_response_bytes, f.outbound.max_concurrent} \subseteq Optional

ParsedRoute(r) ==
  /\ Len(r.match.path_prefix) \in Nat
  /\ IsFiniteSet(r.match.headers) /\ IsFiniteSet(r.match.query)
  /\ IsList(r.backends) /\ \A i \in DOMAIN r.backends : r.backends[i][2] \in Nat
  /\ r.rate_limit = NoLimit \/ {r.rate_limit.rate, r.rate_limit.burst} \subseteq Nat

ParsedUpstream(up) ==
  /\ IsList(up.addresses)
  /\ \A i \in DOMAIN up.addresses :
       /\ up.addresses[i].weight \in Nat
       /\ {Murmur[up.addresses[i].address][1], Murmur[up.addresses[i].address][2]} \subseteq Nat
  /\ up.hash.table_size \in Optional

\* The layers of an image manifest are a list.
ParsedLayout(layout) ==
  layout.manifests # <<>> /\ layout.manifests[1].hex \in DOMAIN layout.blobs =>
    IsList(layout.blobs[layout.manifests[1].hex].data)

Parsed(src) ==
  LET m == src.manifest IN
  /\ IsList(m.filters) /\ \A i \in DOMAIN m.filters : ParsedFilter(m.filters[i])
  /\ IsList(m.routes) /\ \A k \in DOMAIN m.routes : ParsedRoute(m.routes[k])
  /\ IsList(m.upstreams) /\ \A i \in DOMAIN m.upstreams : ParsedUpstream(m.upstreams[i])
  /\ \A name \in DOMAIN src.store : ParsedLayout(src.store[name])

----------------------------------------------------------------------------
(* What a configuration needs to serve.                                    *)

\* The provenance of a loaded filter, from the bytes up: the store holds a
\* manifest that hashes to the pin and names the component that hashes to what a
\* trusted key signed, and a signed SBOM is about that very component.
Provenanced(src, f, loaded) ==
  LET a == loaded.artifact
      layout == src.store[f.source]
  IN  /\ \E h \in DOMAIN layout.blobs :
           /\ layout.blobs[h].hash = f.digest
           /\ \E i \in DOMAIN layout.blobs[h].data :
                layout.blobs[h].data[i].hex = a.component.hash
      /\ a.component_signature.data.over = a.component.hash
      /\ a.sbom_signature.data.over = a.sbom.hash
      /\ {a.component_signature.data.key, a.sbom_signature.data.key} \subseteq src.manifest.trust
      /\ a.component.hash \in a.sbom.data.subjects

\* A filter can run: its budgets are positive, its bucket can grant, and its
\* outbound policy names somewhere to go and lets one call finish.
Runnable(o) ==
  /\ o.init_deadline_ms > 0 /\ o.request_deadline_ms > 0 /\ o.max_memory_bytes > 0
  /\ o.ratelimit_bucket # NoBucket => o.ratelimit_bucket.capacity > 0
  /\ \A i \in DOMAIN o.outbound :
       LET p == o.outbound[i] IN
       /\ p.allow # {} /\ \A d \in p.allow : d.port > 0
       /\ {p.connect_timeout, p.total_timeout, p.max_response_bytes, p.max_concurrent}
            \subseteq 1..Ceiling

\* A walk of the table meets every group of the split, and nothing else.
SplitComplete(split) ==
  /\ split.groups \in Seq(Range(split.groups))
  /\ split.table \in Seq(DOMAIN split.groups) /\ split.table # <<>>
  /\ Range(split.table) = DOMAIN split.groups

\* The weight the targets give to the upstreams X; one may be listed twice.
Shares(ts, X) == [i \in DOMAIN ts |-> IF ts[i][1] \in X THEN ts[i][2] ELSE 0]

\* Each upstream is served in exact proportion to its weight, the drained ones
\* never, and each is a group of the registry.
SplitExact(ts, split, registry) ==
  LET names == {ts[i][1] : i \in DOMAIN ts}
      Served(name) == Cardinality({j \in DOMAIN split.table : split.groups[split.table[j]] = name})
  IN  /\ SplitComplete(split)
      /\ Range(split.groups) \subseteq DOMAIN registry
      /\ \A name \in names :
           Served(name) * SumOf(Shares(ts, names)) = Len(split.table) * SumOf(Shares(ts, {name}))

\* The build of the table ends, fills it with instances there are, gives everyone
\* a share, and equal weights shares that differ by at most one.
TableUsable(group) ==
  \A x \in DOMAIN group.table :
    LET table == group.table[x]
        insts == group.instances
    IN  /\ ~table.stuck
        /\ Range(table.entry) \subseteq DOMAIN insts
        /\ \A i \in DOMAIN insts : Share(table, i) > 0
        /\ \A i, j \in DOMAIN insts :
             insts[i].weight = insts[j].weight => Share(table, i) <= Share(table, j) + 1

Servable(src, config) ==
  /\ \A i \in DOMAIN src.manifest.filters :
       LET f == src.manifest.filters[i] IN
       /\ Provenanced(src, f, config.filters[f.id])
       /\ Runnable(config.filters[f.id].options)
  /\ Range(config.chain) \subseteq DOMAIN config.filters
  /\ \A k \in DOMAIN config.routes :
       LET r == config.routes[k] IN
       /\ Range(r.filters) \subseteq DOMAIN config.filters
       /\ SplitExact(targets(src.manifest.routes[k]), r.backends, config.registry)
       /\ r.rate_limit # NoLimit => r.rate_limit.burst > 0 /\ r.rate_limit.rate > 0
  /\ \A n \in DOMAIN config.registry :
       config.registry[n].instances # <<>> /\ TableUsable(config.registry[n])
  /\ \A i, j \in DOMAIN config.certs :
       config.certs[i].matches /\ (i # j => config.certs[i].host # config.certs[j].host)
============================================================================
