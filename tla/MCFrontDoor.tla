---------------------------- MODULE MCFrontDoor ----------------------------
(***************************************************************************)
(* The front door with a catalogue of manifests: a handful that a careful  *)
(* operator would write, and for every check of the load one that differs  *)
(* from them in the one respect the check is about.                        *)
(***************************************************************************)
EXTENDS FrontDoor

----------------------------------------------------------------------------
(* One signed filter and its layout.                                       *)

File(hash, len, data) == [hash |-> hash, len |-> len, symlink |-> FALSE, data |-> data]
Desc(media, hex) == [media |-> media, algo |-> "sha256", hex |-> hex, size |-> 1]

Layers == << Desc("component", "c"), Desc("component_signature", "cs"),
             Desc("sbom", "sb"), Desc("sbom_signature", "ss") >>

Layout ==
  [index |-> "ok",
   manifests |-> <<Desc("manifest", "m")>>,
   blobs |-> [m  |-> File("m", 1, Layers),
              c  |-> File("c", 1, [links |-> TRUE, init |-> "ok", body |-> FALSE]),
              cs |-> File("cs", 1, [key |-> "release", over |-> "c"]),
              sb |-> File("sb", 1, [statement |-> TRUE, subjects |-> {"c"}]),
              ss |-> File("ss", 1, [key |-> "release", over |-> "sb"])]]

Blob(hex, file) == [Layout EXCEPT !.blobs[hex] = file]

----------------------------------------------------------------------------
(* Manifests.                                                              *)

Api  == <<"/", "a">>
Root == <<"/">>

Auth == FilterEntry("auth", "oci", "m")
One  == Upstream("one", <<Address("x")>>)
Two  == Upstream("two", <<Address("y"), Address("z")>>)
Lone == Upstream("two", <<Address("y")>>)
Outliers == [Two EXCEPT !.outlier_detection = TRUE]
To(r, name) == [r EXCEPT !.upstream = name]
Over(r, ts) == [r EXCEPT !.backends = ts]

Halves == <<Over(Route(Root), << <<"one", 2>>, <<"two", 4>> >>)>>

Base == [trust |-> {"release"}, filters |-> <<Auth>>, chain |-> <<>>,
         upstreams |-> <<One, Two>>,
         routes |-> <<[To(Route(Root), "one") EXCEPT !.filters = <<"auth">>]>>,
         tls |-> <<>>]

Src(m)       == [parses |-> TRUE, manifest |-> m, store |-> [oci |-> Layout]]
Stored(l)    == [parses |-> TRUE, manifest |-> Base, store |-> [oci |-> l]]
Filtered(f)  == Src([Base EXCEPT !.filters = <<f>>])
Routed(rs)   == Src([Base EXCEPT !.routes = rs])
Grouped(up)  == Src([Base EXCEPT !.upstreams = <<One, up>>])
Secured(tls) == Src([Base EXCEPT !.tls = tls])

Limited(key) == [To(Route(Root), "one") EXCEPT
                   !.rate_limit = [rate |-> 2, burst |-> 2, key |-> key]]

Maglev2(size, addresses) ==
  [Upstream("two", addresses) EXCEPT
     !.lb_algorithm = "maglev", !.hash = [key |-> "client_ip", header |-> NONE, table_size |-> size]]

Weighted(a, w) == [address |-> a, weight |-> w]
Cert(host) == [host |-> host, chain |-> "ok", key |-> "ok", matches |-> TRUE]
Dest(host, port) == [scheme |-> "https", host |-> host, port |-> port]
Calls == OutboundConfig(<<Dest("idp", Unset)>>)

Host(name) == [name |-> name, decorated |-> FALSE]

\* Routes that compete in every dimension of the match.
Competing ==
  << To(Route(Root), "one"),
     [To(Route(Api), "two") EXCEPT !.strip_prefix = Api],
     [To(Route(Api), "one") EXCEPT !.match.method = "POST"],
     [To(Route(Api \o <<"/">>), "one") EXCEPT !.strip_prefix = Api \o <<"/">>],
     [To(Route(Root), "two") EXCEPT !.match.host = Host("b.example"), !.strip_prefix = Api],
     [To(Route(Api), "one") EXCEPT !.match.headers = {Hdr("x-beta", "1")}],
     [To(Route(Api), "one") EXCEPT !.match.headers = {Hdr("x-beta", "1"), Hdr("x-org", "q")}],
     [To(Route(Api), "two") EXCEPT !.match.query = {<<"v", "2">>}],
     To(Route(Api), "one") >>

----------------------------------------------------------------------------
MCSources ==
  [plain        |-> Src(Base),
   \* what should serve
   full         |-> Src([Base EXCEPT
                      !.chain = <<"auth">>,
                      !.filters = <<[Auth EXCEPT !.isolation = "trusted", !.init_deadline_ms = 3,
                        !.ratelimit = [capacity |-> 1, refill_tokens |-> 0, refill_interval_ms |-> 0],
                        !.outbound = [Calls EXCEPT !.total_timeout_ms = 9,
                                                   !.allow_private = <<"10.0.0.0/8">>]]>>,
                      !.tls = <<Cert(NONE), Cert("a.example")>>]),
   routing      |-> Routed(Competing),
   by_client    |-> Routed(<<Limited("client_ip")>>),
   by_route     |-> Routed(<<Limited("route")>>),
   split        |-> Src([Base EXCEPT !.upstreams = <<One, Lone>>, !.routes = Halves]),
   pair         |-> Src([Base EXCEPT !.upstreams = <<One, Outliers>>, !.routes = Halves]),
   draining     |-> Routed(<<Over(Route(Root), << <<"one", 0>>, <<"two", 3>> >>)>>),
   twice        |-> Routed(<<Over(Route(Root), << <<"one", 2>>, <<"two", 2>>, <<"one", 2>> >>)>>),
   maglev       |-> Grouped(Maglev2(5, <<Address("x"), Address("y"), Address("z")>>)),
   maglev_heavy |-> Grouped(Maglev2(11, <<Weighted("x", 3), Weighted("y", 1), Weighted("z", 1)>>)),
   lazy_init    |-> Stored(Blob("c", File("c", 1, [links |-> TRUE, init |-> "traps", body |-> TRUE]))),
   \* what should not
   unparsed     |-> [Src(Base) EXCEPT !.parses = FALSE],
   bad_key      |-> Src([Base EXCEPT !.trust = {"malformed"}]),
   untrusted    |-> Src([Base EXCEPT !.trust = {"other"}]),
   twins        |-> Src([Base EXCEPT !.filters = <<Auth, Auth>>]),
   nameless     |-> Src([Base EXCEPT !.filters = <<[Auth EXCEPT !.id = ""]>>, !.routes = <<>>]),
   no_deadline  |-> Filtered([Auth EXCEPT !.request_deadline_ms = 0]),
   no_capacity  |-> Filtered([Auth EXCEPT !.ratelimit =
                      [capacity |-> 0, refill_tokens |-> 1, refill_interval_ms |-> 1]]),
   no_interval  |-> Filtered([Auth EXCEPT !.ratelimit =
                      [capacity |-> 1, refill_tokens |-> 1, refill_interval_ms |-> 0]]),
   no_dest      |-> Filtered([Auth EXCEPT !.outbound = OutboundConfig(<<>>)]),
   port_zero    |-> Filtered([Auth EXCEPT !.outbound = OutboundConfig(<<Dest("idp", 0)>>)]),
   bad_cidr     |-> Filtered([Auth EXCEPT !.outbound = [Calls EXCEPT !.allow_private = <<"malformed">>]]),
   no_calls     |-> Filtered([Auth EXCEPT !.outbound = [Calls EXCEPT !.max_concurrent = 0]]),
   no_layout    |-> Filtered([Auth EXCEPT !.source = "elsewhere"]),
   other_pin    |-> Filtered([Auth EXCEPT !.digest = "c"]),
   no_index     |-> Stored([Layout EXCEPT !.index = "symlink"]),
   no_manifest  |-> Stored([Layout EXCEPT !.manifests = <<>>]),
   tampered     |-> Stored(Blob("c", [Layout.blobs.c EXCEPT !.hash = "other"])),
   linked_blob  |-> Stored(Blob("c", [Layout.blobs.c EXCEPT !.symlink = TRUE])),
   longer       |-> Stored(Blob("c", [Layout.blobs.c EXCEPT !.len = 2])),
   too_long     |-> Stored([Layout EXCEPT !.manifests[1].size = MAX_BLOB_BYTES + 1,
                                          !.blobs.m.len = MAX_BLOB_BYTES + 1]),
   no_sbom      |-> Stored(Blob("m", File("m", 1, SubSeq(Layers, 1, 2)))),
   empty_sbom   |-> Stored([Blob("sb", File("sb", 0, [statement |-> TRUE, subjects |-> {"c"}]))
                              EXCEPT !.blobs.m.data[3].size = 0]),
   other_sig    |-> Stored(Blob("cs", File("cs", 1, [key |-> "release", over |-> "b"]))),
   sbom_unsigned |-> Stored(Blob("ss", File("ss", 1, [key |-> "other", over |-> "sb"]))),
   sbom_unbound |-> Stored(Blob("sb", File("sb", 1, [statement |-> TRUE, subjects |-> {"b"}]))),
   unlinkable   |-> Stored(Blob("c", File("c", 1, [links |-> FALSE, init |-> "ok", body |-> FALSE]))),
   init_traps   |-> [Stored(Blob("c", File("c", 1, [links |-> TRUE, init |-> "traps", body |-> FALSE])))
                       EXCEPT !.manifest.filters[1].isolation = "trusted"],
   lost_chain   |-> Src([Base EXCEPT !.chain = <<"waf">>]),
   lost_filter  |-> Routed(<<[To(Route(Root), "one") EXCEPT !.filters = <<"waf">>]>>),
   nowhere      |-> Routed(<<Route(Root)>>),
   both         |-> Routed(<<Over(To(Route(Root), "one"), << <<"two", 1>> >>)>>),
   lost_group   |-> Routed(<<To(Route(Root), "three")>>),
   drained      |-> Routed(<<Over(Route(Root), << <<"one", 0>>, <<"two", 0>> >>)>>),
   too_heavy    |-> Routed(<<Over(Route(Root), << <<"one", MAX_BACKEND_WEIGHT + 1>> >>)>>),
   table_long   |-> Routed(<<Over(Route(Root), << <<"one", 5>>, <<"two", 4>> >>)>>),
   no_burst     |-> Routed(<<[Limited("route") EXCEPT !.rate_limit.burst = 0]>>),
   no_rate      |-> Routed(<<[Limited("route") EXCEPT !.rate_limit.rate = 0]>>),
   no_address   |-> Grouped(Upstream("two", <<>>)),
   same_name    |-> Grouped(One),
   weightless   |-> Grouped(Upstream("two", <<Weighted("y", 0)>>)),
   no_hash      |-> Grouped([Two EXCEPT !.lb_algorithm = "maglev"]),
   idle_hash    |-> Grouped([Maglev2(5, <<Address("y")>>) EXCEPT !.lb_algorithm = "round_robin"]),
   composite    |-> Grouped(Maglev2(9, <<Address("y"), Address("z")>>)),
   too_small    |-> Grouped(Maglev2(2, <<Address("x"), Address("y"), Address("z")>>)),
   too_many     |-> Grouped(Maglev2(5, <<Address("x"), Address("y"), Address("z"), Address("w")>>)),
   too_big      |-> Grouped(Maglev2(17, <<Address("y")>>)),
   no_header    |-> Grouped([Maglev2(5, <<Address("y")>>) EXCEPT !.hash.key = "header"]),
   two_certs    |-> Secured(<<Cert("a.example"), Cert("a.example")>>),
   two_defaults |-> Secured(<<Cert(NONE), Cert(NONE)>>),
   wrong_key    |-> Secured(<<[Cert(NONE) EXCEPT !.matches = FALSE]>>),
   no_chain     |-> Secured(<<[Cert(NONE) EXCEPT !.chain = "unreadable"]>>)]

----------------------------------------------------------------------------
(* Requests.                                                               *)

V4(host)     == [family |-> "v4", net |-> "n1", host |-> host]
Mapped(host) == [family |-> "mapped", net |-> "n1", host |-> host]
V6(net, host) == [family |-> "v6", net |-> net, host |-> host]

In(path) ==
  [uri_authority |-> NONE, host |-> Host("a.example"), path |-> path, query |-> <<>>,
   method |-> "GET", headers |-> <<>>, peer |-> V4("h1")]

\* Every path of up to four of these segments.
SegmentSet == { <<>>, <<"a">>, <<"a", "b">>, Dot, DotDot, <<"a", "%2f">>, <<"ctl">> }
Few == { <<>>, <<"a">>, Dot, DotDot }
Rooted(segs) == Join(<< <<>> >> \o segs)
Paths == {Rooted(s) : s \in UNION {[1..n -> SegmentSet] : n \in 1..3}}
           \cup {Rooted(s) : s \in [1..4 -> Few]} \cup { <<"*">>, <<>> }

Beta == <<Hdr("x-beta", "1"), Hdr("x-org", "q")>>
Closing == [name |-> "connection", value |-> "x-org", tokens |-> {"x-org"}]

RoutingRequests ==
  {In(p) : p \in Paths}
    \cup {[In(p) EXCEPT !.method = "POST", !.headers = h, !.query = q, !.uri_authority = a] :
            p \in {Root, Api, Api \o <<"/", "a">>, <<"/", "a", "b">>},
            h \in {<<>>, Beta, <<Beta[1]>>, <<Closing>> \o Beta, <<Hdr("x-beta", "0")>> \o Beta},
            q \in {<<>>, << <<"v", "2">> >>, << <<"v", "1">>, <<"v", "2">> >>},
            a \in {NONE, [name |-> "b.example", decorated |-> TRUE]}}
    \cup {[In(Api) EXCEPT !.host = NONE]}

Clients == {V4("h1"), Mapped("h1"), V6("n2", "h2")}

MCInbound ==
  [c \in DOMAIN MCSources |->
     CASE c = "routing"   -> RoutingRequests
       [] c = "by_client" -> {[In(Root) EXCEPT !.peer = p] : p \in Clients}
       [] OTHER           -> {In(Root)}]

MCInFlight ==
  [c \in DOMAIN MCSources |-> IF c \in {"by_route", "split"} THEN 2 ELSE 1]

MCHash == [k \in {ip_key_bytes(p) : p \in Clients} |-> IF k = <<"n2">> THEN 3 ELSE 4]
MCMurmur == [x |-> <<7, 9>>, y |-> <<12, 2>>, z |-> <<5, 2>>, w |-> <<3, 4>>]
MCTasks == 1..2
============================================================================
