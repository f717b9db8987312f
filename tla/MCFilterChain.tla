--------------------------- MODULE MCFilterChain ---------------------------
(***************************************************************************)
(* Two generations of a route: one with a pooled filter that calls out     *)
(* before a fresh one that reads bodies, one with a fresh filter that      *)
(* calls out and reads none.  Two requests, of a kind with every sort of   *)
(* header or of a kind with a body, one over TCP and one over QUIC; a      *)
(* response with repeated cookies that advertises a service of its own.    *)
(***************************************************************************)
EXTENDS FilterChain

CONSTANTS t1, t2

Chains == << <<"auth", "waf">>, <<"ext">> >>

Edit(status, remove, set) == [set_status |-> status, remove |-> remove, set |-> set]

\* One filter overwrites what the client claims, cannot encode one value and sets
\* another that reads like the client's own; the next removes that, sets a header
\* twice and a hop-by-hop one; a third speaks over the proxy's own.
RequestEdits ==
  [auth |-> Edit(0, {"cookie"},
                 <<Hdr("x-user", "alice"), Hdr("x-note", "ctl"), Hdr("x-raw", Replacement)>>),
   waf  |-> Edit(0, {"x-raw"},
                 <<Hdr("x-user", "guess"), Hdr("x-user", "checked"), Hdr("te", "trailers")>>),
   ext  |-> Edit(0, {"x-note"}, <<Hdr("x-real-ip", "edge")>>)]

\* Cookies of the upstream and of one filter add up, unless the other removes them.
ResponseEdits ==
  [auth |-> Edit(0, {"set-cookie"}, <<>>),
   waf  |-> Edit(99, {}, <<Hdr("set-cookie", "seen")>>),
   ext  |-> Edit(0, {}, <<Hdr("server", "edge"), Hdr("te", "trailers"), Hdr("alt-svc", "clear")>>)]

Connection(value, tokens) == [name |-> "connection", value |-> value, tokens |-> tokens]

\* A request with every kind of header, without a body; and a bodied one.
Requests ==
  [rich   |-> [bodyless |-> TRUE,
               map |-> <<Connection("close, x-hop, x-real-ip", {"close", "x-hop", "x-real-ip"}),
                         Hdr("x-hop", "1"), Hdr("x-forwarded-for", "forged"),
                         Hdr("cookie", "raw1"), Hdr("x-user", "mallory"), Hdr("x-note", "kept"),
                         Hdr("x-raw", "raw1"), Hdr("x-raw", "plain"), Hdr("traceparent", "raw2")>>],
   bodied |-> [bodyless |-> FALSE, map |-> <<Hdr("te", "raw1")>>]]

ResponseMap ==
  <<Hdr("set-cookie", "a"), Hdr("set-cookie", "raw1"), Connection("x-trail", {"x-trail"}),
    Hdr("x-trail", "1"), Hdr("alt-svc", "raw1")>>

Idp == Target(TRUE, "idp", 443)

Policies ==
  [f \in {"auth", "ext"} |->
     [allow |-> {Idp}, allow_private |-> {"vpc"}, max_concurrent |-> 1]]

Asked == {Target(TRUE, "idp", 0), Target(FALSE, "idp", 443), Target(TRUE, "", 0)}

Answers ==
  [idp |-> {<<>>,
            <<Address("v6", "private", "vpc"), Address("v6", "global", "net")>>,
            <<Address("v4", "global", "net"), Address("v4", "private", "lan")>>,
            <<Address("mapped", "reserved", "metadata")>>}]
============================================================================
