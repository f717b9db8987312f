------------------------------ MODULE Headers ------------------------------
(***************************************************************************)
(* Header handling of the fast path (crates/server/src/headers.rs), as     *)
(* operators.                                                              *)
(*                                                                         *)
(* A header is [name, value], names lower-cased.  A value is a string; the *)
(* wire values in RawValues hold bytes that are not UTF-8, and all of them *)
(* decode to the one string Replacement.  Connection carries its tokens as *)
(* a field of their own, [name, value, tokens].                            *)
(***************************************************************************)
EXTENDS Lists

RawValues == {"raw1", "raw2"}
Replacement == "U+FFFD"

\* String::from_utf8_lossy
lossy(value) == IF value \in RawValues THEN Replacement ELSE value

HOP_BY_HOP ==
  {"connection", "keep-alive", "proxy-connection", "transfer-encoding", "te",
   "trailer", "upgrade", "proxy-authorization", "proxy-authenticate"}

FORWARDED_HEADERS ==
  {"forwarded", "x-forwarded-for", "x-forwarded-proto", "x-forwarded-host",
   "x-real-ip", "true-client-ip", "cf-connecting-ip", "fastly-client-ip",
   "x-client-ip", "x-cluster-client-ip"}

is_hop_by_hop(name) == name \in HOP_BY_HOP

Hdr(name, value) == [name |-> name, value |-> value]

\* The headers without those of the names.
Drop(headers, names) == Keep(headers, LAMBDA h : h.name \notin names)

\* The names Connection designates as hop-by-hop, over all its lines.
connection_named(map) ==
  UNION {map[i].tokens : i \in {j \in DOMAIN map : map[j].name = "connection"}}

HeadersToVecStaticMut(map) ==
  LET kept == Drop(map, HOP_BY_HOP)
  IN  [i \in DOMAIN kept |-> Hdr(kept[i].name, lossy(kept[i].value))]

\* The contract's view of a header map, of the request and of the response.
headers_to_vec(map) ==
  LET kept == Drop(map, HOP_BY_HOP \cup connection_named(map))
  IN  [i \in DOMAIN kept |-> Hdr(kept[i].name, lossy(kept[i].value))]

\* Whatever the client claims is dropped; the connection's peer and scheme are
\* set afresh.
set_forwarded(headers, peer, scheme) ==
  Drop(headers, FORWARDED_HEADERS)
    \o << Hdr("x-forwarded-for", peer), Hdr("x-real-ip", peer),
          Hdr("x-forwarded-proto", scheme) >>

\* HeaderValue::from_str refuses control characters.
ValidValue(value) == value # "ctl"

copy_headers(headers) ==
  Keep(headers, LAMBDA h : ~is_hop_by_hop(h.name) /\ ValidValue(h.value))

\* The lines of original that read as h does.
SentAs(h, original) ==
  {i \in DOMAIN original : original[i].name = h.name /\ lossy(original[i].value) = h.value}

\* A header that still reads as one the peer sent goes out with the bytes of the
\* first such; any other is encoded from the contract's string.
Encoded(h, original) ==
  LET sent == SentAs(h, original)
  IN  IF sent = {} THEN h.value
      ELSE original[CHOOSE i \in sent : \A j \in sent : i <= j].value

PassedOn(headers, original) ==
  Keep(headers, LAMBDA h :
    ~is_hop_by_hop(h.name) /\ (ValidValue(h.value) \/ SentAs(h, original) # {}))

copy_headers_preserving(headers, original) ==
  LET passed == PassedOn(headers, original)
  IN  [i \in DOMAIN passed |-> Hdr(passed[i].name, Encoded(passed[i], original))]
============================================================================
