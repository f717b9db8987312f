------------------------------ MODULE Outbound ------------------------------
(***************************************************************************)
(* The policy of a filter's outbound HTTP calls, as operators              *)
(* (crates/host/src/outbound.rs and the pure part of outbound_http.rs).    *)
(*                                                                         *)
(* An address is [family, range, net].  "mapped" and "compat" are IPv6     *)
(* wrappers (::ffff:a.b.c.d and ::a.b.c.d): range is then that of the IPv4 *)
(* address inside, which none of the IPv6 range tests sees.  net is the    *)
(* operator-visible network the address is in.                             *)
(***************************************************************************)
EXTENDS Naturals, Sequences

Addresses == [family : {"v4", "v6", "mapped", "compat"},
              range : {"global", "private", "reserved"}, net : STRING]

Address(family, range, net) == [family |-> family, range |-> range, net |-> net]

\* A call is for a scheme, a host and a port; port 0: the authority names none.
Targets == [tls : BOOLEAN, host : STRING, port : Nat]

Target(tls, host, port) == [tls |-> tls, host |-> host, port |-> port]

default_port(tls) == IF tls THEN 443 ELSE 80

\* The empty host stands for a URI with no authority or no host in it.
HasAuthority(target) == target.host # ""

authority_of(target) ==
  [target EXCEPT !.port = IF @ = 0 THEN default_port(target.tls) ELSE @]

allows(policy, target) == authority_of(target) \in policy.allow

----------------------------------------------------------------------------
(* Which addresses may be dialled.                                         *)

canonicalize(ip) ==
  [ip EXCEPT !.family = IF @ \in {"mapped", "compat"} THEN "v4" ELSE @]

v4_always_blocked(ip) == ip.range = "reserved"
v6_always_blocked(ip) == ip.range = "reserved"

is_always_blocked(ip) ==
  \/ ip.family = "v4" /\ v4_always_blocked(ip)
  \/ ip.family = "v6" /\ v6_always_blocked(ip)

is_private(ip) == ip.family \in {"v4", "v6"} /\ ip.range = "private"

Verdict(ip, allow_private) ==
  CASE is_always_blocked(ip)                             -> "blocked_reserved"
    [] is_private(ip) /\ ip.net \notin allow_private     -> "blocked_private"
    [] OTHER                                             -> "allowed"

ClassifyRawMut(ip, allow_private) == Verdict(ip, allow_private)

classify(ip, allow_private) == Verdict(canonicalize(ip), allow_private)

all_addresses_allowed(addrs, policy) ==
  \A i \in DOMAIN addrs : classify(addrs[i], policy.allow_private) = "allowed"
============================================================================
