--------------------------- MODULE MCConfigReload ---------------------------
EXTENDS ConfigReload, TLC

Listing(w) == [address |-> "a", weight |-> w]

Manifest(f, r, h, list) ==
  [fault |-> f, rest |-> r, upstreams |-> "u" :> [health |-> h, addresses |-> list]]

\* The manifest the process boots with lists an address twice; one edit of each
\* kind that reconcile tells apart (elsewhere, a weight of one listing, the
\* policy and the other listing gone, the upstream gone), and one manifest per
\* way to be turned away.
Twice == <<Listing(1), Listing(1)>>
BootManifest == Manifest("none", "r1", "strict", Twice)

MCManifests ==
  {BootManifest,
   Manifest("none", "r2", "strict", Twice),
   Manifest("none", "r1", "strict", <<Listing(2), Listing(1)>>),
   Manifest("none", "r1", "lax", <<Listing(1)>>),
   [fault |-> "none", rest |-> "r1", upstreams |-> <<>>]}
  \cup {Manifest(f, "r1", "lax", Twice) : f \in {"trust", "build", "upstreams"}}
=============================================================================
