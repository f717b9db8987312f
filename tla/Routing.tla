------------------------------ MODULE Routing ------------------------------
(***************************************************************************)
(* Path normalisation, route matching and prefix rewriting                 *)
(* (crates/control/src/route.rs), as operators.                            *)
(*                                                                         *)
(* A path is a sequence of tokens: "/", ".", letters, "%2f" for an encoded *)
(* separator or dot and "ctl" for a control byte or a backslash.  The      *)
(* query is kept apart, as a sequence of <<name, value>>.  A host is a     *)
(* record of its lower-cased name and whether it is decorated with a port  *)
(* or a trailing dot.  Header names are lower-cased already.               *)
(***************************************************************************)
EXTENDS Integers, Sequences, FiniteSets, SequencesExt

CONSTANT NONE     \* an absent optional name

Rejected == <<"rejected">>

----------------------------------------------------------------------------
\* raw.split('/'): "/a/b" has the segments "", "a", "b".
Segments(path) ==
  FoldLeft(LAMBDA segs, c : IF c = "/" THEN Append(segs, <<>>)
                            ELSE [segs EXCEPT ![Len(segs)] = Append(@, c)],
           << <<>> >>, path)

\* out.join("/")
Join(segs) ==
  FoldLeft(LAMBDA path, seg : path \o <<"/">> \o seg, Head(segs), Tail(segs))

contains_encoded_separator(path) == "%2f" \in Range(path)

Dot == <<".">>
DotDot == <<".", ".">>

\* The loop over the segments: out, or Rejected once a ".." would leave the root.
Resolve(segs) ==
  FoldLeft(LAMBDA out, seg :
             IF out = Rejected \/ seg = Dot THEN out
             ELSE IF seg # DotDot THEN Append(out, seg)
             ELSE IF Len(out) <= 1 THEN Rejected ELSE Front(out),
           <<>>, segs)

normalize_path(path) ==
  IF path = <<>> \/ path[1] # "/" THEN path
  ELSE IF "ctl" \in Range(path) \/ contains_encoded_separator(path) THEN Rejected
  ELSE LET out == Resolve(Segments(path)) IN
       IF out = Rejected THEN Rejected
       ELSE IF Join(out) = <<>> THEN <<"/">> ELSE Join(out)

----------------------------------------------------------------------------
normalize_host(authority) == [authority EXCEPT !.decorated = FALSE]

PrefixWithoutBoundaryMut(prefix, path) == IsPrefix(prefix, path)

\* On a "/" boundary: "/api" is a prefix of "/api" and "/api/x", not of "/apix".
path_under_prefix(prefix, path) ==
  /\ IsPrefix(prefix, path)
  /\ \/ Len(path) = Len(prefix)
     \/ Last(prefix) = "/"
     \/ path[Len(prefix) + 1] = "/"

\* The first parameter with the name decides.
query_param_matches(query, name, value) ==
  LET i == SelectInSeq(query, LAMBDA p : p[1] = name) IN i > 0 /\ query[i][2] = value

\* r.headers, a set of [name, value], and r.query, one of <<name, value>>, must all hold.
route_matches(r, req) ==
  /\ r.host # NONE => r.host = normalize_host(req.authority)
  /\ path_under_prefix(r.path_prefix, req.path)
  /\ r.method # NONE => r.method = req.method
  /\ \A h \in r.headers : LET i == SelectInSeq(req.headers, LAMBDA p : p.name = h.name)
                          IN  i > 0 /\ req.headers[i].value = h.value
  /\ \A q \in r.query : query_param_matches(req.query, q[1], q[2])

Flag(b) == IF b THEN 1 ELSE 0

\* The key of max_by_key, most significant first.
Specificity(i, r) ==
  <<Flag(r.host # NONE), Len(r.path_prefix), Flag(r.method # NONE),
    Cardinality(r.headers), Cardinality(r.query), -i>>

LexGreater(a, b) ==
  \E k \in DOMAIN a : a[k] > b[k] /\ \A j \in 1..(k - 1) : a[j] = b[j]

\* The index of the winner, 0 for no route.
select(routes, req) ==
  LET matching == {i \in DOMAIN routes : route_matches(routes[i], req)} IN
  IF matching = {} THEN 0
  ELSE CHOOSE i \in matching : \A j \in matching \ {i} :
         LexGreater(Specificity(i, routes[i]), Specificity(j, routes[j]))

rewrite_path(path, strip) ==
  IF strip = NONE \/ ~IsPrefix(strip, path) THEN path
  ELSE LET rest == SubSeq(path, Len(strip) + 1, Len(path)) IN
       IF rest # <<>> /\ rest[1] = "/" THEN rest ELSE <<"/">> \o rest

----------------------------------------------------------------------------
(* What the operators above are meant to compute, said without the loops.  *)

\* Names (empty segments count) minus ".."s among the segments i..j.
Depth(segs, i, j) ==
  Cardinality({k \in i..j : segs[k] \notin {Dot, DotDot}})
    - Cardinality({k \in i..j : segs[k] = DotDot})

\* A path escapes the root when some prefix of it climbs above where it began.
Escapes(segs) == \E j \in 2..Len(segs) : Depth(segs, 2, j) < 0

\* A name stays unless a later ".." climbs over it.
Survives(segs, i) ==
  /\ segs[i] \notin {Dot, DotDot}
  /\ \A j \in (i + 1)..Len(segs) : Depth(segs, i + 1, j) >= 0

Surviving(segs) == {i \in DOMAIN segs : Survives(segs, i)}

\* The segments an origin that resolves dots by itself would arrive at.
Meant(path) ==
  LET segs == Segments(path) IN
  [k \in 1..Cardinality(Surviving(segs)) |->
     segs[CHOOSE i \in Surviving(segs) :
            Cardinality({j \in Surviving(segs) : j < i}) = k - 1]]

\* Prefix containment on whole segments.
Beneath(prefix, path) ==
  LET p == Segments(prefix)
      whole == IF Last(p) = <<>> THEN Front(p) ELSE p
      s == Segments(path)
  IN  IsPrefix(whole, s) /\ (whole # p => Len(s) > Len(whole))

Satisfies(r, req) ==
  /\ r.host \in {NONE, [name |-> req.authority.name, decorated |-> FALSE]}
  /\ Beneath(r.path_prefix, req.path)
  /\ r.method \in {NONE, req.method}
  /\ \A h \in r.headers : \E i \in DOMAIN req.headers :
       /\ req.headers[i] = h
       /\ \A j \in 1..(i - 1) : req.headers[j].name # h.name
  /\ \A q \in r.query : \E i \in DOMAIN req.query :
       /\ req.query[i] = q
       /\ \A j \in 1..(i - 1) : req.query[j][1] # q[1]

\* One route is a strictly better answer than another.
Outranks(r, s) ==
  \/ r.host # NONE /\ s.host = NONE
  \/ /\ (r.host = NONE) <=> (s.host = NONE)
     /\ \/ Len(r.path_prefix) > Len(s.path_prefix)
        \/ /\ Len(r.path_prefix) = Len(s.path_prefix)
           /\ \/ r.method # NONE /\ s.method = NONE
              \/ /\ (r.method = NONE) <=> (s.method = NONE)
                 /\ \/ Cardinality(r.headers) > Cardinality(s.headers)
                    \/ /\ Cardinality(r.headers) = Cardinality(s.headers)
                       /\ Cardinality(r.query) > Cardinality(s.query)
============================================================================
