--------------------------- MODULE WeightedSplit ---------------------------
(***************************************************************************)
(* The weighted traffic split of a route (crates/control/src/weighted.rs): *)
(* validating the weights and precomputing the order in which the backends *)
(* are served.  The pick itself is in FrontDoor, where requests race.      *)
(***************************************************************************)
EXTENDS Lists, FiniteSetsExt

CONSTANTS MAX_BACKEND_WEIGHT, MAX_TABLE_LEN

\* Euclid's algorithm
gcd[p \in Nat \X Nat] ==
  IF p[2] = 0 THEN p[1] ELSE gcd[<<p[2], p[1] % p[2]>>]

SumOf(weights) == FoldLeft(LAMBDA a, w : a + w, 0, weights)
NonZero(weights) == Keep(weights, LAMBDA w : w > 0)
Divisor(weights) == FoldLeft(LAMBDA a, w : gcd[<<a, w>>], 0, NonZero(weights))

validate_split(weights) ==
  /\ weights # <<>>
  /\ \A i \in DOMAIN weights : weights[i] <= MAX_BACKEND_WEIGHT
  /\ NonZero(weights) # <<>>
  /\ SumOf([i \in DOMAIN weights |-> weights[i] \div Divisor(weights)]) <= MAX_TABLE_LEN

\* One step of the apportionment: credit every backend its weight, serve the
\* lowest index with the greatest deficit and debit it the total.
ServeNext(run, weights) ==
  LET credited == [i \in DOMAIN weights |-> run.deficit[i] + weights[i]]
      best == Min({i \in DOMAIN weights :
                     \A j \in DOMAIN weights : credited[j] <= credited[i]})
  IN  [deficit  |-> [credited EXCEPT ![best] = @ - SumOf(weights)],
       schedule |-> Append(run.schedule, best)]

weighted_schedule(weights) ==
  FoldLeft(LAMBDA run, step : ServeNext(run, weights),
           [deficit |-> [i \in DOMAIN weights |-> 0], schedule |-> <<>>],
           [step \in 1..SumOf(weights) |-> step]).schedule

\* WeightedBackends::new: drained backends are left out of both lists.  targets
\* is a sequence of <<upstream, weight>>.
WeightedBackends(targets) ==
  LET live     == Keep(targets, LAMBDA t : t[2] > 0)
      weights  == [i \in DOMAIN live |-> live[i][2]]
  IN  [groups |-> [i \in DOMAIN live |-> live[i][1]],
       table  |-> IF live = <<>> THEN <<>>
                  ELSE weighted_schedule([i \in DOMAIN weights |->
                                            weights[i] \div Divisor(weights)])]
============================================================================
