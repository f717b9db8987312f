------------------------- MODULE FrontDoor_proofs --------------------------
(***************************************************************************)
(* What the front door guarantees whatever its routes, limits, clients and *)
(* tasks: the route that is selected is the most specific one, a limiter   *)
(* cell grants no more than its burst and its refills, whoever waits as    *)
(* told is admitted, and a split reports no outage it did not see.         *)
(*                                                                         *)
(* The invariant of a cell is an equation of budgets: tokens left and      *)
(* grants made are covered by one burst and the refills of the seconds the *)
(* cell has seen, and its last refill is the start of the latest of them.  *)
(* A refusal leaves the cell empty with the next refill one interval off,  *)
(* which is what the caller is told.                                       *)
(***************************************************************************)
EXTENDS FrontDoor, Manifest_proofs, WellFoundedInduction

----------------------------------------------------------------------------
(* The token bucket.                                                       *)

Second(x) == x \div Interval

LEMMA Bounds ==
  /\ U64Max \in Nat /\ U64Max > 0 /\ ClockMax \in Nat /\ ClockMax <= U64Max
  /\ Interval \in Nat /\ Interval > 0 /\ Interval <= U64Max
  /\ Boot \in Nat /\ Boot <= ClockMax /\ IP_SLOTS \in Nat /\ IP_SLOTS > 0
BY FrontDoorAssumption, U64Assumption DEF FrontDoorAssumption, U64Assumption

LEMMA SecondOf ==
  ASSUME NEW x \in Nat
  PROVE  Second(x) \in Nat /\ Second(x) * Interval <= x /\ x < Second(x) * Interval + Interval
BY Bounds DEF Second

LEMMA SecondIs ==
  ASSUME NEW x \in Nat, NEW q \in Nat, q * Interval <= x, x < q * Interval + Interval
  PROVE  Second(x) = q
BY Bounds DEF Second

\* The start of second q, and the whole seconds from there to now.
Start(q) == q * Interval
Refills(q, now) == saturating_sub(now, Start(q)) \div Interval

LEMMA Passing ==
  ASSUME NEW q \in Nat, NEW now \in Nat
  PROVE  /\ Refills(q, now) \in Nat /\ Start(q) \in Nat
         /\ now > Start(q) => Second(now) = q + Refills(q, now)
         /\ now < Start(q) + Interval => Refills(q, now) = 0
         /\ now >= Start(q) + Interval => Refills(q, now) > 0
         /\ Start(q) + Refills(q, now) * Interval = Start(q + Refills(q, now))
         /\ Refills(q, now) > 0 => Start(q + Refills(q, now)) <= now
<1>a. PICK last : last = q * Interval
  OBVIOUS
<1>b. PICK n : n = saturating_sub(now, last) \div Interval
  OBVIOUS
<1>0. last = Start(q) /\ n = Refills(q, now)
  BY <1>a, <1>b DEF Start, Refills
<1>1. last \in Nat /\ saturating_sub(now, last) \in Nat
  BY <1>a, Bounds DEF saturating_sub
<1>2. n \in Nat /\ n * Interval <= saturating_sub(now, last)
      /\ saturating_sub(now, last) < n * Interval + Interval
  BY <1>1, <1>b, Bounds
<1>3. last + n * Interval = (q + n) * Interval
  BY <1>2, <1>a, Bounds
<1>4. now > last => Second(now) = q + n
  <2> HAVE now > last
  <2>1. n * Interval <= now - last /\ now - last < n * Interval + Interval
    BY <1>1, <1>2 DEF saturating_sub
  <2>2. (q + n) * Interval <= now /\ now < (q + n) * Interval + Interval /\ q + n \in Nat
    <3>1. n * Interval \in Nat
      BY <1>2, Bounds
    <3> QED
      BY <1>1, <1>2, <1>3, <2>1, <3>1, Bounds
  <2> QED
    BY <2>2, SecondIs
<1>5. now < last + Interval => n = 0
  <2> HAVE now < last + Interval
  <2>1. saturating_sub(now, last) < Interval
    BY <1>1, Bounds DEF saturating_sub
  <2>2. n * Interval < Interval
    BY <1>1, <1>2, <2>1, Bounds
  <2> QED
    BY <1>2, <2>2, Bounds
<1>6. now >= last + Interval => n > 0
  <2> HAVE now >= last + Interval
  <2>1. saturating_sub(now, last) >= Interval
    BY <1>1, Bounds DEF saturating_sub
  <2>2. n * Interval + Interval > Interval
    BY <1>1, <1>2, <2>1, Bounds
  <2> QED
    BY <1>2, <2>2, Bounds
<1>7. n > 0 => last + n * Interval <= now
  <2> HAVE n > 0
  <2>1. n * Interval > 0 /\ n * Interval \in Nat
    BY <1>2, Bounds
  <2>2. saturating_sub(now, last) > 0
    BY <1>1, <1>2, <2>1
  <2> QED
    BY <1>1, <1>2, <2>2, Bounds DEF saturating_sub
<1>8. Start(q + n) = (q + n) * Interval
  BY DEF Start
<1> QED
  BY <1>0, <1>1, <1>2, <1>3, <1>4, <1>5, <1>6, <1>7, <1>8

\* The specification of a route's bucket, whatever its numbers.
Bucket(burst, rate) ==
  [capacity |-> burst, refill_tokens |-> rate, refill_interval_ms |-> Interval]

\* What a consultation may come to: n refills, then one token or none.
Outcome(answer, tokens, q, burst, rate, now) ==
  \E left \in 0..burst :
    /\ answer.state = <<left, Start(q + Refills(q, now))>>
    /\ answer.allowed \in BOOLEAN
    /\ answer.allowed => left + 1 <= burst /\ left + 1 <= tokens + Refills(q, now) * rate
    /\ ~answer.allowed => left = 0 /\ Refills(q, now) = 0 /\ answer.retry_after_ms = Interval

LEMMA Consulted ==
  ASSUME NEW burst \in Nat \ {0}, NEW rate \in Nat \ {0}, NEW tokens \in 0..burst,
         NEW q \in Nat, Start(q) <= ClockMax, NEW now \in 0..ClockMax,
         NEW answer, answer = apply_bucket(<<tokens, Start(q)>>, 1, Bucket(burst, rate), now)
  PROVE  Outcome(answer, tokens, q, burst, rate, now)
<1>a. PICK last, n : last = Start(q) /\ n = Refills(q, now)
  OBVIOUS
<1>b. n = saturating_sub(now, last) \div Interval /\ last <= ClockMax
  BY <1>a DEF Refills
<1>1. /\ n \in Nat /\ last \in Nat /\ now \in Nat /\ last + n * Interval = Start(q + n)
      /\ n > 0 => last + n * Interval <= now
  <2>1. now \in Nat
    BY Bounds
  <2> QED
    BY <1>a, <2>1, Passing
<1>2. PICK spec : spec = Bucket(burst, rate)
  OBVIOUS
<1>3. /\ spec.capacity = burst /\ spec.refill_tokens = rate /\ spec.refill_interval_ms = Interval
      /\ ~no_refill(spec)
  BY <1>2, Bounds DEF Bucket, no_refill
<1>4. n * Interval \in Nat /\ n * Interval <= U64Max /\ last + n * Interval <= U64Max
  <2>1. PICK m \in Nat : m = n * Interval
    BY <1>1, Bounds
  <2>2. n = 0 => m = 0
    BY <2>1, Bounds
  <2>3. n > 0 => last + m <= now
    BY <1>1, <2>1
  <2>4. m <= U64Max /\ last + m <= U64Max
    BY <1>1, <1>b, <2>2, <2>3, Bounds
  <2> QED
    BY <2>1, <2>4
<1>5. n * rate \in Nat /\ (n > 0 => n * rate > 0)
  BY <1>1
<1>6. PICK full : full = saturating(tokens + saturating(n * rate))
  OBVIOUS
<1>7. full \in Nat /\ full <= tokens + n * rate /\ (full = 0 => tokens = 0 /\ n = 0)
  BY <1>1, <1>5, <1>6, Bounds DEF saturating
<1>8. PICK filled : filled = Refilled(<<tokens, last>>, spec, now)
  OBVIOUS
<1>9. filled = << IF full > burst THEN burst ELSE full, last + n * Interval >>
  <2>1. <<tokens, last>> # <<>> /\ <<tokens, last>>[1] = tokens /\ <<tokens, last>>[2] = last
    OBVIOUS
  <2>2. Intervals(last, spec, now) = n
    BY <1>3, <1>b DEF Intervals
  <2>3. saturating(last + saturating(n * Interval)) = last + n * Interval
    BY <1>1, <1>4, Bounds DEF saturating
  <2> QED
    BY <1>3, <1>6, <1>8, <2>1, <2>2, <2>3 DEF Refilled
<1>10. PICK got : got = IF full > burst THEN burst ELSE full
  OBVIOUS
<1>11. /\ got \in 0..burst /\ got <= tokens + n * rate
       /\ filled[1] = got /\ filled[2] = Start(q + n)
       /\ got = 0 => tokens = 0 /\ n = 0
  BY <1>1, <1>5, <1>7, <1>9, <1>10
<1>12. /\ got >= 1 => answer.allowed = TRUE /\ answer.state = <<got - 1, Start(q + n)>>
       /\ ~(got >= 1) => /\ answer.allowed = FALSE /\ answer.state = <<got, Start(q + n)>>
                         /\ answer.retry_after_ms = RetryAfter(1 - got, spec)
  <2>1. answer = [state |-> <<IF got >= 1 THEN got - 1 ELSE got, filled[2]>>,
                  allowed |-> got >= 1,
                  remaining |-> IF got >= 1 THEN got - 1 ELSE got,
                  retry_after_ms |-> IF got >= 1 THEN 0 ELSE RetryAfter(1 - got, spec)]
    BY <1>2, <1>8, <1>11, <1>a, Zenon DEF apply_bucket
  <2>2. ASSUME got >= 1
        PROVE  answer.allowed = TRUE /\ answer.state = <<got - 1, filled[2]>>
    <3>1. (got >= 1) = TRUE
      BY <2>2
    <3>2. answer = [state |-> <<got - 1, filled[2]>>, allowed |-> TRUE,
                    remaining |-> got - 1, retry_after_ms |-> 0]
      BY <2>1, <3>1, Zenon
    <3> QED
      BY <3>2
  <2>3. ASSUME ~(got >= 1)
        PROVE  /\ answer.allowed = FALSE /\ answer.state = <<got, filled[2]>>
               /\ answer.retry_after_ms = RetryAfter(1 - got, spec)
    <3>1. (got >= 1) = FALSE
      BY <2>3
    <3>2. answer = [state |-> <<got, filled[2]>>, allowed |-> FALSE, remaining |-> got,
                    retry_after_ms |-> RetryAfter(1 - got, spec)]
      BY <2>1, <3>1, Zenon
    <3> QED
      BY <3>2
  <2> QED
    BY <1>11, <2>2, <2>3
<1>13. RetryAfter(1, spec) = Interval
  <2>1. div_ceil(1, rate) = 1
    <3>1. 1 + rate - 1 = rate
      OBVIOUS
    <3>2. rate \div rate = 1
      OBVIOUS
    <3> QED
      BY <3>1, <3>2 DEF div_ceil
  <2> QED
    BY <1>3, <2>1, Bounds DEF RetryAfter, saturating
<1>14. CASE got >= 1
  <2>1. PICK left \in 0..burst : left = got - 1
    BY <1>11, <1>14
  <2>2. answer.allowed = TRUE /\ answer.state = <<left, Start(q + n)>>
    BY <1>12, <1>14, <2>1
  <2>3. left + 1 <= burst /\ left + 1 <= tokens + n * rate
    BY <1>5, <1>11, <2>1
  <2> QED
    BY <1>a, <2>2, <2>3, Zenon DEF Outcome
<1>15. CASE ~(got >= 1)
  <2>1. got = 0 /\ 1 - got = 1
    BY <1>11, <1>15
  <2>2. PICK left \in 0..burst : left = 0
    BY <2>1, <1>11
  <2>3. answer.allowed = FALSE /\ answer.state = <<left, Start(q + n)>>
    BY <1>12, <1>15, <2>1, <2>2
  <2>4. n = 0 /\ answer.retry_after_ms = Interval
    BY <1>11, <1>12, <1>13, <1>15, <2>1
  <2> QED
    BY <1>a, <2>2, <2>3, <2>4, Zenon DEF Outcome
<1> QED
  BY <1>14, <1>15

----------------------------------------------------------------------------
(* The choice of a route.                                                  *)

\* Of finitely many, one is beaten by none.
LEMMA Unbeaten ==
  ASSUME NEW M, IsFiniteSet(M), M # {}, NEW R,
         \A x, y, z \in M : <<x, y>> \in R /\ <<y, z>> \in R => <<x, z>> \in R,
         \A x \in M : <<x, x>> \notin R
  PROVE  \E x \in M : \A y \in M : <<y, x>> \notin R
<1>1. PICK above : above = [x \in M |-> {y \in M : <<y, x>> \in R}]
  OBVIOUS
<1>2. PICK T : T = {above[x] : x \in M}
  OBVIOUS
<1>3. T \subseteq SUBSET M /\ T # {}
  <2>1. \A x \in M : above[x] \in SUBSET M
    BY <1>1
  <2>2. T \subseteq SUBSET M
    BY <1>2, <2>1
  <2>3. PICK x \in M : TRUE
    OBVIOUS
  <2>4. above[x] \in T
    BY <1>2
  <2> QED
    BY <2>2, <2>4
<1>4. IsWellFoundedOn(StrictSubsetOrdering(M), SUBSET M)
  <2>1. IsWellFoundedOn(StrictSubsetOrdering(M), FiniteSubsetsOf(M))
    BY FS_StrictSubsetOrderingWellFounded, Zenon
  <2>2. FiniteSubsetsOf(M) = SUBSET M
    BY FS_FiniteSubsetsOfFinite
  <2> QED
    BY <2>1, <2>2, Zenon
<1>5. PICK U \in T : \A V \in T : ~(<<V, U>> \in StrictSubsetOrdering(M))
  BY <1>3, <1>4, WFMin
<1>6. PICK x \in M : U = above[x]
  BY <1>2
<1>7. ASSUME NEW y \in M, <<y, x>> \in R PROVE FALSE
  <2>1. above[y] \in T /\ above[y] \subseteq M /\ above[x] \subseteq M
    BY <1>1, <1>2
  <2>2. above[y] \subseteq above[x] /\ y \in above[x] /\ y \notin above[y]
    BY <1>1, <1>7
  <2>3. <<above[y], above[x]>> \in StrictSubsetOrdering(M)
    BY <2>1, <2>2 DEF StrictSubsetOrdering
  <2> QED
    BY <1>5, <1>6, <2>1, <2>3
<1> QED
  BY <1>7

\* The key of max_by_key, compared.
Sextuple == Int \X Int \X Int \X Int \X Int \X Int

LEMMA LexOrder ==
  ASSUME NEW a \in Sextuple, NEW b \in Sextuple
  PROVE  LexGreater(a, b) <=>
           \/ a[1] > b[1]
           \/ a[1] = b[1] /\ a[2] > b[2]
           \/ a[1] = b[1] /\ a[2] = b[2] /\ a[3] > b[3]
           \/ a[1] = b[1] /\ a[2] = b[2] /\ a[3] = b[3] /\ a[4] > b[4]
           \/ a[1] = b[1] /\ a[2] = b[2] /\ a[3] = b[3] /\ a[4] = b[4] /\ a[5] > b[5]
           \/ a[1] = b[1] /\ a[2] = b[2] /\ a[3] = b[3] /\ a[4] = b[4] /\ a[5] = b[5]
              /\ a[6] > b[6]
<1>1. DOMAIN a = {1, 2, 3, 4, 5, 6}
  BY DEF Sextuple
<1>2. /\ 1..(1 - 1) = {} /\ 1..(2 - 1) = {1} /\ 1..(3 - 1) = {1, 2} /\ 1..(4 - 1) = {1, 2, 3}
      /\ 1..(5 - 1) = {1, 2, 3, 4} /\ 1..(6 - 1) = {1, 2, 3, 4, 5}
  OBVIOUS
<1> QED
  BY <1>1, <1>2 DEF LexGreater

LEMMA LexStrict ==
  /\ \A a, b, c \in Sextuple : LexGreater(a, b) /\ LexGreater(b, c) => LexGreater(a, c)
  /\ \A a \in Sextuple : ~LexGreater(a, a)
  /\ \A a, b \in Sextuple : a[6] # b[6] => LexGreater(a, b) \/ LexGreater(b, a)
<1>1. ASSUME NEW a \in Sextuple, NEW b \in Sextuple, NEW c \in Sextuple,
             LexGreater(a, b), LexGreater(b, c)
      PROVE  LexGreater(a, c)
  BY <1>1, LexOrder DEF Sextuple
<1>2. ASSUME NEW a \in Sextuple, LexGreater(a, a) PROVE FALSE
  BY <1>2, LexOrder DEF Sextuple
<1>3. ASSUME NEW a \in Sextuple, NEW b \in Sextuple, a[6] # b[6]
      PROVE  LexGreater(a, b) \/ LexGreater(b, a)
  BY <1>3, LexOrder DEF Sextuple
<1> QED
  BY <1>1, <1>2, <1>3

\* What select is given: a list of routes whose keys can be compared.
Comparable(routes) ==
  /\ \E n \in Nat : DOMAIN routes = 1..n
  /\ \A i \in DOMAIN routes :
       /\ Len(routes[i].path_prefix) \in Nat
       /\ IsFiniteSet(routes[i].headers) /\ IsFiniteSet(routes[i].query)

\* The order of the keys is the rank of the routes, the earliest first.
LEMMA KeyRanks ==
  ASSUME NEW r, NEW s, NEW i \in Int, NEW j \in Int,
         Specificity(i, r) \in Sextuple, Specificity(j, s) \in Sextuple,
         LexGreater(Specificity(i, r), Specificity(j, s))
  PROVE  ~Outranks(s, r) /\ (j < i => Outranks(r, s))
<1>1. PICK a, b : a = Specificity(i, r) /\ b = Specificity(j, s)
  OBVIOUS
<1>2. /\ a[1] = Flag(r.host # NONE) /\ a[2] = Len(r.path_prefix) /\ a[3] = Flag(r.method # NONE)
      /\ a[4] = Cardinality(r.headers) /\ a[5] = Cardinality(r.query) /\ a[6] = -i
      /\ b[1] = Flag(s.host # NONE) /\ b[2] = Len(s.path_prefix) /\ b[3] = Flag(s.method # NONE)
      /\ b[4] = Cardinality(s.headers) /\ b[5] = Cardinality(s.query) /\ b[6] = -j
  BY <1>1 DEF Specificity
<1>3. /\ \A n \in 1..6 : a[n] \in Int /\ b[n] \in Int
      /\ \/ a[1] > b[1]
         \/ a[1] = b[1] /\ a[2] > b[2]
         \/ a[1] = b[1] /\ a[2] = b[2] /\ a[3] > b[3]
         \/ a[1] = b[1] /\ a[2] = b[2] /\ a[3] = b[3] /\ a[4] > b[4]
         \/ a[1] = b[1] /\ a[2] = b[2] /\ a[3] = b[3] /\ a[4] = b[4] /\ a[5] > b[5]
         \/ a[1] = b[1] /\ a[2] = b[2] /\ a[3] = b[3] /\ a[4] = b[4] /\ a[5] = b[5]
            /\ a[6] > b[6]
  BY <1>1, LexOrder DEF Sextuple
<1>4. /\ a[1] = (IF r.host # NONE THEN 1 ELSE 0) /\ b[1] = (IF s.host # NONE THEN 1 ELSE 0)
      /\ a[3] = (IF r.method # NONE THEN 1 ELSE 0) /\ b[3] = (IF s.method # NONE THEN 1 ELSE 0)
  BY <1>2 DEF Flag
<1>5. Outranks(s, r) <=>
        \/ b[1] > a[1]
        \/ b[1] = a[1] /\ b[2] > a[2]
        \/ b[1] = a[1] /\ b[2] = a[2] /\ b[3] > a[3]
        \/ b[1] = a[1] /\ b[2] = a[2] /\ b[3] = a[3] /\ b[4] > a[4]
        \/ b[1] = a[1] /\ b[2] = a[2] /\ b[3] = a[3] /\ b[4] = a[4] /\ b[5] > a[5]
  BY <1>2, <1>4 DEF Outranks
<1>6. Outranks(r, s) <=>
        \/ a[1] > b[1]
        \/ a[1] = b[1] /\ a[2] > b[2]
        \/ a[1] = b[1] /\ a[2] = b[2] /\ a[3] > b[3]
        \/ a[1] = b[1] /\ a[2] = b[2] /\ a[3] = b[3] /\ a[4] > b[4]
        \/ a[1] = b[1] /\ a[2] = b[2] /\ a[3] = b[3] /\ a[4] = b[4] /\ a[5] > b[5]
  BY <1>2, <1>4 DEF Outranks
<1>7. j < i => ~(a[6] > b[6])
  BY <1>2
<1> QED
  BY <1>3, <1>5, <1>6, <1>7

\* Whatever the routes and the request, select finds a route whenever one
\* matches: one that matches, that no matching route outranks, and the earliest
\* of those that rank alike (route.rs select, max_by_key).
THEOREM SelectedIsBest ==
  ASSUME NEW routes, Comparable(routes), NEW req
  PROVE  LET matching == {i \in DOMAIN routes : route_matches(routes[i], req)}
             k        == select(routes, req)
         IN  /\ matching = {} => k = 0
             /\ matching # {} =>
                  /\ k \in matching
                  /\ \A j \in matching : /\ ~Outranks(routes[j], routes[k])
                                         /\ j < k => Outranks(routes[k], routes[j])
<1>1. PICK M : M = {i \in DOMAIN routes : route_matches(routes[i], req)}
  OBVIOUS
<1>2. PICK key : key = [i \in M |-> Specificity(i, routes[i])]
  OBVIOUS
<1>3. ASSUME NEW i \in M PROVE key[i] \in Sextuple /\ key[i][6] = -i /\ i \in Int
  <2>1. i \in DOMAIN routes /\ i \in Int /\ -i \in Int
    BY <1>1 DEF Comparable
  <2>2. /\ Flag(routes[i].host # NONE) \in Int /\ Flag(routes[i].method # NONE) \in Int
        /\ Len(routes[i].path_prefix) \in Int
    BY <2>1 DEF Comparable, Flag
  <2>3. Cardinality(routes[i].headers) \in Int /\ Cardinality(routes[i].query) \in Int
    BY <2>1, FS_CardinalityType DEF Comparable
  <2> QED
    BY <1>2, <2>1, <2>2, <2>3 DEF Specificity, Sextuple
<1>4. IsFiniteSet(M)
  <2>1. PICK n \in Nat : M \subseteq 1..n
    BY <1>1 DEF Comparable
  <2>2. IsFiniteSet(1..n)
    BY FS_Interval
  <2> QED
    BY <2>1, <2>2, FS_Subset
<1>5. ASSUME M # {} PROVE \E i \in M : \A j \in M \ {i} : LexGreater(key[i], key[j])
  <2>1. PICK R : R = {p \in M \X M : LexGreater(key[p[1]], key[p[2]])}
    OBVIOUS
  <2>2. \A x, y \in M : <<x, y>> \in R <=> LexGreater(key[x], key[y])
    BY <2>1
  <2>3. \A x, y, z \in M : <<x, y>> \in R /\ <<y, z>> \in R => <<x, z>> \in R
    BY <1>3, <2>2, LexStrict
  <2>4. \A x \in M : <<x, x>> \notin R
    BY <1>3, <2>2, LexStrict
  <2>5. PICK i \in M : \A y \in M : <<y, i>> \notin R
    BY <1>4, <1>5, <2>3, <2>4, Unbeaten
  <2>6. ASSUME NEW j \in M \ {i} PROVE LexGreater(key[i], key[j])
    <3>1. ~LexGreater(key[j], key[i])
      BY <2>2, <2>5
    <3>2. key[i][6] # key[j][6] /\ key[i] \in Sextuple /\ key[j] \in Sextuple
      BY <1>3
    <3> QED
      BY <3>1, <3>2, LexStrict
  <2> QED
    BY <2>6
<1>6. M # {} => \E i \in M : \A j \in M \ {i} :
                  LexGreater(Specificity(i, routes[i]), Specificity(j, routes[j]))
  BY <1>2, <1>5
<1>7. select(routes, req) =
        IF M = {} THEN 0
        ELSE CHOOSE i \in M : \A j \in M \ {i} :
               LexGreater(Specificity(i, routes[i]), Specificity(j, routes[j]))
  BY <1>1 DEF select
<1>8. ASSUME M # {}
      PROVE  /\ select(routes, req) \in M
             /\ \A j \in M : /\ ~Outranks(routes[j], routes[select(routes, req)])
                             /\ j < select(routes, req) =>
                                  Outranks(routes[select(routes, req)], routes[j])
  <2>1. PICK k : k = select(routes, req)
    OBVIOUS
  <2>2. k \in M /\ \A j \in M \ {k} :
                     LexGreater(Specificity(k, routes[k]), Specificity(j, routes[j]))
    BY <1>6, <1>7, <1>8, <2>1
  <2>3. ASSUME NEW j \in M
        PROVE  ~Outranks(routes[j], routes[k]) /\ (j < k => Outranks(routes[k], routes[j]))
    <3>1. CASE j = k
      <4>1. k \in Int /\ ~(k < k)
        BY <1>3, <2>2
      <4>2. k \in DOMAIN routes
        BY <1>1, <2>2
      <4>3. /\ Len(routes[k].path_prefix) \in Int
            /\ Cardinality(routes[k].headers) \in Int /\ Cardinality(routes[k].query) \in Int
        BY <4>2, FS_CardinalityType DEF Comparable
      <4> QED
        BY <3>1, <4>1, <4>3 DEF Outranks
    <3>2. CASE j # k
      <4>1. /\ k \in Int /\ Specificity(k, routes[k]) \in Sextuple
            /\ j \in Int /\ Specificity(j, routes[j]) \in Sextuple
        BY <1>2, <1>3, <2>2
      <4>2. LexGreater(Specificity(k, routes[k]), Specificity(j, routes[j]))
        BY <2>2, <3>2
      <4> QED
        BY <4>1, <4>2, KeyRanks
    <3> QED
      BY <3>1, <3>2
  <2> QED
    BY <2>1, <2>2, <2>3
<1> QED
  BY <1>1, <1>7, <1>8

----------------------------------------------------------------------------
(* What a load has made sure of.                                           *)

Usable(limit) == limit = NoLimit \/ {limit.rate, limit.burst} \subseteq Nat \ {0}

LEMMA RouteFields ==
  ASSUME NEW r, NEW fs, NEW route, route = CompiledRoute(r, fs)
  PROVE  /\ route.path_prefix = r.match.path_prefix /\ route.headers = r.match.headers
         /\ route.query = r.match.query /\ route.rate_limit = r.rate_limit
<1>1. PICK reads, backends :
        route = [host |-> r.match.host, path_prefix |-> r.match.path_prefix,
                 method |-> r.match.method, headers |-> r.match.headers, query |-> r.match.query,
                 filters |-> r.filters, reads_body |-> reads, backends |-> backends,
                 strip_prefix |-> r.strip_prefix, rate_limit |-> r.rate_limit]
  BY Zenon DEF CompiledRoute
<1> QED
  BY <1>1

LEMMA LoadedRoutes ==
  ASSUME NEW c \in DOMAIN Config
  PROVE  /\ c \in DOMAIN Sources /\ Comparable(Config[c].routes)
         /\ \A k \in DOMAIN Config[c].routes : Usable(Config[c].routes[k].rate_limit)
<1>1. c \in DOMAIN Sources /\ Accepted(Sources[c]) /\ Config[c] = Compiled(Sources[c])
  BY DEF Config
<1>2. PICK rs, fs : /\ rs = Sources[c].manifest.routes
                    /\ Config[c].routes = [k \in DOMAIN rs |-> CompiledRoute(rs[k], fs)]
  BY <1>1, CompiledParts DEF RoutesOf
<1>3. \A k \in DOMAIN rs :
        rs[k].rate_limit # NoLimit => rs[k].rate_limit.rate # 0 /\ rs[k].rate_limit.burst # 0
  BY <1>1, <1>2 DEF Accepted, validate_routes
<1>4. /\ DOMAIN rs = 1..Len(rs) /\ Len(rs) \in Nat
      /\ \A k \in DOMAIN rs :
            /\ Len(rs[k].match.path_prefix) \in Nat
            /\ IsFiniteSet(rs[k].match.headers) /\ IsFiniteSet(rs[k].match.query)
            /\ rs[k].rate_limit = NoLimit
               \/ {rs[k].rate_limit.rate, rs[k].rate_limit.burst} \subseteq Nat
  <2>1. PICK src : src = Sources[c]
    OBVIOUS
  <2>2. IsList(rs) /\ \A k \in DOMAIN rs : ParsedRoute(rs[k])
    <3>1. Parsed(src)
      BY <1>1, <2>1, FrontDoorAssumption DEF FrontDoorAssumption
    <3> QED
      BY <1>2, <2>1, <3>1 DEF Parsed
  <2>3. DOMAIN rs = 1..Len(rs) /\ Len(rs) \in Nat
    BY <2>2, ListDomain
  <2> QED
    BY <2>2, <2>3 DEF ParsedRoute
<1>5. PICK routes : routes = Config[c].routes
  OBVIOUS
<1>6. /\ DOMAIN routes = DOMAIN rs
      /\ \A k \in DOMAIN rs :
           /\ routes[k].path_prefix = rs[k].match.path_prefix
           /\ routes[k].headers = rs[k].match.headers /\ routes[k].query = rs[k].match.query
           /\ routes[k].rate_limit = rs[k].rate_limit
  BY <1>2, <1>5, RouteFields
<1>7. Comparable(routes)
  BY <1>4, <1>6 DEF Comparable
<1>8. \A k \in DOMAIN routes : Usable(routes[k].rate_limit)
  BY <1>3, <1>4, <1>6 DEF Usable
<1> QED
  BY <1>1, <1>5, <1>7, <1>8

LEMMA AdmittedRoute ==
  ASSUME NEW c \in DOMAIN Config, NEW in \in Inbound[c]
  PROVE  \/ Admitted[c][in].status = 400
         \/ Admitted[c][in].status = 404
         \/ Admitted[c][in].status = 0 /\ Admitted[c][in].route \in DOMAIN Config[c].routes
<1>1. Admitted[c][in] = Admit(Config[c], in)
  BY DEF Admitted
<1>2. PICK path, http, k, routes :
        /\ routes = Config[c].routes /\ k = select(routes, http)
        /\ Admit(Config[c], in) =
             IF path = Rejected THEN [status |-> 400]
             ELSE IF k = 0 THEN [status |-> 404, http |-> http]
             ELSE [status |-> 0, http |-> http, route |-> k,
                   forwarded |-> rewrite_path(path, routes[k].strip_prefix)]
  BY Zenon DEF Admit
<1>3. Comparable(routes)
  BY <1>2, LoadedRoutes
<1>4. k = 0 \/ k \in DOMAIN routes
  BY <1>2, <1>3, SelectedIsBest
<1> QED
  BY <1>1, <1>2, <1>4

----------------------------------------------------------------------------
(* A limiter's cell.                                                       *)

Limited == {k \in DOMAIN active : Limit(k) # NoLimit}
Cells == Limited \X (0..(IP_SLOTS - 1))

\* The tokens a cell has left and what it granted come out of the burst and the
\* refills up to the last second seen; what it promised is a second away.
CellOK(c, l, limit) ==
  /\ c = <<c[1], c[2]>> /\ c[1] \in 0..limit.burst
  /\ l = [granted |-> l.granted, first |-> l.first, hi |-> l.hi, due |-> l.due]
  /\ l.granted \in Nat /\ l.first \in Nat /\ l.hi \in 0..ClockMax /\ l.due \in Int
  /\ c[2] = Start(Second(l.hi))
  /\ l.granted + c[1] <= limit.burst + limit.rate * (Second(l.hi) - Second(l.first))
  /\ l.granted = 0 /\ l.hi = 0 => c = <<0, 0>>
  /\ l.due # Unset => l.due >= c[2] + Interval

LEMMA FreshCell ==
  ASSUME NEW limit, {limit.rate, limit.burst} \subseteq Nat \ {0}
  PROVE  CellOK(<<0, 0>>, Unused, limit)
<1>1. PICK c, l : c = <<0, 0>> /\ l = Unused
  OBVIOUS
<1>2. /\ l.granted = 0 /\ l.first = 0 /\ l.hi = 0 /\ l.due = Unset
      /\ l = [granted |-> l.granted, first |-> l.first, hi |-> l.hi, due |-> l.due]
      /\ c = <<c[1], c[2]>> /\ c[1] = 0 /\ c[2] = 0
  BY <1>1 DEF Unused
<1>3. Second(0) = 0
  BY Bounds, SecondIs
<1>4. limit.rate * (Second(0) - Second(0)) = 0 /\ Start(Second(0)) = 0
  BY <1>3, Bounds DEF Start
<1> QED
  BY <1>1, <1>2, <1>4, Bounds DEF CellOK, Unset

\* A consultation keeps a cell as it should be, and refuses nobody who comes back
\* when told to.
LEMMA CellStep ==
  ASSUME NEW limit, {limit.rate, limit.burst} \subseteq Nat \ {0},
         NEW c, NEW l, CellOK(c, l, limit), NEW now \in 0..ClockMax, clock \in 0..ClockMax,
         NEW answer, answer = apply_bucket(c, 1, Bucket(limit.burst, limit.rate), now)
  PROVE  /\ CellOK(answer.state, Entered(l, now, answer), limit)
         /\ answer.allowed \in BOOLEAN
         /\ ~answer.allowed => l.due = Unset \/ now < l.due
<1>1. PICK burst \in Nat \ {0}, rate \in Nat \ {0} : burst = limit.burst /\ rate = limit.rate
  OBVIOUS
<1>2. PICK q, f : q = Second(l.hi) /\ f = Second(l.first)
  OBVIOUS
<1>3. /\ l.hi \in Nat /\ l.hi <= ClockMax /\ l.first \in Nat /\ l.granted \in Nat /\ l.due \in Int
      /\ now \in Nat /\ now <= ClockMax /\ clock \in Nat
  BY Bounds DEF CellOK
<1>4. q \in Nat /\ Start(q) <= l.hi /\ l.hi < Start(q) + Interval /\ f \in Nat
      /\ Start(q) \in Nat
  BY <1>2, <1>3, SecondOf, Bounds DEF Start
<1>5. PICK tokens \in 0..burst : c = <<tokens, Start(q)>>
  BY <1>1, <1>2 DEF CellOK
<1>6. PICK last : last = Start(q)
  OBVIOUS
<1>7. PICK n : n = Refills(q, now)
  OBVIOUS
<1>8. last <= ClockMax /\ last \in Nat
  BY <1>3, <1>4, <1>6, Bounds
<1>9. /\ n \in Nat
      /\ now > last => Second(now) = q + n
      /\ now < last + Interval => n = 0
      /\ now >= last + Interval => n > 0
  BY <1>3, <1>4, <1>6, <1>7, Passing
<1>10. PICK left \in 0..burst :
           /\ answer.state = <<left, Start(q + n)>>
           /\ answer.allowed \in BOOLEAN
           /\ answer.allowed => left + 1 <= burst /\ left + 1 <= tokens + n * rate
           /\ ~answer.allowed => left = 0 /\ n = 0 /\ answer.retry_after_ms = Interval
  <2>1. /\ q \in Nat /\ Start(q) <= ClockMax
        /\ answer = apply_bucket(<<tokens, Start(q)>>, 1, Bucket(burst, rate), now)
    BY <1>1, <1>4, <1>5, <1>6, <1>8
  <2>2. Outcome(answer, tokens, q, burst, rate, now)
    BY <2>1, Consulted
  <2> QED
    BY <1>7, <2>2 DEF Outcome
<1>11. PICK e : e = Entered(l, now, answer)
  OBVIOUS
<1>12. PICK hi : hi = IF l.hi > now THEN l.hi ELSE now
  OBVIOUS
<1>13. PICK first : first = IF l = Unused THEN now ELSE l.first
  OBVIOUS
<1>14. PICK granted : granted = l.granted + (IF answer.allowed THEN 1 ELSE 0)
  OBVIOUS
<1>15. /\ e = [granted |-> e.granted, first |-> e.first, hi |-> e.hi, due |-> e.due]
       /\ e.granted = granted /\ e.first = first /\ e.hi = hi
  BY <1>11, <1>12, <1>13, <1>14, Zenon DEF Entered
<1>16. hi \in 0..ClockMax /\ Second(hi) = q + n
  <2>1. CASE now > l.hi
    <3>1. now > last /\ hi = now
      BY <1>3, <1>4, <1>6, <1>12, <2>1
    <3> QED
      BY <1>3, <1>9, <3>1
  <2>2. CASE ~(now > l.hi)
    <3>1. hi = l.hi
      BY <1>3, <1>12, <2>2
    <3>2. n = 0
      BY <1>3, <1>4, <1>6, <1>9, <2>2, Bounds
    <3> QED
      BY <1>2, <1>3, <1>4, <3>1, <3>2
  <2> QED
    BY <2>1, <2>2
<1>17. granted + left <= burst + rate * ((q + n) - Second(first)) /\ granted \in Nat
       /\ first \in Nat
  <2>1. granted \in Nat /\ (answer.allowed => granted = l.granted + 1)
        /\ (~answer.allowed => granted = l.granted)
    BY <1>3, <1>10, <1>14
  <2>2. CASE l = Unused
    <3>1. l.granted = 0 /\ l.hi = 0 /\ first = now
      BY <1>13, <2>2 DEF Unused
    <3>2. hi = now
      BY <1>3, <1>12, <3>1
    <3>3. Second(first) = q + n
      BY <1>16, <3>1, <3>2
    <3>4. granted + left <= burst
      BY <1>1, <1>10, <2>1, <3>1
    <3>5. rate * ((q + n) - (q + n)) = 0
      BY <1>4, <1>9
    <3> QED
      BY <1>3, <2>1, <3>1, <3>3, <3>4, <3>5
  <2>3. CASE l # Unused
    <3>1. first = l.first /\ Second(first) = f
      BY <1>2, <1>13, <2>3
    <3>2. l.granted + tokens <= burst + rate * (q - f)
      BY <1>1, <1>2, <1>5 DEF CellOK
    <3>3. granted + left <= (l.granted + tokens) + n * rate
      <4>1. n * rate \in Nat
        BY <1>9
      <4> QED
        BY <1>3, <1>10, <2>1, <4>1
    <3>4. rate * ((q + n) - f) = rate * (q - f) + n * rate
      BY <1>4, <1>9
    <3>5. rate * (q - f) \in Int /\ n * rate \in Int
      BY <1>4, <1>9
    <3> QED
      BY <1>3, <2>1, <3>1, <3>2, <3>3, <3>4, <3>5
  <2> QED
    BY <2>2, <2>3
<1>18. granted = 0 /\ hi = 0 => answer.state = <<0, 0>>
  <2> HAVE granted = 0 /\ hi = 0
  <2>1. granted = 0 /\ hi = 0
    OBVIOUS
  <2>2. ~answer.allowed
    BY <1>3, <1>14, <2>1
  <2>3. Second(0) = 0
    BY Bounds, SecondIs
  <2>4. q + n = 0
    BY <1>16, <2>1, <2>3
  <2>5. Start(q + n) = 0
    BY <2>4, Bounds DEF Start
  <2> QED
    BY <1>10, <2>2, <2>5
<1>19. ASSUME ~answer.allowed PROVE l.due = Unset \/ now < l.due
  <2>1. n = 0
    BY <1>10, <1>19
  <2>2. now < last + Interval
    BY <1>3, <1>8, <1>9, <2>1, Bounds
  <2>3. l.due # Unset => l.due >= last + Interval
    BY <1>5, <1>6 DEF CellOK
  <2> QED
    BY <1>3, <1>8, <2>2, <2>3, Bounds
<1>20. e.due \in Int /\ (e.due # Unset => e.due >= Start(q + n) + Interval)
  <2>1. CASE answer.allowed
    <3>1. e.due = Unset
      BY <1>11, <2>1 DEF Entered
    <3> QED
      BY <3>1 DEF Unset
  <2>2. CASE ~answer.allowed
    <3>1. Start(q + n) = last /\ answer.state[2] = last /\ answer.retry_after_ms = Interval
      BY <1>4, <1>6, <1>10, <2>2
    <3>2. div_ceil(Interval, Interval) = 1
      <4>1. (Interval + Interval - 1) \div Interval = 1
        BY Bounds
      <4> QED
        BY <4>1 DEF div_ceil
    <3>3. div_ceil(answer.retry_after_ms, Interval) * Interval = Interval
      BY <3>1, <3>2, Bounds
    <3>4. e.due = IF last > clock THEN l.due
                  ELSE IF l.due = Unset \/ clock + Interval < l.due THEN clock + Interval
                  ELSE l.due
      BY <1>11, <2>2, <3>1, <3>3 DEF Entered
    <3>5. l.due # Unset => l.due >= last + Interval
      BY <1>5, <1>6 DEF CellOK
    <3> QED
      BY <1>3, <1>8, <3>1, <3>4, <3>5, Bounds
  <2> QED
    BY <2>1, <2>2
<1>21. PICK s : s = answer.state
  OBVIOUS
<1>22. s = <<s[1], s[2]>> /\ s[1] = left /\ s[2] = Start(q + n)
  BY <1>10, <1>21
<1>23. CellOK(s, e, limit)
  BY <1>1, <1>15, <1>16, <1>17, <1>18, <1>20, <1>21, <1>22 DEF CellOK
<1> QED
  BY <1>10, <1>11, <1>19, <1>21, <1>23

----------------------------------------------------------------------------
(* The inductive invariant.                                                *)

\* What is in force is what was compiled.
InForce(routes, registry) ==
  [k \in DOMAIN routes |->
    [rate_limit |-> routes[k].rate_limit, backends |-> routes[k].backends,
     filters |-> routes[k].filters,
     groups |-> [g \in Range(routes[k].backends.groups) |-> registry[g]]]]

ActiveInv ==
  /\ status \in {"down", "serving"} /\ clock \in 0..ClockMax
  /\ status = "serving" =>
       /\ candidate \in DOMAIN Config
       /\ active = InForce(Config[candidate].routes, Config[candidate].registry)
  /\ \A k \in DOMAIN active : Usable(Limit(k))

CursorInv ==
  cursor = [k \in DOMAIN active |-> cursor[k]] /\ \A k \in DOMAIN active : cursor[k] \in Nat

CellsInv ==
  /\ cell = [k \in Cells |-> cell[k]] /\ ledger = [k \in Cells |-> ledger[k]]
  /\ \A k \in Cells : CellOK(cell[k], ledger[k], Limit(k[1]))

Probing(r) == [pc |-> r.pc, in |-> r.in, route |-> r.route, at |-> r.at, look |-> r.look,
               steady |-> r.steady]
Advancing(r) == [pc |-> r.pc, in |-> r.in, route |-> r.route, steady |-> r.steady]
Scanning(r) == [pc |-> r.pc, in |-> r.in, route |-> r.route, steady |-> r.steady,
                off |-> r.off, look |-> r.look, start |-> r.start]

\* A request under way belongs to the configuration that serves, and whoever is
\* refused was not promised otherwise.
TaskOK(r) ==
  /\ r.pc # "idle" => status = "serving"
  /\ r.pc \in {"clock", "limit", "chain", "probe", "advance", "scan"} => r.route \in DOMAIN active
  /\ r.pc \in {"clock", "limit"} => r.in \in Inbound[candidate] /\ Limit(r.route) # NoLimit
  /\ r.pc = "limit" => r.now \in 0..ClockMax
  /\ r.pc = "429" => r.due = Unset \/ r.now < r.due
  /\ r.pc = "probe" => r = Probing(r)
  /\ r.pc = "advance" => r = Advancing(r)
  /\ r.pc = "scan" => r = Scanning(r)

TasksInv == task = [t \in Tasks |-> task[t]] /\ \A t \in Tasks : TaskOK(task[t])

FrontInv == ActiveInv /\ CursorInv /\ CellsInv /\ TasksInv

LEMMA FrontInit == Init => FrontInv
<1> SUFFICES ASSUME Init PROVE FrontInv
  OBVIOUS
<1>1. DOMAIN active = {} /\ active = <<>> /\ cell = <<>> /\ ledger = <<>> /\ cursor = <<>>
  BY DEF Init
<1>2. ActiveInv
  BY <1>1, Bounds DEF Init, ActiveInv
<1>3. Cells = {}
  BY <1>1 DEF Cells, Limited
<1>4. CursorInv /\ CellsInv
  BY <1>1, <1>3 DEF CursorInv, CellsInv
<1>5. \A t \in Tasks : task[t] = Idle /\ Idle.pc = "idle"
  BY DEF Init, Idle
<1>6. TasksInv
  BY <1>5 DEF Init, TasksInv, TaskOK
<1> QED
  BY <1>2, <1>4, <1>6 DEF FrontInv

\* A step of one task that leaves the configuration alone.
LEMMA TaskStep ==
  ASSUME TasksInv, UNCHANGED <<status, candidate, active>>, NEW t \in Tasks, NEW r, TaskOK(r),
         task' = [task EXCEPT ![t] = r]
  PROVE  TasksInv'
<1>1. \A x : TaskOK(x) => TaskOK(x)'
  BY DEF TaskOK, Limit
<1>2. task' = [u \in Tasks |-> task'[u]] /\ \A u \in Tasks : task'[u] = IF u = t THEN r ELSE task[u]
  BY DEF TasksInv
<1>3. \A u \in Tasks : TaskOK(task'[u])
  BY <1>2 DEF TasksInv
<1>4. ASSUME NEW u \in Tasks PROVE TaskOK(task[u])'
  <2>1. PICK x : x = task'[u]
    OBVIOUS
  <2>2. TaskOK(x)'
    BY <1>1, <1>3, <2>1
  <2> QED
    BY <2>1, <2>2
<1> QED
  BY <1>2, <1>4 DEF TasksInv

\* A step that leaves the cells alone too.
LEMMA Quiet ==
  ASSUME FrontInv, UNCHANGED <<status, candidate, active, clock, cell, ledger>>,
         CursorInv', TasksInv'
  PROVE  FrontInv'
<1>1. ActiveInv'
  BY DEF FrontInv, ActiveInv, Limit
<1>2. CellsInv'
  BY DEF FrontInv, CellsInv, Cells, Limited, Limit
<1> QED
  BY <1>1, <1>2 DEF FrontInv

LEMMA LoadKeeps ==
  ASSUME FrontInv, NEW c \in DOMAIN Sources, from_manifest_path(c) PROVE FrontInv'
<1>1. \A t \in Tasks : task[t].pc = "idle"
  BY DEF FrontInv, TasksInv, TaskOK, from_manifest_path
<1>2. TasksInv'
  <2>1. task' = task
    BY DEF from_manifest_path
  <2> QED
    BY <1>1, <2>1 DEF FrontInv, TasksInv, TaskOK
<1>3. CASE c \notin DOMAIN Config
  <2>1. UNCHANGED <<status, active, clock, cell, ledger, cursor>> /\ status = "down"
    BY <1>3 DEF from_manifest_path
  <2>2. ActiveInv' /\ CursorInv'
    BY <2>1 DEF FrontInv, ActiveInv, CursorInv, Limit
  <2>3. CellsInv'
    BY <2>1 DEF FrontInv, CellsInv, Cells, Limited, Limit
  <2> QED
    BY <1>2, <2>2, <2>3 DEF FrontInv
<1>4. CASE c \in DOMAIN Config
  <2>1. PICK routes, registry : routes = Config[c].routes /\ registry = Config[c].registry
    OBVIOUS
  <2>2. status' = "serving" /\ candidate' = c /\ clock' = clock /\ Install(routes, registry)
    BY <1>4, <2>1 DEF from_manifest_path
  <2>3. active' = InForce(routes, registry) /\ DOMAIN active' = DOMAIN routes
        /\ \A k \in DOMAIN routes : active'[k].rate_limit = routes[k].rate_limit
    BY <2>2 DEF Install, InForce
  <2>4. \A k \in DOMAIN routes : Usable(routes[k].rate_limit)
    BY <1>4, <2>1, LoadedRoutes
  <2>5. ActiveInv'
    BY <1>4, <2>1, <2>2, <2>3, <2>4 DEF FrontInv, ActiveInv, Limit
  <2>6. CursorInv'
    BY <2>2, <2>3 DEF Install, CursorInv
  <2>7. Cells' = {k \in DOMAIN routes : routes[k].rate_limit # NoLimit} \X (0..(IP_SLOTS - 1))
    BY <2>3 DEF Cells, Limited, Limit
  <2>8. /\ cell' = [k \in Cells' |-> <<0, 0>>] /\ ledger' = [k \in Cells' |-> Unused]
    BY <2>2, <2>7 DEF Install
  <2>9. ASSUME NEW k \in Cells' PROVE CellOK(cell[k], ledger[k], Limit(k[1]))'
    <3>1. PICK limit : limit = active'[k[1]].rate_limit
      OBVIOUS
    <3>2. k[1] \in DOMAIN routes /\ limit # NoLimit /\ limit = routes[k[1]].rate_limit
      BY <2>3, <2>7, <3>1
    <3>3. {limit.rate, limit.burst} \subseteq Nat \ {0}
      BY <2>4, <3>2 DEF Usable
    <3>4. CellOK(<<0, 0>>, Unused, limit)
      BY <3>3, FreshCell
    <3>5. cell'[k] = <<0, 0>> /\ ledger'[k] = Unused
      BY <2>8
    <3> QED
      BY <3>1, <3>4, <3>5 DEF Limit
  <2>10. CellsInv'
    BY <2>8, <2>9 DEF CellsInv
  <2> QED
    BY <1>2, <2>5, <2>6, <2>10 DEF FrontInv
<1> QED
  BY <1>3, <1>4

LEMMA ArriveKeeps ==
  ASSUME FrontInv, status = "serving", NEW t \in Tasks, NEW in \in Inbound[candidate], Arrive(t, in)
  PROVE  FrontInv'
<1>1. UNCHANGED <<status, candidate, active, clock, cell, ledger, cursor>>
  BY DEF Arrive
<1>2. candidate \in DOMAIN Config /\ DOMAIN active = DOMAIN Config[candidate].routes
  BY DEF FrontInv, ActiveInv, InForce
<1>3. PICK a : a = Admitted[candidate][in]
  OBVIOUS
<1>4. a.status = 400 \/ a.status = 404 \/ (a.status = 0 /\ a.route \in DOMAIN active)
  BY <1>2, <1>3, AdmittedRoute
<1>a. PICK r : r = task'[t]
  OBVIOUS
<1>5. /\ task' = [task EXCEPT ![t] = r]
      /\ r = IF a.status = 400 THEN [pc |-> "400", in |-> in]
             ELSE IF a.status = 404 THEN [pc |-> "404", in |-> in]
             ELSE [pc |-> IF Limit(a.route) = NoLimit THEN "chain" ELSE "clock",
                   in |-> in, route |-> a.route]
  BY <1>3, <1>a DEF Arrive, FrontInv, TasksInv
<1>6. \/ r = [pc |-> "400", in |-> in]
      \/ r = [pc |-> "404", in |-> in]
      \/ a.route \in DOMAIN active /\ Limit(a.route) = NoLimit
         /\ r = [pc |-> "chain", in |-> in, route |-> a.route]
      \/ a.route \in DOMAIN active /\ Limit(a.route) # NoLimit
         /\ r = [pc |-> "clock", in |-> in, route |-> a.route]
  <2>1. CASE a.status = 400
    BY <1>5, <2>1
  <2>2. CASE a.status = 404
    BY <1>5, <2>2
  <2>3. CASE a.status # 400 /\ a.status # 404
    <3>1. r = [pc |-> IF Limit(a.route) = NoLimit THEN "chain" ELSE "clock",
               in |-> in, route |-> a.route]
      BY <1>5, <2>3
    <3> QED
      BY <1>4, <2>3, <3>1
  <2> QED
    BY <2>1, <2>2, <2>3
<1>7. TaskOK(r)
  BY <1>6 DEF TaskOK
<1>8. task' = [task EXCEPT ![t] = r]
  BY <1>5
<1>9. TasksInv' /\ CursorInv'
  BY <1>1, <1>7, <1>8, TaskStep DEF FrontInv, CursorInv
<1> QED
  BY <1>1, <1>9, Quiet

LEMMA ReadClockKeeps ==
  ASSUME FrontInv, NEW t \in Tasks, ReadClock(t) PROVE FrontInv'
<1>1. UNCHANGED <<status, candidate, active, clock, cell, ledger, cursor>> /\ task[t].pc = "clock"
  BY DEF ReadClock
<1>2. PICK x : x = task[t]
  OBVIOUS
<1>3. PICK r : r = [pc |-> "limit", in |-> x.in, route |-> x.route, now |-> clock]
  OBVIOUS
<1>4. task' = [task EXCEPT ![t] = r]
  BY <1>2, <1>3 DEF ReadClock, FrontInv, TasksInv
<1>5. TaskOK(x) /\ x.pc = "clock" /\ clock \in 0..ClockMax
  BY <1>1, <1>2 DEF FrontInv, TasksInv, ActiveInv
<1>6. TaskOK(r)
  BY <1>3, <1>5 DEF TaskOK
<1>7. TasksInv' /\ CursorInv'
  BY <1>1, <1>4, <1>6, TaskStep DEF FrontInv, CursorInv
<1> QED
  BY <1>1, <1>7, Quiet

LEMMA CheckKeeps ==
  ASSUME FrontInv, NEW t \in Tasks, check_at(t) PROVE FrontInv'
<1>1. UNCHANGED <<status, candidate, active, clock, cursor>> /\ task[t].pc = "limit"
  BY DEF check_at
<1>2. PICK x, k, limit : x = task[t] /\ k = CellOf(x.route, x.in.peer) /\ limit = Limit(x.route)
  OBVIOUS
<1>3. PICK answer : answer = apply_bucket(cell[k], 1, Bucket(limit.burst, limit.rate), x.now)
  OBVIOUS
<1>4. bucket_spec(x.route) = Bucket(limit.burst, limit.rate)
  BY <1>2 DEF bucket_spec, Bucket
<1>5. PICK r : r = task'[t]
  OBVIOUS
<1>6. /\ cell' = [cell EXCEPT ![k] = answer.state]
      /\ ledger' = [ledger EXCEPT ![k] = Entered(ledger[k], x.now, answer)]
      /\ task' = [task EXCEPT ![t] = r]
      /\ r = IF answer.allowed THEN [pc |-> "chain", in |-> x.in, route |-> x.route]
             ELSE [pc |-> "429", in |-> x.in, now |-> x.now, due |-> ledger[k].due]
  BY <1>2, <1>3, <1>4, <1>5 DEF check_at, FrontInv, TasksInv
<1>7. /\ TaskOK(x) /\ x.route \in DOMAIN active /\ limit # NoLimit
      /\ x.in \in Inbound[candidate] /\ x.now \in 0..ClockMax /\ status = "serving"
  BY <1>1, <1>2 DEF FrontInv, TasksInv, TaskOK
<1>8. {limit.rate, limit.burst} \subseteq Nat \ {0} /\ clock \in 0..ClockMax
      /\ candidate \in DOMAIN Config
  BY <1>2, <1>7 DEF FrontInv, ActiveInv, Usable
<1>9. k \in Cells /\ k[1] = x.route
  <2>1. PICK h : h = slot_for_ip(x.in.peer)
    OBVIOUS
  <2>2. h \in 0..(IP_SLOTS - 1)
    <3>1. candidate \in DOMAIN Sources
      BY <1>8, LoadedRoutes
    <3>2. Hash[ip_key_bytes(x.in.peer)] \in Nat
      BY <1>7, <3>1, HashAssumption DEF HashAssumption
    <3> QED
      BY <2>1, <3>2, Bounds DEF slot_for_ip
  <2>3. 0 \in 0..(IP_SLOTS - 1)
    BY Bounds
  <2>4. PICK slot \in 0..(IP_SLOTS - 1) : k = <<x.route, slot>>
    BY <1>2, <2>1, <2>2, <2>3 DEF CellOf
  <2> QED
    BY <1>2, <1>7, <2>4 DEF Cells, Limited
<1>10. PICK c, l : c = cell[k] /\ l = ledger[k]
  OBVIOUS
<1>11. CellOK(c, l, limit)
  BY <1>2, <1>9, <1>10 DEF FrontInv, CellsInv
<1>12. PICK e : e = Entered(l, x.now, answer)
  OBVIOUS
<1>13. /\ CellOK(answer.state, e, limit) /\ answer.allowed \in BOOLEAN
       /\ ~answer.allowed => l.due = Unset \/ x.now < l.due
  BY <1>3, <1>7, <1>8, <1>10, <1>11, <1>12, CellStep
<1>14. TasksInv'
  <2>1. CASE answer.allowed
    <3>1. r = [pc |-> "chain", in |-> x.in, route |-> x.route]
      BY <1>6, <2>1
    <3>2. TaskOK(r)
      BY <1>7, <3>1 DEF TaskOK
    <3> QED
      BY <1>1, <1>6, <3>2, TaskStep DEF FrontInv
  <2>2. CASE ~answer.allowed
    <3>1. r = [pc |-> "429", in |-> x.in, now |-> x.now, due |-> l.due]
      BY <1>6, <1>10, <2>2
    <3>2. TaskOK(r)
      BY <1>7, <1>13, <2>2, <3>1 DEF TaskOK
    <3> QED
      BY <1>1, <1>6, <3>2, TaskStep DEF FrontInv
  <2> QED
    BY <2>1, <2>2
<1>15. Cells' = Cells /\ \A j \in Cells : Limit(j[1])' = Limit(j[1])
  BY <1>1 DEF Cells, Limited, Limit
<1>16. /\ cell' = [j \in Cells |-> cell'[j]] /\ ledger' = [j \in Cells |-> ledger'[j]]
       /\ \A j \in Cells : j # k => cell'[j] = cell[j] /\ ledger'[j] = ledger[j]
       /\ cell'[k] = answer.state /\ ledger'[k] = e
  <2>1. /\ cell' = [cell EXCEPT ![k] = answer.state] /\ ledger' = [ledger EXCEPT ![k] = e]
    BY <1>6, <1>10, <1>12
  <2>2. /\ cell = [j \in Cells |-> cell[j]] /\ ledger = [j \in Cells |-> ledger[j]]
    BY DEF FrontInv, CellsInv
  <2> QED
    BY <1>9, <2>1, <2>2
<1>17. ASSUME NEW j \in Cells PROVE CellOK(cell'[j], ledger'[j], Limit(j[1])')
  <2>1. CASE j = k
    BY <1>2, <1>9, <1>13, <1>15, <1>16, <2>1
  <2>2. CASE j # k
    BY <1>15, <1>16, <2>2 DEF FrontInv, CellsInv
  <2> QED
    BY <2>1, <2>2
<1>18. CellsInv'
  BY <1>15, <1>16, <1>17 DEF CellsInv
<1>19. ActiveInv' /\ CursorInv'
  BY <1>1 DEF FrontInv, ActiveInv, CursorInv, Limit
<1> QED
  BY <1>14, <1>18, <1>19 DEF FrontInv

\* What one load of the early-out comes to, and one of the walk.
Probed(groups, x) ==
  IF x.at \notin DOMAIN groups THEN [answer |-> "no", look |-> Begin]
  ELSE has_eligible(x.route, groups[x.at], x.look)

ProbeMove(x, r, groups, found) ==
  \/ found.answer = "reading" /\ r = [x EXCEPT !.look = found.look]
  \/ r = [pc |-> "advance", in |-> x.in, route |-> x.route, steady |-> x.steady]
  \/ /\ found.answer # "reading" /\ found.answer # "yes" /\ x.at < Len(groups)
     /\ r = [x EXCEPT !.at = x.at + 1, !.look = Begin]
  \/ /\ found.answer # "reading" /\ found.answer # "yes" /\ ~(x.at < Len(groups))
     /\ r = [pc |-> "503", in |-> x.in, steady |-> x.steady]

LEMMA ProbeStep ==
  ASSUME NEW t \in Tasks, task = [u \in Tasks |-> task[u]], ProbeGroup(t),
         NEW x, x = task[t], NEW r, r = task'[t], NEW groups, groups = Split(x.route).groups,
         NEW found, found = Probed(groups, x)
  PROVE  x.pc = "probe" /\ task' = [task EXCEPT ![t] = r] /\ ProbeMove(x, r, groups, found)
<1>1. PICK f, begin : f = Fail(t) /\ begin = Begin
  OBVIOUS
<1>2. f = [pc |-> "503", in |-> x.in, steady |-> x.steady]
  BY <1>1 DEF Fail
<1>3. /\ task[t].pc = "probe"
      /\ task' = [task EXCEPT ![t] =
                   IF Probed(groups, x).answer = "reading"
                   THEN [task[t] EXCEPT !.look = Probed(groups, x).look]
                   ELSE IF Probed(groups, x).answer = "yes"
                   THEN [pc |-> "advance", in |-> task[t].in, route |-> task[t].route,
                         steady |-> task[t].steady]
                   ELSE IF task[t].at < Len(groups)
                   THEN [task[t] EXCEPT !.at = task[t].at + 1, !.look = Begin]
                   ELSE Fail(t)]
  BY DEF ProbeGroup, Probed
<1>4. /\ r = IF found.answer = "reading" THEN [x EXCEPT !.look = found.look]
             ELSE IF found.answer = "yes"
             THEN [pc |-> "advance", in |-> x.in, route |-> x.route, steady |-> x.steady]
             ELSE IF x.at < Len(groups) THEN [x EXCEPT !.at = x.at + 1, !.look = begin]
             ELSE f
      /\ task' = [task EXCEPT ![t] = r]
  BY <1>1, <1>3
<1>5. ProbeMove(x, r, groups, found)
  BY <1>1, <1>2, <1>4, Zenon DEF ProbeMove
<1> QED
  BY <1>3, <1>4, <1>5

ScanMove(x, r, table, g, found) ==
  \/ found.answer = "reading" /\ r = [x EXCEPT !.look = found.look]
  \/ r = [pc |-> "forwarded", in |-> x.in, to |-> g]
  \/ /\ found.answer # "reading" /\ found.answer # "yes" /\ x.off + 1 < Len(table)
     /\ r = [x EXCEPT !.off = x.off + 1, !.look = Begin]
  \/ /\ found.answer # "reading" /\ found.answer # "yes" /\ ~(x.off + 1 < Len(table))
     /\ r = [pc |-> "503", in |-> x.in, steady |-> x.steady]

LEMMA ScanStep ==
  ASSUME NEW t \in Tasks, task = [u \in Tasks |-> task[u]], Scan(t),
         NEW x, x = task[t], NEW r, r = task'[t], NEW split, split = Split(x.route),
         NEW g, g = GroupAt(split, x.start + x.off), NEW found, found = has_eligible(x.route, g, x.look)
  PROVE  x.pc = "scan" /\ task' = [task EXCEPT ![t] = r] /\ ScanMove(x, r, split.table, g, found)
<1>1. PICK f, begin, table : f = Fail(t) /\ begin = Begin /\ table = split.table
  OBVIOUS
<1>2. f = [pc |-> "503", in |-> x.in, steady |-> x.steady]
  BY <1>1 DEF Fail
<1>3. /\ task[t].pc = "scan"
      /\ task' = [task EXCEPT ![t] =
                   IF has_eligible(x.route, g, x.look).answer = "reading"
                   THEN [task[t] EXCEPT !.look = has_eligible(x.route, g, x.look).look]
                   ELSE IF has_eligible(x.route, g, x.look).answer = "yes"
                   THEN [pc |-> "forwarded", in |-> task[t].in, to |-> g]
                   ELSE IF task[t].off + 1 < Len(split.table)
                   THEN [task[t] EXCEPT !.off = task[t].off + 1, !.look = Begin]
                   ELSE Fail(t)]
  BY DEF Scan
<1>4. /\ r = IF found.answer = "reading" THEN [x EXCEPT !.look = found.look]
             ELSE IF found.answer = "yes" THEN [pc |-> "forwarded", in |-> x.in, to |-> g]
             ELSE IF x.off + 1 < Len(table) THEN [x EXCEPT !.off = x.off + 1, !.look = begin]
             ELSE f
      /\ task' = [task EXCEPT ![t] = r]
  BY <1>1, <1>3
<1>5. ScanMove(x, r, table, g, found)
  BY <1>1, <1>2, <1>4, Zenon DEF ScanMove
<1> QED
  BY <1>1, <1>3, <1>4, <1>5

\* The steps of a task between the limiter and its answer.
LEMMA WalkKeeps ==
  ASSUME FrontInv, NEW t \in Tasks,
         Dispatch(t) \/ Respond(t) \/ ProbeGroup(t) \/ Scan(t) \/ Done(t)
  PROVE  FrontInv'
<1>1. UNCHANGED <<status, candidate, active, clock, cell, ledger, cursor>>
  BY DEF Dispatch, Respond, ProbeGroup, Scan, Done
<1>2. PICK x, r : x = task[t] /\ r = task'[t]
  OBVIOUS
<1>3. TaskOK(x) /\ task = [u \in Tasks |-> task[u]]
  BY <1>2 DEF FrontInv, TasksInv
<1>4. task' = [task EXCEPT ![t] = r] /\ TaskOK(r)
  <2>1. CASE Dispatch(t)
    <3>1. PICK steady, look : steady = Reach(x.route) \cap (healthy \ ejected) /\ look = Begin
      OBVIOUS
    <3>2. /\ task' = [task EXCEPT ![t] = r] /\ x.pc = "chain"
          /\ r = [pc |-> "probe", in |-> x.in, route |-> x.route, at |-> 1, look |-> look,
                  steady |-> steady]
      BY <1>2, <1>3, <2>1, <3>1 DEF Dispatch
    <3> QED
      BY <1>3, <3>2 DEF TaskOK, Probing
  <2>2. CASE Respond(t)
    <3>1. /\ task' = [task EXCEPT ![t] = r] /\ x.pc = "chain"
          /\ r = [pc |-> "filtered", in |-> x.in]
      BY <1>2, <1>3, <2>2 DEF Respond
    <3> QED
      BY <1>3, <3>1 DEF TaskOK
  <2>3. CASE ProbeGroup(t)
    <3>1. PICK groups, begin : groups = Split(x.route).groups /\ begin = Begin
      OBVIOUS
    <3>2. PICK found : found = Probed(groups, x)
      OBVIOUS
    <3>3. task' = [task EXCEPT ![t] = r] /\ x.pc = "probe" /\ ProbeMove(x, r, groups, found)
      BY <1>2, <1>3, <2>3, <3>1, <3>2, ProbeStep
    <3>4. x = Probing(x)
      BY <1>3, <3>3 DEF TaskOK
    <3>5. \/ r = [x EXCEPT !.look = found.look]
          \/ r = [pc |-> "advance", in |-> x.in, route |-> x.route, steady |-> x.steady]
          \/ r = [x EXCEPT !.at = x.at + 1, !.look = begin]
          \/ r = [pc |-> "503", in |-> x.in, steady |-> x.steady]
      BY <3>1, <3>3, Zenon DEF ProbeMove
    <3>6. CASE r = [x EXCEPT !.look = found.look]
      BY <1>3, <3>3, <3>4, <3>6 DEF TaskOK, Probing
    <3>7. CASE r = [pc |-> "advance", in |-> x.in, route |-> x.route, steady |-> x.steady]
      BY <1>3, <3>3, <3>7 DEF TaskOK, Advancing
    <3>8. CASE r = [x EXCEPT !.at = x.at + 1, !.look = begin]
      BY <1>3, <3>3, <3>4, <3>8 DEF TaskOK, Probing
    <3>9. CASE r = [pc |-> "503", in |-> x.in, steady |-> x.steady]
      BY <1>3, <3>3, <3>9 DEF TaskOK
    <3> QED
      BY <3>5, <3>6, <3>7, <3>8, <3>9
  <2>4. CASE Scan(t)
    <3>1. PICK split, begin, g : /\ split = Split(x.route) /\ begin = Begin
                                 /\ g = GroupAt(split, x.start + x.off)
      OBVIOUS
    <3>2. PICK found : found = has_eligible(x.route, g, x.look)
      OBVIOUS
    <3>3. task' = [task EXCEPT ![t] = r] /\ x.pc = "scan" /\ ScanMove(x, r, split.table, g, found)
      BY <1>2, <1>3, <2>4, <3>1, <3>2, ScanStep
    <3>4. x = Scanning(x)
      BY <1>3, <3>3 DEF TaskOK
    <3>5. \/ r = [x EXCEPT !.look = found.look]
          \/ r = [pc |-> "forwarded", in |-> x.in, to |-> g]
          \/ r = [x EXCEPT !.off = x.off + 1, !.look = begin]
          \/ r = [pc |-> "503", in |-> x.in, steady |-> x.steady]
      BY <3>1, <3>3, Zenon DEF ScanMove
    <3>6. CASE r = [x EXCEPT !.look = found.look]
      BY <1>3, <3>3, <3>4, <3>6 DEF TaskOK, Scanning
    <3>7. CASE r = [pc |-> "forwarded", in |-> x.in, to |-> g]
      BY <1>3, <3>3, <3>7 DEF TaskOK
    <3>8. CASE r = [x EXCEPT !.off = x.off + 1, !.look = begin]
      BY <1>3, <3>3, <3>4, <3>8 DEF TaskOK, Scanning
    <3>9. CASE r = [pc |-> "503", in |-> x.in, steady |-> x.steady]
      BY <1>3, <3>3, <3>9 DEF TaskOK
    <3> QED
      BY <3>5, <3>6, <3>7, <3>8, <3>9
  <2>5. CASE Done(t)
    <3>1. task' = [task EXCEPT ![t] = r] /\ r = Idle
      BY <1>2, <1>3, <2>5 DEF Done
    <3> QED
      BY <3>1 DEF TaskOK, Idle
  <2> QED
    BY <2>1, <2>2, <2>3, <2>4, <2>5
<1>5. TasksInv'
  BY <1>1, <1>4, TaskStep DEF FrontInv
<1>6. CursorInv'
  BY <1>1 DEF FrontInv, CursorInv
<1> QED
  BY <1>1, <1>5, <1>6, Quiet

LEMMA AdvanceKeeps ==
  ASSUME FrontInv, NEW t \in Tasks, Advance(t) PROVE FrontInv'
<1>1. UNCHANGED <<status, candidate, active, clock, cell, ledger>> /\ task[t].pc = "advance"
  BY DEF Advance
<1>2. PICK x, r : x = task[t] /\ r = task'[t]
  OBVIOUS
<1>3. TaskOK(x) /\ task = [u \in Tasks |-> task[u]] /\ x.pc = "advance"
  BY <1>1, <1>2 DEF FrontInv, TasksInv
<1>4. /\ task' = [task EXCEPT ![t] = r]
      /\ \/ r = [pc |-> "503", in |-> x.in, steady |-> x.steady]
         \/ \E start, look : r = [pc |-> "scan", in |-> x.in, route |-> x.route,
                                  steady |-> x.steady, off |-> 0, look |-> look, start |-> start]
  BY <1>2, <1>3 DEF Advance, Fail
<1>5. TaskOK(r)
  BY <1>3, <1>4 DEF TaskOK, Scanning
<1>6. TasksInv'
  BY <1>1, <1>4, <1>5, TaskStep DEF FrontInv
<1>7. CursorInv'
  <2>1. x.route \in DOMAIN active
    BY <1>3 DEF TaskOK
  <2>2. CASE cursor' = cursor
    BY <1>1, <2>2 DEF FrontInv, CursorInv
  <2>3. CASE cursor' # cursor
    <3>1. PICK k, n : /\ k = x.route /\ cursor' = [cursor EXCEPT ![k] = n]
                      /\ n = 0 \/ n = (cursor[k] + 1) % (UsizeMax + 1)
      BY <1>2, <2>3 DEF Advance
    <3>2. cursor[k] \in Nat /\ cursor = [j \in DOMAIN active |-> cursor[j]]
      BY <2>1, <3>1 DEF FrontInv, CursorInv
    <3>3. n \in Nat
      BY <3>1, <3>2, FrontDoorAssumption DEF FrontDoorAssumption
    <3> QED
      BY <1>1, <2>1, <3>1, <3>2, <3>3 DEF FrontInv, CursorInv
  <2> QED
    BY <2>2, <2>3
<1> QED
  BY <1>1, <1>6, <1>7, Quiet

\* What a pick is left with when an instance goes out of service.
Unsteadied(x, r, i, ejection) ==
  /\ r.pc = x.pc /\ (x.pc \notin {"probe", "advance", "scan"} => r = x)
  /\ x.pc \in {"probe", "advance", "scan"} => r.route = x.route /\ r.steady = x.steady \ {i}
  /\ x.pc = "probe" => r.at = x.at /\ r = Probing(r)
  /\ x.pc = "advance" => r = Advancing(r)
  /\ x.pc = "scan" => r.off = x.off /\ r.start = x.start /\ r = Scanning(r)
  /\ x.pc \in {"probe", "scan"} =>
       r.look = [x.look EXCEPT !.clear = IF ejection THEN @ \ {i} ELSE @]

LEMMA UnsteadyTask ==
  ASSUME TasksInv, NEW i, NEW ejection, Unsteady(i, ejection), NEW t \in Tasks,
         NEW x, x = task[t], NEW r, r = task'[t]
  PROVE  Unsteadied(x, r, i, ejection)
<1>1. TaskOK(x)
  BY DEF TasksInv
<1>2. PICK steady, look : /\ steady = x.steady \ {i}
                          /\ look = [x.look EXCEPT !.clear = IF ejection THEN @ \ {i} ELSE @]
  OBVIOUS
<1>3. r = IF x.pc \in {"probe", "scan"} THEN [x EXCEPT !.steady = steady, !.look = look]
          ELSE IF x.pc = "advance" THEN [x EXCEPT !.steady = steady] ELSE x
  BY <1>2 DEF Unsteady
<1>4. CASE x.pc = "probe"
  <2>1. x = Probing(x) /\ r = [x EXCEPT !.steady = steady, !.look = look]
    BY <1>1, <1>3, <1>4 DEF TaskOK
  <2> QED
    BY <1>2, <1>4, <2>1 DEF Unsteadied, Probing
<1>5. CASE x.pc = "advance"
  <2>1. x = Advancing(x) /\ r = [x EXCEPT !.steady = steady]
    BY <1>1, <1>3, <1>5 DEF TaskOK
  <2> QED
    BY <1>2, <1>5, <2>1 DEF Unsteadied, Advancing
<1>6. CASE x.pc = "scan"
  <2>1. x = Scanning(x) /\ r = [x EXCEPT !.steady = steady, !.look = look]
    BY <1>1, <1>3, <1>6 DEF TaskOK
  <2> QED
    BY <1>2, <1>6, <2>1 DEF Unsteadied, Scanning
<1>7. CASE x.pc \notin {"probe", "advance", "scan"}
  BY <1>3, <1>7 DEF Unsteadied
<1> QED
  BY <1>4, <1>5, <1>6, <1>7

\* An instance changes state.
Moves(i) == Flip(i) \/ Eject(i) \/ Expire(i)

\* The world: the clock and the instances.
LEMMA WorldKeeps ==
  ASSUME FrontInv, Tick \/ (\E to \in 0..ClockMax : SetBack(to)) \/ (\E i : Moves(i))
  PROVE  FrontInv'
<1>1. CASE Tick
  <2>1. UNCHANGED <<status, candidate, active, cell, ledger, cursor, task>>
        /\ clock' = clock + 1 /\ clock < ClockMax
    BY <1>1 DEF Tick
  <2>2. ActiveInv' /\ CursorInv'
    BY <2>1, Bounds DEF FrontInv, ActiveInv, CursorInv, Limit
  <2>3. CellsInv'
    BY <2>1 DEF FrontInv, CellsInv, Cells, Limited, Limit
  <2>4. TasksInv'
    BY <2>1 DEF FrontInv, TasksInv, TaskOK, Limit
  <2> QED
    BY <2>2, <2>3, <2>4 DEF FrontInv
<1>2. ASSUME NEW to \in 0..ClockMax, SetBack(to) PROVE FrontInv'
  <2>1. UNCHANGED <<status, candidate, active, cell, cursor, task>> /\ clock' = to
        /\ ledger' = [k \in DOMAIN ledger |-> [ledger[k] EXCEPT !.due = Unset]]
    BY <1>2 DEF SetBack
  <2>2. ActiveInv' /\ CursorInv'
    BY <2>1 DEF FrontInv, ActiveInv, CursorInv, Limit
  <2>3. Cells' = Cells /\ \A k \in Cells : Limit(k[1])' = Limit(k[1])
    BY <2>1 DEF Cells, Limited, Limit
  <2>4. /\ ledger' = [k \in Cells |-> ledger'[k]] /\ cell' = [k \in Cells |-> cell'[k]]
        /\ \A k \in Cells : ledger'[k] = [ledger[k] EXCEPT !.due = Unset]
    <3>1. /\ cell = [j \in Cells |-> cell[j]] /\ ledger = [j \in Cells |-> ledger[j]]
      BY DEF FrontInv, CellsInv
    <3> QED
      BY <2>1, <3>1
  <2>5. ASSUME NEW k \in Cells PROVE CellOK(cell'[k], ledger'[k], Limit(k[1])')
    <3>1. PICK c, l, limit, e : c = cell[k] /\ l = ledger[k] /\ limit = Limit(k[1]) /\ e = ledger'[k]
      OBVIOUS
    <3>2. CellOK(c, l, limit)
      BY <3>1 DEF FrontInv, CellsInv
    <3>3. l = [granted |-> l.granted, first |-> l.first, hi |-> l.hi, due |-> l.due]
      BY <3>2 DEF CellOK
    <3>4. e = [granted |-> l.granted, first |-> l.first, hi |-> l.hi, due |-> Unset]
      BY <2>4, <3>1, <3>3
    <3>5. CellOK(c, e, limit)
      BY <3>2, <3>4 DEF CellOK, Unset
    <3> QED
      BY <2>1, <2>3, <3>1, <3>5
  <2>6. CellsInv'
    BY <2>3, <2>4, <2>5 DEF CellsInv
  <2>7. TasksInv'
    BY <2>1 DEF FrontInv, TasksInv, TaskOK, Limit
  <2> QED
    BY <2>2, <2>6, <2>7 DEF FrontInv
<1>3. ASSUME NEW i, Moves(i) PROVE FrontInv'
  <2>1. /\ UNCHANGED <<status, candidate, active, clock, cell, ledger, cursor>>
        /\ task' = task \/ \E ejection : Unsteady(i, ejection)
    BY <1>3 DEF Moves, Flip, Eject, Expire
  <2>2. CASE task' = task
    <3>1. TasksInv' /\ CursorInv'
      BY <2>1, <2>2 DEF FrontInv, TasksInv, TaskOK, CursorInv, Limit
    <3> QED
      BY <2>1, <3>1, Quiet
  <2>3. ASSUME NEW ejection, Unsteady(i, ejection) PROVE FrontInv'
    <3>1. ASSUME NEW t \in Tasks PROVE TaskOK(task[t])'
      <4>1. PICK x, r : x = task[t] /\ r = task'[t]
        OBVIOUS
      <4>2. TaskOK(x) /\ TasksInv
        BY <4>1 DEF FrontInv, TasksInv
      <4>3. /\ r.pc = x.pc /\ (x.pc \notin {"probe", "advance", "scan"} => r = x)
            /\ x.pc \in {"probe", "advance", "scan"} => r.route = x.route
            /\ x.pc = "probe" => r = Probing(r)
            /\ x.pc = "advance" => r = Advancing(r)
            /\ x.pc = "scan" => r = Scanning(r)
        <5>1. Unsteadied(x, r, i, ejection)
          BY <2>3, <4>1, <4>2, UnsteadyTask
        <5> QED
          BY <5>1, Zenon DEF Unsteadied
      <4>4. TaskOK(r)
        BY <4>2, <4>3 DEF TaskOK
      <4> QED
        BY <2>1, <4>1, <4>4 DEF TaskOK, Limit
    <3>2. task' = [t \in Tasks |-> task'[t]]
      BY <2>3 DEF Unsteady
    <3>3. TasksInv'
      BY <3>1, <3>2 DEF TasksInv
    <3>4. CursorInv'
      BY <2>1 DEF FrontInv, CursorInv
    <3> QED
      BY <2>1, <3>3, <3>4, Quiet
  <2> QED
    BY <2>1, <2>2, <2>3
<1> QED
  BY <1>1, <1>2, <1>3

LEMMA FrontStep == FrontInv /\ [Next]_vars => FrontInv'
<1> SUFFICES ASSUME FrontInv, [Next]_vars PROVE FrontInv'
  OBVIOUS
<1>1. ASSUME NEW c \in DOMAIN Sources, from_manifest_path(c) PROVE FrontInv'
  BY <1>1, LoadKeeps
<1>2. ASSUME NEW t \in Tasks,
             \/ status = "serving" /\ \E in \in Inbound[candidate] : Arrive(t, in)
             \/ ReadClock(t) \/ check_at(t) \/ Dispatch(t) \/ Respond(t)
             \/ ProbeGroup(t) \/ Advance(t) \/ Scan(t) \/ Done(t)
      PROVE  FrontInv'
  BY <1>2, ArriveKeeps, ReadClockKeeps, CheckKeeps, WalkKeeps, AdvanceKeeps
<1>3. CASE Tick \/ (\E to \in 0..ClockMax : SetBack(to)) \/ (\E i : Moves(i))
  BY <1>3, WorldKeeps
<1>4. CASE UNCHANGED vars
  <2>1. UNCHANGED <<status, candidate, active, clock, cell, ledger, cursor, task>>
    BY <1>4 DEF vars
  <2>2. CursorInv' /\ TasksInv'
    BY <2>1 DEF FrontInv, CursorInv, TasksInv, TaskOK, Limit
  <2> QED
    BY <2>1, <2>2, Quiet
<1> QED
  BY <1>1, <1>2, <1>3, <1>4 DEF Next, Moves

LEMMA FrontInvariant == Spec => []FrontInv
BY FrontInit, FrontStep, PTL DEF Spec

\* A cell grants no more than its burst and the refills of the seconds between its
\* first consultation and its latest, for any rates, any number of tasks and slots,
\* and a clock that steps back (NativeRateLimit::check, apply_bucket).
THEOREM GrantsAreBounded == Spec => []GrantsBounded
<1>1. FrontInv => GrantsBounded
  <2> SUFFICES ASSUME FrontInv, NEW k \in DOMAIN ledger
               PROVE  ledger[k].granted <= Limit(k[1]).burst + Limit(k[1]).rate
                        * ((ledger[k].hi \div Interval) - (ledger[k].first \div Interval))
    BY DEF GrantsBounded
  <2>1. k \in Cells
    BY DEF FrontInv, CellsInv
  <2>2. PICK c, l, limit, m : /\ c = cell[k] /\ l = ledger[k] /\ limit = Limit(k[1])
                              /\ m = limit.rate * (Second(l.hi) - Second(l.first))
    OBVIOUS
  <2>3. CellOK(c, l, limit)
    BY <2>1, <2>2 DEF FrontInv, CellsInv
  <2>4. limit # NoLimit /\ Usable(limit)
    BY <2>1, <2>2 DEF Cells, Limited, FrontInv, ActiveInv
  <2>5. m \in Int
    <3>1. Second(l.hi) \in Int /\ Second(l.first) \in Int
      BY <2>3, Bounds, SecondOf DEF CellOK
    <3>2. limit.rate \in Nat
      BY <2>4 DEF Usable
    <3> QED
      BY <2>2, <3>1, <3>2
  <2>6. l.granted + c[1] <= limit.burst + m /\ l.granted \in Nat /\ c[1] \in Nat
        /\ limit.burst \in Nat
    BY <2>2, <2>3, <2>4 DEF CellOK, Usable
  <2>7. l.granted <= limit.burst + m
    BY <2>5, <2>6
  <2> QED
    BY <2>2, <2>7 DEF Second
<1> QED
  BY <1>1, FrontInvariant, PTL

\* Whoever comes back when a 429 told it to, nobody else having been admitted from
\* its cell since and the clock not having been set back, is admitted
\* (synth_retry_after, apply_bucket).
THEOREM RetriesAreHonest == Spec => []RetryHonest
<1>1. FrontInv => RetryHonest
  BY DEF FrontInv, TasksInv, TaskOK, RetryHonest
<1> QED
  BY <1>1, FrontInvariant, PTL

----------------------------------------------------------------------------
(* The walk of a split.                                                    *)

\* From wherever it starts, a whole walk meets every group.
Met(split, start, g) == \E o \in 0..(Len(split.table) - 1) : GroupAt(split, start + o) = g

LEMMA WalkCovers ==
  ASSUME NEW split, SplitComplete(split), NEW start \in Nat, NEW g, g \in Range(split.groups)
  PROVE  Met(split, start, g)
<1>1. PICK table, groups, n : table = split.table /\ groups = split.groups /\ n = Len(table)
  OBVIOUS
<1>2. /\ table \in Seq(DOMAIN groups) /\ table # <<>>
      /\ \A i \in DOMAIN groups : \E j \in DOMAIN table : table[j] = i
  BY <1>1 DEF SplitComplete, Range
<1>3. n \in Nat \ {0} /\ DOMAIN table = 1..n
  BY <1>1, <1>2
<1>4. PICK i \in DOMAIN groups : g = groups[i]
  BY <1>1 DEF Range
<1>5. PICK j \in 1..n : table[j] = i
  BY <1>2, <1>3
<1>6. PICK q, s : q = start \div n /\ s = start % n
  OBVIOUS
<1>7. q \in Int /\ s \in 0..(n - 1) /\ start = q * n + s
  BY <1>3, <1>6
<1>8. PICK o \in 0..(n - 1), p \in Int : start + o = p * n + (j - 1)
  <2>1. CASE j - 1 >= s
    <3>1. (j - 1) - s \in 0..(n - 1) /\ start + ((j - 1) - s) = q * n + (j - 1)
      BY <1>3, <1>7, <2>1
    <3> QED
      BY <1>7, <3>1
  <2>2. CASE j - 1 < s
    <3>1. ((j - 1) - s) + n \in 0..(n - 1)
      BY <1>3, <1>7, <2>2
    <3>2. start + (((j - 1) - s) + n) = (q + 1) * n + (j - 1) /\ q + 1 \in Int
      BY <1>3, <1>7
    <3> QED
      BY <3>1, <3>2
  <2> QED
    BY <1>3, <1>7, <2>1, <2>2
<1>9. (start + o) % n = j - 1
  <2>1. j - 1 \in 0..(n - 1)
    BY <1>3
  <2> QED
    BY <1>3, <1>8, <2>1, ModOf
<1>10. GroupAt(split, start + o) = g
  <2>1. ((start + o) % n) + 1 = j
    BY <1>9
  <2> QED
    BY <1>1, <1>4, <1>5, <2>1 DEF GroupAt
<1> QED
  BY <1>1, <1>10 DEF Met

\* A look at a group has passed none of its instances that stayed eligible, and
\* its clock calls none of them ejected.
Looking(look, g, steady) ==
  /\ look = [who |-> look.who, bit |-> look.bit, clear |-> look.clear]
  /\ look.who \in Nat \ {0} /\ look.bit \in {"health", "outlier"}
  /\ \A i \in steady : i[1] = g => i[2] >= look.who
  /\ look # Begin => \A i \in steady : i[1] = g => i \in look.clear

\* None of the group stayed eligible.
Passed(g, steady) == \A i \in steady : i[1] # g

\* A pick keeps sight of the instances that stayed eligible: those it has passed
\* are not among them.
Walking(r) ==
  /\ r.pc \in {"probe", "advance", "scan"} =>
       r.steady \subseteq (healthy \ ejected) \cap Reach(r.route)
  /\ r.pc = "probe" =>
       LET groups == Split(r.route).groups IN
       /\ r.at \in Nat \ {0}
       /\ \A j \in DOMAIN groups : j < r.at => Passed(groups[j], r.steady)
       /\ Looking(r.look, groups[r.at], r.steady)
  /\ r.pc = "scan" =>
       LET split == Split(r.route) IN
       /\ r.start \in Nat /\ r.off \in Nat /\ r.off < Len(split.table)
       /\ \A o \in Nat : o < r.off => Passed(GroupAt(split, r.start + o), r.steady)
       /\ Looking(r.look, GroupAt(split, r.start + r.off), r.steady)
  /\ r.pc = "503" => r.steady = {}

SplitInv == \A t \in Tasks : Walking(task[t])

LEMMA CompiledSplits ==
  ASSUME FrontInv, ConfigServable, status = "serving", NEW k \in DOMAIN active
  PROVE  SplitComplete(Split(k))
<1>1. PICK c, config, src : c = candidate /\ config = Config[c] /\ src = Sources[c]
  OBVIOUS
<1>2. c \in DOMAIN Config /\ active = InForce(config.routes, config.registry)
  BY <1>1 DEF FrontInv, ActiveInv
<1>3. Servable(src, config)
  BY <1>1, <1>2 DEF ConfigServable, ServableTable
<1>4. k \in DOMAIN config.routes /\ Split(k) = config.routes[k].backends
  BY <1>2 DEF InForce, Split
<1>5. SplitExact(targets(src.manifest.routes[k]), config.routes[k].backends, config.registry)
  BY <1>3, <1>4 DEF Servable
<1>6. SplitComplete(config.routes[k].backends)
  BY <1>5 DEF SplitExact
<1> QED
  BY <1>4, <1>6

\* The instances of a group that a split leads to are listed.
LEMMA InstancesListed ==
  ASSUME FrontInv, ConfigServable, status = "serving", NEW k \in DOMAIN active,
         NEW g, g \in Range(Split(k).groups),
         NEW insts, insts = active[k].groups[g].instances
  PROVE  Len(insts) \in Nat /\ DOMAIN insts = 1..Len(insts)
<1>1. PICK c, config, src : c = candidate /\ config = Config[c] /\ src = Sources[c]
  OBVIOUS
<1>2. c \in DOMAIN Config /\ active = InForce(config.routes, config.registry)
  BY <1>1 DEF FrontInv, ActiveInv
<1>3. Servable(src, config)
  BY <1>1, <1>2 DEF ConfigServable, ServableTable
<1>4. k \in DOMAIN config.routes /\ Split(k) = config.routes[k].backends
  BY <1>2 DEF InForce, Split
<1>5. SplitExact(targets(src.manifest.routes[k]), config.routes[k].backends, config.registry)
  BY <1>3, <1>4 DEF Servable
<1>6. g \in DOMAIN config.registry
  BY <1>4, <1>5 DEF SplitExact
<1>7. Parsed(src) /\ config = Compiled(src)
  BY <1>1, <1>2, FrontDoorAssumption DEF Config, FrontDoorAssumption
<1>9. insts = config.registry[g].instances
  BY <1>2, <1>4 DEF InForce
<1>8. IsList(insts)
  <2>1. config.registry = RegistryOf(src)
    BY <1>7, CompiledParts
  <2>2. PICK i \in DOMAIN src.manifest.upstreams :
          insts = Group(src.manifest.upstreams[i]).instances
    <3>1. PICK m : m = src.manifest
      OBVIOUS
    <3>2. PICK j \in DOMAIN m.upstreams : m.upstreams[j].name = g
      BY <1>6, <2>1, <3>1 DEF RegistryOf, UpstreamNames
    <3>3. UpstreamAt(m, g) \in DOMAIN m.upstreams
      BY <3>2 DEF UpstreamAt
    <3>4. insts = Group(m.upstreams[UpstreamAt(m, g)]).instances
      BY <1>6, <1>9, <2>1, <3>1 DEF RegistryOf
    <3> QED
      BY <3>1, <3>3, <3>4
  <2>3. insts = src.manifest.upstreams[i].addresses
    BY <2>2 DEF Group
  <2> QED
    BY <1>7, <2>2, <2>3 DEF Parsed, ParsedUpstream
<1> QED
  BY <1>8 DEF IsList

\* One load of has_eligible, whatever it finds.
LEMMA LookKeeps ==
  ASSUME NEW k, NEW g, NEW look, NEW steady, Looking(look, g, steady),
         steady \subseteq healthy \ ejected,
         \A i \in steady : i[1] = g => i \in Instances(k, g),
         NEW insts, insts = active[k].groups[g].instances,
         Len(insts) \in Nat, DOMAIN insts = 1..Len(insts),
         NEW found, found = has_eligible(k, g, look)
  PROVE  /\ found.answer = "reading" => Looking(found.look, g, steady)
         /\ found.answer # "reading" /\ found.answer # "yes" => Passed(g, steady)
<1>1. PICK inst, check, n : /\ inst = <<g, look.who>> /\ n = Len(insts)
                            /\ check = active[k].groups[g].outlier_enabled
  OBVIOUS
<1>2. PICK loaded : loaded = Ctx(k, g, look)
  OBVIOUS
<1>3. PICK who, bit, clear : /\ look = [who |-> who, bit |-> bit, clear |-> clear]
                             /\ who \in Nat \ {0} /\ bit \in {"health", "outlier"}
                             /\ \A i \in steady : i[1] = g => i[2] >= who
                             /\ look # Begin => \A i \in steady : i[1] = g => i \in clear
  BY DEF Looking
<1>4. PICK cl : /\ loaded = [who |-> who, bit |-> bit, clear |-> cl]
                /\ \A i \in steady : i[1] = g => i \in cl
  <2>1. CASE look = Begin
    <3>1. loaded = [who |-> who, bit |-> bit, clear |-> Instances(k, g) \ ejected]
      <4>1. PICK rest : rest = Instances(k, g) \ ejected
        OBVIOUS
      <4>2. loaded = [look EXCEPT !.clear = rest]
        BY <1>2, <2>1, <4>1 DEF Ctx
      <4>3. look = [who |-> who, bit |-> bit, clear |-> clear]
        BY <1>3
      <4> QED
        BY <4>1, <4>2, <4>3
    <3> QED
      BY <3>1
  <2>2. CASE look # Begin
    BY <1>2, <1>3, <2>2 DEF Ctx
  <2> QED
    BY <2>1, <2>2
<1>5. \A i \in steady : i[1] = g => i = <<g, i[2]>> /\ i[2] \in 1..n
  BY <1>1 DEF Instances
<1>6. found = IF bit = "health" /\ inst \in healthy /\ check
                THEN [answer |-> "reading", look |-> [loaded EXCEPT !.bit = "outlier"]]
              ELSE IF IF bit = "health" THEN inst \in healthy ELSE inst \in clear
                THEN [answer |-> "yes", look |-> Begin]
              ELSE IF who < n
                THEN [answer |-> "reading", look |-> [loaded EXCEPT !.who = @ + 1, !.bit = "health"]]
              ELSE [answer |-> "no", look |-> Begin]
  BY <1>1, <1>2, <1>3 DEF has_eligible
<1>7. CASE bit = "health" /\ inst \in healthy /\ check
  <2>1. found = [answer |-> "reading", look |-> [who |-> who, bit |-> "outlier", clear |-> cl]]
    BY <1>4, <1>6, <1>7
  <2>2. found.answer = "reading" /\ found.look = [who |-> who, bit |-> "outlier", clear |-> cl]
    BY <2>1
  <2> QED
    BY <1>3, <1>4, <2>2 DEF Looking
<1>8. CASE /\ ~(bit = "health" /\ inst \in healthy /\ check)
           /\ IF bit = "health" THEN inst \in healthy ELSE inst \in clear
  <2>1. found = [answer |-> "yes", look |-> Begin]
    BY <1>6, <1>8
  <2> QED
    BY <2>1
<1>9. CASE ~(IF bit = "health" THEN inst \in healthy ELSE inst \in clear)
  <2>1. ~(bit = "health" /\ inst \in healthy /\ check)
    BY <1>9
  <2>2. inst \notin steady
    <3>1. CASE bit = "outlier"
      <4>1. look # Begin
        BY <1>3, <3>1 DEF Begin
      <4> QED
        BY <1>1, <1>3, <1>9, <3>1, <4>1
    <3>2. CASE bit = "health"
      BY <1>9, <3>2
    <3> QED
      BY <1>3, <3>1, <3>2
  <2>3. \A i \in steady : i[1] = g => i[2] # who
    <3> SUFFICES ASSUME NEW i \in steady, i[1] = g, i[2] = who PROVE FALSE
      OBVIOUS
    <3>1. inst = <<g, who>>
      BY <1>1, <1>3
    <3> QED
      BY <1>5, <2>2, <3>1
  <2>4. \A i \in steady : i[1] = g => i[2] >= who + 1
    BY <1>3, <1>5, <2>3, <1>1
  <2>5. CASE who < n
    <3>1. found = [answer |-> "reading", look |-> [who |-> who + 1, bit |-> "health", clear |-> cl]]
      <4>1. loaded = [who |-> who, bit |-> bit, clear |-> cl]
        BY <1>4
      <4>2. PICK w : w = who + 1
        OBVIOUS
      <4>3. loaded.who = who
        BY <4>1
      <4>4. loaded.who + 1 = w
        BY <4>2, <4>3
      <4>5. [loaded EXCEPT !.who = w, !.bit = "health"] = [who |-> w, bit |-> "health", clear |-> cl]
        <5>1. PICK a : a = [loaded EXCEPT !.who = w]
          OBVIOUS
        <5>2. a = [who |-> w, bit |-> bit, clear |-> cl]
          BY <4>1, <5>1
        <5>3. [a EXCEPT !.bit = "health"] = [who |-> w, bit |-> "health", clear |-> cl]
          BY <5>2
        <5> QED
          BY <5>1, <5>3
      <4>6. [loaded EXCEPT !.who = @ + 1, !.bit = "health"] =
              [loaded EXCEPT !.who = w, !.bit = "health"]
        BY <4>4
      <4> QED
        BY <1>6, <1>9, <2>1, <2>5, <4>2, <4>5, <4>6
    <3>2. /\ found.answer = "reading"
          /\ found.look = [who |-> who + 1, bit |-> "health", clear |-> cl]
      BY <3>1
    <3> QED
      BY <1>3, <1>4, <2>4, <3>2 DEF Looking
  <2>6. CASE ~(who < n)
    <3>1. found = [answer |-> "no", look |-> Begin]
      BY <1>6, <1>9, <2>1, <2>6
    <3>2. Passed(g, steady)
      BY <1>1, <1>3, <1>5, <2>4, <2>6 DEF Passed
    <3> QED
      BY <3>1, <3>2
  <2> QED
    BY <2>5, <2>6
<1> QED
  BY <1>7, <1>8, <1>9

\* A look begins with everything before it.
LEMMA LookBegins ==
  ASSUME NEW g, NEW steady, NEW k, steady \subseteq Reach(k),
         \A h \in Range(Split(k).groups) :
           DOMAIN active[k].groups[h].instances \subseteq Nat \ {0}
  PROVE  Looking(Begin, g, steady)
<1>1. \A i \in steady : i[2] \in Nat \ {0}
  BY DEF Reach, Instances
<1> QED
  BY <1>1 DEF Looking, Begin

LEMMA WalkingStep ==
  ASSUME TasksInv, SplitInv, UNCHANGED <<candidate, active, healthy, ejected>>,
         NEW t \in Tasks, NEW r, Walking(r), task' = [task EXCEPT ![t] = r]
  PROVE  SplitInv'
<1>1. \A x : Walking(x) => Walking(x)'
  BY DEF Walking, Split, Reach, Instances
<1>2. ASSUME NEW u \in Tasks PROVE Walking(task[u])'
  <2>1. PICK x : x = task'[u]
    OBVIOUS
  <2>2. x = IF u = t THEN r ELSE task[u]
    BY <2>1 DEF TasksInv
  <2>3. Walking(x)
    BY <2>2 DEF SplitInv
  <2> QED
    BY <1>1, <2>1, <2>3
<1> QED
  BY <1>2 DEF SplitInv

LEMMA PickKeeps ==
  ASSUME FrontInv, SplitInv, ConfigServable, NEW t \in Tasks, NEW x, x = task[t],
         NEW r, r = task'[t],
         Dispatch(t) \/ ProbeGroup(t) \/ Advance(t) \/ Scan(t)
  PROVE  Walking(r) /\ task' = [task EXCEPT ![t] = r]
<1>1. /\ TaskOK(x) /\ Walking(x) /\ task = [u \in Tasks |-> task[u]]
      /\ x.pc \in {"chain", "probe", "advance", "scan"}
  BY DEF FrontInv, TasksInv, SplitInv, Dispatch, ProbeGroup, Advance, Scan
<1>2. PICK split, groups : split = Split(x.route) /\ groups = split.groups
  OBVIOUS
<1>3. SplitComplete(split) /\ x.route \in DOMAIN active /\ status = "serving"
  <2>1. x.route \in DOMAIN active /\ status = "serving"
    BY <1>1 DEF TaskOK
  <2> QED
    BY <1>2, <2>1, CompiledSplits
<1>4. PICK n, m : n = Len(split.table) /\ m = Len(groups)
  OBVIOUS
<1>5. n \in Nat \ {0} /\ m \in Nat /\ DOMAIN groups = 1..m
  BY <1>2, <1>3, <1>4 DEF SplitComplete
<1>6. \A g \in Range(groups) :
        LET insts == active[x.route].groups[g].instances IN
        Len(insts) \in Nat /\ DOMAIN insts = 1..Len(insts)
  BY <1>2, <1>3, InstancesListed
<1>7. \A i \in Reach(x.route) : i[1] \in Range(groups) /\ i \in Instances(x.route, i[1])
  BY <1>2 DEF Reach, Instances
<1>8. \A g, steady : steady \subseteq Reach(x.route) => Looking(Begin, g, steady)
  <2>1. \A h \in Range(groups) :
          DOMAIN active[x.route].groups[h].instances \subseteq Nat \ {0}
    <3>1. TAKE h \in Range(groups)
    <3>2. PICK insts : insts = active[x.route].groups[h].instances
      OBVIOUS
    <3>3. Len(insts) \in Nat /\ DOMAIN insts = 1..Len(insts)
      BY <1>6, <3>2
    <3>4. DOMAIN insts \subseteq Nat \ {0}
      BY <3>3
    <3> QED
      BY <3>2, <3>4
  <2> QED
    BY <1>2, <2>1, LookBegins
<1>9. ASSUME NEW g, g \in Range(groups), Looking(x.look, g, x.steady),
             x.steady \subseteq (healthy \ ejected) \cap Reach(x.route),
             NEW found, found = has_eligible(x.route, g, x.look)
      PROVE  /\ found.answer = "reading" => Looking(found.look, g, x.steady)
             /\ found.answer # "reading" /\ found.answer # "yes" => Passed(g, x.steady)
  <2>1. PICK look, steady, insts : /\ look = x.look /\ steady = x.steady
                                   /\ insts = active[x.route].groups[g].instances
    OBVIOUS
  <2>2. Len(insts) \in Nat /\ DOMAIN insts = 1..Len(insts)
    BY <1>6, <1>9, <2>1
  <2>3. steady \subseteq healthy \ ejected
        /\ \A i \in steady : i[1] = g => i \in Instances(x.route, g)
    BY <1>7, <1>9, <2>1
  <2> QED
    BY <1>9, <2>1, <2>2, <2>3, LookKeeps
<1>10. CASE Dispatch(t)
  <2>1. PICK steady, look : steady = Reach(x.route) \cap (healthy \ ejected) /\ look = Begin
    OBVIOUS
  <2>2. /\ task' = [task EXCEPT ![t] = r]
        /\ r = [pc |-> "probe", in |-> x.in, route |-> x.route, at |-> 1, look |-> look,
                steady |-> steady]
    BY <1>1, <1>10, <2>1 DEF Dispatch
  <2>3. r.pc = "probe" /\ r.route = x.route /\ r.at = 1 /\ r.look = Begin /\ r.steady = steady
    BY <2>1, <2>2
  <2>4. Looking(r.look, groups[r.at], r.steady)
    BY <1>8, <2>1, <2>3
  <2> QED
    BY <1>2, <1>5, <2>1, <2>2, <2>3, <2>4 DEF Walking
<1>11. CASE ProbeGroup(t)
  <2>1. PICK found, begin : found = Probed(groups, x) /\ begin = Begin
    OBVIOUS
  <2>2. x.pc = "probe" /\ task' = [task EXCEPT ![t] = r] /\ ProbeMove(x, r, groups, found)
    BY <1>1, <1>2, <1>11, <2>1, ProbeStep
  <2>9. \/ found.answer = "reading" /\ r = [x EXCEPT !.look = found.look]
        \/ r = [pc |-> "advance", in |-> x.in, route |-> x.route, steady |-> x.steady]
        \/ /\ found.answer # "reading" /\ found.answer # "yes"
           /\ r = [x EXCEPT !.at = x.at + 1, !.look = begin]
        \/ /\ found.answer # "reading" /\ found.answer # "yes" /\ ~(x.at < m)
           /\ r = [pc |-> "503", in |-> x.in, steady |-> x.steady]
    BY <1>4, <2>1, <2>2, Zenon DEF ProbeMove
  <2>3. /\ x = Probing(x) /\ x.at \in Nat \ {0}
        /\ x.steady \subseteq (healthy \ ejected) \cap Reach(x.route)
        /\ \A j \in 1..m : j < x.at => Passed(groups[j], x.steady)
        /\ Looking(x.look, groups[x.at], x.steady)
    BY <1>1, <1>2, <1>5, <2>2 DEF TaskOK, Walking
  <2>4. /\ found.answer = "reading" => Looking(found.look, groups[x.at], x.steady)
        /\ found.answer # "reading" /\ found.answer # "yes" =>
             \A j \in 1..m : j < x.at + 1 => Passed(groups[j], x.steady)
    <3>1. CASE x.at \in 1..m
      <4>1. PICK g : g = groups[x.at]
        OBVIOUS
      <4>2. g \in Range(groups) /\ found = has_eligible(x.route, g, x.look)
        BY <1>5, <2>1, <3>1, <4>1 DEF Probed, Range
      <4>3. /\ found.answer = "reading" => Looking(found.look, g, x.steady)
            /\ found.answer # "reading" /\ found.answer # "yes" => Passed(g, x.steady)
        BY <1>9, <2>3, <4>1, <4>2
      <4>4. \A j \in 1..m : j < x.at + 1 => j < x.at \/ j = x.at
        BY <2>3
      <4> QED
        BY <2>3, <4>1, <4>3, <4>4
    <3>2. CASE x.at \notin 1..m
      <4>1. found = [answer |-> "no", look |-> Begin]
        BY <1>5, <2>1, <3>2 DEF Probed
      <4>2. found.answer = "no"
        BY <4>1
      <4>3. \A j \in 1..m : j < x.at
        BY <1>5, <2>3, <3>2
      <4> QED
        BY <2>3, <4>2, <4>3
    <3> QED
      BY <3>1, <3>2
  <2>5. CASE found.answer = "reading" /\ r = [x EXCEPT !.look = found.look]
    <3>1. /\ r.pc = "probe" /\ r.route = x.route /\ r.steady = x.steady /\ r.at = x.at
          /\ r.look = found.look
      BY <2>2, <2>3, <2>5 DEF Probing
    <3> QED
      BY <1>2, <1>5, <2>2, <2>3, <2>4, <2>5, <3>1 DEF Walking
  <2>6. CASE r = [pc |-> "advance", in |-> x.in, route |-> x.route, steady |-> x.steady]
    <3>1. r.pc = "advance" /\ r.route = x.route /\ r.steady = x.steady
      BY <2>6
    <3> QED
      BY <2>2, <2>3, <3>1 DEF Walking
  <2>7. CASE /\ found.answer # "reading" /\ found.answer # "yes"
             /\ r = [x EXCEPT !.at = x.at + 1, !.look = begin]
    <3>1. /\ r.pc = "probe" /\ r.route = x.route /\ r.steady = x.steady /\ r.at = x.at + 1
          /\ r.look = Begin
      BY <2>1, <2>2, <2>3, <2>7 DEF Probing
    <3>2. Looking(r.look, groups[r.at], r.steady)
      BY <1>8, <2>3, <3>1
    <3> QED
      BY <1>2, <1>5, <2>2, <2>3, <2>4, <2>7, <3>1, <3>2 DEF Walking
  <2>8. CASE /\ found.answer # "reading" /\ found.answer # "yes" /\ ~(x.at < m)
             /\ r = [pc |-> "503", in |-> x.in, steady |-> x.steady]
    <3>1. \A j \in 1..m : Passed(groups[j], x.steady)
      BY <1>5, <2>3, <2>4, <2>8
    <3>2. x.steady = {}
      BY <1>5, <1>7, <2>3, <3>1 DEF Range, Passed
    <3>3. r.pc = "503" /\ r.steady = {}
      BY <2>8, <3>2
    <3> QED
      BY <2>2, <3>3 DEF Walking
  <2> QED
    BY <2>5, <2>6, <2>7, <2>8, <2>9
<1>12. CASE Advance(t)
  <2>1. split.table # <<>>
    BY <1>3 DEF SplitComplete
  <2>2. PICK start, look : start = cursor[x.route] % n /\ look = Begin
    OBVIOUS
  <2>3. /\ task' = [task EXCEPT ![t] = r]
        /\ r = [pc |-> "scan", in |-> x.in, route |-> x.route,
                steady |-> x.steady, off |-> 0, look |-> look, start |-> start]
    BY <1>1, <1>2, <1>4, <1>12, <2>1, <2>2 DEF Advance
  <2>4. x.pc = "advance" /\ x.route \in DOMAIN active
    BY <1>1, <1>12 DEF TaskOK, Advance
  <2>5. start \in Nat
    BY <1>5, <2>2, <2>4 DEF FrontInv, CursorInv
  <2>6. x.steady \subseteq (healthy \ ejected) \cap Reach(x.route)
    BY <1>1, <2>4 DEF Walking
  <2>7. /\ r.pc = "scan" /\ r.route = x.route /\ r.steady = x.steady /\ r.off = 0
        /\ r.start = start /\ r.look = Begin
    BY <2>2, <2>3
  <2>8. Looking(r.look, GroupAt(split, r.start + r.off), r.steady)
    BY <1>8, <2>6, <2>7
  <2> QED
    BY <1>2, <1>4, <1>5, <2>3, <2>5, <2>6, <2>7, <2>8 DEF Walking
<1>13. CASE Scan(t)
  <2>1. PICK g : g = GroupAt(split, x.start + x.off)
    OBVIOUS
  <2>2. PICK found, begin : found = has_eligible(x.route, g, x.look) /\ begin = Begin
    OBVIOUS
  <2>3. x.pc = "scan" /\ task' = [task EXCEPT ![t] = r] /\ ScanMove(x, r, split.table, g, found)
    BY <1>1, <1>2, <1>13, <2>1, <2>2, ScanStep
  <2>12. \/ found.answer = "reading" /\ r = [x EXCEPT !.look = found.look]
         \/ r = [pc |-> "forwarded", in |-> x.in, to |-> g]
         \/ /\ found.answer # "reading" /\ found.answer # "yes" /\ x.off + 1 < n
            /\ r = [x EXCEPT !.off = x.off + 1, !.look = begin]
         \/ /\ found.answer # "reading" /\ found.answer # "yes" /\ ~(x.off + 1 < n)
            /\ r = [pc |-> "503", in |-> x.in, steady |-> x.steady]
    BY <1>4, <2>2, <2>3, Zenon DEF ScanMove
  <2>4. /\ x = Scanning(x) /\ x.start \in Nat /\ x.off \in Nat /\ x.off < n
        /\ x.steady \subseteq (healthy \ ejected) \cap Reach(x.route)
        /\ \A o \in Nat : o < x.off => Passed(GroupAt(split, x.start + o), x.steady)
        /\ Looking(x.look, g, x.steady)
    BY <1>1, <1>2, <1>4, <2>1, <2>3 DEF TaskOK, Walking
  <2>5. g \in Range(groups)
    <3>0. PICK table : table = split.table
      OBVIOUS
    <3>1. PICK p \in Nat : p = x.start + x.off
      BY <2>4
    <3>2. (p % n) + 1 \in 1..n
      BY <1>5
    <3>3. table \in Seq(DOMAIN groups) /\ n = Len(table)
      BY <1>2, <1>3, <1>4, <3>0 DEF SplitComplete
    <3>4. table[(p % n) + 1] \in DOMAIN groups
      BY <3>2, <3>3
    <3>5. g = groups[table[(p % n) + 1]]
      BY <1>2, <1>4, <2>1, <3>0, <3>1 DEF GroupAt
    <3> QED
      BY <3>4, <3>5 DEF Range
  <2>6. /\ found.answer = "reading" => Looking(found.look, g, x.steady)
        /\ found.answer # "reading" /\ found.answer # "yes" => Passed(g, x.steady)
    BY <1>9, <2>2, <2>4, <2>5
  <2>7. found.answer # "reading" /\ found.answer # "yes" =>
          \A o \in Nat : o < x.off + 1 => Passed(GroupAt(split, x.start + o), x.steady)
    <3> SUFFICES ASSUME found.answer # "reading" /\ found.answer # "yes", NEW o \in Nat, o < x.off + 1
                 PROVE  Passed(GroupAt(split, x.start + o), x.steady)
      OBVIOUS
    <3>1. PICK off \in Nat : off = x.off
      BY <2>4
    <3>2. o < off \/ o = off
      BY <3>1
    <3>3. CASE o < off
      BY <2>4, <3>1, <3>3
    <3>4. CASE o = off
      BY <2>1, <2>6, <3>1, <3>4
    <3> QED
      BY <3>2, <3>3, <3>4
  <2>8. CASE found.answer = "reading" /\ r = [x EXCEPT !.look = found.look]
    <3>1. /\ r.pc = "scan" /\ r.route = x.route /\ r.steady = x.steady /\ r.off = x.off
          /\ r.start = x.start /\ r.look = found.look
      BY <2>3, <2>4, <2>8 DEF Scanning
    <3> QED
      BY <1>2, <1>4, <2>1, <2>3, <2>4, <2>6, <2>8, <3>1 DEF Walking
  <2>9. CASE r = [pc |-> "forwarded", in |-> x.in, to |-> g]
    <3>1. r.pc = "forwarded"
      BY <2>9
    <3> QED
      BY <2>3, <3>1 DEF Walking
  <2>10. CASE /\ found.answer # "reading" /\ found.answer # "yes" /\ x.off + 1 < n
              /\ r = [x EXCEPT !.off = x.off + 1, !.look = begin]
    <3>1. /\ r.pc = "scan" /\ r.route = x.route /\ r.steady = x.steady /\ r.off = x.off + 1
          /\ r.start = x.start /\ r.look = Begin
      BY <2>2, <2>3, <2>4, <2>10 DEF Scanning
    <3>2. Looking(r.look, GroupAt(split, r.start + r.off), r.steady)
      BY <1>8, <2>4, <3>1
    <3> QED
      BY <1>2, <1>4, <2>3, <2>4, <2>7, <2>10, <3>1, <3>2 DEF Walking
  <2>11. CASE /\ found.answer # "reading" /\ found.answer # "yes" /\ ~(x.off + 1 < n)
              /\ r = [pc |-> "503", in |-> x.in, steady |-> x.steady]
    <3>1. ASSUME NEW i \in x.steady PROVE FALSE
      <4>0. PICK start \in Nat : start = x.start /\ i[1] \in Range(groups)
        BY <1>7, <2>4
      <4>1. PICK o \in 0..(n - 1) : GroupAt(split, x.start + o) = i[1]
        <5>1. Met(split, start, i[1])
          BY <1>2, <1>3, <4>0, WalkCovers
        <5> QED
          BY <1>4, <4>0, <5>1 DEF Met
      <4>2. o \in Nat /\ o < x.off + 1
        BY <1>5, <2>4, <2>11
      <4> QED
        BY <2>7, <2>11, <4>1, <4>2 DEF Passed
    <3>2. r.pc = "503" /\ r.steady = {}
      BY <2>11, <3>1
    <3> QED
      BY <2>3, <3>2 DEF Walking
  <2> QED
    BY <2>8, <2>9, <2>10, <2>11, <2>12
<1> QED
  BY <1>10, <1>11, <1>12, <1>13

\* A look goes on when an instance that it may have counted on goes out of service.
LEMMA Dimmed ==
  ASSUME NEW g, NEW i, NEW ejection, NEW look, NEW seen, NEW steady, NEW left,
         Looking(look, g, steady), left = steady \ {i},
         seen = [look EXCEPT !.clear = IF ejection THEN @ \ {i} ELSE @]
  PROVE  Looking(seen, g, left)
<1>1. PICK who, bit, clear, c :
        /\ look = [who |-> who, bit |-> bit, clear |-> clear]
        /\ c = IF ejection THEN clear \ {i} ELSE clear
        /\ who \in Nat \ {0} /\ bit \in {"health", "outlier"}
        /\ \A j \in steady : j[1] = g => j[2] >= who
        /\ look # Begin => \A j \in steady : j[1] = g => j \in clear
  BY DEF Looking
<1>2. seen = [who |-> who, bit |-> bit, clear |-> c]
  BY <1>1
<1>3. look = Begin => seen = Begin
  BY <1>1, <1>2 DEF Begin
<1> QED
  BY <1>1, <1>2, <1>3 DEF Looking

LEMMA SplitStep ==
  ASSUME FrontInv, SplitInv, ConfigServable, [Next]_vars PROVE SplitInv'
<1>1. ASSUME NEW c \in DOMAIN Sources, from_manifest_path(c) PROVE SplitInv'
  <2>1. task' = task /\ \A t \in Tasks : task[t].pc = "idle"
    BY <1>1 DEF FrontInv, TasksInv, TaskOK, from_manifest_path
  <2> QED
    BY <2>1 DEF SplitInv, Walking
<1>2. ASSUME NEW t \in Tasks, NEW in, Arrive(t, in) \/ ReadClock(t) \/ check_at(t) \/ Respond(t) \/ Done(t)
      PROVE  SplitInv'
  <2>1. PICK r : r = task'[t]
    OBVIOUS
  <2>2. UNCHANGED <<candidate, active, healthy, ejected>> /\ task = [u \in Tasks |-> task[u]]
    BY <1>2 DEF FrontInv, TasksInv, Arrive, ReadClock, check_at, Respond, Done
  <2>3. /\ task' = [task EXCEPT ![t] = r]
        /\ r.pc \in {"400", "404", "chain", "clock", "limit", "429", "filtered", "idle"}
    <3>1. CASE Arrive(t, in)
      BY <2>1, <2>2, <3>1 DEF Arrive
    <3>2. CASE ReadClock(t)
      BY <2>1, <2>2, <3>2 DEF ReadClock
    <3>3. CASE check_at(t)
      BY <2>1, <2>2, <3>3 DEF check_at
    <3>4. CASE Respond(t)
      BY <2>1, <2>2, <3>4 DEF Respond
    <3>5. CASE Done(t)
      BY <2>1, <2>2, <3>5 DEF Done, Idle
    <3> QED
      BY <1>2, <3>1, <3>2, <3>3, <3>4, <3>5
  <2>4. Walking(r)
    BY <2>3 DEF Walking
  <2> QED
    BY <2>2, <2>3, <2>4, WalkingStep DEF FrontInv
<1>3. ASSUME NEW t \in Tasks, Dispatch(t) \/ ProbeGroup(t) \/ Advance(t) \/ Scan(t)
      PROVE  SplitInv'
  <2>1. PICK x, r : x = task[t] /\ r = task'[t]
    OBVIOUS
  <2>2. UNCHANGED <<candidate, active, healthy, ejected>>
    BY <1>3 DEF Dispatch, ProbeGroup, Advance, Scan
  <2>3. Walking(r) /\ task' = [task EXCEPT ![t] = r]
    BY <1>3, <2>1, PickKeeps
  <2> QED
    BY <2>2, <2>3, WalkingStep DEF FrontInv
<1>4. ASSUME NEW i, Moves(i) PROVE SplitInv'
  <2>1. /\ active' = active /\ candidate' = candidate
        /\ \/ /\ task' = task
              /\ healthy \ ejected \subseteq healthy' \ ejected'
           \/ /\ \E ejection : Unsteady(i, ejection)
              /\ (healthy \ ejected) \ {i} \subseteq healthy' \ ejected'
    BY <1>4 DEF Moves, Flip, Eject, Expire
  <2>2. \A k : Reach(k)' = Reach(k) /\ Split(k)' = Split(k)
    BY <2>1 DEF Reach, Instances, Split
  <2>3. CASE task' = task /\ healthy \ ejected \subseteq healthy' \ ejected'
    <3>1. ASSUME NEW t \in Tasks PROVE Walking(task[t])'
      <4>1. PICK x : x = task[t] /\ x = task'[t]
        BY <2>3
      <4>2. Walking(x)
        BY <4>1 DEF SplitInv
      <4>3. Walking(x)'
        BY <2>2, <2>3, <4>2 DEF Walking
      <4> QED
        BY <4>1, <4>3
    <3> QED
      BY <3>1 DEF SplitInv
  <2>4. ASSUME NEW ejection, Unsteady(i, ejection),
               (healthy \ ejected) \ {i} \subseteq healthy' \ ejected'
        PROVE  SplitInv'
    <3>1. ASSUME NEW t \in Tasks PROVE Walking(task[t])'
      <4>1. PICK x, r : x = task[t] /\ r = task'[t]
        OBVIOUS
      <4>2. TasksInv /\ Walking(x)
        BY <4>1 DEF FrontInv, SplitInv
      <4>3. /\ r.pc = x.pc /\ (x.pc \notin {"probe", "advance", "scan"} => r = x)
            /\ x.pc \in {"probe", "advance", "scan"} =>
                 r.route = x.route /\ r.steady = x.steady \ {i}
            /\ x.pc = "probe" => r.at = x.at
            /\ x.pc = "scan" => r.off = x.off /\ r.start = x.start
            /\ x.pc \in {"probe", "scan"} =>
                 r.look = [x.look EXCEPT !.clear = IF ejection THEN @ \ {i} ELSE @]
        <5>1. Unsteadied(x, r, i, ejection)
          BY <2>4, <4>1, <4>2, UnsteadyTask
        <5> QED
          BY <5>1, Zenon DEF Unsteadied
      <4>4. ASSUME NEW g, x.pc \in {"probe", "scan"}, Looking(x.look, g, x.steady)
            PROVE  Looking(r.look, g, r.steady)
        <5>1. PICK look, seen, steady, left :
                look = x.look /\ seen = r.look /\ steady = x.steady /\ left = r.steady
          OBVIOUS
        <5>2. /\ seen = [look EXCEPT !.clear = IF ejection THEN @ \ {i} ELSE @]
              /\ left = steady \ {i} /\ Looking(look, g, steady)
          BY <4>3, <4>4, <5>1
        <5> QED
          BY <5>1, <5>2, Dimmed
      <4>5. \A g : Passed(g, x.steady) /\ x.pc \in {"probe", "scan"} => Passed(g, r.steady)
        BY <4>3 DEF Passed
      <4>6. CASE x.pc = "probe"
        <5>1. PICK groups : groups = Split(x.route).groups /\ groups = Split(r.route)'.groups
          BY <2>2, <4>3, <4>6
        <5>2. /\ x.at \in Nat \ {0} /\ x.steady \subseteq (healthy \ ejected) \cap Reach(x.route)
              /\ \A j \in DOMAIN groups : j < x.at => Passed(groups[j], x.steady)
              /\ Looking(x.look, groups[x.at], x.steady)
          BY <4>2, <4>6, <5>1 DEF Walking
        <5>3. r.steady \subseteq (healthy' \ ejected') \cap Reach(r.route)'
          BY <2>2, <2>4, <4>3, <4>6, <5>2
        <5>4. /\ \A j \in DOMAIN groups : j < r.at => Passed(groups[j], r.steady)
              /\ Looking(r.look, groups[r.at], r.steady)
          BY <4>3, <4>4, <4>5, <4>6, <5>2
        <5>5. Walking(r)'
          BY <4>3, <4>6, <5>1, <5>2, <5>3, <5>4 DEF Walking
        <5> QED
          BY <4>1, <5>5
      <4>7. CASE x.pc = "advance"
        <5>1. r.steady \subseteq (healthy' \ ejected') \cap Reach(r.route)'
          BY <2>2, <2>4, <4>2, <4>3, <4>7 DEF Walking
        <5>2. Walking(r)'
          BY <4>3, <4>7, <5>1 DEF Walking
        <5> QED
          BY <4>1, <5>2
      <4>8. CASE x.pc = "scan"
        <5>1. PICK split : split = Split(x.route) /\ split = Split(r.route)'
          BY <2>2, <4>3, <4>8
        <5>2. /\ x.start \in Nat /\ x.off \in Nat /\ x.off < Len(split.table)
              /\ x.steady \subseteq (healthy \ ejected) \cap Reach(x.route)
              /\ \A o \in Nat : o < x.off => Passed(GroupAt(split, x.start + o), x.steady)
              /\ Looking(x.look, GroupAt(split, x.start + x.off), x.steady)
          BY <4>2, <4>8, <5>1 DEF Walking
        <5>3. r.steady \subseteq (healthy' \ ejected') \cap Reach(r.route)'
          BY <2>2, <2>4, <4>3, <4>8, <5>2
        <5>4. /\ \A o \in Nat : o < r.off => Passed(GroupAt(split, r.start + o), r.steady)
              /\ Looking(r.look, GroupAt(split, r.start + r.off), r.steady)
          BY <4>3, <4>4, <4>5, <4>8, <5>2
        <5>5. Walking(r)'
          BY <4>3, <4>8, <5>1, <5>2, <5>3, <5>4 DEF Walking
        <5> QED
          BY <4>1, <5>5
      <4>9. CASE x.pc \notin {"probe", "advance", "scan"}
        BY <4>1, <4>2, <4>3, <4>9 DEF Walking
      <4> QED
        BY <4>6, <4>7, <4>8, <4>9
    <3> QED
      BY <3>1 DEF SplitInv
  <2> QED
    BY <2>1, <2>3, <2>4
<1>5. CASE Tick \/ (\E to \in 0..ClockMax : SetBack(to)) \/ UNCHANGED vars
  <2>1. UNCHANGED <<candidate, active, healthy, ejected, task>>
    BY <1>5 DEF Tick, SetBack, vars
  <2> QED
    BY <2>1 DEF SplitInv, Walking, Split, Reach, Instances
<1> QED
  BY <1>1, <1>2, <1>3, <1>4, <1>5 DEF Next, Moves

\* Whatever is in force can serve, whatever was in the manifest and the store it was
\* loaded from (build_active, reconcile, and all they check and build).
THEOREM ServingIsServable == Spec => []ConfigServable
<1>1. FrontInv => ConfigServable
  <2> SUFFICES ASSUME FrontInv, status = "serving" PROVE ServableTable[candidate]
    BY DEF ConfigServable
  <2>1. PICK c, src : c = candidate /\ src = Sources[c]
    OBVIOUS
  <2>2. c \in DOMAIN Config
    BY <2>1 DEF FrontInv, ActiveInv
  <2>3. Parsed(src) /\ Accepted(src) /\ Config[c] = Compiled(src)
    BY <2>1, <2>2, FrontDoorAssumption DEF Config, FrontDoorAssumption
  <2>4. Servable(src, Compiled(src))
    BY <2>3, AcceptedIsServable
  <2>5. ServableTable[c] = Servable(Sources[c], Config[c])
    BY <2>2 DEF ServableTable
  <2> QED
    BY <2>1, <2>3, <2>4, <2>5
<1> QED
  BY <1>1, FrontInvariant, PTL

\* A 503 of the split means that no instance of its backends stayed eligible
\* throughout the pick, for any routes, weights and groups, any number of tasks and
\* any cursor, although the two bits of every instance are read in steps of their
\* own (WeightedBackends::pick, UpstreamGroup::has_eligible).
THEOREM SplitsAreNotSpurious == Spec => []SplitNeverSpurious
<1>1. Init => SplitInv
  BY DEF Init, Idle, SplitInv, Walking
<1>2. FrontInv /\ SplitInv /\ ConfigServable /\ [Next]_vars => SplitInv'
  BY SplitStep
<1>3. SplitInv => SplitNeverSpurious
  BY DEF SplitInv, Walking, SplitNeverSpurious
<1> QED
  BY <1>1, <1>2, <1>3, FrontInvariant, ServingIsServable, PTL DEF Spec
============================================================================
