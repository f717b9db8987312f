--------------------------- MODULE Manifest_proofs --------------------------
(***************************************************************************)
(* Proofs about what a load computes.                                      *)
(***************************************************************************)
EXTENDS Manifest, FiniteSetTheorems, SequenceTheorems, TLAPS

----------------------------------------------------------------------------
(* Sums.                                                                   *)

AddStep(par, a, w) == a + w
Adding == INSTANCE Folding WITH Op <- AddStep

\* A list of n integers.
Numbers(s, n) == n \in Nat /\ DOMAIN s = 1..n /\ \A i \in 1..n : s[i] \in Int

\* The partial sums of s.
Sums(p, s, n) == /\ \A i \in 0..n : p[i] \in Int
                 /\ p[0] = 0
                 /\ \A i \in 1..n : p[i] = p[i - 1] + s[i]
                 /\ SumOf(s) = p[n]

\* A sum has partial sums.
LEMMA SumRuns ==
  ASSUME NEW s, NEW n, Numbers(s, n)
  PROVE  \E p : Sums(p, s, n)
<1>1. n \in Nat /\ DOMAIN s = 1..n /\ \A i \in 1..n : s[i] \in Int
  BY DEF Numbers
<1>2. SumOf(s) = Adding!Fold(0, 0, s)
  BY DEF SumOf, FoldLeft, MapThenFoldSet, Max, AddStep,
         Adding!Fold, Adding!FoldLeft, Adding!MapThenFoldSet, Adding!Max
<1>3. PICK p : /\ p[0] = 0
               /\ \A i \in 1..n : p[i] = AddStep(0, p[i - 1], s[i])
               /\ Adding!Fold(0, 0, s) = p[n]
  BY <1>1, Adding!FoldRuns
<1>4. \A i \in 1..n : p[i] = p[i - 1] + s[i]
  BY <1>3 DEF AddStep
<1> DEFINE S == {i \in Nat : i <= n => p[i] \in Int}
<1>5. 0 \in S
  BY <1>3
<1>6. ASSUME NEW i \in Nat, i \in S PROVE i + 1 \in S
  <2>1. SUFFICES ASSUME i + 1 <= n PROVE p[i + 1] \in Int
    OBVIOUS
  <2>2. i + 1 \in 1..n /\ i <= n /\ (i + 1) - 1 = i
    BY <1>1, <2>1
  <2>3. p[i] \in Int /\ s[i + 1] \in Int
    BY <1>1, <1>6, <2>2
  <2>4. p[i + 1] = p[i] + s[i + 1]
    BY <1>4, <2>2
  <2> QED
    BY <2>3, <2>4
<1>7. Nat \subseteq S
  <2> HIDE DEF S
  <2> QED
    BY <1>5, <1>6, Adding!Induct
<1>8. \A i \in 0..n : p[i] \in Int
  BY <1>1, <1>7
<1>9. Sums(p, s, n)
  BY <1>2, <1>3, <1>4, <1>8 DEF Sums
<1> QED
  BY <1>9

\* A sum of integers is one.
LEMMA SumIsInt ==
  ASSUME NEW s, NEW n, Numbers(s, n)
  PROVE  SumOf(s) \in Int
<1>1. PICK p : Sums(p, s, n)
  BY SumRuns
<1> QED
  BY <1>1 DEF Sums, Numbers

\* A sum is linear.
Adds(z, x, y, n) ==
  Numbers(x, n) /\ Numbers(y, n) /\ Numbers(z, n) /\ \A i \in 1..n : z[i] = x[i] + y[i]

Scales(z, a, x, n) ==
  Numbers(x, n) /\ Numbers(z, n) /\ \A i \in 1..n : z[i] = a * x[i]

\* The sum of elementwise sums.
LEMMA SumAdds ==
  ASSUME NEW x, NEW y, NEW z, NEW n, Adds(z, x, y, n)
  PROVE  SumOf(z) = SumOf(x) + SumOf(y)
<1>0. /\ n \in Nat /\ Numbers(x, n) /\ Numbers(y, n) /\ Numbers(z, n)
      /\ \A i \in 1..n : x[i] \in Int /\ y[i] \in Int /\ z[i] = x[i] + y[i]
  BY DEF Adds, Numbers
<1>1. PICK p : Sums(p, x, n)
  BY <1>0, SumRuns
<1>2. PICK q : Sums(q, y, n)
  BY <1>0, SumRuns
<1>3. PICK r : Sums(r, z, n)
  BY <1>0, SumRuns
<1> DEFINE S == {i \in Nat : i <= n => r[i] = p[i] + q[i]}
<1>4. 0 \in S
  BY <1>1, <1>2, <1>3 DEF Sums
<1>5. ASSUME NEW i \in Nat, i \in S PROVE i + 1 \in S
  <2>1. SUFFICES ASSUME i + 1 <= n PROVE r[i + 1] = p[i + 1] + q[i + 1]
    OBVIOUS
  <2>2. i + 1 \in 1..n /\ i <= n /\ (i + 1) - 1 = i /\ i \in 0..n
    BY <1>0, <2>1
  <2>3. p[i] \in Int /\ q[i] \in Int /\ r[i] \in Int
    BY <1>1, <1>2, <1>3, <2>2 DEF Sums
  <2>4. /\ p[i + 1] = p[i] + x[i + 1] /\ q[i + 1] = q[i] + y[i + 1]
        /\ r[i + 1] = r[i] + z[i + 1]
    BY <1>1, <1>2, <1>3, <2>2 DEF Sums
  <2>5. r[i] = p[i] + q[i]
    BY <1>5, <2>2
  <2> QED
    BY <1>0, <2>2, <2>3, <2>4, <2>5
<1>6. Nat \subseteq S
  <2> HIDE DEF S
  <2> QED
    BY <1>4, <1>5, Adding!Induct
<1>7. r[n] = p[n] + q[n]
  BY <1>0, <1>6
<1> QED
  BY <1>1, <1>2, <1>3, <1>7 DEF Sums

\* The sum of multiples.
LEMMA SumScales ==
  ASSUME NEW x, NEW z, NEW n, NEW a \in Int, Scales(z, a, x, n)
  PROVE  SumOf(z) = a * SumOf(x)
<1>0. /\ n \in Nat /\ Numbers(x, n) /\ Numbers(z, n)
      /\ \A i \in 1..n : x[i] \in Int /\ z[i] = a * x[i]
  BY DEF Scales, Numbers
<1>1. PICK p : Sums(p, x, n)
  BY <1>0, SumRuns
<1>2. PICK r : Sums(r, z, n)
  BY <1>0, SumRuns
<1> DEFINE S == {i \in Nat : i <= n => r[i] = a * p[i]}
<1>3. 0 \in S
  <2>1. p[0] = 0 /\ r[0] = 0 /\ a * 0 = 0
    BY <1>1, <1>2 DEF Sums
  <2> QED
    BY <2>1
<1>4. ASSUME NEW i \in Nat, i \in S PROVE i + 1 \in S
  <2>1. SUFFICES ASSUME i + 1 <= n PROVE r[i + 1] = a * p[i + 1]
    OBVIOUS
  <2>2. i + 1 \in 1..n /\ i <= n /\ (i + 1) - 1 = i /\ i \in 0..n
    BY <1>0, <2>1
  <2>3. p[i] \in Int /\ x[i + 1] \in Int /\ z[i + 1] = a * x[i + 1]
    BY <1>0, <1>1, <2>2 DEF Sums
  <2>4. p[i + 1] = p[i] + x[i + 1] /\ r[i + 1] = r[i] + z[i + 1]
    BY <1>1, <1>2, <2>2 DEF Sums
  <2>5. r[i] = a * p[i]
    BY <1>4, <2>2
  <2>6. a * (p[i] + x[i + 1]) = a * p[i] + a * x[i + 1]
    BY <2>3
  <2> QED
    BY <2>3, <2>4, <2>5, <2>6
<1>5. Nat \subseteq S
  <2> HIDE DEF S
  <2> QED
    BY <1>3, <1>4, Adding!Induct
<1>6. r[n] = a * p[n]
  BY <1>0, <1>5
<1> QED
  BY <1>1, <1>2, <1>6 DEF Sums

\* A sum of zeros.
LEMMA SumZero ==
  ASSUME NEW x, NEW n, Numbers(x, n), \A i \in 1..n : x[i] = 0
  PROVE  SumOf(x) = 0
<1>1. Scales(x, 0, x, n)
  BY DEF Scales, Numbers
<1>2. SumOf(x) = 0 * SumOf(x) /\ SumOf(x) \in Int
  BY <1>1, SumScales, SumIsInt
<1> QED
  BY <1>2

\* A sum that has one term.
LEMMA SumSingle ==
  ASSUME NEW x, NEW n, Numbers(x, n), NEW b \in 1..n, \A i \in 1..n : i # b => x[i] = 0
  PROVE  SumOf(x) = x[b]
<1>0. n \in Nat /\ x[b] \in Int
  BY DEF Numbers
<1>1. PICK p : Sums(p, x, n)
  BY SumRuns
<1> DEFINE S == {i \in Nat : i <= n => p[i] = IF i < b THEN 0 ELSE x[b]}
<1>2. 0 \in S
  BY <1>0, <1>1 DEF Sums
<1>3. ASSUME NEW i \in Nat, i \in S PROVE i + 1 \in S
  <2>1. SUFFICES ASSUME i + 1 <= n PROVE p[i + 1] = IF i + 1 < b THEN 0 ELSE x[b]
    OBVIOUS
  <2>2. i + 1 \in 1..n /\ i <= n /\ (i + 1) - 1 = i
    BY <1>0, <2>1
  <2>3. p[i + 1] = p[i] + x[i + 1] /\ p[i] = IF i < b THEN 0 ELSE x[b]
    BY <1>1, <1>3, <2>2 DEF Sums
  <2> QED
    BY <1>0, <2>2, <2>3
<1>4. Nat \subseteq S
  <2> HIDE DEF S
  <2> QED
    BY <1>2, <1>3, Adding!Induct
<1>5. p[n] = x[b]
  BY <1>0, <1>4
<1> QED
  BY <1>1, <1>5 DEF Sums

\* A sum of terms none of which is negative is at least each of them.
LEMMA SumBounds ==
  ASSUME NEW x, NEW n, Numbers(x, n), \A i \in 1..n : x[i] >= 0
  PROVE  SumOf(x) >= 0 /\ \A i \in 1..n : x[i] <= SumOf(x)
<1>0. n \in Nat /\ \A i \in 1..n : x[i] \in Int
  BY DEF Numbers
<1>1. PICK p : Sums(p, x, n)
  BY SumRuns
<1> DEFINE S == {i \in Nat : i <= n => p[i] >= 0 /\ \A j \in 1..i : x[j] <= p[i]}
<1>2. 0 \in S
  BY <1>1 DEF Sums
<1>3. ASSUME NEW i \in Nat, i \in S PROVE i + 1 \in S
  <2>1. SUFFICES ASSUME i + 1 <= n
                 PROVE  p[i + 1] >= 0 /\ \A j \in 1..(i + 1) : x[j] <= p[i + 1]
    OBVIOUS
  <2>2. i + 1 \in 1..n /\ i <= n /\ (i + 1) - 1 = i /\ i \in 0..n
    BY <1>0, <2>1
  <2>3. p[i + 1] = p[i] + x[i + 1] /\ p[i] >= 0 /\ p[i] \in Int /\ x[i + 1] \in Int
    BY <1>0, <1>1, <1>3, <2>2 DEF Sums
  <2>4. x[i + 1] >= 0
    BY <2>2
  <2>5. ASSUME NEW j \in 1..(i + 1) PROVE x[j] <= p[i + 1]
    <3>1. CASE j = i + 1
      BY <2>3, <3>1
    <3>2. CASE j # i + 1
      <4>1. j \in 1..i /\ j \in 1..n
        BY <1>0, <2>2, <3>2
      <4>2. \A k \in 1..i : x[k] <= p[i]
        BY <1>3, <2>2
      <4>3. x[j] <= p[i] /\ x[j] \in Int
        BY <1>0, <4>1, <4>2
      <4> QED
        BY <2>3, <2>4, <4>3
    <3> QED
      BY <3>1, <3>2
  <2> QED
    BY <2>3, <2>4, <2>5
<1>4. Nat \subseteq S
  <2> HIDE DEF S
  <2> QED
    BY <1>2, <1>3, Adding!Induct
<1>5. p[n] >= 0 /\ \A j \in 1..n : x[j] <= p[n]
  BY <1>0, <1>4
<1> QED
  BY <1>1, <1>5 DEF Sums

\* A sum is of the first terms and the last.
LEMMA SumLast ==
  ASSUME NEW x, NEW y, NEW n \in Nat, Numbers(x, n), Numbers(y, n + 1),
         \A i \in 1..n : y[i] = x[i]
  PROVE  SumOf(y) = SumOf(x) + y[n + 1]
<1>1. PICK p : Sums(p, x, n)
  BY SumRuns
<1>2. PICK q : Sums(q, y, n + 1)
  BY SumRuns
<1> DEFINE S == {i \in Nat : i <= n => q[i] = p[i]}
<1>3. 0 \in S
  BY <1>1, <1>2 DEF Sums
<1>4. ASSUME NEW i \in Nat, i \in S PROVE i + 1 \in S
  <2>1. SUFFICES ASSUME i + 1 <= n PROVE q[i + 1] = p[i + 1]
    OBVIOUS
  <2>2. i + 1 \in 1..n /\ i + 1 \in 1..(n + 1) /\ i <= n /\ (i + 1) - 1 = i
    BY <2>1
  <2>3. p[i + 1] = p[i] + x[i + 1] /\ q[i + 1] = q[i] + y[i + 1]
    BY <1>1, <1>2, <2>2 DEF Sums
  <2>4. q[i] = p[i] /\ y[i + 1] = x[i + 1]
    BY <1>4, <2>2
  <2> QED
    BY <2>3, <2>4
<1>5. Nat \subseteq S
  <2> HIDE DEF S
  <2> QED
    BY <1>3, <1>4, Adding!Induct
<1>6. q[n] = p[n]
  BY <1>5
<1>7. n + 1 \in 1..(n + 1) /\ (n + 1) - 1 = n
  OBVIOUS
<1>8. q[n + 1] = q[n] + y[n + 1]
  BY <1>2, <1>7 DEF Sums
<1> QED
  BY <1>1, <1>2, <1>6, <1>8 DEF Sums

\* A list no term of which is positive has no positive sum.
LEMMA SumPositive ==
  ASSUME NEW x, NEW n, Numbers(x, n), SumOf(x) > 0
  PROVE  \E i \in 1..n : x[i] > 0
<1>1. SUFFICES ASSUME \A i \in 1..n : x[i] <= 0 PROVE FALSE
  BY DEF Numbers
<1> DEFINE y == [i \in 1..n |-> 0 - x[i]]
<1>2. Numbers(y, n) /\ \A i \in 1..n : y[i] >= 0
  BY <1>1 DEF Numbers
<1>3. Scales(y, -1, x, n)
  BY <1>2 DEF Numbers, Scales
<1>5. SumOf(y) >= 0 /\ SumOf(y) = (-1) * SumOf(x)
  <2> HIDE DEF y
  <2> QED
    BY <1>2, <1>3, SumScales, SumBounds
<1>4. SumOf(x) \in Int
  BY SumIsInt
<1> QED
  BY <1>4, <1>5

----------------------------------------------------------------------------
(* Extremes.                                                               *)

\* Some term of a list that is not empty is the greatest.
IsTop(i, x, n) == i \in 1..n /\ \A j \in 1..n : x[j] <= x[i]

\* A list that is not empty has a greatest element.
LEMMA Greatest ==
  ASSUME NEW x, NEW n, Numbers(x, n), n # 0
  PROVE  \E i : IsTop(i, x, n)
<1>0. n \in Nat /\ \A i \in 1..n : x[i] \in Int
  BY DEF Numbers
<1> DEFINE S == {m \in Nat : m + 1 <= n => \E i \in 1..(m + 1) : \A j \in 1..(m + 1) : x[j] <= x[i]}
<1>1. 0 \in S
  <2>1. SUFFICES ASSUME 0 + 1 <= n
                 PROVE  \E i \in 1..(0 + 1) : \A j \in 1..(0 + 1) : x[j] <= x[i]
    OBVIOUS
  <2>2. 1 \in 1..n /\ 1 \in 1..(0 + 1) /\ \A j \in 1..(0 + 1) : j = 1
    BY <1>0, <2>1
  <2>3. x[1] \in Int
    BY <1>0, <2>2
  <2>4. \A j \in 1..(0 + 1) : x[j] <= x[1]
    BY <2>2, <2>3
  <2> QED
    BY <2>2, <2>4
<1>2. ASSUME NEW m \in Nat, m \in S PROVE m + 1 \in S
  <2>1. SUFFICES ASSUME (m + 1) + 1 <= n
                 PROVE  \E i \in 1..((m + 1) + 1) : \A j \in 1..((m + 1) + 1) : x[j] <= x[i]
    OBVIOUS
  <2>2. m + 1 <= n
    BY <1>0, <2>1
  <2>3. PICK i \in 1..(m + 1) : \A j \in 1..(m + 1) : x[j] <= x[i]
    BY <1>2, <2>2
  <2> DEFINE l == (m + 1) + 1
  <2>4. /\ l \in 1..n /\ l \in 1..l /\ i \in 1..l /\ i \in 1..n
        /\ \A j \in 1..l : j \in 1..n /\ (j = l \/ j \in 1..(m + 1))
    BY <1>0, <2>1
  <2>5. x[l] \in Int /\ x[i] \in Int /\ \A j \in 1..l : x[j] \in Int
    BY <1>0, <2>4
  <2> HIDE DEF l
  <2>6. CASE x[l] <= x[i]
    <3>1. \A j \in 1..l : x[j] <= x[i]
      BY <2>3, <2>4, <2>6
    <3> QED
      BY <2>4, <3>1 DEF l
  <2>7. CASE x[i] < x[l]
    <3>1. ASSUME NEW j \in 1..l PROVE x[j] <= x[l]
      <4>1. CASE j = l
        BY <2>5, <4>1
      <4>2. CASE j \in 1..(m + 1)
        <5>1. x[j] <= x[i] /\ x[j] \in Int
          BY <2>3, <2>5, <4>2
        <5> QED
          BY <2>5, <2>7, <5>1
      <4> QED
        BY <2>4, <4>1, <4>2
    <3> QED
      BY <2>4, <3>1 DEF l
  <2> QED
    BY <2>5, <2>6, <2>7
<1>3. Nat \subseteq S
  <2> HIDE DEF S
  <2> QED
    BY <1>1, <1>2, Adding!Induct
<1>4. n - 1 \in Nat /\ (n - 1) + 1 = n
  BY <1>0
<1>5. n - 1 \in S
  BY <1>3, <1>4
<1>6. \E i \in 1..((n - 1) + 1) : \A j \in 1..((n - 1) + 1) : x[j] <= x[i]
  BY <1>4, <1>5
<1> QED
  BY <1>4, <1>6 DEF IsTop

\* A set of naturals has a least element, and Min returns it.
LEMMA Least ==
  ASSUME NEW T \in SUBSET Nat, T # {}
  PROVE  Min(T) \in T /\ \A y \in T : Min(T) <= y
<1>1. \E x \in T : \A y \in T : x <= y
  <2>1. SUFFICES ASSUME \A x \in T : \E y \in T : y < x PROVE FALSE
    OBVIOUS
  <2> DEFINE S == {m \in Nat : \A y \in T : y > m}
  <2>2. 0 \in S
    <3>1. ASSUME 0 \in T PROVE FALSE
      BY <2>1, <3>1
    <3> QED
      BY <3>1
  <2>3. ASSUME NEW m \in Nat, m \in S PROVE m + 1 \in S
    <3>1. ASSUME m + 1 \in T PROVE FALSE
      <4>1. PICK y \in T : y < m + 1
        BY <2>1, <3>1
      <4> QED
        BY <2>3, <4>1
    <3> QED
      BY <2>3, <3>1
  <2>4. Nat \subseteq S
    <3> HIDE DEF S
    <3> QED
      BY <2>2, <2>3, Adding!Induct
  <2>5. PICK x \in T : TRUE
    OBVIOUS
  <2>6. x \in Nat /\ x \in S
    BY <2>4, <2>5
  <2> QED
    BY <2>5, <2>6
<1> QED
  BY <1>1 DEF Min

----------------------------------------------------------------------------
(* The apportionment.                                                      *)

ServeStep(weights, run, step) == ServeNext(run, weights)
Serving == INSTANCE Folding WITH Op <- ServeStep

\* n weights, none of them zero.
Weights(w, n) == n \in Nat \ {0} /\ DOMAIN w = 1..n /\ \A i \in 1..n : w[i] \in Nat \ {0}

\* The terms of x at the places A.
Mask(x, A) == [i \in DOMAIN x |-> IF i \in A THEN x[i] ELSE 0]

\* How many of the first k entries of a schedule are places of A.
Count(schedule, k, A) == Cardinality({j \in 1..k : schedule[j] \in A})

\* After k steps: a deficit is what its backend was credited less what it was
\* debited, for any set of backends together; and none has fallen by a total.
Apportioned(run, w, n, k) ==
  /\ run.deficit \in [1..n -> Int]
  /\ run.schedule \in Seq(1..n) /\ Len(run.schedule) = k
  /\ \A i \in 1..n : run.deficit[i] > 0 - SumOf(w)
  /\ \A A \in SUBSET (1..n) :
       SumOf(Mask(run.deficit, A)) = k * SumOf(Mask(w, A)) - SumOf(w) * Count(run.schedule, k, A)

\* A list with zeros put in is one of integers still.
LEMMA MaskNumbers ==
  ASSUME NEW x, NEW n, Numbers(x, n), NEW A
  PROVE  Numbers(Mask(x, A), n) /\ \A i \in 1..n : Mask(x, A)[i] = IF i \in A THEN x[i] ELSE 0
BY DEF Numbers, Mask

\* Weights add up to something.
LEMMA WeightsAreNumbers ==
  ASSUME NEW w, NEW n, Weights(w, n)
  PROVE  Numbers(w, n) /\ SumOf(w) \in Nat /\ SumOf(w) > 0
<1>1. Numbers(w, n) /\ \A i \in 1..n : w[i] >= 0
  BY DEF Weights, Numbers
<1>2. SumOf(w) \in Int /\ \A i \in 1..n : w[i] <= SumOf(w)
  BY <1>1, SumIsInt, SumBounds
<1>3. 1 \in 1..n /\ w[1] \in Nat \ {0}
  BY DEF Weights
<1>4. w[1] <= SumOf(w)
  BY <1>2, <1>3
<1> QED
  BY <1>1, <1>2, <1>3, <1>4

\* How often a schedule serves is a number.
LEMMA CountIsNat ==
  ASSUME NEW schedule, NEW k \in Nat, NEW A
  PROVE  Count(schedule, k, A) \in Nat
<1>1. IsFiniteSet(1..k)
  BY FS_Interval
<1>2. IsFiniteSet({j \in 1..k : schedule[j] \in A})
  BY <1>1, FS_Subset
<1> QED
  BY <1>2, FS_CardinalityType DEF Count

\* One more entry.
Continues(t, s, k) == \A j \in 1..k : t[j] = s[j]

\* One more step of a schedule counts for whoever it serves.
LEMMA CountNext ==
  ASSUME NEW k \in Nat, NEW s, NEW t, Continues(t, s, k), NEW A
  PROVE  Count(t, k + 1, A) = Count(s, k, A) + (IF t[k + 1] \in A THEN 1 ELSE 0)
<1> DEFINE before == {j \in 1..k : s[j] \in A}
<1>1. IsFiniteSet(before) /\ k + 1 \notin before
  <2>1. IsFiniteSet(1..k)
    BY FS_Interval
  <2> QED
    BY <2>1, FS_Subset
<1>2. CASE t[k + 1] \in A
  <2>1. {j \in 1..(k + 1) : t[j] \in A} = before \cup {k + 1}
    BY <1>2 DEF Continues
  <2>2. Cardinality(before \cup {k + 1}) = Cardinality(before) + 1
    BY <1>1, FS_AddElement
  <2> QED
    BY <1>2, <2>1, <2>2 DEF Count
<1>3. CASE t[k + 1] \notin A
  <2>1. {j \in 1..(k + 1) : t[j] \in A} = before
    BY <1>3 DEF Continues
  <2>2. Cardinality(before) \in Nat
    BY <1>1, FS_CardinalityType
  <2>3. Count(t, k + 1, A) = Cardinality(before) /\ Count(s, k, A) = Cardinality(before)
    BY <2>1 DEF Count
  <2> QED
    BY <1>3, <2>2, <2>3
<1> QED
  BY <1>2, <1>3


\* Nothing served, nothing owed.
LEMMA ApportionBegins ==
  ASSUME NEW w, NEW n, Weights(w, n), NEW run,
         run = [deficit |-> [i \in DOMAIN w |-> 0], schedule |-> <<>>]
  PROVE  Apportioned(run, w, n, 0)
<1>1. n \in Nat /\ DOMAIN w = 1..n /\ SumOf(w) \in Nat /\ SumOf(w) > 0 /\ Numbers(w, n)
  BY WeightsAreNumbers DEF Weights
<1>2. run.deficit = [i \in 1..n |-> 0] /\ run.schedule = <<>>
  BY <1>1
<1>3. \A i \in 1..n : run.deficit[i] = 0
  BY <1>2
<1>4. ASSUME NEW A \in SUBSET (1..n)
      PROVE  SumOf(Mask(run.deficit, A))
               = 0 * SumOf(Mask(w, A)) - SumOf(w) * Count(run.schedule, 0, A)
  <2>1. Numbers(run.deficit, n)
    BY <1>1, <1>2 DEF Numbers
  <2>2. PICK x, y : x = Mask(run.deficit, A) /\ y = Mask(w, A)
    OBVIOUS
  <2>4. Numbers(x, n) /\ \A i \in 1..n : x[i] = 0
    BY <1>3, <2>1, <2>2, MaskNumbers
  <2>5. Numbers(y, n)
    BY <1>1, <2>2, MaskNumbers
  <2>7. SumOf(x) = 0 /\ SumOf(y) \in Int
    BY <2>4, <2>5, SumZero, SumIsInt
  <2>8. Count(run.schedule, 0, A) = 0
    <3>1. {j \in 1..0 : run.schedule[j] \in A} = {}
      OBVIOUS
    <3> QED
      BY <3>1, FS_EmptySet DEF Count
  <2>9. SumOf(w) * 0 = 0 /\ 0 * SumOf(y) = 0
    BY <1>1, <2>7
  <2> QED
    BY <2>2, <2>7, <2>8, <2>9
<1>5. run.deficit \in [1..n -> Int] /\ run.schedule \in Seq(1..n) /\ Len(run.schedule) = 0
  BY <1>2
<1>6. \A i \in 1..n : run.deficit[i] > 0 - SumOf(w)
  BY <1>1, <1>3
<1> QED
  BY <1>4, <1>5, <1>6 DEF Apportioned

\* The whole of the deficits is zero.
LEMMA DeficitsCancel ==
  ASSUME NEW w, NEW n, Weights(w, n), NEW k \in Nat, NEW run, Apportioned(run, w, n, k)
  PROVE  SumOf(run.deficit) = 0
<1>1. n \in Nat /\ DOMAIN w = 1..n /\ SumOf(w) \in Nat /\ Numbers(w, n)
  BY WeightsAreNumbers DEF Weights
<1>2. run.deficit \in [1..n -> Int] /\ run.schedule \in Seq(1..n) /\ Len(run.schedule) = k
  BY DEF Apportioned
<1>3. Mask(run.deficit, 1..n) = run.deficit /\ Mask(w, 1..n) = [i \in 1..n |-> w[i]]
  BY <1>1, <1>2 DEF Mask
<1>4. Count(run.schedule, k, 1..n) = k
  <2>1. PICK s : s = run.schedule
    OBVIOUS
  <2>5. s \in Seq(1..n) /\ Len(s) = k
    BY <1>2, <2>1
  <2>4. \A j \in 1..k : s[j] \in 1..n
    BY <2>5, ElementOfSeq
  <2>3. {j \in 1..k : s[j] \in 1..n} = 1..k
    BY <2>4
  <2>2. Cardinality(1..k) = k
    BY FS_Interval
  <2> QED
    BY <2>1, <2>2, <2>3 DEF Count
<1>5. SumOf(Mask(w, 1..n)) = SumOf(w)
  <2>1. PICK y : y = Mask(w, 1..n)
    OBVIOUS
  <2>2. Numbers(y, n) /\ \A i \in 1..n : y[i] = w[i]
    BY <1>1, <2>1, MaskNumbers
  <2>3. Scales(y, 1, w, n)
    BY <1>1, <2>2 DEF Numbers, Scales
  <2>4. SumOf(y) = 1 * SumOf(w)
    BY <2>3, SumScales
  <2> QED
    BY <1>1, <2>1, <2>4
<1>6. 1..n \in SUBSET (1..n)
  OBVIOUS
<1>7. SumOf(Mask(run.deficit, 1..n))
        = k * SumOf(Mask(w, 1..n)) - SumOf(w) * Count(run.schedule, k, 1..n)
  BY <1>6 DEF Apportioned
<1>8. SumOf(run.deficit) = k * SumOf(w) - SumOf(w) * k
  BY <1>3, <1>4, <1>5, <1>7
<1> QED
  BY <1>1, <1>8

\* One step serves a backend whose credit is the greatest, and so positive.
LEMMA ApportionGoesOn ==
  ASSUME NEW w, NEW n, Weights(w, n), NEW k \in Nat, NEW run, Apportioned(run, w, n, k)
  PROVE  Apportioned(ServeNext(run, w), w, n, k + 1)
<1>1. /\ n \in Nat \ {0} /\ DOMAIN w = 1..n /\ SumOf(w) \in Nat /\ SumOf(w) > 0
      /\ Numbers(w, n) /\ \A i \in 1..n : w[i] \in Nat \ {0}
  BY WeightsAreNumbers DEF Weights
<1>2. /\ run.deficit \in [1..n -> Int] /\ run.schedule \in Seq(1..n) /\ Len(run.schedule) = k
      /\ \A i \in 1..n : run.deficit[i] > 0 - SumOf(w)
  BY DEF Apportioned
<1> DEFINE credited == [i \in DOMAIN w |-> run.deficit[i] + w[i]]
           tops == {i \in DOMAIN w : \A j \in DOMAIN w : credited[j] <= credited[i]}
           best == Min(tops)
<1>3. Numbers(run.deficit, n) /\ Numbers(credited, n)
  BY <1>1, <1>2 DEF Numbers
<1>4. Adds(credited, run.deficit, w, n)
  BY <1>1, <1>2, <1>3 DEF Adds
<1>5. SumOf(credited) = SumOf(w)
  <2>1. SumOf(credited) = SumOf(run.deficit) + SumOf(w)
    <3> HIDE DEF credited
    <3> QED
      BY <1>4, SumAdds
  <2>2. SumOf(run.deficit) = 0
    BY DeficitsCancel
  <2> QED
    BY <1>1, <2>1, <2>2
<1>6. best \in 1..n /\ \A j \in 1..n : credited[j] <= credited[best]
  <2>1. \E i : IsTop(i, credited, n)
    <3> HIDE DEF credited
    <3> QED
      BY <1>1, <1>3, Greatest
  <2>2. tops \in SUBSET Nat /\ tops # {}
    <3> HIDE DEF credited
    <3>1. tops # {}
      BY <1>1, <2>1 DEF IsTop
    <3>2. \A i \in tops : i \in Nat
      BY <1>1
    <3> HIDE DEF tops
    <3> QED
      BY <3>1, <3>2
  <2>3. best \in tops
    <3> HIDE DEF tops
    <3> QED
      BY <2>2, Least
  <2> HIDE DEF best, credited
  <2> QED
    BY <1>1, <2>3
<1>7. credited[best] \in Int /\ credited[best] > 0
  <2> HIDE DEF best
  <2>1. \A i \in 1..n : credited[i] \in Int
    BY <1>3 DEF Numbers
  <2> HIDE DEF credited
  <2>2. \E i \in 1..n : credited[i] > 0
    BY <1>1, <1>3, <1>5, SumPositive
  <2> QED
    BY <1>6, <2>1, <2>2
<1>8. PICK b, c : b = best /\ c = credited
  OBVIOUS
<1>9. PICK next : next = ServeNext(run, w)
  OBVIOUS
<1>10. /\ next.deficit = [c EXCEPT ![b] = @ - SumOf(w)]
       /\ next.schedule = Append(run.schedule, b)
  BY <1>8, <1>9 DEF ServeNext
<1> HIDE DEF best, tops
<1>11. /\ b \in 1..n /\ c \in [1..n -> Int] /\ c[b] > 0 /\ Numbers(c, n)
       /\ \A i \in 1..n : c[i] = run.deficit[i] + w[i]
  <2>1. c = [i \in 1..n |-> run.deficit[i] + w[i]]
    BY <1>1, <1>8
  <2>2. c \in [1..n -> Int] /\ \A i \in 1..n : c[i] = run.deficit[i] + w[i]
    BY <1>1, <1>2, <2>1
  <2> HIDE DEF credited
  <2> QED
    BY <1>3, <1>6, <1>7, <1>8, <2>2
<1> HIDE DEF credited
<1>12. /\ next.deficit \in [1..n -> Int]
       /\ \A i \in 1..n : next.deficit[i] = IF i = b THEN c[i] - SumOf(w) ELSE c[i]
  BY <1>1, <1>10, <1>11
<1>13. /\ next.schedule \in Seq(1..n) /\ Len(next.schedule) = k + 1
       /\ next.schedule[k + 1] = b /\ Continues(next.schedule, run.schedule, k)
  BY <1>2, <1>10, <1>11 DEF Continues
<1>14. ASSUME NEW i \in 1..n PROVE next.deficit[i] > 0 - SumOf(w)
  <2>1. CASE i = b
    BY <1>1, <1>11, <1>12, <2>1
  <2>2. CASE i # b
    <3>1. run.deficit[i] > 0 - SumOf(w) /\ run.deficit[i] \in Int /\ w[i] \in Nat
      BY <1>1, <1>2
    <3>2. next.deficit[i] = run.deficit[i] + w[i]
      BY <1>11, <1>12, <2>2
    <3> QED
      BY <1>1, <3>1, <3>2
  <2> QED
    BY <2>1, <2>2
<1>15. ASSUME NEW A \in SUBSET (1..n)
       PROVE  SumOf(Mask(next.deficit, A))
                = (k + 1) * SumOf(Mask(w, A)) - SumOf(w) * Count(next.schedule, k + 1, A)
  <2>1. PICK x, y, z : x = Mask(run.deficit, A) /\ y = Mask(w, A) /\ z = Mask(next.deficit, A)
    OBVIOUS
  <2>2. PICK d : d = [i \in 1..n |-> IF i = b /\ b \in A THEN 0 - SumOf(w) ELSE 0]
    OBVIOUS
  <2>3. PICK u : u = [i \in 1..n |-> x[i] + y[i]]
    OBVIOUS
  <2>4. Numbers(x, n) /\ \A i \in 1..n : x[i] = IF i \in A THEN run.deficit[i] ELSE 0
    BY <1>3, <2>1, MaskNumbers
  <2>5. Numbers(y, n) /\ \A i \in 1..n : y[i] = IF i \in A THEN w[i] ELSE 0
    BY <1>1, <2>1, MaskNumbers
  <2>6. Numbers(next.deficit, n)
    BY <1>1, <1>12 DEF Numbers
  <2>7. Numbers(z, n) /\ \A i \in 1..n : z[i] = IF i \in A THEN next.deficit[i] ELSE 0
    BY <2>1, <2>6, MaskNumbers
  <2>8. Numbers(d, n) /\ Numbers(u, n)
    BY <1>1, <2>2, <2>3, <2>4, <2>5 DEF Numbers
  <2>9. SumOf(u) = SumOf(x) + SumOf(y)
    <3>1. Adds(u, x, y, n)
      BY <2>3, <2>4, <2>5, <2>8 DEF Adds
    <3> QED
      BY <3>1, SumAdds
  <2>10. SumOf(z) = SumOf(u) + SumOf(d)
    <3>1. ASSUME NEW i \in 1..n PROVE z[i] = u[i] + d[i]
      <4>1. /\ u[i] = x[i] + y[i] /\ d[i] = (IF i = b /\ b \in A THEN 0 - SumOf(w) ELSE 0)
            /\ run.deficit[i] \in Int /\ w[i] \in Int
        <5>1. u[i] = x[i] + y[i]
          BY <2>3
        <5>2. d[i] = (IF i = b /\ b \in A THEN 0 - SumOf(w) ELSE 0)
          BY <2>2
        <5>3. run.deficit[i] \in Int /\ w[i] \in Int
          BY <1>1, <1>2
        <5> QED
          BY <5>1, <5>2, <5>3
      <4>2. next.deficit[i] = (IF i = b THEN c[i] - SumOf(w) ELSE c[i])
        BY <1>12
      <4>3. c[i] = run.deficit[i] + w[i]
        BY <1>11
      <4>4. CASE i \in A
        <5>1. x[i] = run.deficit[i] /\ y[i] = w[i] /\ z[i] = next.deficit[i]
          BY <2>4, <2>5, <2>7, <4>4
        <5>2. u[i] = run.deficit[i] + w[i]
          BY <4>1, <5>1
        <5>3. SumOf(w) \in Int
          BY <1>1
        <5>4. CASE i = b
          <6>1. d[i] = 0 - SumOf(w)
            BY <4>1, <4>4, <5>4
          <6>2. z[i] = u[i] - SumOf(w)
            BY <4>2, <4>3, <5>1, <5>2, <5>4
          <6> QED
            BY <4>1, <5>2, <5>3, <6>1, <6>2
        <5>5. CASE i # b
          BY <4>1, <4>2, <4>3, <5>1, <5>2, <5>5
        <5> QED
          BY <5>4, <5>5
      <4>5. CASE i \notin A
        BY <1>1, <2>4, <2>5, <2>7, <4>1, <4>5
      <4> QED
        BY <4>4, <4>5
    <3>2. Adds(z, u, d, n)
      BY <2>7, <2>8, <3>1 DEF Adds
    <3> QED
      BY <3>2, SumAdds
  <2>11. SumOf(d) = IF b \in A THEN 0 - SumOf(w) ELSE 0
    <3>1. \A i \in 1..n : i # b => d[i] = 0
      BY <2>2
    <3>2. SumOf(d) = d[b]
      BY <1>11, <2>8, <3>1, SumSingle
    <3> QED
      BY <1>11, <2>2, <3>2
  <2>12. Count(next.schedule, k + 1, A)
           = Count(run.schedule, k, A) + (IF b \in A THEN 1 ELSE 0)
    BY <1>13, CountNext
  <2>13. SumOf(x) = k * SumOf(y) - SumOf(w) * Count(run.schedule, k, A)
    BY <2>1 DEF Apportioned
  <2>14. SumOf(x) \in Int /\ SumOf(y) \in Int /\ Count(run.schedule, k, A) \in Nat
    BY <2>4, <2>5, SumIsInt, CountIsNat
  <2>15. SumOf(u) \in Int /\ SumOf(d) \in Int
    BY <2>8, SumIsInt
  <2>16. (k + 1) * SumOf(y) = k * SumOf(y) + SumOf(y)
    BY <2>14
  <2>17. CASE b \in A
    <3>1. SumOf(w) * (Count(run.schedule, k, A) + 1) = SumOf(w) * Count(run.schedule, k, A) + SumOf(w)
      BY <1>1, <2>14
    <3>2. SumOf(z) = SumOf(x) + SumOf(y) - SumOf(w)
      BY <1>1, <2>9, <2>10, <2>11, <2>14, <2>15, <2>17
    <3> QED
      BY <1>1, <2>1, <2>12, <2>13, <2>14, <2>16, <2>17, <3>1, <3>2
  <2>18. CASE b \notin A
    <3>1. SumOf(z) = SumOf(x) + SumOf(y)
      BY <2>9, <2>10, <2>11, <2>14, <2>15, <2>18
    <3> QED
      BY <1>1, <2>1, <2>12, <2>13, <2>14, <2>16, <2>18, <3>1
  <2> QED
    BY <2>17, <2>18
<1>16. Apportioned(next, w, n, k + 1)
  BY <1>12, <1>13, <1>14, <1>15 DEF Apportioned
<1> QED
  BY <1>9, <1>16

(***************************************************************************)
(* The schedule is as long as the total of the weights, and in the whole   *)
(* of it any set of backends is served as often as its weights add up to   *)
(* (weighted_schedule).                                                    *)
(***************************************************************************)
THEOREM ApportionmentIsExact ==
  ASSUME NEW w, NEW n, Weights(w, n)
  PROVE  /\ weighted_schedule(w) \in Seq(1..n)
         /\ Len(weighted_schedule(w)) = SumOf(w)
         /\ \A A \in SUBSET (1..n) :
              Count(weighted_schedule(w), SumOf(w), A) = SumOf(Mask(w, A))
<1>1. /\ n \in Nat /\ DOMAIN w = 1..n /\ SumOf(w) \in Nat /\ SumOf(w) > 0
      /\ Numbers(w, n) /\ \A i \in 1..n : w[i] \in Nat
  BY WeightsAreNumbers DEF Weights
<1>2. PICK total : total = SumOf(w)
  OBVIOUS
<1>3. PICK base : base = [deficit |-> [i \in DOMAIN w |-> 0], schedule |-> <<>>]
  OBVIOUS
<1>4. PICK steps : steps = [step \in 1..total |-> step]
  OBVIOUS
<1>5. weighted_schedule(w) = Serving!Fold(w, base, steps).schedule
  BY <1>2, <1>3, <1>4
     DEF weighted_schedule, FoldLeft, MapThenFoldSet, Max, ServeStep,
         Serving!Fold, Serving!FoldLeft, Serving!MapThenFoldSet, Serving!Max
<1>6. total \in Nat /\ DOMAIN steps = 1..total
  BY <1>1, <1>2, <1>4
<1>7. PICK run : /\ run[0] = base
                 /\ \A i \in 1..total : run[i] = ServeStep(w, run[i - 1], steps[i])
                 /\ Serving!Fold(w, base, steps) = run[total]
  BY <1>6, Serving!FoldRuns
<1> DEFINE S == {k \in Nat : k <= total => Apportioned(run[k], w, n, k)}
<1>8. 0 \in S
  BY <1>3, <1>7, ApportionBegins
<1>9. ASSUME NEW k \in Nat, k \in S PROVE k + 1 \in S
  <2>1. SUFFICES ASSUME k + 1 <= total PROVE Apportioned(run[k + 1], w, n, k + 1)
    OBVIOUS
  <2>2. k + 1 \in 1..total /\ k <= total /\ (k + 1) - 1 = k
    BY <1>6, <2>1
  <2>3. run[k + 1] = ServeNext(run[k], w)
    BY <1>7, <2>2 DEF ServeStep
  <2>4. Apportioned(run[k], w, n, k)
    BY <1>9, <2>2
  <2>5. Apportioned(ServeNext(run[k], w), w, n, k + 1)
    BY <2>4, ApportionGoesOn
  <2> QED
    BY <2>3, <2>5
<1>10. Apportioned(run[total], w, n, total)
  <2>1. Nat \subseteq S
    <3> HIDE DEF S
    <3> QED
      BY <1>8, <1>9, Adding!Induct
  <2> QED
    BY <1>6, <2>1
<1>11. PICK end : end = run[total]
  OBVIOUS
<1>12. /\ end.schedule = weighted_schedule(w)
       /\ end.deficit \in [1..n -> Int]
       /\ end.schedule \in Seq(1..n) /\ Len(end.schedule) = total
       /\ \A i \in 1..n : end.deficit[i] > 0 - total
       /\ \A A \in SUBSET (1..n) :
            SumOf(Mask(end.deficit, A)) = total * SumOf(Mask(w, A)) - total * Count(end.schedule, total, A)
       /\ SumOf(end.deficit) = 0
  <2>1. SumOf(end.deficit) = 0
    BY <1>6, <1>10, <1>11, DeficitsCancel
  <2> QED
    BY <1>2, <1>5, <1>7, <1>10, <1>11, <2>1 DEF Apportioned
\* A deficit is a multiple of the total and more than minus the total.
<1>13. ASSUME NEW A \in SUBSET (1..n)
       PROVE  /\ SumOf(Mask(w, A)) \in Int /\ Count(end.schedule, total, A) \in Nat
              /\ Numbers(Mask(end.deficit, A), n)
  <2>1. Numbers(end.deficit, n)
    BY <1>1, <1>12 DEF Numbers
  <2>2. PICK x, y : x = Mask(end.deficit, A) /\ y = Mask(w, A)
    OBVIOUS
  <2>3. Numbers(x, n) /\ Numbers(y, n)
    BY <1>1, <2>1, <2>2, MaskNumbers
  <2>4. SumOf(y) \in Int /\ Count(end.schedule, total, A) \in Nat
    BY <1>6, <2>3, SumIsInt, CountIsNat
  <2> QED
    BY <2>2, <2>3, <2>4
<1>14. ASSUME NEW i \in 1..n PROVE end.deficit[i] >= 0
  <2>1. PICK x, y, q : x = Mask(end.deficit, {i}) /\ y = SumOf(Mask(w, {i})) /\ q = Count(end.schedule, total, {i})
    OBVIOUS
  <2>2. {i} \in SUBSET (1..n)
    OBVIOUS
  <2>3. Numbers(x, n) /\ y \in Int /\ q \in Nat /\ SumOf(x) = total * y - total * q
    BY <1>12, <1>13, <2>1, <2>2
  <2>4. Numbers(end.deficit, n)
    BY <1>1, <1>12 DEF Numbers
  <2>5. x[i] = end.deficit[i] /\ \A j \in 1..n : j # i => x[j] = 0
    BY <1>12, <2>1 DEF Mask
  <2>6. SumOf(x) = end.deficit[i]
    BY <2>3, <2>5, SumSingle
  <2>7. end.deficit[i] > 0 - total /\ end.deficit[i] \in Int
    BY <1>12
  <2>8. PICK e : e = y - q
    OBVIOUS
  <2>9. e \in Int /\ total * e = total * y - total * q
    BY <1>6, <2>3, <2>8
  <2>10. total * e > 0 - total /\ total > 0
    BY <1>1, <1>2, <2>3, <2>6, <2>7, <2>9
  <2>11. e >= 0
    <3>1. SUFFICES ASSUME e <= -1 PROVE FALSE
      BY <2>9
    <3>2. total * e <= total * (-1)
      BY <1>6, <2>9, <3>1
    <3> QED
      BY <1>6, <2>9, <2>10, <3>2
  <2>12. total * e >= 0
    BY <1>6, <2>9, <2>11
  <2> QED
    BY <2>3, <2>6, <2>9, <2>12
<1>15. \A i \in 1..n : end.deficit[i] = 0
  <2>1. Numbers(end.deficit, n)
    BY <1>1, <1>12 DEF Numbers
  <2>2. \A i \in 1..n : end.deficit[i] <= SumOf(end.deficit)
    BY <1>14, <2>1, SumBounds
  <2>3. \A i \in 1..n : end.deficit[i] \in Int
    BY <1>12
  <2> QED
    BY <1>12, <1>14, <2>2, <2>3
<1>16. ASSUME NEW A \in SUBSET (1..n)
       PROVE  Count(end.schedule, total, A) = SumOf(Mask(w, A))
  <2>1. PICK x, y, q : x = Mask(end.deficit, A) /\ y = SumOf(Mask(w, A)) /\ q = Count(end.schedule, total, A)
    OBVIOUS
  <2>2. Numbers(x, n) /\ y \in Int /\ q \in Nat /\ SumOf(x) = total * y - total * q
    BY <1>12, <1>13, <2>1
  <2>3. \A i \in 1..n : x[i] = 0
    BY <1>12, <1>15, <2>1 DEF Mask
  <2>4. SumOf(x) = 0
    BY <2>2, <2>3, SumZero
  <2>5. total * (y - q) = 0 /\ total > 0
    BY <1>1, <1>2, <1>6, <2>2, <2>4
  <2>6. y - q = 0
    BY <1>6, <2>2, <2>5
  <2> QED
    BY <2>1, <2>2, <2>6
<1> QED
  BY <1>2, <1>12, <1>16

----------------------------------------------------------------------------
(* The greatest common divisor.                                            *)

Divides(d, a) == \E q \in Nat : a = q * d

\* The positive common divisors of a and b.
Common(a, b) == {d \in Nat \ {0} : Divides(d, a) /\ Divides(d, b)}

\* Remainder and quotient of a number that is given by them.
LEMMA ModOf ==
  ASSUME NEW n \in Nat \ {0}, NEW q \in Int, NEW m \in 0..(n - 1)
  PROVE  (q * n + m) % n = m
OBVIOUS

\* (The quotient.)
LEMMA DivOf ==
  ASSUME NEW n \in Nat \ {0}, NEW q \in Int, NEW m \in 0..(n - 1)
  PROVE  (q * n + m) \div n = q
OBVIOUS

\* Division with remainder.
LEMMA Division ==
  ASSUME NEW a \in Nat, NEW b \in Nat \ {0}
  PROVE  /\ a \div b \in Nat /\ a % b \in Nat /\ a % b < b
         /\ a = (a \div b) * b + (a % b)
<1>1. a \div b \in Nat /\ (a \div b) * b <= a /\ a < (a \div b) * b + b
  OBVIOUS
<1>2. PICK q, m : q = a \div b /\ m = a - q * b
  OBVIOUS
<1>3. q \in Nat /\ m \in 0..(b - 1) /\ a = q * b + m
  <2>1. q * b \in Nat
    BY <1>1, <1>2
  <2> QED
    BY <1>1, <1>2, <2>1
<1>4. (q * b + m) % b = m
  BY <1>3, ModOf
<1>5. a % b = m
  <2>1. PICK x : x = q * b + m
    OBVIOUS
  <2> QED
    BY <1>3, <1>4, <2>1
<1>6. m \in Nat /\ m < b
  BY <1>3
<1> QED
  BY <1>2, <1>3, <1>5, <1>6

\* What divides both parts divides the sum.
LEMMA DividesSum ==
  ASSUME NEW d \in Nat, NEW a \in Nat, NEW b \in Nat, NEW q \in Nat, Divides(d, a), Divides(d, b)
  PROVE  Divides(d, q * a + b)
<1>1. PICK x \in Nat : a = x * d
  BY DEF Divides
<1>2. PICK y \in Nat : b = y * d
  BY DEF Divides
<1>3. q * (x * d) = (q * x) * d
  OBVIOUS
<1>4. PICK z : z = q * x
  OBVIOUS
<1>5. z \in Nat
  BY <1>4
<1>6. (z + y) * d = z * d + y * d
  BY <1>5
<1>7. q * a + b = (z + y) * d
  BY <1>1, <1>2, <1>3, <1>4, <1>6
<1>8. z + y \in Nat
  BY <1>5
<1> QED
  BY <1>7, <1>8 DEF Divides

\* What divides the sum and one part divides the other.
LEMMA DividesRest ==
  ASSUME NEW d \in Nat \ {0}, NEW a \in Nat, NEW b \in Nat, NEW q \in Nat,
         Divides(d, q * a + b), Divides(d, a)
  PROVE  Divides(d, b)
<1>1. PICK x \in Nat : a = x * d
  BY DEF Divides
<1>2. PICK y \in Nat : q * a + b = y * d
  BY DEF Divides
<1>3. q * (x * d) = (q * x) * d
  OBVIOUS
<1>4. PICK z : z = q * x
  OBVIOUS
<1>5. z \in Nat
  BY <1>4
<1>6. (y - z) * d = y * d - z * d
  BY <1>5
<1>7. b = (y - z) * d
  BY <1>1, <1>2, <1>3, <1>4, <1>6
<1>8. y - z >= 0
  <2>1. SUFFICES ASSUME y - z <= -1 PROVE FALSE
    BY <1>5
  <2>2. (y - z) * d <= (-1) * d
    BY <1>5, <2>1
  <2> QED
    BY <1>7, <2>2
<1>9. y - z \in Nat
  BY <1>5, <1>8
<1> QED
  BY <1>7, <1>9 DEF Divides

\* Divisibility is transitive.
LEMMA DividesThrough ==
  ASSUME NEW d \in Nat, NEW e \in Nat, NEW a \in Nat, Divides(d, e), Divides(e, a)
  PROVE  Divides(d, a)
<1>1. PICK x \in Nat : e = x * d
  BY DEF Divides
<1>2. PICK y \in Nat : a = y * e
  BY DEF Divides
<1>3. y * (x * d) = (y * x) * d
  OBVIOUS
<1>4. y * x \in Nat
  OBVIOUS
<1> QED
  BY <1>1, <1>2, <1>3, <1>4 DEF Divides

\* A divisor of a positive number is no larger.
LEMMA DivisorBound ==
  ASSUME NEW d \in Nat, NEW a \in Nat \ {0}, Divides(d, a)
  PROVE  d \in 1..a
<1>1. PICK q \in Nat : a = q * d
  BY DEF Divides
<1>2. d # 0 /\ q # 0
  BY <1>1
<1>3. q * d >= 1 * d
  BY <1>2
<1> QED
  BY <1>1, <1>2, <1>3

\* Everything divides itself, and zero.
LEMMA DividesItself ==
  ASSUME NEW a \in Nat
  PROVE  Divides(a, a) /\ Divides(a, 0)
<1>1. a = 1 * a /\ 0 = 0 * a /\ 1 \in Nat /\ 0 \in Nat
  OBVIOUS
<1> QED
  BY <1>1 DEF Divides

\* A step of Euclid's algorithm keeps the common divisors.
LEMMA SameCommon ==
  ASSUME NEW a \in Nat, NEW b \in Nat \ {0}
  PROVE  Common(a, b) = Common(b, a % b)
<1>1. PICK q, r : q = a \div b /\ r = a % b
  OBVIOUS
<1>2. q \in Nat /\ r \in Nat /\ a = q * b + r
  BY <1>1, Division
<1>3. ASSUME NEW d \in Nat \ {0}, Divides(d, b)
      PROVE  Divides(d, a) <=> Divides(d, r)
  BY <1>2, <1>3, DividesSum, DividesRest
<1> QED
  BY <1>1, <1>3 DEF Common

\* The recursion of gcd has a solution, so gcd satisfies it.
LEMMA GcdUnfolds ==
  ASSUME NEW a \in Nat, NEW b \in Nat
  PROVE  gcd[<<a, b>>] = IF b = 0 THEN a ELSE gcd[<<b, a % b>>]
<1> DEFINE Top(D) == CHOOSE d \in D : \A e \in D : e <= d
           g == [p \in Nat \X Nat |-> IF p[2] = 0 THEN p[1] ELSE Top(Common(p[1], p[2]))]
           h == [p \in Nat \X Nat |-> IF p[2] = 0 THEN p[1] ELSE g[<<p[2], p[1] % p[2]>>]]
<1>1. ASSUME NEW x \in Nat, NEW y \in Nat PROVE g[<<x, y>>] = h[<<x, y>>]
  <2>1. CASE y = 0
    BY <2>1
  <2>2. CASE y # 0
    <3>1. x % y \in Nat /\ <<y, x % y>> \in Nat \X Nat /\ <<x, y>> \in Nat \X Nat
      BY <2>2, Division
    <3>2. g[<<x, y>>] = Top(Common(x, y)) /\ h[<<x, y>>] = g[<<y, x % y>>]
      BY <2>2, <3>1
    <3>3. CASE x % y = 0
      <4>1. g[<<y, x % y>>] = y
        BY <3>1, <3>3
      <4>2. PICK D : D = Common(x, y)
        OBVIOUS
      <4>3. D = Common(y, 0)
        BY <2>2, <3>3, <4>2, SameCommon
      <4>4. y \in D /\ D \subseteq Nat
        BY <2>2, <4>3, DividesItself DEF Common
      <4>5. \A e \in D : e <= y /\ e \in Nat
        BY <2>2, <4>3, DivisorBound DEF Common
      <4>6. Top(D) \in D /\ y <= Top(D)
        BY <4>4, <4>5
      <4>7. Top(D) = y
        <5> HIDE DEF Top
        <5> QED
          BY <4>5, <4>6
      <4> QED
        BY <3>2, <4>1, <4>2, <4>7
    <3>4. CASE x % y # 0
      <4>1. g[<<y, x % y>>] = Top(Common(y, x % y))
        BY <3>1, <3>4
      <4>2. Common(x, y) = Common(y, x % y)
        BY <2>2, SameCommon
      <4> QED
        BY <3>2, <4>1, <4>2
    <3> QED
      BY <3>3, <3>4
  <2> QED
    BY <2>1, <2>2
<1>2. g = h
  <2>1. \A p \in Nat \X Nat : p = <<p[1], p[2]>> /\ p[1] \in Nat /\ p[2] \in Nat
    OBVIOUS
  <2>2. DOMAIN g = Nat \X Nat /\ DOMAIN h = Nat \X Nat
    OBVIOUS
  <2>3. \A p \in Nat \X Nat : g[p] = h[p]
    <3> HIDE DEF g, h
    <3> QED
      BY <1>1, <2>1
  <2> QED
    BY <2>3
<1> DEFINE Solves(f) == f = [p \in Nat \X Nat |-> IF p[2] = 0 THEN p[1] ELSE f[<<p[2], p[1] % p[2]>>]]
<1>3. Solves(g)
  BY <1>2
<1>4. gcd = CHOOSE f : Solves(f)
  BY DEF gcd
<1>5. Solves(gcd)
  <2> HIDE DEF Solves, g, h
  <2> QED
    BY <1>3, <1>4
<1>6. <<a, b>> \in Nat \X Nat
  OBVIOUS
<1> QED
  BY <1>5, <1>6

\* What the algorithm returns divides both.
LEMMA GcdDivides ==
  ASSUME NEW a \in Nat, NEW b \in Nat
  PROVE  gcd[<<a, b>>] \in Nat /\ Divides(gcd[<<a, b>>], a) /\ Divides(gcd[<<a, b>>], b)
<1> DEFINE Good(x, y) == LET d == gcd[<<x, y>>] IN d \in Nat /\ Divides(d, x) /\ Divides(d, y)
           S == {m \in Nat : \A y \in 0..m : \A x \in Nat : Good(x, y)}
<1>1. 0 \in S
  <2>1. ASSUME NEW x \in Nat PROVE Good(x, 0)
    <3>1. gcd[<<x, 0>>] = x
      BY GcdUnfolds
    <3> QED
      BY <3>1, DividesItself
  <2> QED
    BY <2>1
<1>2. ASSUME NEW m \in Nat, m \in S PROVE m + 1 \in S
  <2>1. ASSUME NEW y \in 0..(m + 1), NEW x \in Nat PROVE Good(x, y)
    <3>1. CASE y <= m
      <4>1. y \in 0..m
        BY <3>1
      <4> QED
        BY <1>2, <4>1
    <3>2. CASE y = m + 1
      <4>1. PICK q, r : q = x \div y /\ r = x % y
        OBVIOUS
      <4>7. y \in Nat \ {0}
        BY <3>2
      <4>8. q \in Nat /\ r \in Nat /\ r < y /\ x = q * y + r
        BY <4>1, <4>7, Division
      <4>2. y \in Nat \ {0} /\ q \in Nat /\ r \in 0..m /\ r \in Nat /\ x = q * y + r
        BY <3>2, <4>7, <4>8
      <4>3. PICK d : d = gcd[<<y, r>>]
        OBVIOUS
      <4>4. d \in Nat /\ Divides(d, y) /\ Divides(d, r)
        BY <1>2, <4>2, <4>3
      <4>5. Divides(d, x)
        BY <4>2, <4>4, DividesSum
      <4>6. gcd[<<x, y>>] = d
        BY <4>1, <4>2, <4>3, GcdUnfolds
      <4> QED
        BY <4>4, <4>5, <4>6
    <3> QED
      BY <3>1, <3>2
  <2> QED
    BY <2>1
<1>3. Nat \subseteq S
  <2> HIDE DEF S
  <2> QED
    BY <1>1, <1>2, Adding!Induct
<1>4. b \in S
  BY <1>3
<1> QED
  BY <1>4

----------------------------------------------------------------------------
(* The split.                                                              *)

NonZeroStep(par, kept, w) == IF w > 0 THEN Append(kept, w) ELSE kept
Counting == INSTANCE Folding WITH Op <- NonZeroStep

GcdStep(par, a, w) == gcd[<<a, w>>]
Dividing == INSTANCE Folding WITH Op <- GcdStep

LiveStep(par, kept, t) == IF t[2] > 0 THEN Append(kept, t) ELSE kept
Draining == INSTANCE Folding WITH Op <- LiveStep

\* The weights the divisor is taken of.
LEMMA NonZeroKeeps ==
  ASSUME NEW w, NEW n \in Nat, DOMAIN w = 1..n, \A i \in 1..n : w[i] \in Nat
  PROVE  Counting!Kept(NonZero(w), w, n, Nat \ {0})
<1>1. NonZero(w) = Counting!Walk(0, <<>>, w)
  BY DEF NonZero, Keep, NonZeroStep, Counting!Walk
<1>2. \A i \in 1..n : \A kept : NonZeroStep(0, kept, w[i])
                                  = IF w[i] \in Nat \ {0} THEN Append(kept, w[i]) ELSE kept
  BY DEF NonZeroStep
<1>3. Counting!Kept(Counting!Walk(0, <<>>, w), w, n, Nat \ {0})
  BY <1>2, Counting!WalkKeeps
<1> QED
  BY <1>1, <1>3

\* The divisor of a list of positive weights is positive and divides each.
LEMMA DivisorDivides ==
  ASSUME NEW w, NEW n, Weights(w, n)
  PROVE  Divisor(w) \in Nat \ {0} /\ \A i \in 1..n : Divides(Divisor(w), w[i])
<1>1. n \in Nat \ {0} /\ n \in Nat /\ DOMAIN w = 1..n /\ \A i \in 1..n : w[i] \in Nat \ {0} /\ w[i] \in Nat
  BY DEF Weights
<1>2. PICK v : v = NonZero(w)
  OBVIOUS
<1>3. v \in Seq(Nat \ {0}) /\ Len(v) = n /\ \A i \in 1..n : v[i] = w[i]
  <2>1. PICK T : T = Nat \ {0}
    OBVIOUS
  <2>2. Counting!Kept(v, w, n, T)
    BY <1>1, <1>2, <2>1, NonZeroKeeps
  <2>3. n \in Nat /\ \A i \in 1..n : w[i] \in T
    BY <1>1, <2>1
  <2>4. v \in Seq(T) /\ Len(v) = n /\ \A i \in 1..n : v[i] = w[i]
    BY <2>2, <2>3, Counting!KeptAll
  <2> QED
    BY <2>1, <2>4
<1>4. DOMAIN v = 1..n
  BY <1>3
<1>5. Divisor(w) = Dividing!Fold(0, 0, v)
  BY <1>2 DEF Divisor, FoldLeft, MapThenFoldSet, Max, GcdStep,
              Dividing!Fold, Dividing!FoldLeft, Dividing!MapThenFoldSet, Dividing!Max
<1>6. PICK d : /\ d[0] = 0
               /\ \A i \in 1..n : d[i] = GcdStep(0, d[i - 1], v[i])
               /\ Dividing!Fold(0, 0, v) = d[n]
  <2>1. n \in Nat
    BY <1>1
  <2> QED
    BY <1>4, <2>1, Dividing!FoldRuns
<1> DEFINE Good(m) == d[m] \in Nat /\ \A i \in 1..m : Divides(d[m], w[i])
           S == {m \in Nat : m <= n => Good(m)}
<1>7. 0 \in S
  BY <1>6
<1>8. ASSUME NEW m \in Nat, m \in S PROVE m + 1 \in S
  <2>1. SUFFICES ASSUME m + 1 <= n PROVE Good(m + 1)
    OBVIOUS
  <2>2. m + 1 \in 1..n /\ m <= n /\ (m + 1) - 1 = m
    BY <1>1, <2>1
  <2>3. PICK a, b, x : a = d[m] /\ b = d[m + 1] /\ x = w[m + 1]
    OBVIOUS
  <2>4. a \in Nat /\ x \in Nat /\ b = gcd[<<a, x>>]
    BY <1>1, <1>3, <1>6, <1>8, <2>2, <2>3 DEF GcdStep
  <2>5. b \in Nat /\ Divides(b, a) /\ Divides(b, x)
    BY <2>4, GcdDivides
  <2>6. ASSUME NEW i \in 1..(m + 1) PROVE Divides(b, w[i])
    <3>1. CASE i = m + 1
      BY <2>3, <2>5, <3>1
    <3>2. CASE i # m + 1
      <4>1. i \in 1..m /\ i \in 1..n
        BY <1>1, <2>2, <3>2
      <4>2. Divides(a, w[i]) /\ w[i] \in Nat
        BY <1>1, <1>8, <2>2, <2>3, <4>1
      <4> QED
        BY <2>4, <2>5, <4>2, DividesThrough
    <3> QED
      BY <3>1, <3>2
  <2> QED
    BY <2>3, <2>5, <2>6
<1>9. Good(n)
  <2>1. Nat \subseteq S
    <3> HIDE DEF S
    <3> QED
      BY <1>7, <1>8, Adding!Induct
  <2> QED
    BY <1>1, <2>1
<1>10. 1 \in 1..n /\ w[1] \in Nat \ {0}
  BY <1>1
<1>11. d[n] \in 1..w[1]
  BY <1>9, <1>10, DivisorBound
<1> QED
  BY <1>5, <1>6, <1>9, <1>11

\* Division by a divisor is exact.
LEMMA ExactQuotient ==
  ASSUME NEW a \in Nat \ {0}, NEW d \in Nat \ {0}, Divides(d, a)
  PROVE  a \div d \in Nat \ {0} /\ d * (a \div d) = a
<1>1. PICK q \in Nat : a = q * d
  BY DEF Divides
<1>2. q # 0
  BY <1>1
<1>3. a \div d = q
  BY <1>1
<1> QED
  BY <1>1, <1>2, <1>3

Targets(ts, n) == n \in Nat /\ DOMAIN ts = 1..n /\ \A i \in 1..n : ts[i][2] \in Nat
LiveOf(ts, n) == {ts[i] : i \in {j \in 1..n : ts[j][2] > 0}}

\* The targets that are not drained.
LEMMA LiveKeeps ==
  ASSUME NEW ts, NEW n, Targets(ts, n)
  PROVE  Draining!Kept(Keep(ts, LAMBDA t : t[2] > 0), ts, n, LiveOf(ts, n))
<1>1. n \in Nat /\ DOMAIN ts = 1..n
  BY DEF Targets
<1>2. Keep(ts, LAMBDA t : t[2] > 0) = Draining!Walk(0, <<>>, ts)
  BY DEF Keep, LiveStep, Draining!Walk
<1>3. \A i \in 1..n : ts[i] \in LiveOf(ts, n) <=> ts[i][2] > 0
  BY DEF LiveOf
<1>4. \A i \in 1..n : \A kept : LiveStep(0, kept, ts[i])
                                  = IF ts[i] \in LiveOf(ts, n) THEN Append(kept, ts[i]) ELSE kept
  BY <1>3 DEF LiveStep
<1>5. Draining!Kept(Draining!Walk(0, <<>>, ts), ts, n, LiveOf(ts, n))
  BY <1>1, <1>4, Draining!WalkKeeps
<1> QED
  BY <1>2, <1>5

\* Shares are unsigned.
LEMMA SharesAreNumbers ==
  ASSUME NEW ts, NEW n, Targets(ts, n), NEW X
  PROVE  /\ Numbers(Shares(ts, X), n)
         /\ \A i \in 1..n : /\ Shares(ts, X)[i] >= 0
                            /\ Shares(ts, X)[i] = IF ts[i][1] \in X THEN ts[i][2] ELSE 0
BY DEF Targets, Numbers, Shares

\* What is drained weighs nothing.
LEMMA LiveWeighs ==
  ASSUME NEW ts, NEW n, Targets(ts, n), NEW live, Draining!Kept(live, ts, n, LiveOf(ts, n)), NEW X
  PROVE  SumOf(Shares(live, X)) = SumOf(Shares(ts, X))
<1>1. n \in Nat /\ DOMAIN ts = 1..n /\ \A i \in 1..n : ts[i][2] \in Nat
  BY DEF Targets
<1>2. PICK T : T = LiveOf(ts, n)
  OBVIOUS
<1>3. PICK run : /\ run[0] = <<>>
                 /\ \A i \in 1..n : run[i] = IF ts[i] \in T THEN Append(run[i - 1], ts[i]) ELSE run[i - 1]
                 /\ live = run[n]
  BY <1>2 DEF Draining!Kept
<1>4. PICK y : y = Shares(ts, X)
  OBVIOUS
<1>5. Numbers(y, n) /\ \A i \in 1..n : y[i] = IF ts[i][1] \in X THEN ts[i][2] ELSE 0
  BY <1>4, SharesAreNumbers
<1>6. PICK p : Sums(p, y, n)
  BY <1>5, SumRuns
<1>7. \A i \in 1..n : (ts[i] \in T <=> ts[i][2] > 0) /\ T \subseteq LiveOf(ts, n)
  BY <1>2 DEF LiveOf
<1>8. \A t \in T : t[2] \in Nat
  BY <1>1, <1>2 DEF LiveOf
<1> DEFINE Good(m) == run[m] \in Seq(T) /\ SumOf(Shares(run[m], X)) = p[m]
           S == {m \in Nat : m <= n => Good(m)}
<1>9. 0 \in S
  <2>1. PICK e : e = Shares(<<>>, X)
    OBVIOUS
  <2>2. Numbers(e, 0) /\ \A i \in 1..0 : e[i] = 0
    BY <2>1 DEF Numbers, Shares
  <2>3. SumOf(e) = 0
    BY <2>2, SumZero
  <2>4. <<>> \in Seq(T)
    OBVIOUS
  <2>5. Good(0)
    BY <1>3, <1>6, <2>1, <2>3, <2>4 DEF Sums
  <2> QED
    BY <2>5
<1>10. ASSUME NEW m \in Nat, m \in S PROVE m + 1 \in S
  <2>1. SUFFICES ASSUME m + 1 <= n PROVE Good(m + 1)
    OBVIOUS
  <2>2. m + 1 \in 1..n /\ m <= n /\ (m + 1) - 1 = m /\ m \in 0..n
    BY <1>1, <2>1
  <2>3. PICK a, b, t : a = run[m] /\ b = run[m + 1] /\ t = ts[m + 1]
    OBVIOUS
  <2>4. a \in Seq(T) /\ SumOf(Shares(a, X)) = p[m]
    BY <1>10, <2>2, <2>3
  <2>5. b = (IF t \in T THEN Append(a, t) ELSE a) /\ (t \in T <=> t[2] > 0) /\ t[2] \in Nat
    BY <1>1, <1>3, <1>7, <2>2, <2>3
  <2>6. p[m + 1] = p[m] + (IF t[1] \in X THEN t[2] ELSE 0) /\ p[m] \in Int
    BY <1>5, <1>6, <2>2, <2>3 DEF Sums
  <2>7. CASE t \in T
    <3>1. PICK l : l = Len(a)
      OBVIOUS
    <3>2. /\ l \in Nat /\ DOMAIN a = 1..l /\ b \in Seq(T) /\ DOMAIN b = 1..(l + 1) /\ b[l + 1] = t
          /\ \A i \in 1..l : b[i] = a[i] /\ a[i] \in T
      BY <2>4, <2>5, <2>7, <3>1
    <3>3. PICK u, v : u = Shares(a, X) /\ v = Shares(b, X)
      OBVIOUS
    <3>4. Targets(a, l) /\ Targets(b, l + 1)
      <4>1. \A i \in 1..(l + 1) : b[i] \in T
        BY <3>2
      <4> QED
        BY <1>8, <3>2, <4>1 DEF Targets
    <3>5. /\ Numbers(u, l) /\ Numbers(v, l + 1)
          /\ \A i \in 1..l : u[i] = IF a[i][1] \in X THEN a[i][2] ELSE 0
          /\ \A i \in 1..(l + 1) : v[i] = IF b[i][1] \in X THEN b[i][2] ELSE 0
      BY <3>3, <3>4, SharesAreNumbers
    <3>6. \A i \in 1..l : v[i] = u[i]
      BY <3>2, <3>5
    <3>7. SumOf(v) = SumOf(u) + v[l + 1]
      BY <3>2, <3>5, <3>6, SumLast
    <3>8. v[l + 1] = IF t[1] \in X THEN t[2] ELSE 0
      BY <3>2, <3>5
    <3>9. SumOf(v) = p[m + 1]
      BY <2>4, <2>6, <3>3, <3>7, <3>8
    <3> QED
      BY <2>3, <3>2, <3>3, <3>9
  <2>8. CASE t \notin T
    <3>1. t[2] = 0 /\ b = a
      BY <2>5, <2>8
    <3>2. p[m + 1] = p[m]
      BY <2>6, <3>1
    <3> QED
      BY <2>3, <2>4, <3>1, <3>2
  <2> QED
    BY <2>7, <2>8
<1>11. Good(n)
  <2>1. Nat \subseteq S
    <3> HIDE DEF S
    <3> QED
      BY <1>9, <1>10, Adding!Induct
  <2> QED
    BY <1>1, <2>1
<1> QED
  BY <1>3, <1>4, <1>6, <1>11 DEF Sums

\* The live targets, their weights and the reduced weights.
LEMMA LiveTargets ==
  ASSUME NEW ts, NEW n, Targets(ts, n), validate_split([i \in DOMAIN ts |-> ts[i][2]])
  PROVE  LET live == Keep(ts, LAMBDA t : t[2] > 0)
             l    == Len(live)
         IN  /\ live \in Seq(LiveOf(ts, n)) /\ l \in Nat \ {0}
             /\ Weights([i \in DOMAIN live |-> live[i][2]], l) /\ Targets(live, l)
             /\ \A X : SumOf(Shares(live, X)) = SumOf(Shares(ts, X))
<1>1. n \in Nat /\ DOMAIN ts = 1..n /\ \A i \in 1..n : ts[i][2] \in Nat
  BY DEF Targets
<1>2. PICK T, w : T = LiveOf(ts, n) /\ w = [i \in DOMAIN ts |-> ts[i][2]]
  OBVIOUS
<1>3. PICK live : live = Keep(ts, LAMBDA t : t[2] > 0)
  OBVIOUS
<1>4. Draining!Kept(live, ts, n, T)
  BY <1>2, <1>3, LiveKeeps
<1>5. /\ live \in Seq(Range(ts) \cap T)
      /\ \A i \in 1..n : ts[i] \in T => \E j \in 1..Len(live) : live[j] = ts[i]
  <2>1. PICK S : S = Range(ts)
    OBVIOUS
  <2>2. \A i \in 1..n : ts[i] \in S
    BY <1>1, <2>1 DEF Range
  <2>3. /\ live \in Seq(S \cap T)
        /\ \A i \in 1..n : ts[i] \in T => \E j \in 1..Len(live) : live[j] = ts[i]
    <3>1. n \in Nat
      BY <1>1
    <3>2. live \in Seq(S \cap T)
      BY <1>4, <2>2, <3>1, Draining!KeptThose
    <3>3. \A i \in 1..n : ts[i] \in T => \E j \in 1..Len(live) : live[j] = ts[i]
      BY <1>4, <3>1, Draining!KeptEach
    <3> QED
      BY <3>2, <3>3
  <2> QED
    BY <2>1, <2>3
<1>6. \A t \in T : t[2] \in Nat \ {0}
  BY <1>1, <1>2 DEF LiveOf
<1>7. \E i \in 1..n : ts[i] \in T
  <2>1. NonZero(w) # <<>>
    BY <1>2 DEF validate_split
  <2>2. \A i \in 1..n : w[i] = ts[i][2]
    BY <1>1, <1>2
  <2>3. DOMAIN w = 1..n /\ \A i \in 1..n : w[i] \in Nat
    BY <1>1, <1>2, <2>2
  <2>4. PICK P, Q : P = Nat \ {0} /\ Q = {w[i] : i \in 1..n}
    OBVIOUS
  <2>5. Counting!Kept(NonZero(w), w, n, P)
    BY <1>1, <2>3, <2>4, NonZeroKeeps
  <2>6. \A i \in 1..n : w[i] \in Q
    BY <2>4
  <2>7. NonZero(w) \in Seq(Q \cap P)
    BY <1>1, <2>5, <2>6, Counting!KeptThose
  <2>8. Q \cap P # {}
    <3>1. Len(NonZero(w)) \in Nat \ {0}
      BY <2>1, <2>7, EmptySeq
    <3>2. 1 \in 1..Len(NonZero(w))
      BY <3>1
    <3> QED
      BY <2>7, <3>2, ElementOfSeq
  <2>9. PICK i \in 1..n : w[i] \in P
    BY <2>4, <2>8
  <2>10. ts[i][2] > 0
    BY <2>2, <2>4, <2>9
  <2> QED
    BY <1>2, <2>10 DEF LiveOf
<1>8. PICK l : l = Len(live)
  OBVIOUS
<1>9. live \in Seq(T) /\ l \in Nat \ {0} /\ DOMAIN live = 1..l /\ \A i \in 1..l : live[i] \in T
  <2>1. live \in Seq(T)
    BY <1>5
  <2>2. l \in Nat /\ DOMAIN live = 1..l
    BY <1>8, <2>1
  <2>3. l # 0
    BY <1>5, <1>7, <1>8
  <2> QED
    BY <1>8, <2>1, <2>2, <2>3, ElementOfSeq
<1>10. Targets(live, l) /\ Weights([i \in DOMAIN live |-> live[i][2]], l)
  BY <1>6, <1>9 DEF Targets, Weights
<1>11. \A X : SumOf(Shares(live, X)) = SumOf(Shares(ts, X))
  BY <1>2, <1>4, LiveWeighs
<1> QED
  BY <1>2, <1>3, <1>8, <1>9, <1>10, <1>11

(***************************************************************************)
(* Whatever the weights, an accepted split serves its upstreams in exact   *)
(* proportion to them: over one walk of the table each upstream gets the   *)
(* part of the entries that its weight is of the total, an upstream that   *)
(* is listed twice the sum of its parts, a drained one none, and every     *)
(* live group has an entry (validate_split, WeightedBackends::new, gcd,    *)
(* weighted_schedule).                                                     *)
(***************************************************************************)
THEOREM SplitIsExact ==
  ASSUME NEW ts, NEW n, Targets(ts, n), validate_split([i \in DOMAIN ts |-> ts[i][2]]),
         NEW registry, \A i \in 1..n : ts[i][1] \in DOMAIN registry
  PROVE  SplitExact(ts, WeightedBackends(ts), registry)
<1>1. PICK live : live = Keep(ts, LAMBDA t : t[2] > 0)
  OBVIOUS
<1>2. PICK l, w : l = Len(live) /\ w = [i \in DOMAIN live |-> live[i][2]]
  OBVIOUS
<1>3. /\ live \in Seq(LiveOf(ts, n)) /\ l \in Nat \ {0} /\ Weights(w, l) /\ Targets(live, l)
      /\ \A X : SumOf(Shares(live, X)) = SumOf(Shares(ts, X))
  BY <1>1, <1>2, LiveTargets
<1>4. PICK d, v : d = Divisor(w) /\ v = [i \in DOMAIN w |-> w[i] \div d]
  OBVIOUS
<1>5. /\ DOMAIN live = 1..l /\ DOMAIN w = 1..l /\ DOMAIN v = 1..l
      /\ \A i \in 1..l : w[i] = live[i][2] /\ w[i] \in Nat \ {0} /\ v[i] = w[i] \div d
  BY <1>2, <1>3, <1>4 DEF Weights
<1>6. d \in Nat \ {0} /\ \A i \in 1..l : Divides(d, w[i])
  BY <1>3, <1>4, DivisorDivides
<1>7. \A i \in 1..l : v[i] \in Nat \ {0} /\ d * v[i] = w[i]
  BY <1>5, <1>6, ExactQuotient
<1>8. Weights(v, l)
  BY <1>3, <1>5, <1>7 DEF Weights
<1>9. PICK split, table, groups :
        split = WeightedBackends(ts) /\ table = weighted_schedule(v)
          /\ groups = [i \in DOMAIN live |-> live[i][1]]
  OBVIOUS
<1>10. split.groups = groups /\ split.table = table
  <2>1. live # <<>>
    BY <1>2, <1>3
  <2>2. split = [groups |-> groups, table |-> table]
    BY <1>1, <1>2, <1>4, <1>9, <2>1 DEF WeightedBackends
  <2> QED
    BY <2>2
<1>11. PICK total : total = SumOf(v)
  OBVIOUS
<1>12. total \in Nat /\ total > 0 /\ Numbers(v, l)
  BY <1>8, <1>11, WeightsAreNumbers
<1>13. /\ table \in Seq(1..l) /\ Len(table) = total
       /\ \A A \in SUBSET (1..l) : Count(table, total, A) = SumOf(Mask(v, A))
  BY <1>8, <1>9, <1>11, ApportionmentIsExact
<1>14. DOMAIN table = 1..total /\ \A j \in 1..total : table[j] \in 1..l
  <2>1. PICK B : B = 1..l
    OBVIOUS
  <2>2. table \in Seq(B) /\ Len(table) = total
    BY <1>13, <2>1
  <2>3. DOMAIN table = 1..total /\ \A j \in 1..total : table[j] \in B
    BY <2>2, LenProperties, ElementOfSeq
  <2> QED
    BY <2>1, <2>3
<1>15. DOMAIN groups = 1..l /\ groups \in Seq(Range(groups)) /\ \A i \in 1..l : groups[i] = live[i][1]
  <2>1. DOMAIN groups = 1..l /\ \A i \in 1..l : groups[i] = live[i][1]
    BY <1>5, <1>9
  <2>2. PICK R : R = Range(groups)
    OBVIOUS
  <2>3. groups \in [1..l -> R]
    BY <1>5, <1>9, <2>1, <2>2 DEF Range
  <2>4. groups \in Seq(R)
    BY <1>3, <2>3
  <2> QED
    BY <2>1, <2>2, <2>4
\* Every live group has an entry.
<1>16. ASSUME NEW i \in 1..l PROVE \E j \in 1..total : table[j] = i
  <2>1. {i} \in SUBSET (1..l)
    OBVIOUS
  <2>2. PICK x : x = Mask(v, {i})
    OBVIOUS
  <2>3. Numbers(x, l) /\ \A j \in 1..l : x[j] = IF j \in {i} THEN v[j] ELSE 0
    BY <1>12, <2>2, MaskNumbers
  <2>4. x[i] = v[i] /\ \A j \in 1..l : j # i => x[j] = 0
    BY <2>3
  <2>5. SumOf(x) = v[i]
    BY <2>3, <2>4, SumSingle
  <2>6. Cardinality({j \in 1..total : table[j] \in {i}}) = v[i]
    BY <1>13, <2>1, <2>2, <2>5 DEF Count
  <2>7. {j \in 1..total : table[j] \in {i}} # {}
    BY <1>7, <2>6, FS_EmptySet
  <2> QED
    BY <2>7
<1>17. SplitComplete(split)
  <2>1. table # <<>>
    BY <1>12, <1>13
  <2>2. Range(table) = 1..l
    BY <1>14, <1>16 DEF Range
  <2> QED
    BY <1>10, <1>13, <1>15, <2>1, <2>2 DEF SplitComplete
<1>18. Range(groups) \subseteq DOMAIN registry
  <2>1. \A t \in LiveOf(ts, n) : t[1] \in DOMAIN registry
    BY DEF LiveOf
  <2>2. \A i \in 1..l : live[i] \in LiveOf(ts, n)
    BY <1>2, <1>3, ElementOfSeq
  <2> QED
    BY <1>15, <2>1, <2>2 DEF Range
\* The entries of the upstreams X, in units of the divisor, are their weight.
<1>19. ASSUME NEW X
       PROVE  LET A == {i \in 1..l : groups[i] \in X} IN
              /\ Count(table, total, A) \in Nat
              /\ d * Count(table, total, A) = SumOf(Shares(ts, X))
  <2>1. PICK A : A = {i \in 1..l : groups[i] \in X}
    OBVIOUS
  <2>2. PICK x, y : x = Mask(v, A) /\ y = Shares(live, X)
    OBVIOUS
  <2>3. Numbers(x, l) /\ \A i \in 1..l : x[i] = IF i \in A THEN v[i] ELSE 0
    BY <1>12, <2>2, MaskNumbers
  <2>4. Numbers(y, l) /\ \A i \in 1..l : y[i] = IF live[i][1] \in X THEN live[i][2] ELSE 0
    BY <1>3, <2>2, SharesAreNumbers
  <2>5. ASSUME NEW i \in 1..l PROVE y[i] = d * x[i]
    <3>1. CASE i \in A
      BY <1>5, <1>7, <1>15, <2>1, <2>3, <2>4, <3>1
    <3>2. CASE i \notin A
      <4>1. y[i] = 0 /\ x[i] = 0
        BY <1>15, <2>1, <2>3, <2>4, <3>2
      <4> QED
        BY <1>6, <4>1
    <3> QED
      BY <3>1, <3>2
  <2>6. Scales(y, d, x, l)
    BY <2>3, <2>4, <2>5 DEF Scales
  <2>7. SumOf(y) = d * SumOf(x)
    BY <1>6, <2>6, SumScales
  <2>8. A \in SUBSET (1..l)
    BY <2>1
  <2>9. Count(table, total, A) = SumOf(x)
    BY <1>13, <2>2, <2>8
  <2>10. Count(table, total, A) \in Nat
    BY <1>12, CountIsNat
  <2>11. SumOf(y) = SumOf(Shares(ts, X))
    BY <1>3, <2>2
  <2> QED
    BY <2>1, <2>7, <2>9, <2>10, <2>11
<1>20. PICK names : names = {ts[i][1] : i \in DOMAIN ts}
  OBVIOUS
<1>21. Count(table, total, 1..l) = total
  <2>1. {j \in 1..total : table[j] \in 1..l} = 1..total
    BY <1>14
  <2>2. Cardinality(1..total) = total
    BY <1>12, FS_Interval
  <2> QED
    BY <2>1, <2>2 DEF Count
<1>22. d * total = SumOf(Shares(ts, names))
  <2>1. \A i \in 1..l : groups[i] \in names
    <3>1. \A t \in LiveOf(ts, n) : t[1] \in names
      BY <1>20 DEF LiveOf, Targets
    <3>2. \A i \in 1..l : live[i] \in LiveOf(ts, n)
      BY <1>2, <1>3, ElementOfSeq
    <3> QED
      BY <1>15, <3>1, <3>2
  <2>2. {i \in 1..l : groups[i] \in names} = 1..l
    BY <2>1
  <2> QED
    BY <1>19, <1>21, <2>2
<1>23. ASSUME NEW name \in names
       PROVE  Cardinality({j \in DOMAIN table : groups[table[j]] = name}) * SumOf(Shares(ts, names))
                = Len(table) * SumOf(Shares(ts, {name}))
  <2>1. PICK A, c : A = {i \in 1..l : groups[i] \in {name}} /\ c = Count(table, total, A)
    OBVIOUS
  <2>2. c \in Nat /\ d * c = SumOf(Shares(ts, {name}))
    BY <1>19, <2>1
  <2>3. {j \in DOMAIN table : groups[table[j]] = name} = {j \in 1..total : table[j] \in A}
    BY <1>14, <2>1
  <2>4. Cardinality({j \in DOMAIN table : groups[table[j]] = name}) = c
    BY <2>1, <2>3 DEF Count
  <2>5. c * (d * total) = total * (d * c)
    BY <1>6, <1>12, <2>2
  <2> QED
    BY <1>13, <1>22, <2>2, <2>4, <2>5
<1> QED
  BY <1>9, <1>10, <1>17, <1>18, <1>20, <1>23 DEF SplitExact

----------------------------------------------------------------------------
(* The filters.                                                            *)

\* The positions of a list.
LEMMA ListDomain ==
  ASSUME NEW s, IsList(s)
  PROVE  Len(s) \in Nat /\ DOMAIN s = 1..Len(s) /\ (s # <<>> => Len(s) # 0)
BY DEF IsList

\* A blob that was read is in the layout and hashes to its descriptor.
LEMMA BlobRead ==
  ASSUME NEW layout, NEW d, read_blob(layout, d).ok
  PROVE  /\ d.hex \in DOMAIN layout.blobs
         /\ layout.blobs[d.hex].hash = d.hex
         /\ read_blob(layout, d).file = layout.blobs[d.hex]
BY DEF read_blob, Absent

\* The file of a layer that is read hashes to what the layer says.
LEMMA LayerRead ==
  ASSUME NEW layout, NEW layers, IsList(layers), NEW media, NEW read,
         read = ReadLayer(layout, layers, media), read.ok
  PROVE  \E i \in DOMAIN layers : read.file.hash = layers[i].hex
<1>1. PICK at : at = {i \in DOMAIN layers : layers[i].media = media}
  OBVIOUS
<1>2. at # {}
  BY <1>1 DEF ReadLayer, Absent
<1>3. at \in SUBSET Nat
  <2>1. \A i \in DOMAIN layers : i \in Nat
    BY ListDomain
  <2> QED
    BY <1>1, <2>1
<1>4. \E i \in at : \A j \in at : i <= j
  BY <1>2, <1>3, Least
<1>5. PICK i : i = CHOOSE k \in at : \A j \in at : k <= j
  OBVIOUS
<1>6. i \in at
  BY <1>4, <1>5
<1>7. read = read_blob(layout, layers[i])
  BY <1>1, <1>2, <1>5 DEF ReadLayer
<1>8. read.file.hash = layers[i].hex
  BY <1>7, BlobRead
<1> QED
  BY <1>1, <1>6, <1>8

\* What is read of a layout hangs together from the pin down.
LEMMA LayoutRead ==
  ASSUME NEW layout, ParsedLayout(layout), NEW pinned, NEW res,
         res = read_layout(layout, pinned), res.ok
  PROVE  \E h \in DOMAIN layout.blobs :
           /\ layout.blobs[h].hash = pinned
           /\ \E i \in DOMAIN layout.blobs[h].data :
                layout.blobs[h].data[i].hex = res.artifact.component.hash
<1>1. PICK first : first = layout.manifests[1]
  OBVIOUS
<1>2. PICK b : b = read_blob(layout, first)
  OBVIOUS
<1>3. /\ layout.manifests # <<>> /\ first.hex = pinned /\ b.ok
  BY <1>1, <1>2 DEF read_layout, Absent
<1>4. first.hex \in DOMAIN layout.blobs /\ layout.blobs[first.hex].hash = first.hex
        /\ b.file = layout.blobs[first.hex]
  BY <1>2, <1>3, BlobRead
<1>5. PICK layers : layers = b.file.data
  OBVIOUS
<1>6. PICK read : read = [m \in LayerTypes |-> ReadLayer(layout, layers, m)]
  OBVIOUS
<1>7. /\ \A m \in LayerTypes : read[m].ok
      /\ res = [ok |-> TRUE, artifact |-> [m \in LayerTypes |-> read[m].file]]
  BY <1>1, <1>2, <1>3, <1>5, <1>6 DEF read_layout, Absent
<1>8. "component" \in LayerTypes
  BY DEF LayerTypes
<1>9. res.artifact.component = read["component"].file
  BY <1>7, <1>8
<1>10. IsList(layers)
  BY <1>1, <1>3, <1>4, <1>5 DEF ParsedLayout
<1>11. read["component"] = ReadLayer(layout, layers, "component") /\ read["component"].ok
  BY <1>6, <1>7, <1>8
<1>12. PICK i \in DOMAIN layers : read["component"].file.hash = layers[i].hex
  BY <1>10, <1>11, LayerRead
<1> QED
  BY <1>3, <1>4, <1>5, <1>9, <1>12

\* The options of a valid entry let the filter run.
LEMMA Positive ==
  ASSUME NEW v \in Optional, v # 0, NEW default \in Nat \ {0}
  PROVE  Or(v, default) \in Nat \ {0} /\ Clamp(Or(v, default), 1, Ceiling) \in 1..Ceiling
BY ManifestAssumption DEF ManifestAssumption, Optional, Or, Clamp, Unset

\* A validated outbound block lowers to a policy one can call under.
LEMMA OutboundRuns ==
  ASSUME NEW f, ParsedFilter(f), validate(f), f.outbound.declared, NEW p, p = with_outbound(f.outbound)
  PROVE  /\ p.allow # {} /\ \A d \in p.allow : d.port > 0
         /\ {p.connect_timeout, p.total_timeout, p.max_response_bytes, p.max_concurrent}
              \subseteq 1..Ceiling
<1>1. PICK ob : ob = f.outbound
  OBVIOUS
<1>2. /\ ob.allow # <<>> /\ \A i \in DOMAIN ob.allow : ob.allow[i].port # 0
      /\ 0 \notin {ob.connect_timeout_ms, ob.total_timeout_ms, ob.max_response_bytes, ob.max_concurrent}
  BY <1>1 DEF validate, validate_outbound
<1>3. /\ IsList(ob.allow) /\ \A i \in DOMAIN ob.allow : ob.allow[i].port \in Optional
      /\ {ob.connect_timeout_ms, ob.total_timeout_ms, ob.max_response_bytes, ob.max_concurrent}
           \subseteq Optional
  BY <1>1 DEF ParsedFilter
<1>4. /\ p.allow = {[scheme |-> ob.allow[i].scheme, host |-> ob.allow[i].host,
                     port |-> Or(ob.allow[i].port, default_port(ob.allow[i].scheme))] :
                      i \in DOMAIN ob.allow}
      /\ p.connect_timeout = Clamp(Or(ob.connect_timeout_ms, 2), 1, Ceiling)
      /\ p.total_timeout = Clamp(Or(ob.total_timeout_ms, 3), 1, Ceiling)
      /\ p.max_response_bytes = Clamp(Or(ob.max_response_bytes, 2), 1, Ceiling)
      /\ p.max_concurrent = Clamp(Or(ob.max_concurrent, 2), 1, Ceiling)
  BY <1>1 DEF with_outbound
<1>5. p.allow # {}
  <2>1. 1 \in DOMAIN ob.allow
    BY <1>2, <1>3, ListDomain
  <2> QED
    BY <1>4, <2>1
<1>6. ASSUME NEW d \in p.allow PROVE d.port > 0
  <2>1. PICK i \in DOMAIN ob.allow :
          d.port = Or(ob.allow[i].port, default_port(ob.allow[i].scheme))
    BY <1>4
  <2>2. PICK v, default : v = ob.allow[i].port /\ default = default_port(ob.allow[i].scheme)
    OBVIOUS
  <2>3. v \in Optional /\ v # 0
    BY <1>2, <1>3, <2>2
  <2>4. default \in Nat \ {0}
    BY <2>2 DEF default_port
  <2>5. Or(v, default) \in Nat \ {0}
    BY <2>3, <2>4, Positive
  <2> QED
    BY <2>1, <2>2, <2>5
<1>7. {p.connect_timeout, p.total_timeout, p.max_response_bytes, p.max_concurrent} \subseteq 1..Ceiling
  <2>1. 2 \in Nat \ {0} /\ 3 \in Nat \ {0}
    OBVIOUS
  <2>2. \A v \in {ob.connect_timeout_ms, ob.total_timeout_ms, ob.max_response_bytes, ob.max_concurrent} :
          v \in Optional /\ v # 0
    BY <1>2, <1>3
  <2>3. p.connect_timeout \in 1..Ceiling
    BY <1>4, <2>1, <2>2, Positive
  <2>4. p.total_timeout \in 1..Ceiling
    BY <1>4, <2>1, <2>2, Positive
  <2>5. p.max_response_bytes \in 1..Ceiling
    BY <1>4, <2>1, <2>2, Positive
  <2>6. p.max_concurrent \in 1..Ceiling
    BY <1>4, <2>1, <2>2, Positive
  <2> QED
    BY <2>3, <2>4, <2>5, <2>6
<1> QED
  BY <1>5, <1>6, <1>7

\* A validated filter lowers to options it can run with.
LEMMA OptionsRun ==
  ASSUME NEW f, ParsedFilter(f), validate(f)
  PROVE  Runnable(load_options(f))
<1>1. PICK o, out : /\ o = load_options(f)
                    /\ out = IF f.outbound.declared THEN <<with_outbound(f.outbound)>> ELSE <<>>
  OBVIOUS
<1>2. PICK init \in Nat \ {0} :
        /\ o.init_deadline_ms = Or(f.init_deadline_ms, init)
        /\ o.request_deadline_ms = Or(f.request_deadline_ms, 2)
        /\ o.max_memory_bytes = Or(f.max_memory_bytes, 4)
        /\ o.ratelimit_bucket = f.ratelimit
        /\ o.outbound = out
  <2>1. PICK init \in Nat \ {0} : init = IF f.isolation = "trusted" THEN 4 ELSE 2
    OBVIOUS
  <2>2. PICK default : default = LoadOptions(f.isolation)
    OBVIOUS
  <2>3. default = [isolation |-> f.isolation, init_deadline_ms |-> init, request_deadline_ms |-> 2,
                   max_memory_bytes |-> 4, ratelimit_bucket |-> NoBucket, outbound |-> <<>>]
    BY <2>1, <2>2 DEF LoadOptions
  <2>4. o = [default EXCEPT !.init_deadline_ms = Or(f.init_deadline_ms, @),
                            !.request_deadline_ms = Or(f.request_deadline_ms, @),
                            !.max_memory_bytes = Or(f.max_memory_bytes, @),
                            !.ratelimit_bucket = f.ratelimit,
                            !.outbound = IF f.outbound.declared THEN <<with_outbound(f.outbound)>> ELSE @]
    BY <1>1, <2>2 DEF load_options
  <2>5. o = [isolation |-> f.isolation, init_deadline_ms |-> Or(f.init_deadline_ms, init),
             request_deadline_ms |-> Or(f.request_deadline_ms, 2),
             max_memory_bytes |-> Or(f.max_memory_bytes, 4),
             ratelimit_bucket |-> f.ratelimit, outbound |-> out]
    BY <1>1, <2>3, <2>4
  <2> QED
    BY <2>5
<1>3. /\ f.init_deadline_ms \in Optional /\ f.init_deadline_ms # 0
      /\ f.request_deadline_ms \in Optional /\ f.request_deadline_ms # 0
      /\ f.max_memory_bytes \in Optional /\ f.max_memory_bytes # 0
  BY DEF ParsedFilter, validate
<1>4. Or(f.init_deadline_ms, init) \in Nat \ {0}
  BY <1>3, Positive
<1>5. Or(f.request_deadline_ms, 2) \in Nat \ {0} /\ Or(f.max_memory_bytes, 4) \in Nat \ {0}
  <2>1. 2 \in Nat \ {0} /\ 4 \in Nat \ {0}
    OBVIOUS
  <2> QED
    BY <1>3, <2>1, Positive
<1>6. o.ratelimit_bucket # NoBucket => o.ratelimit_bucket.capacity > 0
  BY <1>2 DEF ParsedFilter, validate
<1>7. ASSUME NEW i \in DOMAIN o.outbound
      PROVE  /\ o.outbound[i].allow # {} /\ \A d \in o.outbound[i].allow : d.port > 0
             /\ {o.outbound[i].connect_timeout, o.outbound[i].total_timeout,
                 o.outbound[i].max_response_bytes, o.outbound[i].max_concurrent} \subseteq 1..Ceiling
  <2>1. f.outbound.declared /\ out = <<with_outbound(f.outbound)>>
    BY <1>1, <1>2
  <2>2. PICK p : p = with_outbound(f.outbound)
    OBVIOUS
  <2>3. o.outbound[i] = p
    BY <1>2, <2>1, <2>2
  <2> QED
    BY <2>1, <2>2, <2>3, OutboundRuns
<1> QED
  BY <1>1, <1>2, <1>4, <1>5, <1>6, <1>7 DEF Runnable

\* What Compiled is made of.
EntryAt(m, id) == CHOOSE i \in DOMAIN m.filters : m.filters[i].id = id
UpstreamAt(m, n) == CHOOSE i \in DOMAIN m.upstreams : m.upstreams[i].name = n

LoadedOf(src) == [id \in FilterIds(src.manifest) |->
                    LoadedFilter(src, src.manifest.filters[EntryAt(src.manifest, id)])]
RoutesOf(src) == [k \in DOMAIN src.manifest.routes |->
                    CompiledRoute(src.manifest.routes[k], LoadedOf(src))]
RegistryOf(src) == [n \in UpstreamNames(src.manifest) |->
                      Group(src.manifest.upstreams[UpstreamAt(src.manifest, n)])]

\* The parts of a configuration.
LEMMA CompiledParts ==
  ASSUME NEW src
  PROVE  /\ Compiled(src).filters = LoadedOf(src) /\ Compiled(src).routes = RoutesOf(src)
         /\ Compiled(src).registry = RegistryOf(src)
         /\ Compiled(src).chain = src.manifest.chain /\ Compiled(src).certs = src.manifest.tls
<1>1. Compiled(src) = [filters |-> LoadedOf(src), chain |-> src.manifest.chain, routes |-> RoutesOf(src),
                       certs |-> src.manifest.tls, registry |-> RegistryOf(src)]
  BY DEF Compiled, LoadedOf, RoutesOf, RegistryOf, EntryAt, UpstreamAt
<1> QED
  BY <1>1

\* An accepted manifest names each filter once, so the entry a name leads to is
\* the one that was checked.
LEMMA EntryIsOwn ==
  ASSUME NEW src, Parsed(src), FiltersLoad(src), NEW fs, fs = src.manifest.filters, NEW i \in DOMAIN fs
  PROVE  EntryAt(src.manifest, fs[i].id) = i
<1>1. Len(fs) \in Nat /\ DOMAIN fs = 1..Len(fs)
  BY ListDomain DEF Parsed
<1>2. ASSUME NEW j \in DOMAIN fs, fs[j].id = fs[i].id PROVE j = i
  <2>1. \A k \in DOMAIN fs : \A m \in 1..(k - 1) : fs[m].id # fs[k].id
    BY DEF FiltersLoad
  <2>2. i \in Nat /\ j \in Nat /\ i >= 1 /\ j >= 1
    BY <1>1
  <2>3. CASE j < i
    <3>1. j \in 1..(i - 1)
      BY <2>2, <2>3
    <3> QED
      BY <1>2, <2>1, <3>1
  <2>4. CASE i < j
    <3>1. i \in 1..(j - 1)
      BY <2>2, <2>4
    <3> QED
      BY <1>2, <2>1, <3>1
  <2> QED
    BY <2>2, <2>3, <2>4
<1> QED
  BY <1>2 DEF EntryAt

----------------------------------------------------------------------------
(* Primes.                                                                 *)

\* Trial division up to the root finds every factor.
LEMMA NoSmallFactor ==
  ASSUME NEW p \in Nat, is_prime(p), NEW x \in Nat, NEW y \in Nat, p = x * y, 1 < x, x <= y
  PROVE  FALSE
<1>1. /\ p >= 2 /\ (p % 2 = 0 => p = 2)
      /\ \A d \in {k \in 3..p : k * k <= p /\ k % 2 = 1} : p % d # 0
  BY DEF is_prime
<1>2. x * x <= x * y
  OBVIOUS
<1>3. x * y >= 2 * y
  OBVIOUS
<1>4. CASE x % 2 = 0
  <2>1. PICK z \in Nat : x = 2 * z
    BY <1>4
  <2>2. z * y \in Nat /\ (2 * z) * y = (z * y) * 2
    OBVIOUS
  <2>3. ((z * y) * 2 + 0) % 2 = 0
    BY <2>2
  <2>4. p % 2 = 0
    BY <2>1, <2>2, <2>3
  <2> QED
    BY <1>1, <1>3, <2>4
<1>5. CASE x % 2 = 1
  <2>1. x >= 3
    BY <1>5
  <2>2. x <= p
    <3>1. x * x >= x
      BY <2>1
    <3> QED
      BY <1>2, <3>1
  <2>3. (y * x + 0) % x = 0
    <3>1. x \in Nat \ {0} /\ y \in Int /\ 0 \in 0..(x - 1)
      BY <2>1
    <3> QED
      BY <3>1, ModOf
  <2>4. x * y = y * x + 0
    OBVIOUS
  <2>5. p % x = 0
    BY <2>3, <2>4
  <2>6. x \in {k \in 3..p : k * k <= p /\ k % 2 = 1}
    BY <1>2, <1>5, <2>1, <2>2
  <2> QED
    BY <1>1, <2>5, <2>6
<1> QED
  BY <1>4, <1>5

\* What is_prime accepts has no divisors but 1 and itself.
LEMMA PrimeDivisors ==
  ASSUME NEW p \in Nat, is_prime(p), NEW a \in Nat, Divides(a, p)
  PROVE  a = 1 \/ a = p
<1>1. p >= 2
  BY DEF is_prime
<1>2. PICK b \in Nat : p = b * a
  BY DEF Divides
<1>3. a \in 1..p
  BY <1>1, DivisorBound
<1>4. SUFFICES ASSUME 1 < a, a < p PROVE FALSE
  BY <1>3
<1>5. b > 1
  <2>1. SUFFICES ASSUME b <= 1 PROVE FALSE
    OBVIOUS
  <2>2. b = 0 \/ b = 1
    BY <2>1
  <2>3. b * a = 0 \/ b * a = a
    BY <2>2
  <2> QED
    BY <1>1, <1>2, <1>4, <2>3
<1>6. CASE a <= b
  <2>1. p = a * b
    BY <1>2
  <2> QED
    BY <1>4, <1>6, <2>1, NoSmallFactor
<1>7. CASE b <= a
  BY <1>2, <1>5, <1>7, NoSmallFactor
<1> QED
  BY <1>6, <1>7

\* A prime divides no product of two smaller numbers.
LEMMA EuclidLemma ==
  ASSUME NEW p \in Nat, is_prime(p), NEW s \in 1..(p - 1), NEW j \in 1..(p - 1)
  PROVE  ~Divides(p, j * s)
<1>0. p \in Nat \ {0} /\ s \in Nat \ {0} /\ j \in Nat /\ p >= 2
  BY DEF is_prime
<1>1. SUFFICES ASSUME Divides(p, j * s) PROVE FALSE
  OBVIOUS
<1> DEFINE J == {x \in 1..p : Divides(p, x * s)}
<1>2. j \in J /\ J \in SUBSET Nat
  BY <1>0, <1>1
<1>3. PICK a \in J : \A y \in J : a <= y
  <2> HIDE DEF J
  <2> QED
    BY <1>2, Least
<1>4. a \in Nat \ {0} /\ a <= j /\ Divides(p, a * s)
  BY <1>2, <1>3
\* The least such a divides p.
<1>5. PICK q, r : q = p \div a /\ r = p % a
  OBVIOUS
<1>6. q \in Nat /\ r \in Nat /\ r < a /\ p = q * a + r
  BY <1>0, <1>4, <1>5, Division
<1>7. r = 0
  <2>1. SUFFICES ASSUME r > 0 PROVE FALSE
    BY <1>6
  <2>2. PICK u, v : u = a * s /\ v = r * s
    OBVIOUS
  <2>3. u \in Nat /\ v \in Nat
    BY <1>0, <1>4, <1>6, <2>2
  <2>4. (q * a + r) * s = q * (a * s) + r * s
    BY <1>0, <1>4, <1>6
  <2>5. s * p = q * u + v
    <3>1. s * p = p * s
      BY <1>0
    <3> QED
      BY <1>6, <2>2, <2>4, <3>1
  <2>6. Divides(p, q * u + v)
    BY <1>0, <2>5 DEF Divides
  <2>7. Divides(p, v)
    BY <1>0, <1>4, <1>6, <2>2, <2>3, <2>6, DividesRest
  <2>8. r \in 1..p
    BY <1>0, <1>2, <1>3, <1>6, <2>1
  <2>9. r \in J
    BY <2>2, <2>7, <2>8
  <2>10. a <= r
    <3> HIDE DEF J
    <3> QED
      BY <1>3, <2>9
  <2> QED
    BY <1>4, <1>6, <2>10
<1>8. Divides(a, p)
  <2>1. p = q * a
    <3>1. q * a \in Nat
      BY <1>4, <1>6
    <3> QED
      BY <1>6, <1>7, <3>1
  <2> QED
    BY <1>6, <2>1 DEF Divides
<1>9. a = 1
  BY <1>0, <1>4, <1>8, PrimeDivisors
<1>10. Divides(p, s)
  <2>1. 1 * s = s
    BY <1>0
  <2> QED
    BY <1>4, <1>9, <2>1
<1>11. p \in 1..s
  BY <1>0, <1>10, DivisorBound
<1> QED
  BY <1>0, <1>11

----------------------------------------------------------------------------
(* The preference list of an instance meets every slot.                    *)

Hashed(e) == e.h1 \in Nat /\ e.h2 \in Nat

\* The first slot and the stride of an instance.
LEMMA Steps ==
  ASSUME NEW m \in Nat, is_prime(m), NEW e, Hashed(e)
  PROVE  offset(e, m) \in 0..(m - 1) /\ skip(e, m) \in 1..(m - 1)
<1>1. m \in Nat \ {0} /\ m - 1 \in Nat \ {0}
  BY DEF is_prime
<1>2. e.h1 % m \in Nat /\ e.h1 % m < m
  BY <1>1, Division DEF Hashed
<1>3. e.h2 % (m - 1) \in Nat /\ e.h2 % (m - 1) < m - 1
  BY <1>1, Division DEF Hashed
<1> QED
  BY <1>1, <1>2, <1>3 DEF offset, skip

\* Every preference is a slot.
LEMMA PreferredIsSlot ==
  ASSUME NEW m \in Nat, is_prime(m), NEW e, Hashed(e), NEW k \in Nat
  PROVE  Preferred(e, m, k) \in 0..(m - 1)
<1>1. PICK o, s : o = offset(e, m) /\ s = skip(e, m)
  OBVIOUS
<1>2. o \in Nat /\ s \in Nat /\ m \in Nat \ {0}
  <2>1. o \in 0..(m - 1) /\ s \in 1..(m - 1)
    BY <1>1, Steps
  <2> QED
    BY <2>1
<1>3. PICK x : x = o + k * s
  OBVIOUS
<1>4. x \in Nat
  BY <1>2, <1>3
<1>5. x % m \in Nat /\ x % m < m
  BY <1>2, <1>4, Division
<1> QED
  BY <1>1, <1>2, <1>3, <1>5 DEF Preferred

\* Two preferences less than a round apart differ.
LEMMA PreferredDiffer ==
  ASSUME NEW m \in Nat, is_prime(m), NEW e, Hashed(e), NEW k \in Nat, NEW j \in 1..(m - 1)
  PROVE  Preferred(e, m, k) # Preferred(e, m, k + j)
<1>1. PICK o, s : o = offset(e, m) /\ s = skip(e, m)
  OBVIOUS
<1>2. o \in Nat /\ s \in 1..(m - 1) /\ s \in Nat /\ m \in Nat \ {0} /\ j \in Nat
  <2>1. o \in 0..(m - 1) /\ s \in 1..(m - 1)
    BY <1>1, Steps
  <2> QED
    BY <2>1
<1>3. PICK x, y : x = o + k * s /\ y = o + (k + j) * s
  OBVIOUS
<1>4. x \in Nat /\ y \in Nat /\ j * s \in Nat /\ y = x + j * s
  <2>1. (k + j) * s = k * s + j * s
    BY <1>2
  <2>2. k * s \in Nat /\ j * s \in Nat
    BY <1>2
  <2> QED
    BY <1>2, <1>3, <2>1, <2>2
<1>5. PICK a, b : a = x \div m /\ b = y \div m
  OBVIOUS
<1>6. a \in Nat /\ b \in Nat /\ x = a * m + (x % m) /\ y = b * m + (y % m)
  BY <1>2, <1>4, <1>5, Division
<1>7. Preferred(e, m, k) = x % m /\ Preferred(e, m, k + j) = y % m
  BY <1>1, <1>3 DEF Preferred
<1>8. SUFFICES ASSUME x % m = y % m PROVE FALSE
  BY <1>7
<1>9. PICK z : z = x % m
  OBVIOUS
<1>10. j * s = b * m - a * m
  <2>1. z \in Nat
    BY <1>2, <1>4, <1>9, Division
  <2>2. PICK g, h, t : g = a * m /\ h = b * m /\ t = j * s
    OBVIOUS
  <2>3. g \in Nat /\ h \in Nat /\ t \in Nat
    BY <1>2, <1>4, <1>6, <2>2
  <2>4. x = g + z /\ y = h + z /\ y = x + t
    BY <1>4, <1>6, <1>8, <1>9, <2>2
  <2>5. t = h - g
    BY <2>1, <2>3, <2>4
  <2> QED
    BY <2>2, <2>5
<1>11. (b - a) * m = b * m - a * m
  BY <1>2, <1>6
<1>12. b - a \in Nat
  <2>1. SUFFICES ASSUME b - a <= -1 PROVE FALSE
    BY <1>6
  <2>2. (b - a) * m <= (-1) * m
    BY <1>2, <1>6, <2>1
  <2> QED
    BY <1>2, <1>4, <1>10, <1>11, <2>2
<1>13. Divides(m, j * s)
  BY <1>10, <1>11, <1>12 DEF Divides
<1> QED
  BY <1>2, <1>13, EuclidLemma

\* m preferences in a row are all the slots.
IsSlot(c, m) == c \in 0..(m - 1)
Meets(e, m, next, c) == \E k \in next..(next + m - 1) : Preferred(e, m, k) = c

\* So that a round meets every slot.
LEMMA PreferredAll ==
  ASSUME NEW m \in Nat, is_prime(m), NEW e, Hashed(e), NEW next \in Nat, NEW c, IsSlot(c, m)
  PROVE  Meets(e, m, next, c)
<1>1. PICK W, T, f : /\ W = next..(next + m - 1) /\ T = 0..(m - 1)
                     /\ f = [k \in W |-> Preferred(e, m, k)]
  OBVIOUS
<1>2. m >= 2 /\ \A k \in W : k \in Nat
  BY <1>1 DEF is_prime
<1>3. f \in [W -> T]
  BY <1>1, <1>2, PreferredIsSlot
<1>4. ASSUME NEW k \in W, NEW l \in W, k < l PROVE f[k] # f[l]
  <2>1. l - k \in 1..(m - 1) /\ k + (l - k) = l /\ k \in Nat
    BY <1>1, <1>4
  <2>2. Preferred(e, m, k) # Preferred(e, m, k + (l - k))
    BY <2>1, PreferredDiffer
  <2> QED
    BY <1>1, <2>1, <2>2
<1>5. ASSUME NEW k \in W, NEW l \in W, f[k] = f[l] PROVE k = l
  <2>1. k \in Nat /\ l \in Nat
    BY <1>2
  <2>2. ~(k < l) /\ ~(l < k)
    BY <1>4, <1>5
  <2> QED
    BY <2>1, <2>2
<1>6. f \in Injection(W, T)
  BY <1>3, <1>5 DEF Injection, IsInjective
<1>7. IsFiniteSet(T) /\ Cardinality(W) = Cardinality(T)
  <2>1. IsFiniteSet(T) /\ Cardinality(T) = m
    BY <1>1, <1>2, FS_Interval
  <2>2. Cardinality(W) = m
    BY <1>1, <1>2, FS_Interval
  <2> QED
    BY <2>1, <2>2
<1>8. f \in Surjection(W, T)
  BY <1>6, <1>7, FS_Injection
<1> QED
  BY <1>1, <1>8 DEF Surjection, IsSlot, Meets

----------------------------------------------------------------------------
(* The turns.                                                              *)

Weighed(entries, n) ==
  /\ n \in Nat \ {0} /\ DOMAIN entries = 1..n /\ Len(entries) = n
  /\ \A i \in 1..n : Hashed(entries[i]) /\ entries[i].weight \in Nat \ {0}

Heaviest(entries) == Max({entries[j].weight : j \in DOMAIN entries})

\* The greatest weight.
LEMMA HeaviestIs ==
  ASSUME NEW entries, NEW n, Weighed(entries, n)
  PROVE  /\ Heaviest(entries) \in Nat \ {0}
         /\ \A i \in 1..n : entries[i].weight <= Heaviest(entries)
         /\ \E i \in 1..n : entries[i].weight = Heaviest(entries)
<1>1. n \in Nat \ {0} /\ DOMAIN entries = 1..n /\ \A i \in 1..n : entries[i].weight \in Nat \ {0}
  BY DEF Weighed
<1>2. PICK x, S : x = [i \in 1..n |-> entries[i].weight] /\ S = {entries[j].weight : j \in DOMAIN entries}
  OBVIOUS
<1>3. Numbers(x, n)
  BY <1>1, <1>2 DEF Numbers
<1>4. PICK i : IsTop(i, x, n)
  BY <1>1, <1>3, Greatest
<1>5. i \in 1..n /\ \A j \in 1..n : entries[j].weight <= entries[i].weight
  BY <1>2, <1>4 DEF IsTop
<1>6. \E a \in S : \A b \in S : a >= b
  BY <1>1, <1>2, <1>5
<1>7. Max(S) \in S /\ \A b \in S : Max(S) >= b
  BY <1>6 DEF Max
<1> QED
  BY <1>1, <1>2, <1>7 DEF Heaviest

\* An instance of weight w that had r turns took t of them: one at the first, and
\* then one whenever w more credit a round had paid for it.
Turns(t, w, h, r) ==
  IF r = 0 THEN t = 0 ELSE h * (t - 1) <= (r - 1) * w /\ (r - 1) * w < h * t

\* An instance whose turn has not come is passed over.
LEMMA TurnPasses ==
  ASSUME NEW t \in Nat, NEW w \in Nat \ {0}, NEW h \in Nat \ {0}, NEW q \in Nat,
         Turns(t, w, h, q), (q + 1) * w < w + h * t
  PROVE  Turns(t, w, h, q + 1) /\ q # 0
<1>1. (q + 1) * w = q * w + w /\ q * w \in Nat /\ h * t \in Nat /\ (q + 1) - 1 = q
  OBVIOUS
<1>2. q * w < h * t
  BY <1>1
<1>3. q # 0
  <2>1. SUFFICES ASSUME q = 0 PROVE FALSE
    OBVIOUS
  <2>2. t = 0
    BY <2>1 DEF Turns
  <2>3. h * t = 0
    BY <2>2
  <2> QED
    BY <1>1, <1>2, <2>3
<1>4. h * (t - 1) <= (q - 1) * w
  BY <1>3 DEF Turns
<1>5. (q - 1) * w = q * w - w /\ h * (t - 1) \in Int
  OBVIOUS
<1>6. h * (t - 1) <= q * w
  BY <1>1, <1>4, <1>5
<1> QED
  BY <1>1, <1>2, <1>3, <1>6 DEF Turns

\* One whose turn has come takes a slot.
LEMMA TurnTakes ==
  ASSUME NEW t \in Nat, NEW w \in Nat \ {0}, NEW h \in Nat \ {0}, w <= h, NEW q \in Nat,
         Turns(t, w, h, q), (q + 1) * w >= w + h * t
  PROVE  Turns(t + 1, w, h, q + 1)
<1>1. /\ (q + 1) * w = q * w + w /\ q * w \in Nat /\ h * t \in Nat
      /\ (q + 1) - 1 = q /\ (t + 1) - 1 = t /\ h * (t + 1) = h * t + h
  OBVIOUS
<1>2. h * t <= q * w
  BY <1>1
<1>3. q * w < h * (t + 1)
  <2>1. CASE q = 0
    <3>1. q * w = 0
      BY <2>1
    <3> QED
      BY <1>1, <3>1
  <2>2. CASE q # 0
    <3>1. (q - 1) * w < h * t
      BY <2>2 DEF Turns
    <3>2. (q - 1) * w = q * w - w
      OBVIOUS
    <3> QED
      BY <1>1, <3>1, <3>2
  <2> QED
    BY <2>1, <2>2
<1> QED
  BY <1>1, <1>2, <1>3 DEF Turns

\* Equal weights at most one round apart have taken at most one turn more.
LEMMA TurnsClose ==
  ASSUME NEW t \in Nat, NEW u \in Nat, NEW w \in Nat \ {0}, NEW h \in Nat \ {0}, w <= h,
         NEW q \in Nat, NEW r \in {q, q + 1}, NEW v \in {q, q + 1}, Turns(t, w, h, r), Turns(u, w, h, v)
  PROVE  t <= u + 1
<1>1. SUFFICES ASSUME t >= u + 2 PROVE FALSE
  OBVIOUS
<1>2. r # 0 /\ h * (t - 1) <= (r - 1) * w
  BY <1>1 DEF Turns
<1>3. h * (t - 1) >= h * (u + 1) /\ h * (u + 1) = h * u + h /\ h * u \in Nat
  BY <1>1
<1>4. (r - 1) * w = r * w - w /\ r * w \in Nat /\ v * w \in Nat /\ r \in Nat /\ v \in Nat
  OBVIOUS
<1>5. h * (t - 1) \in Int
  OBVIOUS
<1>6. CASE v = 0
  <2>1. r = 1
    BY <1>2, <1>6
  <2>2. (r - 1) * w = 0
    BY <2>1
  <2> QED
    BY <1>2, <1>3, <1>5, <2>2
<1>7. CASE v # 0
  <2>1. (v - 1) * w < h * u
    BY <1>7 DEF Turns
  <2>2. (v - 1) * w = v * w - w
    BY <1>4
  <2>3. r <= v + 1
    OBVIOUS
  <2>4. r * w <= (v + 1) * w /\ (v + 1) * w = v * w + w
    BY <1>4, <2>3
  <2>5. (r - 1) * w <= v * w
    BY <1>4, <2>4
  <2>6. v * w < h * u + h
    BY <1>3, <1>4, <2>1, <2>2
  <2> QED
    BY <1>2, <1>3, <1>4, <1>5, <2>5, <2>6
<1> QED
  BY <1>6, <1>7

----------------------------------------------------------------------------
(* The table.                                                              *)

Slots(entry, m, i) == Cardinality({c \in 0..(m - 1) : entry[c] = i})
Taken(entry, m) == Cardinality({c \in 0..(m - 1) : entry[c] # Empty})

\* Slots counted, by owner and in all.
LEMMA SlotsAreNat ==
  ASSUME NEW entry, NEW m \in Nat, NEW i
  PROVE  /\ Slots(entry, m, i) \in Nat /\ IsFiniteSet({c \in 0..(m - 1) : entry[c] = i})
         /\ Taken(entry, m) \in Nat /\ IsFiniteSet({c \in 0..(m - 1) : entry[c] # Empty})
         /\ Taken(entry, m) <= m
         /\ Taken(entry, m) = m => \A c \in 0..(m - 1) : entry[c] # Empty
         /\ i # Empty => Slots(entry, m, i) <= Taken(entry, m)
<1>1. PICK A, B, C : /\ A = {c \in 0..(m - 1) : entry[c] = i} /\ B = {c \in 0..(m - 1) : entry[c] # Empty}
                     /\ C = 0..(m - 1)
  OBVIOUS
<1>2. IsFiniteSet(C) /\ Cardinality(C) = m
  BY <1>1, FS_Interval
<1>3. A \in SUBSET C /\ B \in SUBSET C /\ (i # Empty => A \in SUBSET B)
  BY <1>1
<1>4. IsFiniteSet(A) /\ IsFiniteSet(B) /\ Cardinality(B) <= m /\ (Cardinality(B) = m => B = C)
  BY <1>2, <1>3, FS_Subset
<1>5. Cardinality(A) \in Nat /\ Cardinality(B) \in Nat
  BY <1>4, FS_CardinalityType
<1>6. i # Empty => Cardinality(A) <= Cardinality(B)
  BY <1>3, <1>4, FS_Subset
<1> QED
  BY <1>1, <1>4, <1>5, <1>6 DEF Slots, Taken

\* Instance i takes the empty slot c.
Takes(entry, new, m, n, c, i) ==
  /\ entry \in [0..(m - 1) -> 0..n] /\ c \in 0..(m - 1) /\ entry[c] = Empty
  /\ i \in 1..n /\ new = [entry EXCEPT ![c] = i]

OneMore(entry, new, m, n, i) ==
  /\ new \in [0..(m - 1) -> 0..n]
  /\ Slots(new, m, i) = Slots(entry, m, i) + 1
  /\ \A k \in 1..n : k # i => Slots(new, m, k) = Slots(entry, m, k)
  /\ Taken(new, m) = Taken(entry, m) + 1

\* A slot that is taken counts for its owner and in all.
LEMMA TakeSlot ==
  ASSUME NEW entry, NEW m \in Nat, NEW n \in Nat, NEW new, NEW c, NEW i, Takes(entry, new, m, n, c, i)
  PROVE  OneMore(entry, new, m, n, i)
<1>0. /\ entry \in [0..(m - 1) -> 0..n] /\ c \in 0..(m - 1) /\ entry[c] = Empty
      /\ i \in 1..n /\ new = [entry EXCEPT ![c] = i]
  BY DEF Takes
<1>1. new \in [0..(m - 1) -> 0..n] /\ \A d \in 0..(m - 1) : new[d] = IF d = c THEN i ELSE entry[d]
  BY <1>0
<1>2. Empty = 0 /\ i # Empty
  BY <1>0 DEF Empty
<1>3. Slots(new, m, i) = Slots(entry, m, i) + 1
  <2>1. PICK A : A = {d \in 0..(m - 1) : entry[d] = i}
    OBVIOUS
  <2>2. IsFiniteSet(A) /\ c \notin A
    BY <1>0, <1>2, <2>1, SlotsAreNat
  <2>3. {d \in 0..(m - 1) : new[d] = i} = A \cup {c}
    BY <1>0, <1>1, <2>1
  <2>4. Cardinality(A \cup {c}) = Cardinality(A) + 1
    BY <2>2, FS_AddElement
  <2> QED
    BY <2>1, <2>3, <2>4 DEF Slots
<1>4. ASSUME NEW k \in 1..n, k # i PROVE Slots(new, m, k) = Slots(entry, m, k)
  <2>1. {d \in 0..(m - 1) : new[d] = k} = {d \in 0..(m - 1) : entry[d] = k}
    BY <1>0, <1>1, <1>2, <1>4
  <2> QED
    BY <2>1 DEF Slots
<1>5. Taken(new, m) = Taken(entry, m) + 1
  <2>1. PICK A : A = {d \in 0..(m - 1) : entry[d] # Empty}
    OBVIOUS
  <2>2. IsFiniteSet(A) /\ c \notin A
    BY <1>0, <2>1, SlotsAreNat
  <2>3. {d \in 0..(m - 1) : new[d] # Empty} = A \cup {c}
    BY <1>0, <1>1, <1>2, <2>1
  <2>4. Cardinality(A \cup {c}) = Cardinality(A) + 1
    BY <2>2, FS_AddElement
  <2> QED
    BY <2>1, <2>3, <2>4 DEF Taken
<1> QED
  BY <1>1, <1>3, <1>4, <1>5 DEF OneMore

\* The turns instance i has had after q whole rounds and p turns of the next.
Rounds(i, q, p) == IF i <= p THEN q + 1 ELSE q

\* The loop after q rounds and p turns.  As long as there is room everyone has
\* taken what its weight is due; once the table is full it stays.
Shaped(st, m, n) ==
  /\ st = [entry |-> st.entry, next |-> st.next, target |-> st.target,
           filled |-> st.filled, stuck |-> FALSE]
  /\ st.entry \in [0..(m - 1) -> 0..n] /\ st.next \in [1..n -> Nat] /\ st.target \in [1..n -> Nat]
  /\ st.filled = Taken(st.entry, m)

InTurn(entry, entries, m, n, q, p) ==
  \A i \in 1..n : Turns(Slots(entry, m, i), entries[i].weight, Heaviest(entries), Rounds(i, q, p))

Fair(entry, entries, m, n) ==
  \A i, j \in 1..n : entries[i].weight = entries[j].weight => Slots(entry, m, i) <= Slots(entry, m, j) + 1

Filling(st, entries, m, n, q, p) ==
  /\ Shaped(st, m, n)
  /\ \A i \in 1..n : st.target[i] = entries[i].weight + Heaviest(entries) * Slots(st.entry, m, i)
  /\ q = 0 => st.filled <= p
  /\ \A i \in 1..n : Rounds(i, q, p) # 0 => Slots(st.entry, m, i) >= 1
  /\ st.filled # m => InTurn(st.entry, entries, m, n, q, p)
  /\ Fair(st.entry, entries, m, n)

\* Turns by weight give equal weights equal shares.
LEMMA InTurnIsFair ==
  ASSUME NEW entry, NEW entries, NEW m \in Nat, NEW n, Weighed(entries, n), NEW q \in Nat, NEW p \in Nat,
         InTurn(entry, entries, m, n, q, p)
  PROVE  Fair(entry, entries, m, n)
<1>1. SUFFICES ASSUME NEW i \in 1..n, NEW j \in 1..n, entries[i].weight = entries[j].weight
               PROVE  Slots(entry, m, i) <= Slots(entry, m, j) + 1
  BY DEF Fair
<1>2. PICK t, u, w, h, r, v :
        /\ t = Slots(entry, m, i) /\ u = Slots(entry, m, j)
        /\ w = entries[i].weight /\ h = Heaviest(entries)
        /\ r = Rounds(i, q, p) /\ v = Rounds(j, q, p)
  OBVIOUS
<1>3. t \in Nat /\ u \in Nat
  BY <1>2, SlotsAreNat
<1>4. w \in Nat \ {0} /\ h \in Nat \ {0} /\ w <= h
  BY <1>2, HeaviestIs DEF Weighed
<1>5. r \in {q, q + 1} /\ v \in {q, q + 1}
  BY <1>2 DEF Rounds
<1>6. Turns(t, w, h, r) /\ Turns(u, w, h, v)
  BY <1>1, <1>2 DEF InTurn
<1>7. t <= u + 1
  BY <1>3, <1>4, <1>5, <1>6, TurnsClose
<1> QED
  BY <1>2, <1>7

\* An instance whose turn it is finds a slot while there is one.
LEMMA ProbeFinds ==
  ASSUME NEW entry, NEW m \in Nat, is_prime(m), NEW e, Hashed(e), NEW next \in Nat,
         NEW c \in 0..(m - 1), entry[c] = Empty
  PROVE  LET k == Probe(entry, e, m, next) IN
         k \in Nat /\ k # -1 /\ Preferred(e, m, k) \in 0..(m - 1) /\ entry[Preferred(e, m, k)] = Empty
<1>1. PICK free : free = {k \in next..(next + m - 1) : entry[Preferred(e, m, k)] = Empty}
  OBVIOUS
<1>2. free # {}
  <2>1. PICK k \in next..(next + m - 1) : Preferred(e, m, k) = c
    <3>1. IsSlot(c, m)
      BY DEF IsSlot
    <3>2. Meets(e, m, next, c)
      BY <3>1, PreferredAll
    <3> QED
      BY <3>2 DEF Meets
  <2>2. entry[Preferred(e, m, k)] = Empty
    BY <2>1
  <2> QED
    BY <1>1, <2>2
<1>3. free \in SUBSET Nat
  <2>1. \A k \in free : k \in Nat
    BY <1>1
  <2> QED
    BY <2>1
<1>4. Min(free) \in free
  BY <1>2, <1>3, Least
<1>5. Probe(entry, e, m, next) = Min(free)
  BY <1>1, <1>2 DEF Probe
<1>6. Min(free) \in Nat
  BY <1>3, <1>4
<1>7. Preferred(e, m, Min(free)) \in 0..(m - 1)
  BY <1>6, PreferredIsSlot
<1> QED
  BY <1>1, <1>4, <1>5, <1>6, <1>7

\* The invariant of the filling, over one turn.
LEMMA TurnKeeps ==
  ASSUME NEW entries, NEW n, Weighed(entries, n), NEW m \in Nat, is_prime(m), n <= m,
         NEW q \in Nat, NEW p \in 0..(n - 1), NEW st, Filling(st, entries, m, n, q, p)
  PROVE  Filling(Turn(st, entries, m, q + 1, p + 1), entries, m, n, q, p + 1)
<1>0. PICK i, h, w, t : /\ i = p + 1 /\ h = Heaviest(entries) /\ w = entries[i].weight
                        /\ t = Slots(st.entry, m, i)
  OBVIOUS
<1>1. /\ n \in Nat \ {0} /\ n \in Nat /\ DOMAIN entries = 1..n /\ i \in 1..n /\ p \in Nat /\ p + 1 \in Nat
      /\ \A k \in 1..n : Hashed(entries[k]) /\ entries[k].weight \in Nat \ {0}
  BY <1>0 DEF Weighed
<1>2. /\ h \in Nat \ {0} /\ w \in Nat \ {0} /\ w <= h /\ t \in Nat /\ m >= 2
  <2>1. h \in Nat \ {0} /\ w <= h
    BY <1>0, <1>1, HeaviestIs
  <2>2. t \in Nat
    BY <1>0, SlotsAreNat
  <2>3. m >= 2
    BY DEF is_prime
  <2> QED
    BY <1>0, <1>1, <2>1, <2>2, <2>3
<1>3. /\ Shaped(st, m, n) /\ Fair(st.entry, entries, m, n)
      /\ \A k \in 1..n : st.target[k] = entries[k].weight + h * Slots(st.entry, m, k)
      /\ q = 0 => st.filled <= p
      /\ \A k \in 1..n : Rounds(k, q, p) # 0 => Slots(st.entry, m, k) >= 1
      /\ st.filled # m => InTurn(st.entry, entries, m, n, q, p)
  BY <1>0 DEF Filling
<1>4. /\ st = [entry |-> st.entry, next |-> st.next, target |-> st.target,
               filled |-> st.filled, stuck |-> FALSE]
      /\ st.entry \in [0..(m - 1) -> 0..n] /\ st.next \in [1..n -> Nat] /\ st.target \in [1..n -> Nat]
      /\ st.filled = Taken(st.entry, m) /\ st.filled \in Nat
  BY <1>3, SlotsAreNat DEF Shaped
<1>5. ~st.stuck
  BY <1>4
<1>6. /\ Rounds(i, q, p) = q /\ Rounds(i, q, p + 1) = q + 1
      /\ \A k \in 1..n : k # i => Rounds(k, q, p + 1) = Rounds(k, q, p)
  BY <1>0, <1>1 DEF Rounds
<1>7. PICK new : new = Turn(st, entries, m, q + 1, i)
  OBVIOUS
<1>8. q = 0 => st.filled # m
  BY <1>1, <1>3, <1>4
<1>9. CASE st.filled = m
  <2>1. new = st
    BY <1>7, <1>9 DEF Turn
  <2>2. \A k \in 1..n : Rounds(k, q, p + 1) # 0 => Slots(st.entry, m, k) >= 1
    BY <1>3, <1>6, <1>8, <1>9
  <2>3. Filling(st, entries, m, n, q, p + 1)
    BY <1>0, <1>3, <1>8, <1>9, <2>2 DEF Filling
  <2> QED
    BY <1>0, <1>7, <2>1, <2>3
<1>10. CASE st.filled # m
  <2>1. InTurn(st.entry, entries, m, n, q, p) /\ Turns(t, w, h, q)
    BY <1>0, <1>1, <1>3, <1>6, <1>10 DEF InTurn
  <2>2. st.target[i] = w + h * t
    BY <1>0, <1>1, <1>3
  <2>3. CASE (q + 1) * w < st.target[i]
    <3>1. new = st
      BY <1>0, <1>7, <2>3 DEF Turn
    <3>2. Turns(t, w, h, q + 1) /\ q # 0
      BY <1>2, <2>1, <2>2, <2>3, TurnPasses
    <3>3. InTurn(st.entry, entries, m, n, q, p + 1)
      <4>1. ASSUME NEW k \in 1..n
            PROVE  Turns(Slots(st.entry, m, k), entries[k].weight, Heaviest(entries), Rounds(k, q, p + 1))
        <5>1. CASE k = i
          BY <1>0, <1>6, <3>2, <5>1
        <5>2. CASE k # i
          BY <1>6, <2>1, <5>2 DEF InTurn
        <5> QED
          BY <5>1, <5>2
      <4> QED
        BY <4>1 DEF InTurn
    <3>4. \A k \in 1..n : Rounds(k, q, p + 1) # 0 => Slots(st.entry, m, k) >= 1
      BY <1>3, <1>6, <3>2
    <3>5. Filling(st, entries, m, n, q, p + 1)
      BY <1>0, <1>3, <3>2, <3>3, <3>4 DEF Filling
    <3> QED
      BY <1>0, <1>7, <3>1, <3>5
  <2>4. CASE ~((q + 1) * w < st.target[i])
    <3>1. PICK c1 \in 0..(m - 1) : st.entry[c1] = Empty
      <4>1. SUFFICES ASSUME \A c \in 0..(m - 1) : st.entry[c] # Empty PROVE FALSE
        OBVIOUS
      <4>2. {c \in 0..(m - 1) : st.entry[c] # Empty} = 0..(m - 1)
        BY <4>1
      <4>3. Cardinality(0..(m - 1)) = m
        BY <1>2, FS_Interval
      <4> QED
        BY <1>4, <1>10, <4>2, <4>3 DEF Taken
    <3>2. PICK k : k = Probe(st.entry, entries[i], m, st.next[i])
      OBVIOUS
    <3>3. PICK c : c = Preferred(entries[i], m, k)
      OBVIOUS
    <3>4. k \in Nat /\ k # -1 /\ c \in 0..(m - 1) /\ st.entry[c] = Empty
      <4>1. st.next[i] \in Nat /\ Hashed(entries[i])
        BY <1>1, <1>4
      <4> QED
        BY <3>1, <3>2, <3>3, <4>1, ProbeFinds
    <3>5. /\ new = [st EXCEPT !.target[i] = @ + h, !.entry[c] = i, !.next[i] = k + 1, !.filled = @ + 1]
      BY <1>0, <1>2, <1>5, <1>7, <1>10, <2>4, <3>2, <3>3, <3>4 DEF Turn, Heaviest
    <3>6. PICK entry : entry = [st.entry EXCEPT ![c] = i]
      OBVIOUS
    <3>7. new = [entry |-> entry, next |-> [st.next EXCEPT ![i] = k + 1],
                 target |-> [st.target EXCEPT ![i] = @ + h], filled |-> st.filled + 1, stuck |-> FALSE]
      <4>1. PICK E, N, G, F : E = st.entry /\ N = st.next /\ G = st.target /\ F = st.filled
        OBVIOUS
      <4>2. st = [entry |-> E, next |-> N, target |-> G, filled |-> F, stuck |-> FALSE]
        BY <1>4, <4>1
      <4>3. new = [entry |-> [E EXCEPT ![c] = i], next |-> [N EXCEPT ![i] = k + 1],
                   target |-> [G EXCEPT ![i] = @ + h], filled |-> F + 1, stuck |-> FALSE]
        BY <3>5, <4>2
      <4> QED
        BY <3>6, <4>1, <4>3
    <3>8. /\ new.entry = entry /\ new.next = [st.next EXCEPT ![i] = k + 1]
          /\ new.target = [st.target EXCEPT ![i] = @ + h] /\ new.filled = st.filled + 1
          /\ new = [entry |-> new.entry, next |-> new.next, target |-> new.target,
                    filled |-> new.filled, stuck |-> FALSE]
      BY <3>7
    <3>9. /\ entry \in [0..(m - 1) -> 0..n]
          /\ Slots(entry, m, i) = t + 1
          /\ \A j \in 1..n : j # i => Slots(entry, m, j) = Slots(st.entry, m, j)
          /\ Taken(entry, m) = Taken(st.entry, m) + 1
      <4>1. PICK E : E = st.entry
        OBVIOUS
      <4>2. Takes(E, entry, m, n, c, i)
        BY <1>1, <1>4, <3>4, <3>6, <4>1 DEF Takes
      <4>3. OneMore(E, entry, m, n, i)
        BY <1>1, <4>2, TakeSlot
      <4> QED
        BY <1>0, <4>1, <4>3 DEF OneMore
    <3>10. Shaped(new, m, n)
      <4>3. PICK N, G : N = st.next /\ G = st.target
        OBVIOUS
      <4>4. N \in [1..n -> Nat] /\ G \in [1..n -> Nat]
        BY <1>4, <4>3
      <4>6. i \in 1..n /\ h \in Nat /\ k \in Nat
        BY <1>1, <1>2, <3>4
      <4>7. G[i] \in Nat
        BY <4>4, <4>6
      <4>5. k + 1 \in Nat /\ G[i] + h \in Nat
        BY <4>6, <4>7
      <4>1. new.next \in [1..n -> Nat]
        BY <3>8, <4>3, <4>4, <4>5
      <4>2. new.target \in [1..n -> Nat]
        BY <3>8, <4>3, <4>4, <4>5
      <4> QED
        BY <1>4, <3>8, <3>9, <4>1, <4>2 DEF Shaped
    <3>11. ASSUME NEW j \in 1..n
           PROVE  new.target[j] = entries[j].weight + h * Slots(new.entry, m, j)
      <4>1. CASE j = i
        <5>1. new.target[i] = st.target[i] + h
          BY <1>1, <1>4, <3>8
        <5>2. h * (t + 1) = h * t + h /\ h * t \in Nat
          BY <1>2
        <5> QED
          BY <1>0, <1>2, <2>2, <3>8, <3>9, <4>1, <5>1, <5>2
      <4>2. CASE j # i
        <5>1. new.target[j] = st.target[j]
          BY <1>4, <3>8, <4>2
        <5> QED
          BY <1>3, <3>8, <3>9, <4>2, <5>1
      <4> QED
        BY <4>1, <4>2
    <3>12. InTurn(new.entry, entries, m, n, q, p + 1)
      <4>1. Turns(t + 1, w, h, q + 1)
        <5>1. (q + 1) * w >= w + h * t
          <6>1. (q + 1) * w \in Nat /\ h * t \in Nat
            BY <1>2
          <6> QED
            BY <1>2, <2>2, <2>4, <6>1
        <5> QED
          BY <1>2, <2>1, <5>1, TurnTakes
      <4>2. ASSUME NEW j \in 1..n
            PROVE  Turns(Slots(entry, m, j), entries[j].weight, Heaviest(entries), Rounds(j, q, p + 1))
        <5>1. CASE j = i
          BY <1>0, <1>6, <3>9, <4>1, <5>1
        <5>2. CASE j # i
          BY <1>6, <2>1, <3>9, <5>2 DEF InTurn
        <5> QED
          BY <5>1, <5>2
      <4> QED
        BY <3>8, <4>2 DEF InTurn
    <3>13. Fair(new.entry, entries, m, n)
      BY <1>1, <3>12, InTurnIsFair
    <3>14. \A j \in 1..n : Rounds(j, q, p + 1) # 0 => Slots(new.entry, m, j) >= 1
      BY <1>2, <1>3, <1>6, <3>8, <3>9
    <3>15. q = 0 => new.filled <= p + 1
      BY <1>1, <1>3, <1>4, <3>8
    <3>16. Filling(new, entries, m, n, q, p + 1)
      BY <1>0, <3>10, <3>11, <3>12, <3>13, <3>14, <3>15 DEF Filling
    <3> QED
      BY <1>0, <1>7, <3>16
  <2> QED
    BY <2>3, <2>4
<1> QED
  BY <1>9, <1>10

\* And over the end of a round.
LEMMA RoundEnds ==
  ASSUME NEW entries, NEW n, Weighed(entries, n), NEW m \in Nat, n <= m,
         NEW q \in Nat, NEW st, Filling(st, entries, m, n, q, n)
  PROVE  Filling(st, entries, m, n, q + 1, 0)
<1>1. n \in Nat \ {0}
  BY DEF Weighed
<1>2. \A i \in 1..n : Rounds(i, q + 1, 0) = Rounds(i, q, n) /\ Rounds(i, q, n) # 0
  BY <1>1 DEF Rounds
<1>3. st.filled # m => InTurn(st.entry, entries, m, n, q + 1, 0)
  BY <1>2 DEF Filling, InTurn
<1>4. \A i \in 1..n : Rounds(i, q + 1, 0) # 0 => Slots(st.entry, m, i) >= 1
  BY <1>2 DEF Filling
<1>5. q + 1 # 0
  OBVIOUS
<1> QED
  BY <1>3, <1>4, <1>5 DEF Filling

\* Where the j-th turn stands: its round and its place in it.
LEMMA NextTurn ==
  ASSUME NEW n \in Nat \ {0}, NEW j \in Nat
  PROVE  \E q \in Nat, p \in 0..(n - 1) :
           /\ j \div n = q /\ j % n = p
           /\ p + 1 # n => (j + 1) \div n = q /\ (j + 1) % n = p + 1
           /\ p + 1 = n => (j + 1) \div n = q + 1 /\ (j + 1) % n = 0
<1>1. PICK q, p : q = j \div n /\ p = j % n
  OBVIOUS
<1>2. q \in Nat /\ p \in 0..(n - 1) /\ j = q * n + p
  <2>1. q \in Nat /\ p \in Nat /\ p < n /\ j = q * n + p
    BY <1>1, Division
  <2> QED
    BY <2>1
<1>3. ASSUME p + 1 # n PROVE (j + 1) \div n = q /\ (j + 1) % n = p + 1
  <2>1. p + 1 \in 0..(n - 1) /\ q * n \in Nat
    BY <1>2, <1>3
  <2>2. j + 1 = q * n + (p + 1)
    BY <1>2, <2>1
  <2> QED
    BY <1>2, <2>1, <2>2, ModOf, DivOf
<1>4. ASSUME p + 1 = n PROVE (j + 1) \div n = q + 1 /\ (j + 1) % n = 0
  <2>1. 0 \in 0..(n - 1) /\ q + 1 \in Int /\ (q + 1) * n = q * n + n /\ q * n \in Nat
    BY <1>2
  <2>2. j + 1 = (q + 1) * n + 0
    BY <1>2, <1>4, <2>1
  <2>3. PICK r : r = q + 1
    OBVIOUS
  <2>4. (r * n + 0) % n = 0 /\ (r * n + 0) \div n = r
    BY <2>1, <2>3, ModOf, DivOf
  <2> QED
    BY <2>2, <2>3, <2>4
<1> QED
  BY <1>1, <1>2, <1>3, <1>4

TurnStep(par, st, rt) == Turn(st, par.entries, par.m, rt[1], rt[2])
Rounding == INSTANCE Folding WITH Op <- TurnStep

FirstTable(entries, m, n) ==
  [entry  |-> [c \in 0..(m - 1) |-> Empty],
   next   |-> [i \in 1..n |-> 0],
   target |-> [i \in 1..n |-> entries[i].weight],
   filled |-> 0,
   stuck  |-> FALSE]

TurnsOf(m, n) == [j \in 1..(m * n) |-> <<((j - 1) \div n) + 1, ((j - 1) % n) + 1>>]

\* The loop is a fold over the turns.
LEMMA FillFolds ==
  ASSUME NEW par
  PROVE  fill(par.entries, par.m) =
           Rounding!Fold(par, FirstTable(par.entries, par.m, Len(par.entries)), TurnsOf(par.m, Len(par.entries)))
BY DEF fill, FirstTable, TurnsOf, FoldLeft, MapThenFoldSet, Max, TurnStep,
       Rounding!Fold, Rounding!FoldLeft, Rounding!MapThenFoldSet, Rounding!Max

\* The empty table satisfies the invariant.
LEMMA BuildBegins ==
  ASSUME NEW entries, NEW n, Weighed(entries, n), NEW m \in Nat, is_prime(m)
  PROVE  Filling(FirstTable(entries, m, n), entries, m, n, 0, 0)
<1>1. n \in Nat \ {0} /\ \A i \in 1..n : entries[i].weight \in Nat \ {0}
  BY DEF Weighed
<1>2. PICK st : st = FirstTable(entries, m, n)
  OBVIOUS
<1>3. /\ st.entry = [c \in 0..(m - 1) |-> Empty] /\ st.next = [i \in 1..n |-> 0]
      /\ st.target = [i \in 1..n |-> entries[i].weight] /\ st.filled = 0
      /\ st = [entry |-> st.entry, next |-> st.next, target |-> st.target,
               filled |-> st.filled, stuck |-> FALSE]
  BY <1>2 DEF FirstTable
<1>4. Cardinality({}) = 0
  BY FS_EmptySet
<1>5. \A i \in 1..n : Slots(st.entry, m, i) = 0
  <2>1. SUFFICES ASSUME NEW i \in 1..n PROVE {c \in 0..(m - 1) : st.entry[c] = i} = {}
    BY <1>4 DEF Slots
  <2> QED
    BY <1>3 DEF Empty
<1>6. Taken(st.entry, m) = 0
  <2>1. {c \in 0..(m - 1) : st.entry[c] # Empty} = {}
    BY <1>3
  <2> QED
    BY <1>4, <2>1 DEF Taken
<1>7. Shaped(st, m, n)
  <2>1. st.entry \in [0..(m - 1) -> 0..n]
    BY <1>1, <1>3 DEF Empty
  <2>2. st.next \in [1..n -> Nat] /\ st.target \in [1..n -> Nat]
    BY <1>1, <1>3
  <2> QED
    BY <1>3, <1>6, <2>1, <2>2 DEF Shaped
<1>8. \A i \in 1..n : Rounds(i, 0, 0) = 0
  BY <1>1 DEF Rounds
<1>9. InTurn(st.entry, entries, m, n, 0, 0)
  BY <1>5, <1>8 DEF InTurn, Turns
<1>10. Fair(st.entry, entries, m, n)
  BY <1>5 DEF Fair
<1>11. ASSUME NEW i \in 1..n
       PROVE  st.target[i] = entries[i].weight + Heaviest(entries) * Slots(st.entry, m, i)
  <2>1. PICK h, w : h = Heaviest(entries) /\ w = entries[i].weight
    OBVIOUS
  <2>2. h \in Nat /\ w \in Nat
    BY <1>1, <2>1, HeaviestIs
  <2>3. w = w + h * 0
    BY <2>2
  <2> QED
    BY <1>3, <1>5, <2>1, <2>3
<1> QED
  <2>1. 0 = 0 => st.filled <= 0
    BY <1>3
  <2>2. Filling(st, entries, m, n, 0, 0)
    BY <1>7, <1>8, <1>9, <1>10, <1>11, <2>1 DEF Filling
  <2> QED
    BY <1>2, <2>2

\* Every slot is taken, everyone has a share, and equal weights are at most one slot
\* apart.
Complete(table, entries, m, n) ==
  /\ ~table.stuck
  /\ table.entry \in [0..(m - 1) -> 1..n]
  /\ \A i \in 1..n : Slots(table.entry, m, i) >= 1
  /\ Fair(table.entry, entries, m, n)

\* After as many rounds as slots the table is full.
LEMMA FilledIsComplete ==
  ASSUME NEW entries, NEW n, Weighed(entries, n), NEW m \in Nat, is_prime(m), n <= m,
         NEW st, Filling(st, entries, m, n, m, 0)
  PROVE  Complete(st, entries, m, n)
<1>1. n \in Nat \ {0} /\ m >= 2 /\ \A i \in 1..n : entries[i].weight \in Nat \ {0}
  BY DEF Weighed, is_prime
<1>2. \A i \in 1..n : Rounds(i, m, 0) = m
  BY <1>1 DEF Rounds
<1>3. Shaped(st, m, n) /\ Fair(st.entry, entries, m, n)
  BY DEF Filling
<1>4. \A i \in 1..n : Slots(st.entry, m, i) >= 1
  BY <1>1, <1>2 DEF Filling
<1>5. st.filled = m
  <2>1. SUFFICES ASSUME st.filled # m PROVE FALSE
    OBVIOUS
  <2>2. PICK i \in 1..n : entries[i].weight = Heaviest(entries)
    BY HeaviestIs
  <2>3. PICK t, h : t = Slots(st.entry, m, i) /\ h = Heaviest(entries)
    OBVIOUS
  <2>4. t \in Nat /\ h \in Nat \ {0} /\ t <= st.filled /\ st.filled \in Nat /\ st.filled <= m
    <3>1. i # Empty
      BY DEF Empty
    <3>2. h \in Nat \ {0}
      BY <2>3, HeaviestIs
    <3>3. st.filled = Taken(st.entry, m)
      BY <1>3 DEF Shaped
    <3>4. t \in Nat /\ t <= Taken(st.entry, m) /\ Taken(st.entry, m) \in Nat /\ Taken(st.entry, m) <= m
      BY <2>3, <3>1, SlotsAreNat
    <3> QED
      BY <3>2, <3>3, <3>4
  <2>5. Turns(t, h, h, m)
    BY <1>2, <2>1, <2>2, <2>3 DEF Filling, InTurn
  <2>6. (m - 1) * h < h * t
    BY <1>1, <2>5 DEF Turns
  <2>7. t <= m - 1
    BY <1>1, <2>1, <2>4
  <2>8. h * t <= h * (m - 1) /\ h * (m - 1) = (m - 1) * h
    BY <1>1, <2>4, <2>7
  <2>9. (m - 1) * h \in Nat /\ h * t \in Nat
    BY <1>1, <2>4
  <2> QED
    BY <2>6, <2>8, <2>9
<1>6. st.entry \in [0..(m - 1) -> 1..n]
  <2>1. \A c \in 0..(m - 1) : st.entry[c] # 0
    BY <1>3, <1>5, SlotsAreNat DEF Shaped, Empty
  <2>2. st.entry \in [0..(m - 1) -> 0..n]
    BY <1>3 DEF Shaped
  <2>3. \A c \in 0..(m - 1) : st.entry[c] \in 1..n
    BY <2>1, <2>2
  <2> QED
    BY <2>2, <2>3
<1>7. ~st.stuck
  BY <1>3 DEF Shaped
<1> QED
  BY <1>3, <1>4, <1>6, <1>7 DEF Complete

\* The loop ends with every slot taken.
LEMMA FillIsComplete ==
  ASSUME NEW entries, NEW n, Weighed(entries, n), NEW m \in Nat, is_prime(m), n <= m
  PROVE  Complete(fill(entries, m), entries, m, n)
<1>1. n \in Nat \ {0} /\ Len(entries) = n /\ m >= 2
  BY DEF Weighed, is_prime
<1>2. PICK N, turns, par, base :
        /\ N = m * n
        /\ turns = TurnsOf(m, n)
        /\ par = [entries |-> entries, m |-> m]
        /\ base = FirstTable(entries, m, n)
  OBVIOUS
<1>3. N \in Nat /\ DOMAIN turns = 1..N
  BY <1>1, <1>2 DEF TurnsOf
<1>4. par.entries = entries /\ par.m = m
  BY <1>2
<1>5. turns = [j \in 1..N |-> <<((j - 1) \div n) + 1, ((j - 1) % n) + 1>>]
  BY <1>2 DEF TurnsOf
<1>6. fill(entries, m) = Rounding!Fold(par, base, turns)
  BY <1>1, <1>2, <1>4, FillFolds
<1>7. PICK run : /\ run[0] = base
                 /\ \A j \in 1..N :
                      run[j] = Turn(run[j - 1], par.entries, par.m, turns[j][1], turns[j][2])
                 /\ Rounding!Fold(par, base, turns) = run[N]
  BY <1>3, Rounding!FoldRuns DEF TurnStep
<1> DEFINE S == {j \in Nat : j <= N => Filling(run[j], entries, m, n, j \div n, j % n)}
<1>8. 0 \in S
  <2>1. 0 \div n = 0 /\ 0 % n = 0
    BY <1>1
  <2>2. Filling(run[0], entries, m, n, 0, 0)
    BY <1>2, <1>7, BuildBegins
  <2> QED
    BY <2>1, <2>2
<1>9. ASSUME NEW j \in Nat, j \in S PROVE j + 1 \in S
  <2>1. SUFFICES ASSUME j + 1 <= N PROVE Filling(run[j + 1], entries, m, n, (j + 1) \div n, (j + 1) % n)
    OBVIOUS
  <2>2. j <= N /\ j + 1 \in 1..N /\ (j + 1) - 1 = j
    BY <1>3, <2>1
  <2>3. PICK q \in Nat, p \in 0..(n - 1) :
           /\ j \div n = q /\ j % n = p
           /\ p + 1 # n => (j + 1) \div n = q /\ (j + 1) % n = p + 1
           /\ p + 1 = n => (j + 1) \div n = q + 1 /\ (j + 1) % n = 0
    BY <1>1, NextTurn
  <2>4. Filling(run[j], entries, m, n, q, p)
    BY <1>9, <2>2, <2>3
  <2>5. turns[j + 1] = <<q + 1, p + 1>>
    BY <1>5, <2>2, <2>3
  <2>6. run[j + 1] = Turn(run[j], entries, m, q + 1, p + 1)
    BY <1>4, <1>7, <2>2, <2>5
  <2>7. Filling(run[j + 1], entries, m, n, q, p + 1)
    BY <2>4, <2>6, TurnKeeps
  <2>8. CASE p + 1 # n
    BY <2>3, <2>7, <2>8
  <2>9. CASE p + 1 = n
    <3>1. Filling(run[j + 1], entries, m, n, q, n)
      BY <2>7, <2>9
    <3>2. Filling(run[j + 1], entries, m, n, q + 1, 0)
      BY <3>1, RoundEnds
    <3> QED
      BY <2>3, <2>9, <3>2
  <2> QED
    BY <2>8, <2>9
<1> HIDE DEF S
<1>10. Nat \subseteq S
  BY <1>8, <1>9, Rounding!Induct
<1>11. Filling(run[N], entries, m, n, m, 0)
  <2>1. Filling(run[N], entries, m, n, N \div n, N % n)
    BY <1>3, <1>10 DEF S
  <2>2. N = m * n + 0 /\ 0 \in 0..(n - 1) /\ m \in Int
    BY <1>1, <1>2, <1>3
  <2>3. N \div n = m /\ N % n = 0
    BY <1>1, <2>2, ModOf, DivOf
  <2> QED
    BY <2>1, <2>3
<1>12. Complete(run[N], entries, m, n)
  BY <1>11, FilledIsComplete
<1> QED
  BY <1>6, <1>7, <1>12

\* The build of the table (maglev.rs MaglevTable::build) ends and leaves it complete,
\* for every prime size that has room for the instances, as many as a u16 can name,
\* whatever their hashes and weights: a probe that starts anywhere meets every slot
\* before it repeats one, and no index is cut short when it is stored.
THEOREM TableIsComplete ==
  ASSUME NEW entries, NEW n, Weighed(entries, n), NEW m \in Nat, is_prime(m), n <= m, n <= U16Max
  PROVE  Complete(build(entries, m), entries, m, n)
<1>1. n \in Nat \ {0} /\ U16Max \in Nat
  BY ManifestAssumption DEF Weighed, ManifestAssumption
<1>2. PICK st, table : st = fill(entries, m) /\ table = build(entries, m)
  OBVIOUS
<1>3. Complete(st, entries, m, n)
  BY <1>2, FillIsComplete
<1>4. ASSUME NEW e \in 1..n PROVE as_u16(e) = e
  <2>1. PICK k, x : k = U16Max + 1 /\ x = e - 1
    OBVIOUS
  <2>2. k \in Nat \ {0} /\ x \in 0..(k - 1) /\ 0 * k + x = x
    BY <1>1, <1>4, <2>1
  <2>3. x % k = x
    BY <2>2, ModOf
  <2> QED
    BY <1>4, <2>1, <2>3 DEF as_u16
<1>5. st.entry \in [0..(m - 1) -> 1..n]
  BY <1>3 DEF Complete
<1>6. [c \in 0..(m - 1) |-> as_u16(st.entry[c])] = st.entry
  BY <1>4, <1>5
<1>7. table.entry = st.entry /\ table.stuck = st.stuck
  BY <1>2, <1>6 DEF build
<1> QED
  BY <1>2, <1>3, <1>7 DEF Complete

\* A reconciled group has someone to send to, and its table is usable.
LEMMA GroupUsable ==
  ASSUME NEW up, ParsedUpstream(up), up.addresses # <<>>, validate_lb(up)
  PROVE  Group(up).instances # <<>> /\ TableUsable(Group(up))
<1>1. PICK group, n, entries, m :
        /\ group = Group(up) /\ n = Len(up.addresses) /\ m = up.hash.table_size
        /\ entries = [i \in DOMAIN up.addresses |->
                        [h1 |-> Murmur[up.addresses[i].address][1],
                         h2 |-> Murmur[up.addresses[i].address][2],
                         weight |-> up.addresses[i].weight]]
  OBVIOUS
<1>2. n \in Nat \ {0} /\ DOMAIN up.addresses = 1..n
  BY <1>1, ListDomain DEF ParsedUpstream
<1>3. group.instances = up.addresses
  BY <1>1 DEF Group
<1>4. CASE up.lb_algorithm # "maglev"
  <2>1. group.table = <<>>
    BY <1>1, <1>4 DEF Group
  <2> QED
    BY <1>1, <1>3, <2>1 DEF TableUsable
<1>5. CASE up.lb_algorithm = "maglev"
  <2>1. is_prime(m) /\ n <= m /\ n <= U16Max /\ \A i \in 1..n : up.addresses[i].weight # 0
    BY <1>1, <1>2, <1>5 DEF validate_lb
  <2>2. m \in Nat
    BY <1>1, <2>1 DEF ParsedUpstream, Optional, is_prime, Unset
  <2>3. \A i \in 1..n : /\ Hashed(entries[i]) /\ entries[i].weight = up.addresses[i].weight
                        /\ entries[i].weight \in Nat \ {0}
    <3>1. SUFFICES ASSUME NEW i \in 1..n
                   PROVE  /\ Hashed(entries[i]) /\ entries[i].weight = up.addresses[i].weight
                          /\ entries[i].weight \in Nat \ {0}
      OBVIOUS
    <3>2. entries[i] = [h1 |-> Murmur[up.addresses[i].address][1],
                        h2 |-> Murmur[up.addresses[i].address][2],
                        weight |-> up.addresses[i].weight]
      BY <1>1, <1>2
    <3>3. /\ up.addresses[i].weight \in Nat
          /\ Murmur[up.addresses[i].address][1] \in Nat /\ Murmur[up.addresses[i].address][2] \in Nat
      BY <1>2 DEF ParsedUpstream
    <3> QED
      BY <2>1, <3>2, <3>3 DEF Hashed
  <2>4. Weighed(entries, n)
    <3>1. DOMAIN entries = 1..n
      BY <1>1, <1>2
    <3>2. Len(entries) = n
      BY <1>2, <3>1
    <3> QED
      BY <1>2, <2>3, <3>1, <3>2 DEF Weighed
  <2>5. PICK table : table = build(entries, m)
    OBVIOUS
  <2>6. Complete(table, entries, m, n)
    BY <2>1, <2>2, <2>4, <2>5, TableIsComplete
  <2>7. group.table = <<table>>
    BY <1>1, <1>5, <2>5 DEF Group
  <2>8. ~table.stuck /\ table.entry \in [0..(m - 1) -> 1..n]
    BY <2>6 DEF Complete
  <2>9. \A i : Share(table, i) = Slots(table.entry, m, i) /\ Slots(table.entry, m, i) \in Nat
    <3>1. DOMAIN table.entry = 0..(m - 1)
      BY <2>8
    <3>2. \A i : Share(table, i) = Slots(table.entry, m, i)
      BY <3>1 DEF Share, Slots
    <3> QED
      BY <2>2, <3>2, SlotsAreNat
  <2>10. \A i \in 1..n : Share(table, i) > 0
    BY <2>6, <2>9 DEF Complete
  <2>11. \A i, j \in 1..n : up.addresses[i].weight = up.addresses[j].weight =>
                              Share(table, i) <= Share(table, j) + 1
    BY <2>3, <2>6, <2>9 DEF Complete, Fair
  <2>12. Range(table.entry) \subseteq 1..n
    <3>1. PICK E, C : E = table.entry /\ C = 0..(m - 1)
      OBVIOUS
    <3>2. E \in [C -> 1..n]
      BY <2>8, <3>1
    <3> QED
      BY <3>1, <3>2 DEF Range
  <2>13. \A x \in DOMAIN group.table : group.table[x] = table
    BY <2>7
  <2>14. TableUsable(group)
    BY <1>2, <1>3, <2>8, <2>10, <2>11, <2>12, <2>13 DEF TableUsable
  <2> QED
    BY <1>1, <1>3, <2>14
<1> QED
  BY <1>4, <1>5

\* Every group of an accepted manifest can be picked from.
LEMMA RegistryUsable ==
  ASSUME NEW src, Parsed(src), Accepted(src), NEW n \in UpstreamNames(src.manifest)
  PROVE  LET group == Compiled(src).registry[n] IN group.instances # <<>> /\ TableUsable(group)
<1>1. PICK ups : ups = src.manifest.upstreams
  OBVIOUS
<1>2. PICK i : i = UpstreamAt(src.manifest, n)
  OBVIOUS
<1>3. i \in DOMAIN ups
  BY <1>1, <1>2 DEF UpstreamNames, UpstreamAt
<1>4. Compiled(src).registry[n] = Group(ups[i])
  <2>1. RegistryOf(src)[n] = Group(src.manifest.upstreams[UpstreamAt(src.manifest, n)])
    BY DEF RegistryOf
  <2> QED
    BY <1>1, <1>2, <2>1, CompiledParts
<1>5. PICK up : up = ups[i]
  OBVIOUS
<1>6. ParsedUpstream(up)
  BY <1>1, <1>3, <1>5 DEF Parsed
<1>7. up.addresses # <<>> /\ validate_lb(up)
  BY <1>1, <1>3, <1>5 DEF Accepted, Reconcilable
<1>8. Group(up).instances # <<>> /\ TableUsable(Group(up))
  BY <1>6, <1>7, GroupUsable
<1> QED
  BY <1>4, <1>5, <1>8

\* Every filter of an accepted manifest is what was signed, and can run.
LEMMA FilterServes ==
  ASSUME NEW src, Parsed(src), Accepted(src), NEW i \in DOMAIN src.manifest.filters
  PROVE  LET f == src.manifest.filters[i]
             loaded == Compiled(src).filters[f.id]
         IN  Provenanced(src, f, loaded) /\ Runnable(loaded.options)
<1>1. PICK fs, f : fs = src.manifest.filters /\ f = fs[i]
  OBVIOUS
<1>2. PICK res : res = resolve(src, f)
  OBVIOUS
<1>3. FiltersLoad(src)
  BY DEF Accepted
<1>4. /\ validate(f) /\ res.ok
      /\ load_inner(src.manifest.trust, f.id, res.artifact, load_options(f))
  BY <1>1, <1>2, <1>3 DEF FiltersLoad
<1>5. PICK loaded : loaded = Compiled(src).filters[f.id]
  OBVIOUS
<1>6. loaded = LoadedFilter(src, f)
  <2>1. EntryAt(src.manifest, f.id) = i
    BY <1>1, <1>3, EntryIsOwn
  <2>2. f.id \in FilterIds(src.manifest)
    BY <1>1 DEF FilterIds
  <2>3. LoadedOf(src)[f.id] = LoadedFilter(src, src.manifest.filters[EntryAt(src.manifest, f.id)])
    BY <2>2 DEF LoadedOf
  <2> QED
    BY <1>1, <1>5, <2>1, <2>3, CompiledParts
<1>7. loaded.artifact = res.artifact /\ loaded.options = load_options(f)
  BY <1>2, <1>6 DEF LoadedFilter
<1>8. Runnable(loaded.options)
  <2>1. ParsedFilter(f)
    BY <1>1 DEF Parsed
  <2> QED
    BY <1>4, <1>7, <2>1, OptionsRun
<1>9. Provenanced(src, f, loaded)
  <2>1. PICK layout : layout = src.store[f.source]
    OBVIOUS
  <2>2. f.source \in DOMAIN src.store /\ res = read_layout(layout, f.digest)
    BY <1>2, <1>4, <2>1 DEF resolve, Absent
  <2>3. ParsedLayout(layout)
    BY <2>1, <2>2 DEF Parsed
  <2>4. \E h \in DOMAIN layout.blobs :
           /\ layout.blobs[h].hash = f.digest
           /\ \E k \in DOMAIN layout.blobs[h].data :
                layout.blobs[h].data[k].hex = res.artifact.component.hash
    BY <1>4, <2>2, <2>3, LayoutRead
  <2> QED
    BY <1>4, <1>7, <2>1, <2>4 DEF Provenanced, load_inner, verifies, sbom_binds_component
<1> QED
  BY <1>1, <1>5, <1>8, <1>9

\* Every route of an accepted manifest can be served.
LEMMA RouteServes ==
  ASSUME NEW src, Parsed(src), Accepted(src), NEW k \in DOMAIN src.manifest.routes
  PROVE  LET config == Compiled(src)
             r == config.routes[k]
         IN  /\ Range(r.filters) \subseteq DOMAIN config.filters
             /\ SplitExact(targets(src.manifest.routes[k]), r.backends, config.registry)
             /\ r.rate_limit # NoLimit => r.rate_limit.burst > 0 /\ r.rate_limit.rate > 0
<1>1. PICK m, q, r, config :
        /\ m = src.manifest /\ q = m.routes[k] /\ config = Compiled(src) /\ r = config.routes[k]
  OBVIOUS
<1>2. /\ r.filters = q.filters /\ r.backends = WeightedBackends(targets(q)) /\ r.rate_limit = q.rate_limit
  <2>1. RoutesOf(src)[k] = CompiledRoute(src.manifest.routes[k], LoadedOf(src))
    BY DEF RoutesOf
  <2>2. PICK loaded : loaded = LoadedOf(src)
    OBVIOUS
  <2>3. r = CompiledRoute(q, loaded)
    BY <1>1, <2>1, <2>2, CompiledParts
  <2> QED
    BY <2>3 DEF CompiledRoute
<1>3. DOMAIN config.filters = FilterIds(m) /\ DOMAIN config.registry = UpstreamNames(m)
  BY <1>1, CompiledParts DEF LoadedOf, RegistryOf
<1>4. PICK ts : ts = targets(q)
  OBVIOUS
<1>5. /\ HasTargets(q)
      /\ \A i \in DOMAIN ts : ts[i][1] \in UpstreamNames(m)
      /\ validate_split([i \in DOMAIN ts |-> ts[i][2]])
      /\ Range(q.filters) \subseteq FilterIds(m)
      /\ q.rate_limit # NoLimit => q.rate_limit.rate # 0 /\ q.rate_limit.burst # 0
  BY <1>1, <1>4 DEF Accepted, validate_routes
<1>6. ParsedRoute(q)
  BY <1>1 DEF Parsed
<1>7. \E n : Targets(ts, n)
  <2>1. CASE q.upstream # NONE
    <3>1. ts = << <<q.upstream, 1>> >>
      BY <1>4, <2>1 DEF targets
    <3>2. DOMAIN ts = 1..1 /\ \A i \in 1..1 : ts[i][2] = 1
      BY <3>1
    <3>3. Targets(ts, 1)
      BY <3>2 DEF Targets
    <3> QED
      BY <3>3
  <2>2. CASE q.upstream = NONE
    <3>1. ts = q.backends
      BY <1>4, <2>2 DEF targets
    <3>2. Len(ts) \in Nat /\ DOMAIN ts = 1..Len(ts)
      BY <1>6, <3>1, ListDomain DEF ParsedRoute
    <3>3. Targets(ts, Len(ts))
      BY <1>6, <3>1, <3>2 DEF ParsedRoute, Targets
    <3> QED
      BY <3>3
  <2> QED
    BY <2>1, <2>2
<1>8. PICK n : Targets(ts, n)
  BY <1>7
<1>9. PICK registry : registry = config.registry
  OBVIOUS
<1>10. \A i \in 1..n : ts[i][1] \in DOMAIN registry
  BY <1>3, <1>5, <1>8, <1>9 DEF Targets
<1>11. SplitExact(ts, WeightedBackends(ts), registry)
  BY <1>5, <1>8, <1>10, SplitIsExact
<1>12. r.rate_limit # NoLimit => r.rate_limit.burst > 0 /\ r.rate_limit.rate > 0
  BY <1>2, <1>5, <1>6 DEF ParsedRoute
<1> QED
  BY <1>1, <1>2, <1>3, <1>4, <1>5, <1>9, <1>11, <1>12

(***************************************************************************)
(* What a load accepts can serve.  For every manifest and every store:     *)
(* each filter has its provenance from the pinned digest to the signatures *)
(* and budgets it can run in; each split is exact; each upstream has       *)
(* someone to send to and a full, fair table; one matching certificate per *)
(* host (build_active and everything it calls).                            *)
(***************************************************************************)
THEOREM AcceptedIsServable ==
  ASSUME NEW src, Parsed(src), Accepted(src)
  PROVE  Servable(src, Compiled(src))
<1>1. PICK m, config : m = src.manifest /\ config = Compiled(src)
  OBVIOUS
<1>2. /\ config.chain = m.chain /\ config.certs = m.tls /\ DOMAIN config.filters = FilterIds(m)
      /\ DOMAIN config.routes = DOMAIN m.routes /\ DOMAIN config.registry = UpstreamNames(m)
  BY <1>1, CompiledParts DEF LoadedOf, RoutesOf, RegistryOf
<1>3. \A i \in DOMAIN m.filters :
        LET f == m.filters[i] IN
        Provenanced(src, f, config.filters[f.id]) /\ Runnable(config.filters[f.id].options)
  BY <1>1, FilterServes
<1>4. Range(config.chain) \subseteq DOMAIN config.filters
  BY <1>1, <1>2 DEF Accepted
<1>5. \A k \in DOMAIN config.routes :
        LET r == config.routes[k] IN
        /\ Range(r.filters) \subseteq DOMAIN config.filters
        /\ SplitExact(targets(m.routes[k]), r.backends, config.registry)
        /\ r.rate_limit # NoLimit => r.rate_limit.burst > 0 /\ r.rate_limit.rate > 0
  BY <1>1, <1>2, RouteServes
<1>6. \A n \in DOMAIN config.registry :
        config.registry[n].instances # <<>> /\ TableUsable(config.registry[n])
  BY <1>1, <1>2, RegistryUsable
<1>7. \A i, j \in DOMAIN config.certs :
        config.certs[i].matches /\ (i # j => config.certs[i].host # config.certs[j].host)
  BY <1>1, <1>2 DEF Accepted, build_server_configs
<1> QED
  BY <1>1, <1>3, <1>4, <1>5, <1>6, <1>7 DEF Servable
============================================================================
