------------------------------ MODULE Folding ------------------------------
(***************************************************************************)
(* What a fold computes, for any step: the results of the prefixes, each   *)
(* from the one before.  The step is a CONSTANT operator, so that a module *)
(* that folds gets the theorem about its own fold by INSTANCE Folding WITH *)
(* Op <- ....                                                              *)
(***************************************************************************)
EXTENDS Lists, WellFoundedInduction, TLAPS

CONSTANT
  Op(_, _, _)      \* the step, of a parameter, the result so far and an element

Fold(par, base, s) == FoldLeft(LAMBDA a, x : Op(par, a, x), base, s)

\* The same by a recursive function.
Walk(par, base, s) ==
  LET at[i \in 0..Len(s)] == IF i = 0 THEN base ELSE Op(par, at[i - 1], s[i])
  IN  at[Len(s)]

----------------------------------------------------------------------------
\* Induction, for a set: a property is the set of the numbers that have it.
LEMMA Induct ==
  ASSUME NEW S, 0 \in S, \A n \in Nat : n \in S => n + 1 \in S
  PROVE  Nat \subseteq S
<1> DEFINE T == Nat \ S
           R == {p \in Nat \X Nat : p[1] < p[2]}
<1>1. SUFFICES ASSUME T # {} PROVE FALSE
  OBVIOUS
<1>2. IsWellFoundedOn(R, Nat)
  BY NatLessThanWellFounded DEF OpToRel
<1>3. T \subseteq Nat
  OBVIOUS
<1>4. PICK x \in T : \A y \in T : ~(<<y, x>> \in R)
  <2> HIDE DEF T, R
  <2> QED
    BY <1>1, <1>2, <1>3, WFMin
<1>5. x \in Nat /\ x # 0 /\ x \notin S
  OBVIOUS
<1>6. x - 1 \in Nat /\ x - 1 < x /\ x - 1 + 1 = x
  BY <1>5
<1>7. x - 1 \in S
  BY <1>4, <1>6
<1> QED
  BY <1>5, <1>6, <1>7

\* A set of numbers has a least.
LEMMA LeastOf ==
  ASSUME NEW S \in SUBSET Nat, S # {}
  PROVE  \E x \in S : \A y \in S : x <= y
<1> DEFINE R == {p \in Nat \X Nat : p[1] < p[2]}
<1>1. IsWellFoundedOn(R, Nat)
  BY NatLessThanWellFounded DEF OpToRel
<1>2. PICK x \in S : \A y \in S : ~(<<y, x>> \in R)
  <2> HIDE DEF R
  <2> QED
    BY <1>1, WFMin
<1>3. \A y \in S : x \in Nat /\ y \in Nat /\ ~(y < x)
  BY <1>2
<1> QED
  BY <1>3

\* The greatest of the numbers up to i.
LEMMA MaxOfInterval ==
  ASSUME NEW i \in Nat \ {0}, NEW t \in SUBSET (1..i), i \in t
  PROVE  Max(t) = i
<1>1. \E x \in t : \A y \in t : x >= y
  OBVIOUS
<1>2. Max(t) \in t /\ \A y \in t : Max(t) >= y
  BY <1>1 DEF Max
<1>3. Max(t) \in 1..i /\ Max(t) >= i
  BY <1>2
<1> QED
  BY <1>3

\* The equation the fold is defined by: the last element of t is folded last.
FoldsBy(f, par, base, s, m) ==
  f = [t \in SUBSET (1..m) |->
         IF t = {} THEN base ELSE Op(par, f[t \ {Max(t)}], s[Max(t)])]

\* There is a function that satisfies the equation.
LEMMA FoldExists ==
  ASSUME NEW par, NEW base, NEW s, NEW n \in Nat
  PROVE  \E f : FoldsBy(f, par, base, s, n)
<1> DEFINE S == {m \in Nat : \E f : FoldsBy(f, par, base, s, m)}
<1>1. 0 \in S
  <2> DEFINE f == [t \in SUBSET (1..0) |-> base]
  <2>1. 1..0 = {}
    OBVIOUS
  <2>2. FoldsBy(f, par, base, s, 0)
    BY <2>1 DEF FoldsBy
  <2> QED
    BY <2>2
<1>2. ASSUME NEW m \in Nat, m \in S PROVE m + 1 \in S
  <2>1. PICK f : FoldsBy(f, par, base, s, m)
    BY <1>2
  <2> DEFINE g == [t \in SUBSET (1..(m + 1)) |->
                     IF m + 1 \in t THEN Op(par, f[t \ {m + 1}], s[m + 1]) ELSE f[t]]
             h == [t \in SUBSET (1..(m + 1)) |->
                     IF t = {} THEN base ELSE Op(par, g[t \ {Max(t)}], s[Max(t)])]
  <2>2. ASSUME NEW t \in SUBSET (1..(m + 1)) PROVE g[t] = h[t]
    <3>1. t \ {Max(t)} \in SUBSET (1..(m + 1))
      OBVIOUS
    <3>2. CASE m + 1 \in t
      <4>1. Max(t) = m + 1
        BY <3>2, MaxOfInterval
      <4>2. g[t \ {m + 1}] = f[t \ {m + 1}]
        BY <3>1, <4>1
      <4>3. g[t] = Op(par, f[t \ {m + 1}], s[m + 1]) /\ t # {}
        BY <3>2
      <4>4. h[t] = Op(par, g[t \ {Max(t)}], s[Max(t)])
        BY <4>3
      <4> HIDE DEF g, h
      <4> QED
        BY <4>1, <4>2, <4>3, <4>4
    <3>3. CASE m + 1 \notin t
      <4>1. t \in SUBSET (1..m) /\ t \ {Max(t)} \in SUBSET (1..m)
        <5>1. \A x \in t : x \in 1..m
          BY <3>3
        <5> QED
          BY <5>1
      <4>2. g[t] = f[t]
        BY <3>3
      <4>3. f[t] = IF t = {} THEN base ELSE Op(par, f[t \ {Max(t)}], s[Max(t)])
        BY <2>1, <4>1 DEF FoldsBy
      <4>4. g[t \ {Max(t)}] = f[t \ {Max(t)}]
        BY <3>1, <3>3
      <4>5. h[t] = IF t = {} THEN base ELSE Op(par, g[t \ {Max(t)}], s[Max(t)])
        OBVIOUS
      <4> HIDE DEF g, h
      <4> QED
        BY <4>2, <4>3, <4>4, <4>5
    <3> QED
      BY <3>2, <3>3
  <2>3. g = h
    BY <2>2
  <2>4. FoldsBy(g, par, base, s, m + 1)
    BY <2>3 DEF FoldsBy
  <2> QED
    BY <2>4
<1> HIDE DEF S
<1>3. Nat \subseteq S
  BY <1>1, <1>2, Induct
<1> QED
  BY <1>3 DEF S

\* r is the last of the results of the prefixes, from the base on.
Ran(r, par, base, s, n) ==
  \E run : /\ run[0] = base
           /\ \A i \in 1..n : run[i] = Op(par, run[i - 1], s[i])
           /\ r = run[n]

\* A fold over a list ran through it.
LEMMA FoldRan ==
  ASSUME NEW par, NEW base, NEW s, NEW n \in Nat, DOMAIN s = 1..n
  PROVE  Ran(Fold(par, base, s), par, base, s, n)
<1> DEFINE iter == CHOOSE f : FoldsBy(f, par, base, s, n)
           run == [i \in 0..n |-> iter[1..i]]
<1>1. FoldsBy(iter, par, base, s, n)
  BY FoldExists
<1>2. Fold(par, base, s) = iter[1..n]
  BY DEF Fold, FoldLeft, MapThenFoldSet, FoldsBy
<1>3. \A t \in SUBSET (1..n) :
        iter[t] = IF t = {} THEN base ELSE Op(par, iter[t \ {Max(t)}], s[Max(t)])
  BY <1>1 DEF FoldsBy
<1> HIDE DEF iter
<1>4. run[0] = base
  <2>1. 1..0 = {} /\ {} \in SUBSET (1..n) /\ 0 \in 0..n
    OBVIOUS
  <2> QED
    BY <1>3, <2>1
<1>5. ASSUME NEW i \in 1..n PROVE run[i] = Op(par, run[i - 1], s[i])
  <2>1. /\ 1..i \in SUBSET (1..n) /\ 1..i # {} /\ (1..i) \ {i} = 1..(i - 1)
        /\ i \in 0..n /\ i - 1 \in 0..n /\ i \in Nat \ {0} /\ i \in 1..i
    <3>1. i \in 0..n /\ i - 1 \in 0..n /\ i \in Nat \ {0} /\ i \in 1..i
      OBVIOUS
    <3>2. \A x \in 1..i : x \in 1..n
      OBVIOUS
    <3>3. \A x : x \in (1..i) \ {i} <=> x \in 1..(i - 1)
      OBVIOUS
    <3> QED
      BY <3>1, <3>2, <3>3
  <2>2. Max(1..i) = i
    BY <2>1, MaxOfInterval
  <2>3. iter[1..i] = Op(par, iter[(1..i) \ {Max(1..i)}], s[Max(1..i)])
    BY <1>3, <2>1
  <2> QED
    BY <2>1, <2>2, <2>3
<1>6. Fold(par, base, s) = run[n]
  BY <1>2
<1> HIDE DEF run
<1> QED
  BY <1>4, <1>5, <1>6 DEF Ran

\* A fold has a run: the results of the prefixes, from the base to the fold.
LEMMA FoldRuns ==
  ASSUME NEW par, NEW base, NEW s, NEW n \in Nat, DOMAIN s = 1..n
  PROVE  \E run : /\ run[0] = base
                  /\ \A i \in 1..n : run[i] = Op(par, run[i - 1], s[i])
                  /\ Fold(par, base, s) = run[n]
<1>1. Ran(Fold(par, base, s), par, base, s, n)
  BY FoldRan
<1> QED
  BY <1>1 DEF Ran

\* A longer list: what its last element makes of the fold of the rest.
LEMMA FoldLast ==
  ASSUME NEW par, NEW base, NEW s, NEW n \in Nat, DOMAIN s = 1..n,
         NEW t, DOMAIN t = 1..(n + 1), \A i \in 1..n : t[i] = s[i]
  PROVE  Fold(par, base, t) = Op(par, Fold(par, base, s), t[n + 1])
<1>1. PICK p, q : p = Fold(par, base, s) /\ q = Fold(par, base, t)
  OBVIOUS
<1>2. Ran(p, par, base, s, n) /\ Ran(q, par, base, t, n + 1)
  BY <1>1, FoldRan
<1>3. PICK a : /\ a[0] = base
               /\ \A i \in 1..n : a[i] = Op(par, a[i - 1], s[i])
               /\ p = a[n]
  BY <1>2 DEF Ran
<1>4. PICK b : /\ b[0] = base
               /\ \A i \in 1..(n + 1) : b[i] = Op(par, b[i - 1], t[i])
               /\ q = b[n + 1]
  BY <1>2 DEF Ran
<1> DEFINE U == {m \in Nat : m <= n => a[m] = b[m]}
<1>5. 0 \in U
  BY <1>3, <1>4
<1>6. ASSUME NEW m \in Nat, m \in U PROVE m + 1 \in U
  <2>1. SUFFICES ASSUME m + 1 <= n PROVE a[m + 1] = b[m + 1]
    OBVIOUS
  <2>2. m + 1 \in 1..n /\ m + 1 \in 1..(n + 1) /\ (m + 1) - 1 = m /\ m <= n
    BY <2>1
  <2>3. a[m + 1] = Op(par, a[m], s[m + 1]) /\ b[m + 1] = Op(par, b[m], t[m + 1])
    BY <1>3, <1>4, <2>2
  <2>4. a[m] = b[m] /\ s[m + 1] = t[m + 1]
    BY <1>6, <2>2
  <2> QED
    BY <2>3, <2>4
<1>7. n \in U
  <2> HIDE DEF U
  <2> QED
    BY <1>5, <1>6, Induct
<1>8. n + 1 \in 1..(n + 1) /\ (n + 1) - 1 = n
  OBVIOUS
<1>9. q = Op(par, b[n], t[n + 1]) /\ b[n] = p
  BY <1>3, <1>4, <1>7, <1>8
<1> QED
  BY <1>1, <1>9

WalksBy(f, par, base, s, m) ==
  f = [i \in 0..m |-> IF i = 0 THEN base ELSE Op(par, f[i - 1], s[i])]

HasRun(par, base, s, n) ==
  \E run : run[0] = base /\ \A i \in 1..n : run[i] = Op(par, run[i - 1], s[i])

\* The steps can be taken one after the other.
LEMMA RunExists ==
  ASSUME NEW par, NEW base, NEW s, NEW n \in Nat
  PROVE  HasRun(par, base, s, n)
<1> DEFINE S == {m \in Nat : HasRun(par, base, s, m)}
<1>1. 0 \in S
  <2> DEFINE run == [i \in 0..0 |-> base]
  <2>1. run[0] = base /\ \A i \in 1..0 : run[i] = Op(par, run[i - 1], s[i])
    OBVIOUS
  <2> QED
    BY <2>1 DEF HasRun
<1>2. ASSUME NEW m \in Nat, m \in S PROVE m + 1 \in S
  <2>1. PICK old : old[0] = base /\ \A i \in 1..m : old[i] = Op(par, old[i - 1], s[i])
    BY <1>2 DEF HasRun
  <2> DEFINE run == [i \in 0..(m + 1) |-> IF i = m + 1 THEN Op(par, old[m], s[i]) ELSE old[i]]
  <2>2. run[0] = base
    BY <2>1
  <2>3. ASSUME NEW i \in 1..(m + 1) PROVE run[i] = Op(par, run[i - 1], s[i])
    <3>1. CASE i = m + 1
      <4>1. run[i] = Op(par, old[m], s[i]) /\ run[i - 1] = old[m]
        BY <3>1
      <4> QED
        BY <4>1
    <3>2. CASE i # m + 1
      <4>1. i \in 1..m /\ run[i] = old[i] /\ run[i - 1] = old[i - 1]
        BY <3>2
      <4> QED
        BY <2>1, <4>1
    <3> QED
      BY <3>1, <3>2
  <2>4. HasRun(par, base, s, m + 1)
    <3> HIDE DEF run
    <3> QED
      BY <2>2, <2>3 DEF HasRun
  <2> QED
    BY <2>4
<1> HIDE DEF S
<1>3. Nat \subseteq S
  BY <1>1, <1>2, Induct
<1> QED
  BY <1>3 DEF S

\* And so can those of the recursive function.
LEMMA WalkRuns ==
  ASSUME NEW par, NEW base, NEW s, NEW n \in Nat, DOMAIN s = 1..n
  PROVE  \E run : /\ run[0] = base
                  /\ \A i \in 1..n : run[i] = Op(par, run[i - 1], s[i])
                  /\ Walk(par, base, s) = run[n]
<1>0. HasRun(par, base, s, n)
  BY RunExists
<1>1. PICK run : run[0] = base /\ \A i \in 1..n : run[i] = Op(par, run[i - 1], s[i])
  BY <1>0 DEF HasRun
<1> DEFINE f == [i \in 0..n |-> run[i]]
           g == [i \in 0..n |-> IF i = 0 THEN base ELSE Op(par, f[i - 1], s[i])]
<1>2. ASSUME NEW i \in 0..n PROVE f[i] = g[i]
  <2>1. CASE i = 0
    BY <1>1, <2>1
  <2>2. CASE i # 0
    <3>1. i \in 1..n /\ i - 1 \in 0..n
      BY <2>2
    <3> QED
      BY <1>1, <2>2, <3>1
  <2> QED
    BY <2>1, <2>2
<1>3. f = g
  BY <1>2
<1>4. WalksBy(f, par, base, s, n)
  BY <1>3 DEF WalksBy
<1>5. Len(s) = n
  OBVIOUS
<1>6. PICK at : at = CHOOSE h : WalksBy(h, par, base, s, Len(s))
  OBVIOUS
<1>7. WalksBy(at, par, base, s, n)
  <2> HIDE DEF f
  <2> QED
    BY <1>4, <1>5, <1>6
<1>8. Walk(par, base, s) = at[n]
  BY <1>5, <1>6 DEF Walk, WalksBy
<1>9. at[0] = base /\ \A i \in 1..n : at[i] = Op(par, at[i - 1], s[i])
  <2>1. at = [i \in 0..n |-> IF i = 0 THEN base ELSE Op(par, at[i - 1], s[i])]
    BY <1>7 DEF WalksBy
  <2>2. 0 \in 0..n /\ \A i \in 1..n : i \in 0..n /\ i # 0
    OBVIOUS
  <2> QED
    BY <2>1, <2>2
<1> QED
  BY <1>8, <1>9

----------------------------------------------------------------------------
(* Filtering: r is what is left of the n elements of s when those outside  *)
(* of T are dropped.                                                       *)

Kept(r, s, n, T) ==
  \E run : /\ run[0] = <<>>
           /\ \A i \in 1..n : run[i] = IF s[i] \in T THEN Append(run[i - 1], s[i]) ELSE run[i - 1]
           /\ r = run[n]

\* A walk whose step keeps what is in T, filters.
LEMMA WalkKeeps ==
  ASSUME NEW par, NEW s, NEW n \in Nat, DOMAIN s = 1..n, NEW T,
         \A i \in 1..n : \A kept : Op(par, kept, s[i]) = IF s[i] \in T THEN Append(kept, s[i]) ELSE kept
  PROVE  Kept(Walk(par, <<>>, s), s, n, T)
<1>1. PICK run : /\ run[0] = <<>>
                 /\ \A i \in 1..n : run[i] = Op(par, run[i - 1], s[i])
                 /\ Walk(par, <<>>, s) = run[n]
  BY WalkRuns
<1>2. \A i \in 1..n : run[i] = IF s[i] \in T THEN Append(run[i - 1], s[i]) ELSE run[i - 1]
  BY <1>1
<1> QED
  BY <1>1, <1>2 DEF Kept

\* What is kept is in T and was there; what was there and is in T is kept.
Filtered(r, s, n, T, S) ==
  /\ r \in Seq(S \cap T)
  /\ \A i \in 1..n : s[i] \in T => \E j \in 1..Len(r) : r[j] = s[i]

\* What was kept is of the list and passes the test, with nothing left out.
LEMMA KeptFiltered ==
  ASSUME NEW s, NEW n \in Nat, NEW T, NEW S, \A i \in 1..n : s[i] \in S, NEW r, Kept(r, s, n, T)
  PROVE  Filtered(r, s, n, T, S)
<1>1. PICK run : /\ run[0] = <<>>
                 /\ \A i \in 1..n : run[i] = IF s[i] \in T THEN Append(run[i - 1], s[i]) ELSE run[i - 1]
                 /\ r = run[n]
  BY DEF Kept
<1> DEFINE Good(m) == /\ run[m] \in Seq(S \cap T)
                      /\ \A i \in 1..m : s[i] \in T => \E j \in 1..Len(run[m]) : run[m][j] = s[i]
           U == {m \in Nat : m <= n => Good(m)}
<1>2. 0 \in U
  <2>1. <<>> \in Seq(S \cap T) /\ Len(<<>>) = 0 /\ 1..0 = {}
    OBVIOUS
  <2>2. Good(0)
    BY <1>1, <2>1
  <2> QED
    BY <2>2
<1>3. ASSUME NEW m \in Nat, m \in U PROVE m + 1 \in U
  <2>1. SUFFICES ASSUME m + 1 <= n PROVE Good(m + 1)
    OBVIOUS
  <2>2. m + 1 \in 1..n /\ m <= n /\ (m + 1) - 1 = m
    BY <2>1
  <2>3. PICK a, b, x : a = run[m] /\ b = run[m + 1] /\ x = s[m + 1]
    OBVIOUS
  <2>4. /\ a \in Seq(S \cap T)
        /\ \A i \in 1..m : s[i] \in T => \E j \in 1..Len(a) : a[j] = s[i]
    BY <1>3, <2>2, <2>3
  <2>5. x \in S /\ b = IF x \in T THEN Append(a, x) ELSE a
    BY <1>1, <2>2, <2>3
  <2>6. \A i \in 1..(m + 1) : i \in 1..m \/ (i = m + 1 /\ s[i] = x)
    BY <2>3
  <2>7. CASE x \in T
    <3>1. b \in Seq(S \cap T) /\ Len(b) = Len(a) + 1 /\ Len(a) \in Nat /\ b[Len(b)] = x
      BY <2>4, <2>5, <2>7
    <3>2. \A j \in 1..Len(a) : j \in 1..Len(b) /\ b[j] = a[j]
      BY <2>4, <2>5, <2>7
    <3>3. ASSUME NEW i \in 1..(m + 1), s[i] \in T PROVE \E j \in 1..Len(b) : b[j] = s[i]
      <4>1. CASE i \in 1..m
        BY <2>4, <3>2, <3>3, <4>1
      <4>2. CASE s[i] = x
        <5>1. Len(b) \in 1..Len(b)
          BY <3>1
        <5> QED
          BY <3>1, <4>2, <5>1
      <4> QED
        BY <2>6, <4>1, <4>2
    <3> QED
      BY <2>3, <3>1, <3>3
  <2>8. CASE x \notin T
    <3>1. b = a
      BY <2>5, <2>8
    <3>2. ASSUME NEW i \in 1..(m + 1), s[i] \in T PROVE \E j \in 1..Len(b) : b[j] = s[i]
      BY <2>4, <2>6, <2>8, <3>1, <3>2
    <3> QED
      BY <2>3, <2>4, <3>1, <3>2
  <2> QED
    BY <2>7, <2>8
<1>4. Nat \subseteq U
  <2> HIDE DEF U
  <2> QED
    BY <1>2, <1>3, Induct
<1> QED
  BY <1>1, <1>4 DEF Filtered

\* In particular, it is a list of elements that pass.
LEMMA KeptThose ==
  ASSUME NEW s, NEW n \in Nat, NEW T, NEW S, \A i \in 1..n : s[i] \in S, NEW r, Kept(r, s, n, T)
  PROVE  r \in Seq(S \cap T)
BY KeptFiltered DEF Filtered

\* And has every one of them.
LEMMA KeptEach ==
  ASSUME NEW s, NEW n \in Nat, NEW T, NEW r, Kept(r, s, n, T), NEW i \in 1..n, s[i] \in T
  PROVE  \E j \in 1..Len(r) : r[j] = s[i]
<1>1. PICK S : S = {s[k] : k \in 1..n}
  OBVIOUS
<1>2. \A k \in 1..n : s[k] \in S
  BY <1>1
<1>3. Filtered(r, s, n, T, S)
  BY <1>2, KeptFiltered
<1> QED
  BY <1>3 DEF Filtered

\* Where everything is in T, everything is kept.
Whole(r, s, n, T) == r \in Seq(T) /\ Len(r) = n /\ \A i \in 1..n : r[i] = s[i]

\* If everything passes, everything is kept.
LEMMA KeptIsWhole ==
  ASSUME NEW s, NEW n \in Nat, NEW T, \A i \in 1..n : s[i] \in T, NEW r, Kept(r, s, n, T)
  PROVE  Whole(r, s, n, T)
<1>1. PICK run : /\ run[0] = <<>>
                 /\ \A i \in 1..n : run[i] = IF s[i] \in T THEN Append(run[i - 1], s[i]) ELSE run[i - 1]
                 /\ r = run[n]
  BY DEF Kept
<1> DEFINE Good(m) == /\ run[m] \in Seq(T) /\ Len(run[m]) = m
                      /\ \A i \in 1..m : run[m][i] = s[i]
           U == {m \in Nat : m <= n => Good(m)}
<1>2. 0 \in U
  <2>1. <<>> \in Seq(T) /\ Len(<<>>) = 0 /\ 1..0 = {}
    OBVIOUS
  <2>2. Good(0)
    BY <1>1, <2>1
  <2> QED
    BY <2>2
<1>3. ASSUME NEW m \in Nat, m \in U PROVE m + 1 \in U
  <2>1. SUFFICES ASSUME m + 1 <= n PROVE Good(m + 1)
    OBVIOUS
  <2>2. m + 1 \in 1..n /\ m <= n /\ (m + 1) - 1 = m
    BY <2>1
  <2>3. PICK a, b, x : a = run[m] /\ b = run[m + 1] /\ x = s[m + 1]
    OBVIOUS
  <2>4. a \in Seq(T) /\ Len(a) = m /\ \A i \in 1..m : a[i] = s[i]
    BY <1>3, <2>2, <2>3
  <2>5. x \in T /\ b = Append(a, x)
    BY <1>1, <2>2, <2>3
  <2>6. b \in Seq(T) /\ Len(b) = m + 1 /\ b[m + 1] = x /\ \A i \in 1..m : b[i] = a[i]
    BY <2>4, <2>5
  <2>7. \A i \in 1..(m + 1) : i \in 1..m \/ (i = m + 1 /\ s[i] = x)
    BY <2>3
  <2>8. \A i \in 1..(m + 1) : b[i] = s[i]
    BY <2>4, <2>6, <2>7
  <2> QED
    BY <2>3, <2>6, <2>8
<1>4. Nat \subseteq U
  <2> HIDE DEF U
  <2> QED
    BY <1>2, <1>3, Induct
<1> QED
  BY <1>1, <1>4 DEF Whole

\* The same, element by element.
LEMMA KeptAll ==
  ASSUME NEW s, NEW n \in Nat, NEW T, \A i \in 1..n : s[i] \in T, NEW r, Kept(r, s, n, T)
  PROVE  r \in Seq(T) /\ Len(r) = n /\ \A i \in 1..n : r[i] = s[i]
<1>1. Whole(r, s, n, T)
  BY KeptIsWhole
<1> QED
  BY <1>1 DEF Whole

\* Filtering a prefix is filtering as far as it goes.
KeptRun(run, s, n, T) ==
  /\ run[0] = <<>>
  /\ \A i \in 1..n : run[i] = IF s[i] \in T THEN Append(run[i - 1], s[i]) ELSE run[i - 1]

\* What was kept is the end of a run over the prefixes.
LEMMA KeptRunOf ==
  ASSUME NEW s, NEW n \in Nat, NEW T, NEW r, Kept(r, s, n, T)
  PROVE  \E run : KeptRun(run, s, n, T) /\ r = run[n]
BY DEF Kept, KeptRun

\* Whose members are what was kept of the prefixes.
LEMMA KeptPrefix ==
  ASSUME NEW run, NEW s, NEW n \in Nat, NEW T, KeptRun(run, s, n, T), NEW m \in Nat, m <= n
  PROVE  Kept(run[m], s, m, T)
<1>1. \A i \in 1..m : i \in 1..n
  OBVIOUS
<1> QED
  BY <1>1 DEF Kept, KeptRun

\* One test or another, if they agree on what is there.
LEMMA KeptSame ==
  ASSUME NEW s, NEW n \in Nat, NEW T, NEW U, \A i \in 1..n : s[i] \in T <=> s[i] \in U,
         NEW r, Kept(r, s, n, T)
  PROVE  Kept(r, s, n, U)
<1>1. PICK run : KeptRun(run, s, n, T) /\ r = run[n]
  BY KeptRunOf
<1>2. KeptRun(run, s, n, U)
  BY <1>1 DEF KeptRun
<1> QED
  BY <1>1, <1>2 DEF Kept, KeptRun

\* The test decides what is kept.
LEMMA KeptUnique ==
  ASSUME NEW s, NEW n \in Nat, NEW T, NEW r, NEW q, Kept(r, s, n, T), Kept(q, s, n, T)
  PROVE  r = q
<1>1. PICK a : KeptRun(a, s, n, T) /\ r = a[n]
  BY KeptRunOf
<1>2. PICK b : KeptRun(b, s, n, T) /\ q = b[n]
  BY KeptRunOf
<1> DEFINE U == {m \in Nat : m <= n => a[m] = b[m]}
<1>3. 0 \in U
  BY <1>1, <1>2 DEF KeptRun
<1>4. ASSUME NEW m \in Nat, m \in U PROVE m + 1 \in U
  <2>1. SUFFICES ASSUME m + 1 <= n PROVE a[m + 1] = b[m + 1]
    OBVIOUS
  <2>2. m + 1 \in 1..n /\ (m + 1) - 1 = m /\ a[m] = b[m]
    BY <1>4, <2>1
  <2> QED
    BY <1>1, <1>2, <2>2 DEF KeptRun
<1>5. n \in U
  <2> HIDE DEF U
  <2> QED
    BY <1>3, <1>4, Induct
<1> QED
  BY <1>1, <1>2, <1>5

\* One element more.
LEMMA KeptMore ==
  ASSUME NEW s, NEW n \in Nat, NEW T, NEW r, Kept(r, s, n, T),
         NEW t, \A i \in 1..n : t[i] = s[i], NEW x, t[n + 1] = x
  PROVE  Kept(IF x \in T THEN Append(r, x) ELSE r, t, n + 1, T)
<1>1. PICK a : KeptRun(a, s, n, T) /\ r = a[n]
  BY KeptRunOf
<1> DEFINE last == IF x \in T THEN Append(r, x) ELSE r
           b == [i \in 0..(n + 1) |-> IF i = n + 1 THEN last ELSE a[i]]
<1>2. b[0] = <<>> /\ b[n + 1] = last
  BY <1>1 DEF KeptRun
<1>3. ASSUME NEW i \in 1..(n + 1)
      PROVE  b[i] = IF t[i] \in T THEN Append(b[i - 1], t[i]) ELSE b[i - 1]
  <2>1. CASE i = n + 1
    <3>1. b[i] = last /\ b[i - 1] = r /\ t[i] = x
      BY <1>1, <2>1
    <3> HIDE DEF b
    <3> QED
      BY <3>1
  <2>2. CASE i # n + 1
    <3>1. i \in 1..n /\ b[i] = a[i] /\ b[i - 1] = a[i - 1] /\ t[i] = s[i]
      BY <2>2
    <3>2. a[i] = IF s[i] \in T THEN Append(a[i - 1], s[i]) ELSE a[i - 1]
      BY <1>1, <3>1 DEF KeptRun
    <3> HIDE DEF b
    <3> QED
      BY <3>1, <3>2
  <2> QED
    BY <2>1, <2>2
<1> HIDE DEF b, last
<1>4. Kept(last, t, n + 1, T)
  BY <1>2, <1>3 DEF Kept
<1> QED
  BY <1>4 DEF last

\* Something is always kept, if only the empty list.
LEMMA KeptExists ==
  ASSUME NEW s, NEW n \in Nat, NEW T
  PROVE  \E r : Kept(r, s, n, T)
<1> DEFINE S == {m \in Nat : \E r : Kept(r, s, m, T)}
<1>1. 0 \in S
  <2> DEFINE run == [i \in 0..0 |-> <<>>]
  <2>1. run[0] = <<>> /\ 1..0 = {}
    OBVIOUS
  <2> HIDE DEF run
  <2>2. Kept(run[0], s, 0, T)
    BY <2>1 DEF Kept
  <2> QED
    BY <2>2
<1>2. ASSUME NEW m \in Nat, m \in S PROVE m + 1 \in S
  <2>1. PICK r : Kept(r, s, m, T)
    BY <1>2
  <2>2. PICK x : x = s[m + 1]
    OBVIOUS
  <2>3. Kept(IF x \in T THEN Append(r, x) ELSE r, s, m + 1, T)
    BY <2>1, <2>2, KeptMore
  <2> QED
    BY <2>3
<1> HIDE DEF S
<1>3. Nat \subseteq S
  BY <1>1, <1>2, Induct
<1> QED
  BY <1>3 DEF S

\* What passes no test leaves nothing.
LEMMA KeptNone ==
  ASSUME NEW s, NEW n \in Nat, NEW T, \A i \in 1..n : s[i] \notin T, NEW r, Kept(r, s, n, T)
  PROVE  r = <<>>
<1>1. PICK S : S = {s[k] : k \in 1..n}
  OBVIOUS
<1>2. (\A i \in 1..n : s[i] \in S) /\ S \cap T = {}
  BY <1>1
<1>3. r \in Seq({})
  BY <1>2, KeptThose
<1> QED
  BY <1>3

\* Filtering what is left is filtering by both tests.
LEMMA KeptTwice ==
  ASSUME NEW s, NEW n \in Nat, NEW T, NEW U,
         NEW r, Kept(r, s, n, T), NEW p, Kept(p, s, n, T \cap U)
  PROVE  Kept(p, r, Len(r), U)
<1>0. PICK S : S = {s[k] : k \in 1..n}
  OBVIOUS
<1>1. PICK a : KeptRun(a, s, n, T) /\ r = a[n]
  BY KeptRunOf
<1>2. PICK b : KeptRun(b, s, n, T \cap U) /\ p = b[n]
  BY KeptRunOf
<1>3. ASSUME NEW m \in Nat, m <= n PROVE a[m] \in Seq(S \cap T)
  <2>1. Kept(a[m], s, m, T)
    BY <1>1, <1>3, KeptPrefix
  <2>2. \A i \in 1..m : s[i] \in S
    BY <1>0, <1>3
  <2> QED
    BY <2>1, <2>2, KeptThose
<1> DEFINE V == {m \in Nat : m <= n => Kept(b[m], a[m], Len(a[m]), U)}
<1>4. 0 \in V
  <2>1. a[0] = <<>> /\ b[0] = <<>> /\ Len(a[0]) = 0
    BY <1>1, <1>2 DEF KeptRun
  <2>2. PICK q : Kept(q, a[0], 0, U)
    BY KeptExists
  <2>3. q = <<>>
    <3>1. \A i \in 1..0 : a[0][i] \notin U
      OBVIOUS
    <3> QED
      BY <2>2, <3>1, KeptNone
  <2>4. Kept(b[0], a[0], Len(a[0]), U)
    BY <2>1, <2>2, <2>3
  <2> QED
    BY <2>4
<1>5. ASSUME NEW m \in Nat, m \in V PROVE m + 1 \in V
  <2>1. SUFFICES ASSUME m + 1 <= n PROVE Kept(b[m + 1], a[m + 1], Len(a[m + 1]), U)
    OBVIOUS
  <2>2. m + 1 \in 1..n /\ m <= n /\ (m + 1) - 1 = m
    BY <2>1
  <2>3. PICK x, a0, a1, b0, b1 : /\ x = s[m + 1] /\ a0 = a[m] /\ b0 = b[m]
                                 /\ a1 = a[m + 1] /\ b1 = b[m + 1]
    OBVIOUS
  <2>4. a1 = IF x \in T THEN Append(a0, x) ELSE a0
    BY <1>1, <2>2, <2>3 DEF KeptRun
  <2>5. b1 = IF x \in T \cap U THEN Append(b0, x) ELSE b0
    BY <1>2, <2>2, <2>3 DEF KeptRun
  <2>6. a0 \in Seq(S \cap T) /\ Len(a0) \in Nat /\ Kept(b0, a0, Len(a0), U)
    BY <1>3, <1>5, <2>2, <2>3
  <2>7. Kept(b1, a1, Len(a1), U)
    <3>1. CASE x \in T
      <4>1. /\ a1 = Append(a0, x) /\ Len(a1) = Len(a0) + 1
            /\ \A i \in 1..Len(a0) : a1[i] = a0[i]
            /\ a1[Len(a0) + 1] = x
        BY <2>4, <2>6, <3>1
      <4>2. b1 = IF x \in U THEN Append(b0, x) ELSE b0
        BY <2>5, <3>1
      <4>3. Kept(IF x \in U THEN Append(b0, x) ELSE b0, a1, Len(a0) + 1, U)
        BY <2>6, <4>1, KeptMore
      <4> QED
        BY <4>1, <4>2, <4>3
    <3>2. CASE x \notin T
      BY <2>4, <2>5, <2>6, <3>2
    <3> QED
      BY <3>1, <3>2
  <2> QED
    BY <2>3, <2>7
<1>6. n \in V
  <2> HIDE DEF V
  <2> QED
    BY <1>4, <1>5, Induct
<1> QED
  BY <1>1, <1>2, <1>6

\* Filtering the images is taking the images of what is left.
Follows(q, r, G) == Len(q) = Len(r) /\ \A j \in 1..Len(r) : q[j] = G[r[j]]

\* Filtering and renaming element by element commute.
LEMMA KeptMapped ==
  ASSUME NEW s, NEW t, NEW n \in Nat, NEW T, NEW U, NEW G,
         \A i \in 1..n : t[i] = G[s[i]] /\ (s[i] \in T <=> t[i] \in U),
         NEW r, Kept(r, s, n, T), NEW q, Kept(q, t, n, U)
  PROVE  Follows(q, r, G)
<1>0. PICK S, R : S = {s[k] : k \in 1..n} /\ R = {t[k] : k \in 1..n}
  OBVIOUS
<1>1. PICK a : KeptRun(a, s, n, T) /\ r = a[n]
  BY KeptRunOf
<1>2. PICK b : KeptRun(b, t, n, U) /\ q = b[n]
  BY KeptRunOf
<1>3. ASSUME NEW m \in Nat, m <= n PROVE a[m] \in Seq(S \cap T) /\ b[m] \in Seq(R \cap U)
  <2>1. Kept(a[m], s, m, T) /\ Kept(b[m], t, m, U)
    BY <1>1, <1>2, <1>3, KeptPrefix
  <2>2. \A i \in 1..m : s[i] \in S /\ t[i] \in R
    BY <1>0, <1>3
  <2>3. a[m] \in Seq(S \cap T)
    BY <2>1, <2>2, KeptThose
  <2>4. b[m] \in Seq(R \cap U)
    BY <2>1, <2>2, KeptThose
  <2> QED
    BY <2>3, <2>4
<1> DEFINE Alike(m) == Len(b[m]) = Len(a[m]) /\ \A j \in 1..Len(a[m]) : b[m][j] = G[a[m][j]]
           V == {m \in Nat : m <= n => Alike(m)}
<1>4. 0 \in V
  <2>1. a[0] = <<>> /\ b[0] = <<>> /\ Len(<<>>) = 0 /\ 1..0 = {}
    BY <1>1, <1>2 DEF KeptRun
  <2> QED
    BY <2>1
<1>5. ASSUME NEW m \in Nat, m \in V PROVE m + 1 \in V
  <2>1. SUFFICES ASSUME m + 1 <= n PROVE Alike(m + 1)
    OBVIOUS
  <2>2. m + 1 \in 1..n /\ m <= n /\ (m + 1) - 1 = m
    BY <2>1
  <2>3. PICK x, y, a0, a1, b0, b1 : /\ x = s[m + 1] /\ a0 = a[m] /\ b0 = b[m] /\ y = t[m + 1]
                                    /\ a1 = a[m + 1] /\ b1 = b[m + 1]
    OBVIOUS
  <2>4. a1 = IF x \in T THEN Append(a0, x) ELSE a0
    BY <1>1, <2>2, <2>3 DEF KeptRun
  <2>5. b1 = IF y \in U THEN Append(b0, y) ELSE b0
    BY <1>2, <2>2, <2>3 DEF KeptRun
  <2>6. a0 \in Seq(S \cap T) /\ b0 \in Seq(R \cap U) /\ Len(a0) \in Nat
    <3>1. a0 \in Seq(S \cap T) /\ b0 \in Seq(R \cap U)
      BY <1>3, <2>2, <2>3
    <3> QED
      BY <3>1
  <2>7. Len(b0) = Len(a0) /\ \A j \in 1..Len(a0) : b0[j] = G[a0[j]]
    BY <1>5, <2>2, <2>3
  <2>8. y = G[x] /\ (x \in T <=> y \in U)
    BY <2>2, <2>3
  <2>9. Len(b1) = Len(a1) /\ \A j \in 1..Len(a1) : b1[j] = G[a1[j]]
    <3>1. CASE x \in T
      <4>1. a1 = Append(a0, x) /\ b1 = Append(b0, y)
        BY <2>4, <2>5, <2>8, <3>1
      <4>2. /\ Len(a1) = Len(a0) + 1 /\ Len(b1) = Len(a0) + 1
            /\ a1[Len(a0) + 1] = x /\ b1[Len(a0) + 1] = y
        BY <2>6, <2>7, <4>1
      <4>3. \A j \in 1..Len(a0) : a1[j] = a0[j] /\ b1[j] = b0[j]
        BY <2>6, <2>7, <4>1
      <4>4. \A j \in 1..Len(a1) : j \in 1..Len(a0) \/ j = Len(a0) + 1
        BY <2>6, <4>2
      <4> QED
        BY <2>7, <2>8, <4>2, <4>3, <4>4
    <3>2. CASE x \notin T
      BY <2>4, <2>5, <2>7, <2>8, <3>2
    <3> QED
      BY <3>1, <3>2
  <2> QED
    BY <2>3, <2>9
<1>6. n \in V
  <2> HIDE DEF V
  <2> QED
    BY <1>4, <1>5, Induct
<1> QED
  BY <1>1, <1>2, <1>6 DEF Follows

\* A list all of which passes is left as it is.
LEMMA KeptWhole ==
  ASSUME NEW U, NEW s \in Seq(U), NEW T, \A i \in 1..Len(s) : s[i] \in T,
         NEW r, Kept(r, s, Len(s), T)
  PROVE  r = s
<1>1. PICK n : n = Len(s) /\ n \in Nat /\ DOMAIN s = 1..n
  OBVIOUS
<1>2. Kept(r, s, n, T) /\ \A i \in 1..n : s[i] \in T
  BY <1>1
<1>3. Whole(r, s, n, T)
  BY <1>1, <1>2, KeptIsWhole
<1> QED
  BY <1>1, <1>3 DEF Whole
============================================================================
