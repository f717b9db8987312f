-------------------------- MODULE Upstream_proofs --------------------------
(***************************************************************************)
(* An upstream group, for any number of instances and of concurrent tasks  *)
(* and any thresholds: outlier detection, the picks and the loads they     *)
(* carry, and the health of an instance.  The three specifications share   *)
(* no variable (each lets the others do their worst); they are proved      *)
(* together because they are one component.                                *)
(***************************************************************************)
EXTENDS OutlierDetection, LoadBalancer, InstanceHealth, FiniteSetTheorems, TLAPS

----------------------------------------------------------------------------
\* Outlier detection.

\* A task that is counting has read the instances before scan.next, by a clock
\* value that is not ahead of the clock, and counted no more than it read.
ScanProgress ==
  \A t \in Tasks :
    \/ scan[t] = NoScan
    \/ /\ scan[t].at \in Instances
       /\ scan[t].next \in 1..N + 1
       /\ scan[t].now_ms \in 0..now
       /\ scan[t].already \in 0..scan[t].next - 1

\* The count takes account of the instances in B: either it is not going on, or
\* it includes as many as there are of them among the instances read so far.
Accounts(s, B) ==
  s = NoScan \/ Cardinality({i \in B : i < s.next}) <= s.already

\* The ejected instances that were ejected no later than i.
UpTo(rank, i) == {j \in Ejected : rank[j] <= rank[i]}

\* rank orders the ejections still in force, by says which task carried each of
\* them out.  That task began any count it has under way afterwards, so it takes
\* account of this ejection and the earlier ones; and if these are as many as
\* the cap allows, it cannot have made a later ejection.
Attributed(rank, by) ==
  /\ \A i, j \in Ejected : rank[i] = rank[j] => i = j
  /\ \A i \in Ejected : Accounts(scan[by[i]], UpTo(rank, i))
  /\ \A i, j \in Ejected :
       rank[i] < rank[j] /\ Cardinality(UpTo(rank, i)) >= EjectionCap => by[i] # by[j]

EjectionsOrdered ==
  \E top \in Nat : \E rank \in [Instances -> 0..top], by \in [Instances -> Tasks] :
    Attributed(rank, by)

NoneBelowOne == EjectionCap = 0 => Ejected = {}

OutlierInv ==
  /\ OutlierTypeOK /\ ScanProgress /\ StreakResolved /\ WindowBounded
  /\ NoneBelowOne /\ EjectionsOrdered

\* Sets of instances are finite, and a smaller one has no more elements.
LEMMA InstancesFinite ==
  ASSUME NEW B \in SUBSET Instances
  PROVE  /\ IsFiniteSet(B)
         /\ Cardinality(B) \in Nat
         /\ \A C \in SUBSET B : IsFiniteSet(C) /\ Cardinality(C) \in Nat
                                /\ Cardinality(C) <= Cardinality(B)
<1>1. IsFiniteSet(Instances)
  BY FS_Interval, GroupAssumption DEF GroupAssumption, Instances
<1>2. IsFiniteSet(B)
  BY <1>1, FS_Subset
<1> QED
  BY <1>2, FS_Subset, FS_CardinalityType

\* A count that takes account of a set takes account of its subsets.
LEMMA AccountsSubset ==
  ASSUME NEW s, s = NoScan \/ s.already \in Nat,
         NEW B \in SUBSET Instances, NEW C \in SUBSET B, Accounts(s, B)
  PROVE  Accounts(s, C)
<1>1. {i \in C : i < s.next} \subseteq {i \in B : i < s.next}
  OBVIOUS
<1>2. {i \in B : i < s.next} \in SUBSET Instances
  OBVIOUS
<1>3. /\ Cardinality({i \in B : i < s.next}) \in Nat
      /\ Cardinality({i \in C : i < s.next}) \in Nat
      /\ Cardinality({i \in C : i < s.next}) <= Cardinality({i \in B : i < s.next})
  BY <1>1, <1>2, InstancesFinite
<1> QED
  BY <1>3 DEF Accounts

\* What the cap's integer test says of the count.
LEMMA CapTest ==
  ASSUME NEW already \in Nat
  PROVE  /\ EjectionCap \in Nat
         /\ ~OverCap(already) => already + 1 <= EjectionCap
<1> DEFINE share == MaxEjectionPercent * N
<1>1. share \in Nat
  BY GroupAssumption, OutlierAssumption DEF GroupAssumption, OutlierAssumption
<1>2. EjectionCap = share \div 100
  BY DEF EjectionCap
<1>3. OverCap(already) <=> (already + 1) * 100 > share
  BY DEF OverCap
<1> HIDE DEF share
<1> QED
  BY <1>1, <1>2, <1>3

\* The argument for the cap.  The ejections that come after the first
\* EjectionCap - 1 of those in force were made by different tasks.
LEMMA OrderedMeansBounded ==
  ASSUME OutlierTypeOK, NoneBelowOne, EjectionsOrdered PROVE OvershootBounded
<1>1. /\ EjectionCap \in Nat
      /\ IsFiniteSet(Tasks) /\ Cardinality(Tasks) \in Nat \ {0}
  <2>1. IsFiniteSet(Tasks) /\ Tasks # {}
    BY GroupAssumption DEF GroupAssumption
  <2>2. Cardinality(Tasks) \in Nat \ {0}
    BY <2>1, FS_CardinalityType, FS_EmptySet
  <2> QED
    BY <2>1, <2>2, CapTest
<1>2. CASE EjectionCap = 0
  <2>1. Cardinality(Ejected) = 0
    BY <1>2, FS_EmptySet DEF NoneBelowOne
  <2> QED
    BY <1>1, <1>2, <2>1 DEF OvershootBounded
<1>3. CASE EjectionCap # 0
  <2>1. PICK top \in Nat : \E rank \in [Instances -> 0..top], by \in [Instances -> Tasks] :
               Attributed(rank, by)
    BY DEF EjectionsOrdered
  <2>2. PICK rank \in [Instances -> 0..top], by \in [Instances -> Tasks] : Attributed(rank, by)
    BY <2>1
  <2> DEFINE Late  == {i \in Ejected : Cardinality(UpTo(rank, i)) >= EjectionCap}
             Early == Ejected \ Late
  <2>3. Ejected \in SUBSET Instances /\ IsFiniteSet(Ejected)
    BY InstancesFinite DEF Ejected
  <2>4. \A i \in Instances : rank[i] \in Nat
    BY <2>2
  <2>5. \A i \in Ejected : IsFiniteSet(UpTo(rank, i)) /\ Cardinality(UpTo(rank, i)) \in Nat
    <3>1. \A i \in Ejected : UpTo(rank, i) \in SUBSET Instances
      BY <2>3 DEF UpTo
    <3> QED
      BY <3>1, InstancesFinite
  <2>6. IsFiniteSet(Late) /\ IsFiniteSet(Early)
        /\ Cardinality(Late) \in Nat /\ Cardinality(Early) \in Nat
    BY <2>3, FS_Subset, FS_CardinalityType
  <2>7. Cardinality(Late) <= Cardinality(Tasks)
    <3>1. SUFFICES ASSUME Cardinality(Tasks) < Cardinality(Late) PROVE FALSE
      BY <1>1, <2>6
    <3> DEFINE f == [i \in Late |-> by[i]]
    <3>2. f \in [Late -> Tasks]
      BY <2>2, <2>3
    <3>3. PICK i, j \in Late : i # j /\ f[i] = f[j]
      <4> HIDE DEF f, Late
      <4> QED
        BY <1>1, <2>6, <3>1, <3>2, FS_PigeonHole
    <3>4. rank[i] # rank[j] /\ by[i] = by[j]
      BY <2>2, <3>3 DEF Attributed
    <3>5. rank[i] < rank[j] \/ rank[j] < rank[i]
      BY <2>3, <2>4, <3>3, <3>4
    <3> QED
      BY <2>2, <3>3, <3>4, <3>5 DEF Attributed
  <2>8. Cardinality(Early) <= EjectionCap - 1
    <3>1. SUFFICES ASSUME EjectionCap - 1 < Cardinality(Early) PROVE FALSE
      BY <1>1, <2>6
    <3> DEFINE f == [i \in Early |-> Cardinality(UpTo(rank, i))]
    <3>2. f \in [Early -> 1..EjectionCap - 1]
      <4>1. SUFFICES ASSUME NEW i \in Early
                     PROVE  Cardinality(UpTo(rank, i)) \in 1..EjectionCap - 1
        OBVIOUS
      <4>2. i \in UpTo(rank, i)
        BY <2>3, <2>4 DEF UpTo
      <4>3. Cardinality(UpTo(rank, i)) # 0
        BY <2>5, <4>2, FS_EmptySet
      <4> QED
        BY <1>1, <2>5, <4>3
    <3>3. IsFiniteSet(1..EjectionCap - 1) /\ Cardinality(1..EjectionCap - 1) = EjectionCap - 1
      BY <1>1, <1>3, FS_Interval
    <3>4. PICK i, j \in Early : i # j /\ f[i] = f[j]
      <4> HIDE DEF f, Early
      <4> QED
        BY <2>6, <3>1, <3>2, <3>3, FS_PigeonHole
    <3>5. rank[i] < rank[j] \/ rank[j] < rank[i]
      <4>1. rank[i] # rank[j]
        BY <2>2, <3>4 DEF Attributed
      <4> QED
        BY <2>3, <2>4, <3>4, <4>1
    <3>6. ASSUME NEW x \in Early, NEW y \in Early, rank[x] < rank[y],
                 Cardinality(UpTo(rank, x)) = Cardinality(UpTo(rank, y))
          PROVE  FALSE
      <4>1. UpTo(rank, x) \subseteq UpTo(rank, y)
        BY <2>3, <2>4, <3>6 DEF UpTo
      <4>2. y \in UpTo(rank, y) /\ y \notin UpTo(rank, x)
        BY <2>3, <2>4, <3>6 DEF UpTo
      <4> QED
        BY <2>5, <3>6, <4>1, <4>2, FS_Subset
    <3> QED
      BY <3>4, <3>5, <3>6
  <2>9. Cardinality(Ejected) <= Cardinality(Early) + Cardinality(Late)
    <3>1. Ejected = Early \cup Late /\ Early \cap Late = {}
      OBVIOUS
    <3> HIDE DEF Early, Late
    <3>2. Cardinality(Ejected) = Cardinality(Early) + Cardinality(Late) - Cardinality({})
      BY <2>6, <3>1, FS_Union
    <3> QED
      BY <2>6, <3>2, FS_EmptySet
  <2>10. Cardinality(Ejected) \in Nat
    BY <2>3, FS_CardinalityType
  <2> HIDE DEF Early, Late
  <2> QED
    BY <1>1, <1>3, <2>6, <2>7, <2>8, <2>9, <2>10 DEF OvershootBounded
<1> QED
  BY <1>2, <1>3

LEMMA OutlierInitInv == OutlierInit => OutlierInv
<1> SUFFICES ASSUME OutlierInit PROVE OutlierInv
  OBVIOUS
<1> USE GroupAssumption, OutlierAssumption, PowersGrow
        DEF OutlierInit, GroupAssumption, OutlierAssumption
<1>1. OutlierTypeOK
  BY DEF OutlierTypeOK, Scans, NoScan
<1>2. ScanProgress /\ StreakResolved
  BY DEF ScanProgress, StreakResolved
<1>3. WindowBounded
  <2>1. 2^BackoffShiftCap \in Nat
    OBVIOUS
  <2>2. BaseEjection * 2^BackoffShiftCap \in Nat
    BY <2>1
  <2> QED
    BY <2>2 DEF WindowBounded
<1>4. Ejected = {}
  BY DEF Ejected, is_outlier_ejected
<1>5. EjectionsOrdered
  <2>1. PICK t \in Tasks : TRUE
    OBVIOUS
  <2> DEFINE rank == [i \in Instances |-> 0]
             by   == [i \in Instances |-> t]
  <2>2. Attributed(rank, by)
    BY <1>4 DEF Attributed
  <2>3. rank \in [Instances -> 0..0] /\ by \in [Instances -> Tasks]
    OBVIOUS
  <2> HIDE DEF rank, by
  <2> QED
    BY <2>2, <2>3 DEF EjectionsOrdered
<1> QED
  BY <1>1, <1>2, <1>3, <1>4, <1>5 DEF OutlierInv, NoneBelowOne

\* A step that ejects nothing keeps the ejections ordered, if the counts go on
\* taking account of what they took account of.
LEMMA OrderKept ==
  ASSUME OutlierTypeOK, EjectionsOrdered, Ejected' \subseteq Ejected,
         \A t \in Tasks : scan[t] = NoScan \/ scan[t].already \in Nat,
         \A t \in Tasks : \A B \in SUBSET Ejected' :
           Accounts(scan[t], B) => Accounts(scan'[t], B)
  PROVE  EjectionsOrdered'
<1>1. PICK top \in Nat : \E rank \in [Instances -> 0..top], by \in [Instances -> Tasks] :
             Attributed(rank, by)
  BY DEF EjectionsOrdered
<1>2. PICK rank \in [Instances -> 0..top], by \in [Instances -> Tasks] : Attributed(rank, by)
  BY <1>1
<1> DEFINE After(i) == {j \in Ejected' : rank[j] <= rank[i]}
<1>3. Ejected \in SUBSET Instances
  BY DEF Ejected
<1>4. ASSUME NEW i \in Ejected'
      PROVE  /\ After(i) \in SUBSET UpTo(rank, i) /\ UpTo(rank, i) \in SUBSET Instances
             /\ Cardinality(After(i)) \in Nat /\ Cardinality(UpTo(rank, i)) \in Nat
             /\ Cardinality(After(i)) <= Cardinality(UpTo(rank, i))
  <2>1. After(i) \in SUBSET UpTo(rank, i) /\ UpTo(rank, i) \in SUBSET Instances
    BY <1>3 DEF UpTo
  <2> QED
    BY <2>1, InstancesFinite
<1>5. \A i, j \in Ejected' : rank[i] = rank[j] => i = j
  BY <1>2 DEF Attributed
<1>6. ASSUME NEW i \in Ejected' PROVE Accounts(scan'[by[i]], After(i))
  <2>1. Accounts(scan[by[i]], UpTo(rank, i)) /\ by[i] \in Tasks
    BY <1>2, <1>3 DEF Attributed
  <2>2. Accounts(scan[by[i]], After(i))
    BY <1>4, <2>1, AccountsSubset
  <2>3. After(i) \in SUBSET Ejected'
    OBVIOUS
  <2> QED
    BY <2>1, <2>2, <2>3
<1>7. ASSUME NEW i \in Ejected', NEW j \in Ejected', rank[i] < rank[j],
             Cardinality(After(i)) >= EjectionCap
      PROVE  by[i] # by[j]
  <2>1. EjectionCap \in Nat
    BY CapTest
  <2>2. Cardinality(UpTo(rank, i)) >= EjectionCap
    BY <1>4, <1>7, <2>1
  <2> QED
    BY <1>2, <1>7, <2>2 DEF Attributed
<1>8. EjectionCap' = EjectionCap
  BY DEF EjectionCap
<1>9. Attributed(rank, by)'
  BY <1>5, <1>6, <1>7, <1>8 DEF Attributed, UpTo
<1> QED
  BY <1>2, <1>9 DEF EjectionsOrdered

\* An ejection is the latest; its task has just finished its count, so it made
\* none of the ejections after the first EjectionCap - 1.
LEMMA OrderExtended ==
  ASSUME OutlierInv, NEW t \in Tasks, Eject(t)
  PROVE  EjectionsOrdered'
<1> DEFINE a == scan[t].at
<1>0. /\ OutlierTypeOK /\ ScanProgress /\ EjectionsOrdered
      /\ GroupAssumption
  BY GroupAssumption DEF OutlierInv
<1>1. /\ a \in Instances /\ scan[t].next = N + 1 /\ scan[t].already \in Nat
      /\ scan[t] # NoScan /\ ~OverCap(scan[t].already)
  BY <1>0 DEF Eject, ScanProgress, NoScan, GroupAssumption
<1>2. /\ scan' = [scan EXCEPT ![t] = NoScan]
      /\ \A i \in Instances : i # a => outlier_ejected_until'[i] = outlier_ejected_until[i]
      /\ now' = now
  BY <1>0 DEF Eject, OutlierTypeOK
<1>3. Ejected' \subseteq Ejected \cup {a}
  BY <1>2 DEF Ejected, is_outlier_ejected
<1>4. PICK top \in Nat : \E rank \in [Instances -> 0..top], by \in [Instances -> Tasks] :
             Attributed(rank, by)
  BY <1>0 DEF EjectionsOrdered
<1>5. PICK rank \in [Instances -> 0..top], by \in [Instances -> Tasks] : Attributed(rank, by)
  BY <1>4
<1>6. Ejected \in SUBSET Instances /\ Ejected' \in SUBSET Instances
  BY DEF Ejected, Instances
<1>7. PICK newRank \in [Instances -> 0..top + 1], newBy \in [Instances -> Tasks] :
             /\ newRank[a] = top + 1 /\ newBy[a] = t
             /\ \A i \in Instances : i # a => /\ newRank[i] = rank[i]
                                               /\ newRank[i] \in 0..top
                                               /\ newBy[i] = by[i]
  <2> DEFINE r == [rank EXCEPT ![a] = top + 1]
             b == [by EXCEPT ![a] = t]
  <2>1. /\ r \in [Instances -> 0..top + 1] /\ b \in [Instances -> Tasks]
        /\ r[a] = top + 1 /\ b[a] = t
        /\ \A i \in Instances : i # a => r[i] = rank[i] /\ r[i] \in 0..top /\ b[i] = by[i]
    BY <1>1, <1>5
  <2> HIDE DEF r, b
  <2> QED
    BY <2>1
<1> DEFINE After(i) == {j \in Ejected' : newRank[j] <= newRank[i]}
<1> HIDE DEF a
<1>8. ASSUME NEW i \in Ejected', i # a
      PROVE  /\ i \in Ejected
             /\ After(i) \in SUBSET UpTo(rank, i) /\ UpTo(rank, i) \in SUBSET Instances
             /\ Cardinality(After(i)) \in Nat /\ Cardinality(UpTo(rank, i)) \in Nat
             /\ Cardinality(After(i)) <= Cardinality(UpTo(rank, i))
  <2>1. i \in Ejected /\ i \in Instances
    BY <1>3, <1>6, <1>8
  <2>2. \A j \in After(i) : j \in Ejected /\ rank[j] <= rank[i]
    <3>1. TAKE j \in After(i)
    <3>2. j \in Instances /\ newRank[j] <= newRank[i] /\ newRank[i] <= top
      BY <1>6, <1>7, <1>8, <2>1
    <3>3. j # a
      BY <1>7, <3>2, <2>1, <1>8
    <3> QED
      BY <1>3, <1>7, <1>8, <2>1, <3>2, <3>3
  <2>3. After(i) \in SUBSET UpTo(rank, i) /\ UpTo(rank, i) \in SUBSET Instances
    BY <1>6, <2>2 DEF UpTo
  <2> QED
    BY <2>1, <2>3, InstancesFinite
<1>9. \A i, j \in Ejected' : newRank[i] = newRank[j] => i = j
  <2>1. SUFFICES ASSUME NEW i \in Ejected', NEW j \in Ejected', newRank[i] = newRank[j], i # j
                 PROVE  FALSE
    OBVIOUS
  <2>2. i \in Instances /\ j \in Instances
    BY <1>6
  <2>3. i # a /\ j # a
    BY <1>7, <2>1, <2>2
  <2>4. rank[i] = rank[j]
    BY <1>7, <2>1, <2>2, <2>3
  <2> QED
    BY <1>5, <1>8, <2>1, <2>3, <2>4 DEF Attributed
<1>10. ASSUME NEW i \in Ejected' PROVE Accounts(scan'[newBy[i]], After(i))
  <2>1. CASE i = a
    BY <1>2, <1>7, <1>0, <2>1 DEF Accounts, OutlierTypeOK
  <2>2. CASE i # a
    <3>1. newBy[i] = by[i] /\ by[i] \in Tasks /\ Accounts(scan[by[i]], UpTo(rank, i))
      BY <1>5, <1>6, <1>7, <1>8, <2>2 DEF Attributed
    <3>2. scan[by[i]] = NoScan \/ scan[by[i]].already \in Nat
      BY <1>0, <3>1 DEF OutlierTypeOK, Scans
    <3>3. Accounts(scan[by[i]], After(i))
      BY <1>8, <2>2, <3>1, <3>2, AccountsSubset
    <3>4. scan'[by[i]] = NoScan \/ scan'[by[i]] = scan[by[i]]
      BY <1>0, <1>2, <3>1 DEF OutlierTypeOK
    <3> QED
      BY <3>1, <3>3, <3>4 DEF Accounts
  <2> QED
    BY <2>1, <2>2
<1>11. ASSUME NEW i \in Ejected', NEW j \in Ejected', newRank[i] < newRank[j],
              Cardinality(After(i)) >= EjectionCap
       PROVE  newBy[i] # newBy[j]
  <2>1. EjectionCap \in Nat /\ scan[t].already + 1 <= EjectionCap
    BY <1>1, CapTest
  <2>2. i \in Instances /\ j \in Instances /\ i # a
    BY <1>6, <1>7, <1>11
  <2>3. Cardinality(UpTo(rank, i)) >= EjectionCap
    BY <1>8, <1>11, <2>1, <2>2
  <2>4. CASE j # a
    <3>1. rank[i] < rank[j]
      BY <1>7, <1>11, <2>2, <2>4
    <3>2. by[i] # by[j]
      BY <1>5, <1>8, <2>2, <2>3, <2>4, <3>1 DEF Attributed
    <3> QED
      BY <1>7, <2>2, <2>4, <3>2
  <2>5. CASE j = a
    <3>1. SUFFICES ASSUME by[i] = t PROVE FALSE
      BY <1>7, <2>2, <2>5
    <3>2. Accounts(scan[t], UpTo(rank, i))
      BY <1>5, <1>8, <2>2, <3>1 DEF Attributed
    <3>3. \A x \in UpTo(rank, i) : x < scan[t].next
      <4>1. \A x \in Instances : x < N + 1
        BY <1>0 DEF Instances, GroupAssumption
      <4>2. UpTo(rank, i) \in SUBSET Instances
        BY <1>8, <2>2
      <4> QED
        BY <1>1, <4>1, <4>2
    <3>4. {x \in UpTo(rank, i) : x < scan[t].next} = UpTo(rank, i)
      BY <3>3
    <3>5. Cardinality(UpTo(rank, i)) <= scan[t].already
      BY <1>1, <3>2, <3>4 DEF Accounts
    <3>6. Cardinality(UpTo(rank, i)) \in Nat
      BY <1>8, <2>2
    <3> QED
      BY <1>1, <2>1, <2>3, <3>5, <3>6
  <2> QED
    BY <2>4, <2>5
<1>12. EjectionCap' = EjectionCap
  BY DEF EjectionCap
<1>13. Attributed(newRank, newBy)'
  BY <1>9, <1>10, <1>11, <1>12 DEF Attributed, UpTo
<1>14. top + 1 \in Nat
  OBVIOUS
<1>15. Instances' = Instances
  BY DEF Instances
<1> QED
  BY <1>7, <1>13, <1>14, <1>15 DEF EjectionsOrdered

LEMMA OutlierNextInv == OutlierInv /\ [OutlierNext]_outlierVars => OutlierInv'
<1> SUFFICES ASSUME OutlierInv, [OutlierNext]_outlierVars PROVE OutlierInv'
  OBVIOUS
<1>0. /\ OutlierTypeOK /\ ScanProgress /\ StreakResolved /\ WindowBounded
      /\ NoneBelowOne /\ EjectionsOrdered
      /\ N \in Nat \ {0} /\ Consecutive \in Nat \ {0} /\ BaseEjection \in Nat
      /\ BackoffShiftCap \in Nat /\ NoTask \notin Tasks
      /\ \A t \in Tasks : scan[t] = NoScan \/ scan[t].already \in Nat
      /\ NoScan \in Scans
  BY GroupAssumption, OutlierAssumption
     DEF OutlierInv, GroupAssumption, OutlierAssumption, OutlierTypeOK, Scans, NoScan
<1> DEFINE longest == BaseEjection * 2^BackoffShiftCap
<1>a. longest \in Nat
  BY <1>0, PowersGrow
<1>b. WindowBounded <=> \A i \in Instances : outlier_ejected_until[i] <= now + longest
  BY DEF WindowBounded
<1>c. WindowBounded' <=> \A i \in Instances : outlier_ejected_until'[i] <= now' + longest
  BY DEF WindowBounded, Instances
<1>d. \A j \in Instances : j \in Nat /\ j >= 1
  BY <1>0 DEF Instances
<1> HIDE DEF longest
\* Steps that leave the ejections and the scans alone.
<1>1. ASSUME UNCHANGED <<outlier_ejected_until, now, scan>>
      PROVE  ScanProgress' /\ WindowBounded' /\ NoneBelowOne' /\ EjectionsOrdered'
  <2>1. Ejected' = Ejected
    BY <1>1 DEF Ejected, is_outlier_ejected
  <2>2. NoneBelowOne'
    BY <1>0, <2>1 DEF NoneBelowOne, EjectionCap
  <2>3. EjectionsOrdered'
    BY <1>0, <1>1, <2>1, OrderKept
  <2> QED
    BY <1>0, <1>1, <1>b, <1>c, <2>2, <2>3 DEF ScanProgress, Instances
<1>2. ASSUME NEW t \in Tasks, NEW i \in Instances, RecordSuccess(t, i) PROVE OutlierInv'
  <2>1. OutlierTypeOK' /\ StreakResolved'
    BY <1>0, <1>2 DEF RecordSuccess, OutlierTypeOK, StreakResolved, Instances
  <2> QED
    BY <1>1, <1>2, <2>1 DEF OutlierInv, RecordSuccess
<1>3. ASSUME NEW t \in Tasks, NEW i \in Instances, RecordFailure(t, i) PROVE OutlierInv'
  <2>1. OutlierTypeOK' /\ StreakResolved'
    BY <1>0, <1>3 DEF RecordFailure, OutlierTypeOK, StreakResolved, Instances
  <2> QED
    BY <1>1, <1>3, <2>1 DEF OutlierInv, RecordFailure
<1>4. ASSUME NEW t \in Tasks, NEW i \in Instances, ReachThreshold(t, i) PROVE OutlierInv'
  <2> DEFINE s == [at |-> i, next |-> 1, now_ms |-> now, already |-> 0]
  <2>1. /\ scan[t] = NoScan /\ counters[i] = NoTask
        /\ consecutive_gw_fail' = [consecutive_gw_fail EXCEPT ![i] = @ + 1]
        /\ counters' = [counters EXCEPT ![i] = t]
        /\ scan' = [scan EXCEPT ![t] = s]
        /\ UNCHANGED <<outlier_eject_count, outlier_ejected_until, now>>
    BY <1>4 DEF ReachThreshold, CanRecord
  <2>2. OutlierTypeOK'
    <3>1. consecutive_gw_fail[i] + 1 \in 0..Consecutive
      BY <1>0, <2>1 DEF StreakResolved, OutlierTypeOK
    <3>2. s \in Scans
      BY <1>0 DEF Scans, OutlierTypeOK, Instances
    <3> QED
      BY <1>0, <2>1, <3>1, <3>2 DEF OutlierTypeOK, Instances, Scans
  <2>3. ScanProgress'
    BY <1>0, <2>1 DEF ScanProgress, OutlierTypeOK, Instances
  <2>4. StreakResolved'
    BY <1>0, <2>1 DEF StreakResolved, OutlierTypeOK, Instances
  <2>5. Ejected' = Ejected
    BY <2>1 DEF Ejected, is_outlier_ejected
  <2>6. EjectionsOrdered'
    <3>1. SUFFICES ASSUME NEW u \in Tasks, NEW B \in SUBSET Ejected', Accounts(scan[u], B)
                   PROVE  Accounts(scan'[u], B)
      BY <1>0, <2>5, OrderKept
    <3>2. CASE u # t
      BY <1>0, <2>1, <3>1, <3>2 DEF OutlierTypeOK
    <3>3. CASE u = t
      <4>0. B \in SUBSET Instances
        BY <2>5 DEF Ejected
      <4>1. {j \in B : j < 1} = {}
        BY <1>d, <4>0
      <4>2. Cardinality({j \in B : j < scan'[t].next}) = 0 /\ scan'[t].already = 0
        BY <1>0, <2>1, <4>1, FS_EmptySet DEF OutlierTypeOK
      <4> QED
        BY <3>3, <4>2 DEF Accounts
    <3> QED
      BY <3>2, <3>3
  <2>7. NoneBelowOne' /\ WindowBounded'
    BY <1>0, <1>b, <1>c, <2>1, <2>5 DEF NoneBelowOne, EjectionCap
  <2> QED
    BY <2>2, <2>3, <2>4, <2>6, <2>7 DEF OutlierInv
<1>5. ASSUME NEW t \in Tasks, CountNext(t) PROVE OutlierInv'
  <2> DEFINE k == scan[t].next
             hit == is_outlier_ejected(k, scan[t].now_ms)
             s == [scan[t] EXCEPT !.next = @ + 1, !.already = IF hit THEN @ + 1 ELSE @]
  <2>1. /\ scan[t] \in Scans /\ scan[t] # NoScan
        /\ scan[t].at \in Instances /\ k \in Instances
        /\ scan[t].now_ms \in 0..now /\ scan[t].already \in 0..k - 1
        /\ scan' = [scan EXCEPT ![t] = s]
        /\ UNCHANGED <<consecutive_gw_fail, outlier_eject_count, outlier_ejected_until,
                       now, counters>>
    BY <1>0, <1>5 DEF CountNext, ScanProgress, OutlierTypeOK, NoScan, Instances
  <2>2. /\ s \in Scans /\ s.at = scan[t].at /\ s.next = k + 1 /\ s.now_ms = scan[t].now_ms
        /\ s.already = IF hit THEN scan[t].already + 1 ELSE scan[t].already
    <3>1. /\ scan[t].next + 1 \in 0..N + 1
          /\ scan[t].already + 1 \in 0..N /\ scan[t].already \in 0..N
      BY <1>0, <2>1 DEF Instances
    <3> HIDE DEF hit
    <3> QED
      BY <2>1, <3>1 DEF Scans
  <2>3. scan'[t] = s /\ \A u \in Tasks : u # t => scan'[u] = scan[u]
    BY <1>0, <2>1 DEF OutlierTypeOK
  <2> HIDE DEF s
  <2>4. OutlierTypeOK' /\ StreakResolved'
    BY <1>0, <2>1, <2>2 DEF OutlierTypeOK, StreakResolved, Instances, Scans
  <2>5. ScanProgress'
    <3>1. /\ scan'[t].at \in Instances /\ scan'[t].next \in 1..N + 1
          /\ scan'[t].now_ms \in 0..now' /\ scan'[t].already \in 0..scan'[t].next - 1
      BY <1>0, <2>1, <2>2, <2>3 DEF Instances
    <3> QED
      BY <1>0, <2>1, <2>3, <3>1 DEF ScanProgress, Instances
  <2>6. Ejected' = Ejected
    BY <2>1 DEF Ejected, is_outlier_ejected
  <2>7. EjectionsOrdered'
    <3>1. SUFFICES ASSUME NEW u \in Tasks, NEW B \in SUBSET Ejected', Accounts(scan[u], B)
                   PROVE  Accounts(scan'[u], B)
      BY <1>0, <2>6, OrderKept
    <3>2. CASE u # t
      BY <2>3, <3>1, <3>2
    <3>3. CASE u = t
      <4> DEFINE old == {j \in B : j < k}
                 new == {j \in B : j < k + 1}
      <4>1. B \in SUBSET Instances /\ old \in SUBSET Instances
        BY DEF Ejected, Instances
      <4>2. IsFiniteSet(old) /\ Cardinality(old) \in Nat
        BY <4>1, InstancesFinite
      <4>3. Cardinality(old) <= scan[t].already
        BY <2>1, <3>1, <3>3 DEF Accounts
      <4>4. CASE k \in B
        <5>1. hit
          BY <1>0, <2>1, <2>6, <4>4 DEF Ejected, is_outlier_ejected, OutlierTypeOK
        <5>2. new = old \cup {k} /\ k \notin old
          <6>1. \A j \in B : j < k + 1 <=> j < k \/ j = k
            BY <1>d, <2>1, <4>1
          <6> QED
            BY <1>d, <2>1, <4>4, <6>1
        <5>3. Cardinality(new) = Cardinality(old) + 1
          BY <4>2, <5>2, FS_AddElement
        <5>4. s.already = scan[t].already + 1 /\ s.next = k + 1
          BY <2>2, <5>1
        <5>5. Cardinality(new) <= s.already
          BY <2>1, <4>2, <4>3, <5>3, <5>4
        <5> QED
          BY <2>3, <3>3, <5>4, <5>5 DEF Accounts
      <4>5. CASE k \notin B
        <5>1. new = old
          <6>1. \A j \in B : j < k + 1 <=> j < k \/ j = k
            BY <1>d, <2>1, <4>1
          <6> QED
            BY <4>5, <6>1
        <5> QED
          BY <2>1, <2>2, <2>3, <3>3, <4>2, <4>3, <5>1 DEF Accounts
      <4> QED
        BY <4>4, <4>5
    <3> QED
      BY <3>2, <3>3
  <2>8. NoneBelowOne' /\ WindowBounded'
    BY <1>0, <1>b, <1>c, <2>1, <2>6 DEF NoneBelowOne, EjectionCap
  <2> QED
    BY <2>4, <2>5, <2>7, <2>8 DEF OutlierInv
<1>6. ASSUME NEW t \in Tasks, KeepInRotation(t) PROVE OutlierInv'
  <2>1. /\ scan[t].at \in Instances
        /\ consecutive_gw_fail' = [consecutive_gw_fail EXCEPT ![scan[t].at] = 0]
        /\ counters' = [counters EXCEPT ![scan[t].at] = NoTask]
        /\ scan' = [scan EXCEPT ![t] = NoScan]
        /\ UNCHANGED <<outlier_eject_count, outlier_ejected_until, now>>
    BY <1>0, <1>6 DEF KeepInRotation, ScanProgress, NoScan
  <2>2. OutlierTypeOK' /\ StreakResolved'
    BY <1>0, <2>1 DEF OutlierTypeOK, StreakResolved
  <2>3. ScanProgress'
    BY <1>0, <2>1 DEF ScanProgress, OutlierTypeOK, Instances
  <2>4. Ejected' = Ejected
    BY <2>1 DEF Ejected, is_outlier_ejected
  <2>5. EjectionsOrdered'
    <3>1. \A u \in Tasks : \A B \in SUBSET Ejected' :
            Accounts(scan[u], B) => Accounts(scan'[u], B)
      BY <1>0, <2>1 DEF OutlierTypeOK, Accounts
    <3> QED
      BY <1>0, <2>4, <3>1, OrderKept
  <2>6. NoneBelowOne' /\ WindowBounded'
    BY <1>0, <1>b, <1>c, <2>1, <2>4 DEF NoneBelowOne, EjectionCap
  <2> QED
    BY <2>2, <2>3, <2>5, <2>6 DEF OutlierInv
<1>7. ASSUME NEW t \in Tasks, Eject(t) PROVE OutlierInv'
  <2> DEFINE a == scan[t].at
             w == Window(a)
  <2>1. /\ a \in Instances /\ scan[t].now_ms \in 0..now
        /\ scan[t].already \in Nat /\ ~OverCap(scan[t].already)
        /\ outlier_ejected_until' = [outlier_ejected_until EXCEPT ![a] = scan[t].now_ms + w]
        /\ outlier_eject_count' = [outlier_eject_count EXCEPT ![a] = @ + 1]
        /\ consecutive_gw_fail' = [consecutive_gw_fail EXCEPT ![a] = 0]
        /\ counters' = [counters EXCEPT ![a] = NoTask]
        /\ scan' = [scan EXCEPT ![t] = NoScan]
        /\ now' = now
    BY <1>0, <1>7 DEF Eject, ScanProgress, NoScan
  <2>2. w \in Nat /\ w <= longest
    <3> DEFINE n == IF outlier_eject_count[a] < BackoffShiftCap
                    THEN outlier_eject_count[a] ELSE BackoffShiftCap
    <3>1. n \in 0..BackoffShiftCap
      BY <1>0, <2>1 DEF OutlierTypeOK
    <3>2. w = BaseEjection * 2^n
      BY DEF Window
    <3> HIDE DEF n
    <3>3. 2^n \in Nat /\ 2^n <= 2^BackoffShiftCap /\ 2^BackoffShiftCap \in Nat
      BY <1>0, <3>1, PowersGrow
    <3>4. ASSUME NEW x \in Nat, NEW y \in Nat, x <= y
          PROVE  BaseEjection * x \in Nat /\ BaseEjection * x <= BaseEjection * y
      BY <1>0, <3>4
    <3> QED
      BY <3>2, <3>3, <3>4 DEF longest
  <2> HIDE DEF w
  <2>3. OutlierTypeOK' /\ StreakResolved'
    BY <1>0, <2>1, <2>2 DEF OutlierTypeOK, StreakResolved
  <2>4. ScanProgress'
    BY <1>0, <2>1 DEF ScanProgress, OutlierTypeOK, Instances
  <2>5. WindowBounded'
    BY <1>0, <1>a, <1>b, <1>c, <2>1, <2>2 DEF OutlierTypeOK
  <2>6. NoneBelowOne'
    BY <2>1, CapTest DEF NoneBelowOne, EjectionCap
  <2>7. EjectionsOrdered'
    BY <1>7, OrderExtended
  <2> QED
    BY <2>3, <2>4, <2>5, <2>6, <2>7 DEF OutlierInv
<1>8. CASE Tick
  <2>1. /\ now' = now + 1
        /\ UNCHANGED <<consecutive_gw_fail, outlier_eject_count, outlier_ejected_until,
                       counters, scan>>
    BY <1>8 DEF Tick
  <2>2. OutlierTypeOK' /\ StreakResolved'
    BY <1>0, <2>1 DEF OutlierTypeOK, StreakResolved, Scans, Instances
  <2>3. ScanProgress'
    BY <1>0, <2>1 DEF ScanProgress, OutlierTypeOK, Instances
  <2>4. WindowBounded'
    BY <1>0, <1>a, <1>b, <1>c, <2>1 DEF OutlierTypeOK
  <2>5. Ejected' \subseteq Ejected
    BY <1>0, <2>1 DEF Ejected, is_outlier_ejected, OutlierTypeOK
  <2>6. NoneBelowOne'
    BY <1>0, <2>5 DEF NoneBelowOne, EjectionCap
  <2>7. EjectionsOrdered'
    BY <1>0, <2>1, <2>5, OrderKept
  <2> QED
    BY <2>2, <2>3, <2>4, <2>6, <2>7 DEF OutlierInv
<1>9. CASE UNCHANGED outlierVars
  <2>1. OutlierTypeOK' /\ StreakResolved'
    BY <1>0, <1>9 DEF outlierVars, OutlierTypeOK, StreakResolved, Instances, Scans
  <2> QED
    BY <1>1, <1>9, <2>1 DEF OutlierInv, outlierVars
<1> QED
  BY <1>2, <1>3, <1>4, <1>5, <1>6, <1>7, <1>8, <1>9 DEF OutlierNext

\* For any number of instances and tasks, however the counts overlap and the
\* clock moves, no more instances are out than the percentage allows and one
\* for each task beyond the first.
THEOREM CapOvershoot == OutlierSpec => []OvershootBounded
<1>1. OutlierInv => OvershootBounded
  BY OrderedMeansBounded DEF OutlierInv
<1> QED
  BY <1>1, OutlierInitInv, OutlierNextInv, PTL DEF OutlierSpec

\* No streak stays at the threshold outside the critical section.
THEOREM StreaksAreResolved == OutlierSpec => []StreakResolved
<1>1. OutlierInv => StreakResolved
  BY DEF OutlierInv
<1> QED
  BY <1>1, OutlierInitInv, OutlierNextInv, PTL DEF OutlierSpec

\* No ejection ends later than the largest backoff window from now.
THEOREM WindowsAreBounded == OutlierSpec => []WindowBounded
<1>1. OutlierInv => WindowBounded
  BY DEF OutlierInv
<1> QED
  BY <1>1, OutlierInitInv, OutlierNextInv, PTL DEF OutlierSpec

----------------------------------------------------------------------------
\* Picking an instance.

Picking == {"lookup", "count", "find", "choose"}

\* What is true of each task by itself: the picks it holds where it is, and that
\* a pass over the instances has not lost sight of a steady one.  The excluded
\* instance of a pick under way is the one the task forwards with.
PickLocal(t) ==
  LET p == pass[t] IN
  /\ p.seen < p.at
  /\ p.x # None => p.x # exclude[t]
  /\ p.y # None => p.y # exclude[t]
  /\ p.last # None => p.last # exclude[t]
  /\ pc[t] = "idle" => current[t] = None /\ replacement[t] = None
  /\ pc[t] \in Picking => /\ exclude[t] = current[t] /\ replacement[t] = None
                          /\ steady[t] \subseteq eligible /\ exclude[t] \notin steady[t]
  /\ pc[t] \in {"forwarding", "finish"} => current[t] # None /\ replacement[t] = None
  /\ pc[t] = "backoff" => /\ current[t] # None /\ replacement[t] # None
                          /\ replacement[t] # current[t]
  /\ pc[t] = "lookup" => p = NoPass
  /\ pc[t] = "count" => p.x = None /\ \A i \in steady[t] : i < p.at => p.seen > 0
  /\ pc[t] = "find" /\ lb # "least_request" =>
       /\ p.lo = p.hi /\ p.x = p.y
       /\ \A i \in steady[t] : i < p.at => p.x # None \/ p.last # None
  /\ pc[t] = "choose" /\ lb # "least_request" =>
       steady[t] = {} \/ (p.x # None /\ p.y # None)

PickInv == PickTypeOK /\ (\A t \in Tasks : PickLocal(t)) /\ LoadExact

\* The tasks whose entry in f, a table of picks, is i.
On(f, i) == {t \in Tasks : f[t] = i}

\* What taking v adds to the load of i.
Gain(v, i) == IF v = i THEN 1 ELSE 0

\* The load moves as t's picks become c and r.
LoadMoves(t, c, r) ==
  \A i \in Instances :
    in_flight'[i] = in_flight[i] + (IF lb # "least_request" THEN 0
                                    ELSE Gain(c, i) - Gain(current[t], i)
                                         + Gain(r, i) - Gain(replacement[t], i))

\* How their number changes when one entry does.
LEMMA HolderMoves ==
  ASSUME NEW f \in [Tasks -> Instances \cup {None}], NEW t \in Tasks,
         NEW v \in Instances \cup {None}, NEW i \in Instances,
         NEW g, g = [f EXCEPT ![t] = v]
  PROVE  /\ Cardinality(On(f, i)) \in Nat /\ Cardinality(On(g, i)) \in Nat
         /\ Cardinality(On(g, i)) = Cardinality(On(f, i)) + Gain(v, i) - Gain(f[t], i)
<1> DEFINE R == On(f, i) \ {t}
<1>1. IsFiniteSet(On(f, i)) /\ IsFiniteSet(R) /\ Cardinality(R) \in Nat
  <2>1. IsFiniteSet(Tasks) /\ On(f, i) \in SUBSET Tasks /\ R \in SUBSET Tasks
    BY GroupAssumption DEF GroupAssumption, On
  <2> QED
    BY <2>1, FS_Subset, FS_CardinalityType
<1>2. Cardinality(On(f, i)) = Cardinality(R) + (IF f[t] = i THEN 1 ELSE 0)
  <2>1. CASE f[t] = i
    <3>1. On(f, i) = R \cup {t} /\ t \notin R
      BY <2>1 DEF On
    <3> QED
      BY <1>1, <2>1, <3>1, FS_AddElement
  <2>2. CASE f[t] # i
    <3>1. On(f, i) = R
      BY <2>2 DEF On
    <3> QED
      BY <1>1, <2>2, <3>1
  <2> QED
    BY <2>1, <2>2
<1>0. g[t] = v /\ \A u \in Tasks : u # t => g[u] = f[u]
  OBVIOUS
<1>3. Cardinality(On(g, i)) = Cardinality(R) + (IF v = i THEN 1 ELSE 0)
  <2>1. CASE v = i
    <3>1. On(g, i) = R \cup {t} /\ t \notin R
      BY <1>0, <2>1 DEF On
    <3> QED
      BY <1>1, <2>1, <3>1, FS_AddElement
  <2>2. CASE v # i
    <3>1. \A u \in Tasks : g[u] = i <=> f[u] = i /\ u # t
      BY <1>0, <2>2
    <3>2. On(g, i) = R
      BY <3>1, Zenon DEF On
    <3> QED
      <4>1. (IF v = i THEN 1 ELSE 0) = 0 /\ Cardinality(R) + 0 = Cardinality(R)
        BY <1>1, <2>2
      <4> QED
        BY <3>2, <4>1, Zenon
  <2> QED
    BY <2>1, <2>2
<1> HIDE DEF R
<1> QED
  BY <1>1, <1>2, <1>3 DEF Gain

\* What is chosen is one of the two candidates, and an instance if both are.
LEMMA ChosenIsCandidate ==
  ASSUME PickTypeOK, NEW t \in Tasks
  PROVE  /\ Chosen(t) \in Instances \cup {None}
         /\ Chosen(t) # None => Chosen(t) = pass[t].x \/ Chosen(t) = pass[t].y
         /\ Chosen(t) = None <=> pass[t].x = None \/ pass[t].y = None
<1>1. pass[t].x \in Instances \cup {None} /\ pass[t].y \in Instances \cup {None}
  <2>1. \A n \in 0..N : n \in Instances \cup {None}
    BY GroupAssumption DEF GroupAssumption, Instances, None
  <2>2. pass[t].x \in 0..N /\ pass[t].y \in 0..N
    BY DEF PickTypeOK, Passes
  <2> QED
    BY <2>1, <2>2
<1>2. CASE pass[t].x = None \/ pass[t].y = None
  BY <1>2 DEF Chosen
<1>3. CASE ~(pass[t].x = None \/ pass[t].y = None)
  <2>1. Chosen(t) = pass[t].x \/ Chosen(t) = pass[t].y
    BY <1>3 DEF Chosen
  <2> QED
    BY <1>1, <1>3, <2>1
<1> QED
  BY <1>2, <1>3

LEMMA PickInitInv == PickInit => PickInv
<1> SUFFICES ASSUME PickInit PROVE PickInv
  OBVIOUS
<1> USE GroupAssumption, LbAssumption DEF PickInit, GroupAssumption, LbAssumption
<1>1. NoPass \in Passes
  BY DEF NoPass, Passes, None
<1>2. PickTypeOK
  BY <1>1 DEF PickTypeOK
<1>3. \A t \in Tasks : PickLocal(t)
  BY DEF PickLocal, NoPass, Picking, None
<1>4. LoadExact
  <2>1. \A i \in Instances : /\ {t \in Tasks : current[t] = i} = {}
                             /\ {t \in Tasks : replacement[t] = i} = {}
    BY DEF Instances, None
  <2>2. 0 = 0 + 0
    OBVIOUS
  <2> QED
    BY <2>1, <2>2, FS_EmptySet DEF LoadExact
<1> QED
  BY <1>2, <1>3, <1>4 DEF PickInv

\* A step of t leaves what the other tasks hold alone.
Apart(t) ==
  /\ lb' = lb /\ eligible' = eligible
  /\ \A u \in Tasks \ {t} :
       /\ pc'[u] = pc[u] /\ exclude'[u] = exclude[u] /\ pass'[u] = pass[u]
       /\ current'[u] = current[u] /\ replacement'[u] = replacement[u]
       /\ steady'[u] = steady[u]

LEMMA ApartKeepsLocal ==
  ASSUME NEW t \in Tasks, Apart(t), \A u \in Tasks : PickLocal(u), PickLocal(t)'
  PROVE  (\A u \in Tasks : PickLocal(u))'
<1>1. SUFFICES ASSUME NEW u \in Tasks, u # t PROVE PickLocal(u)'
  OBVIOUS
<1>2. PickLocal(u)
  OBVIOUS
<1> QED
  BY <1>1, <1>2 DEF Apart, PickLocal

\* The load follows the picks a step takes and gives up.
LEMMA LoadKept ==
  ASSUME PickTypeOK, LoadExact, UNCHANGED <<lb, in_flight, current, replacement>>
  PROVE  LoadExact'
BY DEF LoadExact, Instances

\* The scans: they change no pick and no load.
LEMMA ScanStep ==
  ASSUME PickInv, lb' = lb, NEW t \in Tasks,
         \/ pick(t) \/ pick_excluding(t)
         \/ \E primary \in Instances \cup {None} : Lookup(t, primary)
         \/ Count(t) \/ NothingEligible(t) \/ Target(t) \/ Sample(t)
         \/ Find(t) \/ Found(t) \/ PickNone(t)
  PROVE  PickInv'
<1>0. /\ PickTypeOK /\ PickLocal(t) /\ (\A u \in Tasks : PickLocal(u)) /\ LoadExact
      /\ N \in Nat \ {0} /\ CursorRange \in Nat \ {0}
  BY GroupAssumption, LbAssumption DEF PickInv, GroupAssumption, LbAssumption
<1>a. /\ NoPass \in Passes /\ NoPass.at = 1 /\ NoPass.seen = 0
      /\ NoPass.x = None /\ NoPass.y = None /\ NoPass.last = None
      /\ NoPass.lo = 0 /\ NoPass.hi = 0
  BY <1>0 DEF NoPass, Passes, None
<1>b. /\ pass[t] \in Passes /\ pass[t].at \in 1..N + 1 /\ pass[t].seen \in 0..N
      /\ pass[t].x \in 0..N /\ pass[t].y \in 0..N /\ pass[t].last \in 0..N
      /\ pass[t].lo \in 0..N /\ pass[t].hi \in 0..N
  BY <1>0 DEF PickTypeOK, Passes
<1>c. \A i \in Instances : i \in Nat /\ 1 <= i /\ i <= N /\ i # None
  BY <1>0 DEF Instances, None
<1>d. ASSUME PickTypeOK', Apart(t), PickLocal(t)',
             UNCHANGED <<in_flight, current, replacement>>
      PROVE  PickInv'
  BY <1>0, <1>d, ApartKeepsLocal, LoadKept DEF PickInv
<1>1. ASSUME NEW ex \in Instances \cup {None}, Begin(t, ex), ex = current[t],
             replacement[t] = None
      PROVE  PickInv'
  <2>1. /\ exclude' = [exclude EXCEPT ![t] = ex]
        /\ pass' = [pass EXCEPT ![t] = NoPass]
        /\ steady' = [steady EXCEPT ![t] = eligible \ {ex}]
        /\ pc' = [pc EXCEPT ![t] = IF lb = "maglev" THEN "lookup" ELSE "count"]
        /\ UNCHANGED <<eligible, rr, in_flight, current, replacement>>
    BY <1>1 DEF Begin, Goto
  <2>2. PickTypeOK'
    BY <1>0, <1>a, <2>1 DEF PickTypeOK
  <2>3. Apart(t)
    BY <1>0, <2>1 DEF Apart, PickTypeOK
  <2>4. /\ exclude'[t] = ex /\ pass'[t] = NoPass /\ steady'[t] = eligible \ {ex}
        /\ pc'[t] \in {"lookup", "count"}
    BY <1>0, <2>1 DEF PickTypeOK
  <2>5. PickLocal(t)'
    <3>1. \A i \in steady'[t] : ~(i < 1)
      BY <1>0, <1>c, <2>4 DEF PickTypeOK
    <3> QED
      BY <1>1, <1>a, <2>1, <2>4, <3>1 DEF PickLocal, Picking
  <2> QED
    BY <1>d, <2>1, <2>2, <2>3, <2>5
<1>2. ASSUME pick(t) PROVE PickInv'
  BY <1>0, <1>1, <1>2 DEF pick, PickLocal
<1>3. ASSUME pick_excluding(t) PROVE PickInv'
  BY <1>0, <1>1, <1>3 DEF pick_excluding, PickLocal, PickTypeOK
<1>4. ASSUME NEW primary \in Instances \cup {None}, Lookup(t, primary) PROVE PickInv'
  <2>1. /\ pc[t] = "lookup" /\ pass[t] = NoPass
        /\ UNCHANGED <<eligible, rr, in_flight, exclude, current, replacement, steady>>
    BY <1>0, <1>4 DEF Lookup, PickLocal
  <2>2. CASE primary # None /\ is_eligible(t, primary)
    <3> DEFINE p == [pass[t] EXCEPT !.x = primary, !.y = primary]
    <3>1. pass' = [pass EXCEPT ![t] = p] /\ pc' = [pc EXCEPT ![t] = "choose"]
      <4>1. pass' = [pass EXCEPT ![t].x = primary, ![t].y = primary]
        BY <1>4, <2>2 DEF Lookup
      <4>2. [pass EXCEPT ![t].x = primary, ![t].y = primary] = [pass EXCEPT ![t] = p]
        BY <1>0, <1>b DEF PickTypeOK, Passes
      <4> QED
        BY <1>4, <2>2, <4>1, <4>2 DEF Lookup, Goto
    <3>2. /\ p \in Passes /\ p.at = 1 /\ p.seen = 0 /\ p.x = primary /\ p.y = primary
          /\ p.last = None
      <4>1. primary \in 0..N
        BY <1>0, <1>4, <1>c DEF None
      <4> QED
        BY <1>a, <2>1, <4>1 DEF Passes
    <3> HIDE DEF p
    <3>3. PickTypeOK' /\ Apart(t) /\ pass'[t] = p /\ pc'[t] = "choose"
      BY <1>0, <2>1, <3>1, <3>2 DEF PickTypeOK, Apart
    <3>4. PickLocal(t)'
      BY <1>0, <2>1, <2>2, <3>2, <3>3 DEF PickLocal, Picking, is_eligible
    <3> QED
      BY <1>d, <2>1, <3>3, <3>4
  <2>3. CASE ~(primary # None /\ is_eligible(t, primary))
    <3>1. pass' = pass /\ pc' = [pc EXCEPT ![t] = "count"]
      BY <1>4, <2>3 DEF Lookup, Goto
    <3>2. PickTypeOK' /\ Apart(t) /\ pass'[t] = NoPass /\ pc'[t] = "count"
      BY <1>0, <2>1, <3>1 DEF PickTypeOK, Apart
    <3>3. \A i \in steady'[t] : ~(i < 1)
      BY <1>0, <1>c, <2>1 DEF PickTypeOK
    <3>4. PickLocal(t)'
      BY <1>0, <1>a, <2>1, <3>2, <3>3 DEF PickLocal, Picking
    <3> QED
      BY <1>d, <2>1, <3>2, <3>4
  <2> QED
    BY <2>2, <2>3
<1>5. ASSUME Count(t) PROVE PickInv'
  <2> DEFINE e == is_eligible(t, pass[t].at)
             p == [pass[t] EXCEPT !.at = @ + 1, !.seen = IF e THEN @ + 1 ELSE @]
  <2>1. /\ pc[t] = "count" /\ pass[t].at <= N /\ pass' = [pass EXCEPT ![t] = p]
        /\ UNCHANGED <<eligible, rr, in_flight, pc, exclude, current, replacement, steady>>
    BY <1>5 DEF Count
  <2>2. /\ p \in Passes /\ p.at = pass[t].at + 1 /\ p.x = pass[t].x /\ p.y = pass[t].y
        /\ p.last = pass[t].last /\ p.seen = IF e THEN pass[t].seen + 1 ELSE pass[t].seen
    <3> HIDE DEF e
    <3>1. pass[t].at + 1 \in 1..N + 1 /\ pass[t].seen + 1 \in 0..N
      BY <1>0, <1>b, <2>1 DEF PickLocal
    <3> QED
      BY <1>b, <3>1 DEF Passes
  <2>3. pass[t].at \in steady[t] => e
    BY <1>0, <2>1 DEF is_eligible, PickLocal, Picking
  <2> HIDE DEF p, e
  <2>4. PickTypeOK' /\ Apart(t) /\ pass'[t] = p
    BY <1>0, <2>1, <2>2 DEF PickTypeOK, Apart
  <2>5. \A i \in steady[t] : i < p.at => p.seen > 0
    <3>1. SUFFICES ASSUME NEW i \in steady[t], i < p.at PROVE p.seen > 0
      OBVIOUS
    <3>2. i \in Nat /\ (i < pass[t].at \/ i = pass[t].at)
      BY <1>0, <1>b, <1>c, <2>2, <3>1 DEF PickTypeOK
    <3>3. i < pass[t].at => pass[t].seen > 0
      BY <1>0, <2>1 DEF PickLocal
    <3> QED
      BY <1>b, <2>2, <2>3, <3>2, <3>3
  <2>6. PickLocal(t)'
    <3>1. p.seen < p.at
      BY <1>0, <1>b, <2>2 DEF PickLocal
    <3> QED
      BY <1>0, <2>1, <2>2, <2>4, <2>5, <3>1 DEF PickLocal, Picking
  <2> QED
    BY <1>d, <2>1, <2>4, <2>6
<1>6. ASSUME NothingEligible(t) PROVE PickInv'
  <2>1. /\ pc[t] = "count" /\ pass[t].at > N /\ pass[t].seen = 0
        /\ pc' = [pc EXCEPT ![t] = "choose"]
        /\ UNCHANGED <<eligible, rr, in_flight, exclude, pass, current, replacement, steady>>
    BY <1>6 DEF NothingEligible, Goto
  <2>2. PickTypeOK' /\ Apart(t) /\ pc'[t] = "choose"
    BY <1>0, <2>1 DEF PickTypeOK, Apart
  <2>3. steady[t] = {}
    <3>1. \A i \in steady[t] : i < pass[t].at
      BY <1>0, <1>b, <1>c, <2>1 DEF PickTypeOK
    <3> QED
      BY <1>0, <2>1, <3>1 DEF PickLocal
  <2>4. PickLocal(t)'
    BY <1>0, <2>1, <2>2, <2>3 DEF PickLocal, Picking
  <2> QED
    BY <1>d, <2>1, <2>2, <2>4
<1>7. ASSUME NEW lo \in 0..N, NEW hi \in 0..N, lb # "least_request" => lo = hi,
             pc[t] = "count", rr' \in 0..CursorRange - 1,
             pass' = [pass EXCEPT ![t] = [NoPass EXCEPT !.lo = lo, !.hi = hi]],
             pc' = [pc EXCEPT ![t] = "find"],
             UNCHANGED <<eligible, in_flight, exclude, current, replacement, steady>>
      PROVE  PickInv'
  <2> DEFINE p == [NoPass EXCEPT !.lo = lo, !.hi = hi]
  <2>1. /\ p \in Passes /\ p.at = 1 /\ p.seen = 0 /\ p.x = None /\ p.y = None
        /\ p.last = None /\ p.lo = lo /\ p.hi = hi
    BY <1>a, <1>7 DEF Passes
  <2>2. pass' = [pass EXCEPT ![t] = p]
    BY <1>7
  <2> HIDE DEF p
  <2>3. PickTypeOK' /\ Apart(t) /\ pass'[t] = p /\ pc'[t] = "find"
    BY <1>0, <1>7, <2>1, <2>2 DEF PickTypeOK, Apart
  <2>4. PickLocal(t)'
    <3>1. \A i \in steady[t] : ~(i < 1)
      BY <1>0, <1>c DEF PickTypeOK
    <3> QED
      <4>1. /\ exclude'[t] = current'[t] /\ replacement'[t] = None
            /\ steady'[t] \subseteq eligible' /\ exclude'[t] \notin steady'[t]
        BY <1>0, <1>7 DEF PickLocal, Picking
      <4>2. lb # "least_request" => p.lo = p.hi
        BY <1>7, <2>1
      <4>3. steady'[t] = steady[t] /\ p.seen < p.at
        BY <1>7, <2>1
      <4> QED
        BY <2>1, <2>3, <3>1, <4>1, <4>2, <4>3 DEF PickLocal
  <2> QED
    BY <1>d, <1>7, <2>3, <2>4
<1>8. ASSUME Target(t) PROVE PickInv'
  <2>1. rr \in Nat /\ pass[t].seen \in Nat \ {0}
    BY <1>0, <1>b, <1>8 DEF Target, PickTypeOK
  <2>2. rr % pass[t].seen \in 0..N
    <3>1. rr % pass[t].seen \in 0..pass[t].seen - 1
      BY <2>1
    <3> QED
      BY <1>0, <1>b, <3>1
  <2>3. (rr + 1) % CursorRange \in 0..CursorRange - 1
    BY <1>0, <2>1
  <2> QED
    BY <1>7, <1>8, <2>2, <2>3 DEF Target, Goto
<1>9. ASSUME Sample(t) PROVE PickInv'
  <2>1. PICK lo, hi \in 0..(pass[t].seen - 1) :
               pass' = [pass EXCEPT ![t] = [NoPass EXCEPT !.lo = lo, !.hi = hi]]
    BY <1>9 DEF Sample
  <2>2. lo \in 0..N /\ hi \in 0..N
    BY <1>0, <1>b, <2>1
  <2> QED
    BY <1>0, <1>7, <1>9, <2>1, <2>2 DEF Sample, Goto, PickTypeOK
<1>10. ASSUME Find(t) PROVE PickInv'
  <2> DEFINE e == is_eligible(t, pass[t].at)
             q == [pass[t] EXCEPT !.at = @ + 1, !.seen = @ + 1, !.last = pass[t].at,
                                  !.x = IF pass[t].seen = pass[t].lo THEN pass[t].at ELSE @,
                                  !.y = IF pass[t].seen = pass[t].hi THEN pass[t].at ELSE @]
             r == [pass[t] EXCEPT !.at = @ + 1]
             p == IF e THEN q ELSE r
  <2>1. /\ pc[t] = "find" /\ ~(pass[t].at > N) /\ pass' = [pass EXCEPT ![t] = p]
        /\ UNCHANGED <<eligible, rr, in_flight, pc, exclude, current, replacement, steady>>
    BY <1>10 DEF Find, PassOver
  <2>2. /\ pass[t].at + 1 \in 1..N + 1 /\ pass[t].seen + 1 \in 0..N /\ pass[t].at \in 0..N
        /\ pass[t].seen < pass[t].at + 1 /\ pass[t].seen + 1 < pass[t].at + 1
        /\ pass[t].at # None
    BY <1>0, <1>b, <2>1 DEF PickLocal, None
  <2>3. /\ q \in Passes /\ q.at = pass[t].at + 1 /\ q.seen = pass[t].seen + 1
        /\ q.last = pass[t].at /\ q.lo = pass[t].lo /\ q.hi = pass[t].hi
        /\ q.x = (IF pass[t].seen = pass[t].lo THEN pass[t].at ELSE pass[t].x)
        /\ q.y = (IF pass[t].seen = pass[t].hi THEN pass[t].at ELSE pass[t].y)
    BY <1>b, <2>2 DEF Passes
  <2>4. /\ r \in Passes /\ r.at = pass[t].at + 1 /\ r.seen = pass[t].seen
        /\ r.last = pass[t].last /\ r.lo = pass[t].lo /\ r.hi = pass[t].hi
        /\ r.x = pass[t].x /\ r.y = pass[t].y
    BY <1>b, <2>2 DEF Passes
  <2>5. e => pass[t].at # exclude[t]
    BY DEF is_eligible
  <2>6. pass[t].at \in steady[t] => e
    BY <1>0, <2>1 DEF is_eligible, PickLocal, Picking
  <2> HIDE DEF q, r, e
  <2>7. /\ p \in Passes /\ p.at = pass[t].at + 1 /\ p.seen < p.at
        /\ p.lo = pass[t].lo /\ p.hi = pass[t].hi
    BY <2>2, <2>3, <2>4
  <2>8. /\ p.x # None => p.x # exclude[t]
        /\ p.y # None => p.y # exclude[t]
        /\ p.last # None => p.last # exclude[t]
    BY <1>0, <2>3, <2>4, <2>5 DEF PickLocal
  <2>9. ASSUME lb # "least_request"
        PROVE  /\ p.x = p.y
               /\ \A i \in steady[t] : i < p.at => p.x # None \/ p.last # None
    <3>1. pass[t].lo = pass[t].hi /\ pass[t].x = pass[t].y
      BY <1>0, <2>1, <2>9 DEF PickLocal
    <3>2. ASSUME NEW i \in steady[t], i < p.at PROVE p.x # None \/ p.last # None
      <4>1. i \in Nat /\ (i < pass[t].at \/ i = pass[t].at)
        BY <1>0, <1>b, <1>c, <2>7, <3>2 DEF PickTypeOK
      <4>2. i < pass[t].at => pass[t].x # None \/ pass[t].last # None
        BY <1>0, <2>1, <2>9 DEF PickLocal
      <4>3. CASE e
        BY <2>2, <2>3, <4>3
      <4>4. CASE ~e
        BY <2>4, <2>6, <4>1, <4>2, <4>4
      <4> QED
        BY <4>3, <4>4
    <3> QED
      BY <2>3, <2>4, <3>1, <3>2
  <2> HIDE DEF p
  <2>10. PickTypeOK' /\ Apart(t) /\ pass'[t] = p
    BY <1>0, <2>1, <2>7 DEF PickTypeOK, Apart
  <2>11. PickLocal(t)'
    BY <1>0, <2>1, <2>7, <2>8, <2>9, <2>10 DEF PickLocal, Picking
  <2> QED
    BY <1>d, <2>1, <2>10, <2>11
<1>11. ASSUME Found(t) PROVE PickInv'
  <2> DEFINE r == [pass[t] EXCEPT !.x = pass[t].last, !.y = pass[t].last]
             p == IF lb # "least_request" /\ pass[t].x = None THEN r ELSE pass[t]
  <2>1. /\ pc[t] = "find" /\ PassOver(t) /\ pass' = [pass EXCEPT ![t] = p]
        /\ pc' = [pc EXCEPT ![t] = "choose"]
        /\ UNCHANGED <<eligible, rr, in_flight, exclude, current, replacement, steady>>
    BY <1>11 DEF Found, Goto
  <2>2. /\ r \in Passes /\ r.x = pass[t].last /\ r.y = pass[t].last
        /\ r.last = pass[t].last /\ r.seen = pass[t].seen /\ r.at = pass[t].at
    BY <1>b DEF Passes
  <2> HIDE DEF r
  <2>3. /\ p \in Passes /\ p.seen < p.at
        /\ p.x # None => p.x # exclude[t]
        /\ p.y # None => p.y # exclude[t]
        /\ p.last # None => p.last # exclude[t]
    BY <1>0, <1>b, <2>2 DEF PickLocal
  <2>4. ASSUME lb # "least_request", steady[t] # {} PROVE p.x # None /\ p.y # None
    <3>1. pass[t].x = pass[t].y /\ PickLocal(t)
      BY <1>0, <2>1, <2>4 DEF PickLocal
    <3>2. CASE pass[t].x # None
      BY <3>1, <3>2
    <3>3. CASE pass[t].x = None
      <4>1. pass[t].at > N
        BY <2>1, <3>3 DEF PassOver
      <4>2. \A i \in steady[t] : i < pass[t].at
        BY <1>0, <1>b, <1>c, <4>1 DEF PickTypeOK
      <4>3. pass[t].last # None
        BY <2>1, <2>4, <3>1, <3>3, <4>2 DEF PickLocal
      <4> QED
        BY <2>2, <2>4, <3>3, <4>3
    <3> QED
      BY <3>2, <3>3
  <2> HIDE DEF p
  <2>5. PickTypeOK' /\ Apart(t) /\ pass'[t] = p /\ pc'[t] = "choose"
    BY <1>0, <2>1, <2>3 DEF PickTypeOK, Apart
  <2>6. PickLocal(t)'
    BY <1>0, <2>1, <2>3, <2>4, <2>5 DEF PickLocal, Picking
  <2> QED
    BY <1>d, <2>1, <2>5, <2>6
<1>12. ASSUME PickNone(t) PROVE PickInv'
  <2>1. /\ pc[t] = "choose" /\ exclude' = [exclude EXCEPT ![t] = None]
        /\ pass' = [pass EXCEPT ![t] = NoPass] /\ steady' = [steady EXCEPT ![t] = {}]
        /\ pc' = [pc EXCEPT ![t] = IF current[t] = None THEN "idle" ELSE "finish"]
        /\ UNCHANGED <<eligible, rr, in_flight, current, replacement>>
    BY <1>12 DEF PickNone, EndPick, Goto
  <2>2. PickTypeOK' /\ Apart(t)
    BY <1>0, <1>a, <2>1 DEF PickTypeOK, Apart
  <2>3. /\ pass'[t] = NoPass /\ exclude'[t] = None
        /\ pc'[t] = IF current[t] = None THEN "idle" ELSE "finish"
    BY <1>0, <2>1 DEF PickTypeOK
  <2>4. PickLocal(t)'
    BY <1>0, <1>a, <2>1, <2>3 DEF PickLocal, Picking
  <2> QED
    BY <1>d, <2>1, <2>2, <2>4
<1> QED
  BY <1>2, <1>3, <1>4, <1>5, <1>6, <1>8, <1>9, <1>10, <1>11, <1>12

\* The steps of t that take or give up a pick.
LEMMA HoldStep ==
  ASSUME PickInv, lb' = lb, NEW t \in Tasks,
         PickFirst(t) \/ PickReplacement(t) \/ HandOff(t) \/ DropAll(t)
  PROVE  PickInv'
<1> DEFINE least == lb = "least_request"
           Picks == Instances \cup {None}
<1>0. /\ PickTypeOK /\ PickLocal(t) /\ (\A u \in Tasks : PickLocal(u)) /\ LoadExact
      /\ N \in Nat \ {0}
  BY GroupAssumption DEF PickInv, GroupAssumption
<1>a. /\ NoPass \in Passes /\ NoPass.at = 1 /\ NoPass.seen = 0
      /\ NoPass.x = None /\ NoPass.y = None /\ NoPass.last = None
  BY <1>0 DEF NoPass, Passes, None
<1>b. \A i \in Instances : i # None
  BY <1>0 DEF Instances, None
<1>e. in_flight \in [Instances -> Nat] /\ current \in [Tasks -> Picks]
      /\ replacement \in [Tasks -> Picks] /\ Chosen(t) \in Picks
  BY <1>0, ChosenIsCandidate DEF PickTypeOK
\* The load after t's picks have become c and r.
<1>c. ASSUME NEW c \in Picks, NEW r \in Picks,
             current' = [current EXCEPT ![t] = c],
             replacement' = [replacement EXCEPT ![t] = r],
             LoadMoves(t, c, r)
      PROVE  LoadExact' /\ \A i \in Instances : in_flight'[i] \in Nat
  <2>1. SUFFICES ASSUME NEW i \in Instances
                 PROVE  /\ in_flight'[i] = IF ~least THEN 0
                                           ELSE Cardinality(On(current', i))
                                                + Cardinality(On(replacement', i))
                        /\ in_flight'[i] \in Nat
    BY DEF LoadExact, On
  <2>2. /\ Cardinality(On(current, i)) \in Nat /\ Cardinality(On(current', i)) \in Nat
        /\ Cardinality(On(current', i)) = Cardinality(On(current, i)) + Gain(c, i)
                                          - Gain(current[t], i)
    <3>1. /\ current \in [Tasks -> Instances \cup {None}] /\ c \in Instances \cup {None}
          /\ current' = [current EXCEPT ![t] = c]
      BY <1>c, <1>e
    <3> QED
      BY <3>1, HolderMoves, Zenon
  <2>3. /\ Cardinality(On(replacement, i)) \in Nat /\ Cardinality(On(replacement', i)) \in Nat
        /\ Cardinality(On(replacement', i)) = Cardinality(On(replacement, i)) + Gain(r, i)
                                              - Gain(replacement[t], i)
    <3>1. /\ replacement \in [Tasks -> Instances \cup {None}] /\ r \in Instances \cup {None}
          /\ replacement' = [replacement EXCEPT ![t] = r]
      BY <1>c, <1>e
    <3> QED
      BY <3>1, HolderMoves, Zenon
  <2>4. in_flight[i] = IF ~least THEN 0 ELSE Cardinality(On(current, i))
                                             + Cardinality(On(replacement, i))
    BY <1>0, <2>1 DEF LoadExact, On
  <2> QED
    BY <1>c, <1>e, <2>1, <2>2, <2>3, <2>4 DEF Gain, LoadMoves
<1>d. ASSUME PickTypeOK', Apart(t), PickLocal(t)', LoadExact'
      PROVE  PickInv'
  BY <1>0, <1>d, ApartKeepsLocal DEF PickInv
<1>1. ASSUME PickFirst(t) PROVE PickInv'
  <2>1. /\ pc[t] = "choose" /\ current[t] = None /\ Chosen(t) \in Instances
        /\ replacement[t] = None
        /\ current' = [current EXCEPT ![t] = Chosen(t)] /\ in_flight' = Metered(Chosen(t))
        /\ exclude' = [exclude EXCEPT ![t] = None] /\ pass' = [pass EXCEPT ![t] = NoPass]
        /\ steady' = [steady EXCEPT ![t] = {}] /\ pc' = [pc EXCEPT ![t] = "forwarding"]
        /\ UNCHANGED <<eligible, rr, replacement>>
    BY <1>0, <1>1, <1>e DEF PickFirst, EndPick, Goto, PickLocal, Picking
  <2>2. replacement' = [replacement EXCEPT ![t] = None]
    BY <1>e, <2>1
  <2>3. /\ in_flight' \in [Instances -> Int]
        /\ \A i \in Instances :
             in_flight'[i] = in_flight[i] + (IF least THEN Gain(Chosen(t), i) ELSE 0)
    <3>1. CASE least
      BY <1>e, <2>1, <3>1 DEF Metered, Gain
    <3>2. CASE ~least
      BY <1>e, <2>1, <3>2 DEF Metered
    <3> QED
      BY <3>1, <3>2
  <2>4. LoadExact' /\ \A i \in Instances : in_flight'[i] \in Nat
    <3>1. LoadMoves(t, Chosen(t), None)
      BY <1>b, <1>e, <2>1, <2>2, <2>3 DEF LoadMoves, Gain
    <3> QED
      BY <1>c, <1>e, <2>1, <2>2, <2>3, <3>1, Zenon
  <2>5. PickTypeOK' /\ Apart(t)
    <3>1. in_flight' \in [Instances -> Nat]
      BY <2>3, <2>4
    <3> QED
      BY <1>0, <1>a, <1>e, <2>1, <3>1 DEF PickTypeOK, Apart
  <2>6. PickLocal(t)'
    <3>1. /\ pass'[t] = NoPass /\ exclude'[t] = None /\ pc'[t] = "forwarding"
          /\ current'[t] # None /\ replacement'[t] = None
      BY <1>0, <1>b, <2>1 DEF PickTypeOK
    <3> QED
      BY <1>a, <3>1 DEF PickLocal, Picking
  <2> QED
    BY <1>d, <2>4, <2>5, <2>6
<1>2. ASSUME PickReplacement(t) PROVE PickInv'
  <2>1. /\ pc[t] = "choose" /\ current[t] # None /\ Chosen(t) \in Instances
        /\ replacement[t] = None /\ exclude[t] = current[t]
        /\ replacement' = [replacement EXCEPT ![t] = Chosen(t)]
        /\ in_flight' = Metered(Chosen(t))
        /\ exclude' = [exclude EXCEPT ![t] = None] /\ pass' = [pass EXCEPT ![t] = NoPass]
        /\ steady' = [steady EXCEPT ![t] = {}] /\ pc' = [pc EXCEPT ![t] = "backoff"]
        /\ UNCHANGED <<eligible, rr, current>>
    BY <1>0, <1>2, <1>e DEF PickReplacement, EndPick, Goto, PickLocal, Picking
  <2>2. current' = [current EXCEPT ![t] = current[t]]
    BY <1>e, <2>1
  <2>3. /\ in_flight' \in [Instances -> Int]
        /\ \A i \in Instances :
             in_flight'[i] = in_flight[i] + (IF least THEN Gain(Chosen(t), i) ELSE 0)
    <3>1. CASE least
      BY <1>e, <2>1, <3>1 DEF Metered, Gain
    <3>2. CASE ~least
      BY <1>e, <2>1, <3>2 DEF Metered
    <3> QED
      BY <3>1, <3>2
  <2>4. LoadExact' /\ \A i \in Instances : in_flight'[i] \in Nat
    <3>1. LoadMoves(t, current[t], Chosen(t))
      BY <1>b, <1>e, <2>1, <2>2, <2>3 DEF LoadMoves, Gain
    <3> QED
      BY <1>c, <1>e, <2>1, <2>2, <2>3, <3>1, Zenon
  <2>5. PickTypeOK' /\ Apart(t)
    <3>1. in_flight' \in [Instances -> Nat]
      BY <2>3, <2>4
    <3> QED
      BY <1>0, <1>a, <1>e, <2>1, <3>1 DEF PickTypeOK, Apart
  <2>6. PickLocal(t)'
    <3>1. Chosen(t) # current[t]
      BY <1>0, <1>b, <2>1, ChosenIsCandidate DEF PickLocal
    <3>2. /\ pass'[t] = NoPass /\ exclude'[t] = None /\ pc'[t] = "backoff"
          /\ replacement'[t] = Chosen(t) /\ current'[t] = current[t]
      BY <1>0, <2>1 DEF PickTypeOK
    <3> QED
      BY <1>a, <1>b, <2>1, <3>1, <3>2 DEF PickLocal, Picking
  <2> QED
    BY <1>d, <2>4, <2>5, <2>6
<1>3. ASSUME HandOff(t) PROVE PickInv'
  <2>1. /\ pc[t] = "backoff" /\ current[t] \in Instances /\ replacement[t] \in Instances
        /\ in_flight' = Dropped(in_flight, current[t])
        /\ current' = [current EXCEPT ![t] = replacement[t]]
        /\ replacement' = [replacement EXCEPT ![t] = None]
        /\ pc' = [pc EXCEPT ![t] = "forwarding"]
        /\ UNCHANGED <<eligible, rr, exclude, pass, steady>>
    BY <1>0, <1>3, <1>e DEF HandOff, Goto, PickLocal
  <2>3. /\ in_flight' \in [Instances -> Int]
        /\ \A i \in Instances :
             in_flight'[i] = in_flight[i] + (IF least THEN 0 - Gain(current[t], i) ELSE 0)
    <3>1. CASE least
      BY <1>e, <2>1, <3>1 DEF Dropped, Gain
    <3>2. CASE ~least
      BY <1>e, <2>1, <3>2 DEF Dropped
    <3> QED
      BY <3>1, <3>2
  <2>4. LoadExact' /\ \A i \in Instances : in_flight'[i] \in Nat
    <3>1. LoadMoves(t, replacement[t], None)
      BY <1>b, <1>e, <2>1, <2>3 DEF LoadMoves, Gain
    <3> QED
      BY <1>c, <1>e, <2>1, <2>3, <3>1, Zenon
  <2>5. PickTypeOK' /\ Apart(t)
    <3>1. in_flight' \in [Instances -> Nat]
      BY <2>3, <2>4
    <3> QED
      BY <1>0, <1>e, <2>1, <3>1 DEF PickTypeOK, Apart
  <2>6. PickLocal(t)'
    <3>1. /\ pass'[t] = pass[t] /\ exclude'[t] = exclude[t] /\ pc'[t] = "forwarding"
          /\ current'[t] # None /\ replacement'[t] = None
      BY <1>0, <1>b, <2>1 DEF PickTypeOK
    <3> QED
      BY <1>0, <3>1 DEF PickLocal, Picking
  <2> QED
    BY <1>d, <2>4, <2>5, <2>6
<1>4. ASSUME DropAll(t) PROVE PickInv'
  <2> DEFINE first == Dropped(in_flight, current[t])
  <2>1. /\ pc[t] \in {"forwarding", "backoff", "finish"} /\ current[t] \in Instances
        /\ in_flight' = IF replacement[t] = None THEN first ELSE Dropped(first, replacement[t])
        /\ current' = [current EXCEPT ![t] = None]
        /\ replacement' = [replacement EXCEPT ![t] = None]
        /\ pc' = [pc EXCEPT ![t] = "idle"]
        /\ UNCHANGED <<eligible, rr, exclude, pass, steady>>
    BY <1>0, <1>4, <1>e DEF DropAll, Goto, PickLocal
  <2>2. /\ first \in [Instances -> Int]
        /\ \A i \in Instances :
             first[i] = in_flight[i] + (IF least THEN 0 - Gain(current[t], i) ELSE 0)
    <3>1. CASE least
      BY <1>e, <2>1, <3>1 DEF Dropped, Gain
    <3>2. CASE ~least
      BY <1>e, <2>1, <3>2 DEF Dropped
    <3> QED
      BY <3>1, <3>2
  <2> HIDE DEF first
  <2>3. /\ in_flight' \in [Instances -> Int]
        /\ \A i \in Instances :
             in_flight'[i] = first[i] + (IF least THEN 0 - Gain(replacement[t], i) ELSE 0)
    <3>1. CASE least
      BY <1>b, <1>e, <2>1, <2>2, <3>1 DEF Dropped, Gain
    <3>2. CASE ~least
      BY <1>b, <1>e, <2>1, <2>2, <3>2 DEF Dropped
    <3> QED
      BY <3>1, <3>2
  <2>4. LoadExact' /\ \A i \in Instances : in_flight'[i] \in Nat
    <3>1. LoadMoves(t, None, None)
      BY <1>b, <1>e, <2>1, <2>2, <2>3 DEF LoadMoves, Gain
    <3> QED
      BY <1>c, <1>e, <2>1, <2>2, <2>3, <3>1, Zenon
  <2>5. PickTypeOK' /\ Apart(t)
    <3>1. in_flight' \in [Instances -> Nat]
      BY <2>3, <2>4
    <3> QED
      BY <1>0, <1>e, <2>1, <3>1 DEF PickTypeOK, Apart
  <2>6. PickLocal(t)'
    <3>1. /\ pass'[t] = pass[t] /\ exclude'[t] = exclude[t] /\ pc'[t] = "idle"
          /\ current'[t] = None /\ replacement'[t] = None
      BY <1>0, <2>1 DEF PickTypeOK
    <3> QED
      BY <1>0, <3>1 DEF PickLocal, Picking
  <2> QED
    BY <1>d, <2>4, <2>5, <2>6
<1> QED
  BY <1>1, <1>2, <1>3, <1>4

\* Eligibility turns: an instance that stops serving is steady for nobody.
LEMMA FlipStep ==
  ASSUME PickInv, lb' = lb, NEW j \in Instances, Flip(j)
  PROVE  PickInv'
<1>1. /\ eligible' \subseteq Instances
      /\ steady' = [t \in Tasks |-> steady[t] \cap eligible']
      /\ UNCHANGED <<rr, in_flight, pc, exclude, pass, current, replacement>>
  BY DEF PickInv, PickTypeOK, Flip
<1>2. PickTypeOK'
  BY <1>1 DEF PickInv, PickTypeOK
<1>3. ASSUME NEW t \in Tasks PROVE PickLocal(t)'
  <2>1. PickLocal(t) /\ steady'[t] = steady[t] \cap eligible'
    BY <1>1 DEF PickInv
  <2> QED
    BY <1>1, <2>1 DEF PickLocal
<1>4. LoadExact'
  BY <1>1, LoadKept DEF PickInv
<1> QED
  BY <1>2, <1>3, <1>4 DEF PickInv

LEMMA PickNextInv == PickInv /\ [PickNext]_pickVars => PickInv'
<1> SUFFICES ASSUME PickInv, [PickNext]_pickVars PROVE PickInv'
  OBVIOUS
<1>1. CASE UNCHANGED pickVars
  <2>1. PickTypeOK' /\ LoadExact'
    BY <1>1, LoadKept DEF PickInv, PickTypeOK, pickVars
  <2>2. ASSUME NEW t \in Tasks PROVE PickLocal(t)'
    <3>1. PickLocal(t)
      BY DEF PickInv
    <3> QED
      BY <1>1, <3>1 DEF PickLocal, pickVars
  <2> QED
    BY <2>1, <2>2 DEF PickInv
<1>2. ASSUME PickNext, NEW t \in Tasks, Step(t) PROVE PickInv'
  <2>1. lb' = lb
    BY <1>2 DEF PickNext
  <2>2. \/ \/ pick(t) \/ pick_excluding(t)
           \/ \E primary \in Instances \cup {None} : Lookup(t, primary)
           \/ Count(t) \/ NothingEligible(t) \/ Target(t) \/ Sample(t)
           \/ Find(t) \/ Found(t) \/ PickNone(t)
        \/ PickFirst(t) \/ PickReplacement(t) \/ HandOff(t) \/ DropAll(t)
    BY <1>2 DEF Step
  <2> QED
    BY <2>1, <2>2, ScanStep, HoldStep
<1>3. ASSUME PickNext, NEW i \in Instances, Flip(i) PROVE PickInv'
  BY <1>3, FlipStep DEF PickNext
<1> QED
  BY <1>1, <1>2, <1>3 DEF PickNext

\* Round-robin and maglev never turn a request away while an instance other
\* than the excluded one stays eligible through the pick, for any number of
\* tasks and instances and however eligibility flips between the two passes.
THEOREM PicksAreNotSpurious == PickSpec => []NoSpuriousNone
<1>1. PickInv => NoSpuriousNone
  <2>1. SUFFICES ASSUME PickInv, lb # "least_request", NEW t \in Tasks PROVE ~SpuriousNone(t)
    BY DEF NoSpuriousNone
  <2>2. pc[t] = "choose" => steady[t] = {} \/ (pass[t].x # None /\ pass[t].y # None)
    BY <2>1 DEF PickInv, PickLocal
  <2>3. Chosen(t) = None <=> pass[t].x = None \/ pass[t].y = None
    BY <2>1, ChosenIsCandidate DEF PickInv
  <2> QED
    BY <2>2, <2>3 DEF SpuriousNone
<1> QED
  BY PickInitInv, PickNextInv, <1>1, PTL DEF PickSpec

\* A retry's pick is never the instance the failed attempt used.
THEOREM RetriesMoveOn == PickSpec => []RetryMovesOn
<1>1. PickInv => RetryMovesOn
  BY DEF PickInv, PickTypeOK, PickLocal, Picking, RetryMovesOn
<1> QED
  BY PickInitInv, PickNextInv, <1>1, PTL DEF PickSpec

\* The least-request load of every instance is the number of guards on it.
THEOREM LoadIsExact == PickSpec => []LoadExact
<1>1. PickInv => LoadExact
  BY DEF PickInv
<1> QED
  BY PickInitInv, PickNextInv, <1>1, PTL DEF PickSpec

----------------------------------------------------------------------------
\* The health of one instance.

\* An instance in rotation was promoted, and the promotion reset its successes:
\* without this an ejection could leave it already due for restoration.
InRotation == healthy => ever_healthy /\ consecutive_ok = 0

\* What the counters remember of the history: whether a success was ever seen;
\* in rotation the failures since the last success, out of it the successes
\* since the last failure.
Remembered ==
  LET L == Len(history) IN
  /\ ever_healthy <=> \E k \in 1..L : history[k] = "ok"
  /\ healthy => /\ consecutive_fail < L /\ history[L - consecutive_fail] = "ok"
                /\ \A k \in (L - consecutive_fail + 1)..L : history[k] = "fail"
  /\ ~healthy => /\ consecutive_ok <= L
                 /\ consecutive_ok < L => history[L - consecutive_ok] = "fail"
                 /\ \A k \in (L - consecutive_ok + 1)..L : history[k] = "ok"

HealthInv ==
  HealthTypeOK /\ NoOverdueTransition /\ InRotation /\ Remembered /\ HealthyIffHistory

\* The clamped thresholds are at least one and fit the counters.
LEMMA ThresholdsPositive ==
  /\ healthy_threshold \in 1..U32Max
  /\ unhealthy_threshold \in 1..U32Max
  /\ need \in 1..U32Max
BY HealthAssumption
   DEF HealthAssumption, healthy_threshold, unhealthy_threshold, need, AtLeastOne

\* Applying a result changes neither the results before it nor what they did.
LEMMA HistoryGrows ==
  ASSUME HealthTypeOK, NEW r \in {"ok", "fail"}, history' = Append(history, r)
  PROVE  /\ history' \in Seq({"ok", "fail"})
         /\ Len(history) \in Nat /\ Len(history') = Len(history) + 1
         /\ history'[Len(history) + 1] = r
         /\ \A k \in 1..Len(history) : history'[k] = history[k]
         /\ \A k \in 1..Len(history) : history[k] \in {"ok", "fail"}
         /\ \A k \in 1..Len(history) : /\ PromotesAt(k)' <=> PromotesAt(k)
                                       /\ DemotesAt(k)' <=> DemotesAt(k)
<1>1. /\ history' \in Seq({"ok", "fail"})
      /\ Len(history) \in Nat /\ Len(history') = Len(history) + 1
      /\ history'[Len(history) + 1] = r
      /\ \A k \in 1..Len(history) : history'[k] = history[k]
      /\ \A k \in 1..Len(history) : history[k] \in {"ok", "fail"}
  BY DEF HealthTypeOK
<1>2. ASSUME NEW n \in 1..U32Max, NEW v \in {"ok", "fail"}, NEW i \in 1..Len(history)
      PROVE  RunOf(v, n, i)' <=> RunOf(v, n, i)
  <2>1. ASSUME n <= i, NEW k \in (i - n + 1)..i PROVE history'[k] = history[k]
    <3>1. k \in 1..Len(history)
      BY <1>1, <2>1, HealthAssumption DEF HealthAssumption
    <3> QED
      BY <1>1, <3>1
  <2> QED
    BY <2>1 DEF RunOf
<1>3. ASSUME NEW i \in 1..Len(history)
      PROVE  (PromotesAt(i)' <=> PromotesAt(i)) /\ (DemotesAt(i)' <=> DemotesAt(i))
  <2>1. /\ RunOf("ok", healthy_threshold, i)' <=> RunOf("ok", healthy_threshold, i)
        /\ RunOf("fail", unhealthy_threshold, i)' <=> RunOf("fail", unhealthy_threshold, i)
    BY <1>2, ThresholdsPositive
  <2>2. history'[i] = history[i] /\ \A k \in 1..(i - 1) : history'[k] = history[k]
    BY <1>1
  <2> QED
    BY <2>1, <2>2 DEF PromotesAt, DemotesAt
<1> QED
  BY <1>1, <1>3

\* A success keeps a standing promotion, and makes one exactly when the instance
\* is due for restoration.
LEMMA SuccessStands ==
  ASSUME HealthInv, history' = Append(history, "ok")
  PROVE  PromotionStands' <=> healthy \/ consecutive_ok + 1 >= need
<1> PICK L \in Nat : L = Len(history)
  BY DEF HealthInv, HealthTypeOK
<1>0. HealthTypeOK /\ NoOverdueTransition /\ Remembered /\ (healthy <=> PromotionStands)
  BY DEF HealthInv, HealthyIffHistory
<1>1. /\ L \in Nat /\ Len(history') = L + 1 /\ history'[L + 1] = "ok"
      /\ \A k \in 1..L : history'[k] = history[k] /\ history[k] \in {"ok", "fail"}
      /\ \A k \in 1..L : /\ PromotesAt(k)' <=> PromotesAt(k)
                         /\ DemotesAt(k)' <=> DemotesAt(k)
  BY <1>0, HistoryGrows
<1>2. /\ healthy_threshold \in 1..U32Max /\ unhealthy_threshold \in 1..U32Max
      /\ healthy_threshold' = healthy_threshold /\ unhealthy_threshold' = unhealthy_threshold
      /\ U32Max \in Nat
  BY ThresholdsPositive, HealthAssumption
     DEF HealthAssumption, healthy_threshold, unhealthy_threshold
<1>3. ~DemotesAt(L + 1)'
  BY <1>1, <1>2 DEF DemotesAt, RunOf
<1>4. ASSUME healthy PROVE PromotionStands'
  <2>1. PICK p \in 1..L : PromotesAt(p) /\ \A d \in (p + 1)..L : ~DemotesAt(d)
    BY <1>0, <1>4 DEF PromotionStands
  <2>2. \A d \in (p + 1)..(L + 1) : ~DemotesAt(d)'
    <3>1. \A d \in (p + 1)..(L + 1) : d = L + 1 \/ (d \in 1..L /\ d \in (p + 1)..L)
      BY <1>1
    <3> QED
      BY <1>1, <1>3, <2>1, <3>1
  <2>3. p \in 1..(L + 1) /\ PromotesAt(p)'
    BY <1>1, <2>1
  <2> QED
    BY <1>1, <2>2, <2>3 DEF PromotionStands
<1>5. ASSUME ~healthy, consecutive_ok + 1 >= need PROVE PromotionStands'
  <2>1. PromotesAt(L + 1)'
    <3>1. CASE ~ever_healthy
      <4>1. \A k \in 1..L : history'[k] = "fail"
        BY <1>0, <1>1, <3>1 DEF Remembered
      <4> QED
        BY <1>1, <4>1 DEF PromotesAt
    <3>2. CASE ever_healthy
      <4>1. /\ healthy_threshold <= consecutive_ok + 1 /\ consecutive_ok \in Nat
            /\ consecutive_ok <= L
            /\ \A k \in (L - consecutive_ok + 1)..L : history[k] = "ok"
        BY <1>0, <1>5, <3>2 DEF need, Remembered, HealthTypeOK
      <4>2. ASSUME NEW k \in (L + 1 - healthy_threshold + 1)..(L + 1)
            PROVE  history'[k] = "ok"
        <5>1. k = L + 1 \/ (k \in 1..L /\ k \in (L - consecutive_ok + 1)..L)
          BY <1>1, <1>2, <4>1
        <5> QED
          BY <1>1, <4>1, <5>1
      <4>3. healthy_threshold <= L + 1
        BY <1>1, <1>2, <4>1
      <4> QED
        <5>1. RunOf("ok", healthy_threshold, L + 1)'
          BY <1>2, <4>2, <4>3 DEF RunOf
        <5> QED
          BY <1>1, <5>1 DEF PromotesAt
    <3> QED
      BY <3>1, <3>2
  <2>2. L + 1 \in 1..Len(history') /\ \A d \in (L + 1 + 1)..Len(history') : FALSE
    BY <1>1
  <2> QED
    BY <2>1, <2>2 DEF PromotionStands
<1>6. ASSUME ~healthy, ~(consecutive_ok + 1 >= need) PROVE ~PromotionStands'
  <2>1. /\ ever_healthy /\ need = healthy_threshold /\ consecutive_ok \in Nat
        /\ consecutive_ok + 1 < healthy_threshold
    BY <1>0, <1>2, <1>6 DEF need, HealthTypeOK
  <2>2. PICK k \in 1..L : history[k] = "ok"
    BY <1>0, <2>1 DEF Remembered
  <2>3. ~RunOf("ok", healthy_threshold, L + 1)'
    <3>1. SUFFICES ASSUME healthy_threshold <= L + 1,
                          \A j \in (L + 1 - healthy_threshold + 1)..(L + 1) : history'[j] = "ok"
                   PROVE  FALSE
      BY <1>2 DEF RunOf
    <3>2. consecutive_ok < L /\ history[L - consecutive_ok] = "fail"
      BY <1>0, <1>1, <1>2, <1>6, <2>1, <3>1 DEF Remembered
    <3>3. /\ L - consecutive_ok \in 1..L
          /\ L - consecutive_ok \in (L + 1 - healthy_threshold + 1)..(L + 1)
      BY <1>1, <1>2, <2>1, <3>1, <3>2
    <3> QED
      BY <1>1, <3>1, <3>2, <3>3
  <2>4. ~PromotesAt(L + 1)'
    <3>1. k \in 1..(L + 1 - 1) /\ history'[k] = "ok"
      BY <1>1, <2>2
    <3> QED
      BY <2>3, <3>1 DEF PromotesAt
  <2>5. ASSUME NEW p \in 1..Len(history'), PromotesAt(p)'
        PROVE  \E d \in (p + 1)..Len(history') : DemotesAt(d)'
    <3>1. p \in 1..L /\ PromotesAt(p)
      <4>1. p = L + 1 \/ p \in 1..L
        BY <1>1
      <4> QED
        BY <1>1, <2>4, <2>5, <4>1
    <3>2. PICK d \in (p + 1)..L : DemotesAt(d)
      BY <1>0, <1>6, <3>1 DEF PromotionStands
    <3>3. d \in 1..L /\ d \in (p + 1)..Len(history')
      BY <1>1, <3>1
    <3> QED
      BY <1>1, <3>2, <3>3
  <2> QED
    BY <2>5 DEF PromotionStands
<1> QED
  BY <1>4, <1>5, <1>6

\* A failure never makes a promotion, and ends a standing one exactly when it is
\* the last of unhealthy_threshold in a row.
LEMMA FailureStands ==
  ASSUME HealthInv, history' = Append(history, "fail")
  PROVE  PromotionStands' <=> healthy /\ consecutive_fail + 1 < unhealthy_threshold
<1> PICK L \in Nat : L = Len(history)
  BY DEF HealthInv, HealthTypeOK
<1>0. HealthTypeOK /\ NoOverdueTransition /\ Remembered /\ (healthy <=> PromotionStands)
  BY DEF HealthInv, HealthyIffHistory
<1>1. /\ L \in Nat /\ Len(history') = L + 1 /\ history'[L + 1] = "fail"
      /\ \A k \in 1..L : history'[k] = history[k] /\ history[k] \in {"ok", "fail"}
      /\ \A k \in 1..L : /\ PromotesAt(k)' <=> PromotesAt(k)
                         /\ DemotesAt(k)' <=> DemotesAt(k)
  BY <1>0, HistoryGrows
<1>2. /\ unhealthy_threshold \in 1..U32Max /\ unhealthy_threshold' = unhealthy_threshold
      /\ U32Max \in Nat /\ consecutive_fail \in Nat
  BY <1>0, ThresholdsPositive, HealthAssumption
     DEF HealthAssumption, unhealthy_threshold, HealthTypeOK
<1>3. ASSUME NEW p \in 1..Len(history'), PromotesAt(p)' PROVE p \in 1..L /\ PromotesAt(p)
  <2>1. p = L + 1 \/ p \in 1..L
    BY <1>1
  <2>2. ~PromotesAt(L + 1)'
    BY <1>1 DEF PromotesAt
  <2> QED
    BY <1>1, <1>3, <2>1, <2>2
<1>4. ASSUME healthy
      PROVE  DemotesAt(L + 1)' <=> consecutive_fail + 1 >= unhealthy_threshold
  <2>1. /\ consecutive_fail < L /\ history[L - consecutive_fail] = "ok"
        /\ \A k \in (L - consecutive_fail + 1)..L : history[k] = "fail"
    BY <1>0, <1>4 DEF Remembered
  <2>2. ASSUME consecutive_fail + 1 >= unhealthy_threshold PROVE DemotesAt(L + 1)'
    <3>1. ASSUME NEW k \in (L + 1 - unhealthy_threshold + 1)..(L + 1)
          PROVE  history'[k] = "fail"
      <4>1. k = L + 1 \/ (k \in 1..L /\ k \in (L - consecutive_fail + 1)..L)
        BY <1>1, <1>2, <2>1, <2>2
      <4> QED
        BY <1>1, <2>1, <4>1
    <3>2. unhealthy_threshold <= L + 1
      BY <1>1, <1>2, <2>1, <2>2
    <3> QED
      BY <1>2, <3>1, <3>2 DEF DemotesAt, RunOf
  <2>3. ASSUME consecutive_fail + 1 < unhealthy_threshold, DemotesAt(L + 1)' PROVE FALSE
    <3>1. /\ unhealthy_threshold <= L + 1
          /\ \A k \in (L + 1 - unhealthy_threshold + 1)..(L + 1) : history'[k] = "fail"
      BY <1>2, <2>3 DEF DemotesAt, RunOf
    <3>2. /\ L - consecutive_fail \in 1..L
          /\ L - consecutive_fail \in (L + 1 - unhealthy_threshold + 1)..(L + 1)
      BY <1>1, <1>2, <2>1, <2>3, <3>1
    <3> QED
      BY <1>1, <2>1, <3>1, <3>2
  <2> QED
    BY <1>2, <2>2, <2>3
<1>5. ASSUME healthy, consecutive_fail + 1 < unhealthy_threshold PROVE PromotionStands'
  <2>1. PICK p \in 1..L : PromotesAt(p) /\ \A d \in (p + 1)..L : ~DemotesAt(d)
    BY <1>0, <1>5 DEF PromotionStands
  <2>2. ~DemotesAt(L + 1)'
    BY <1>2, <1>4, <1>5
  <2>3. \A d \in (p + 1)..(L + 1) : ~DemotesAt(d)'
    <3>1. \A d \in (p + 1)..(L + 1) : d = L + 1 \/ (d \in 1..L /\ d \in (p + 1)..L)
      BY <1>1
    <3> QED
      BY <1>1, <2>1, <2>2, <3>1
  <2>4. p \in 1..(L + 1) /\ PromotesAt(p)'
    BY <1>1, <2>1
  <2> QED
    BY <1>1, <2>3, <2>4 DEF PromotionStands
<1>6. ASSUME ~(healthy /\ consecutive_fail + 1 < unhealthy_threshold)
      PROVE  ~PromotionStands'
  <2>1. SUFFICES ASSUME NEW p \in 1..Len(history'), PromotesAt(p)'
                 PROVE  \E d \in (p + 1)..Len(history') : DemotesAt(d)'
    BY DEF PromotionStands
  <2>2. p \in 1..L /\ PromotesAt(p)
    BY <1>3, <2>1
  <2>3. CASE healthy
    <3>1. DemotesAt(L + 1)' /\ L + 1 \in (p + 1)..Len(history')
      BY <1>1, <1>2, <1>4, <1>6, <2>2, <2>3
    <3> QED
      BY <3>1
  <2>4. CASE ~healthy
    <3>1. PICK d \in (p + 1)..L : DemotesAt(d)
      BY <1>0, <2>2, <2>4 DEF PromotionStands
    <3>2. d \in 1..L /\ d \in (p + 1)..Len(history')
      BY <1>1, <2>2
    <3> QED
      BY <1>1, <3>1, <3>2
  <2> QED
    BY <2>3, <2>4
<1> QED
  BY <1>5, <1>6

LEMMA HealthInitInv == HealthInit => HealthInv
<1> SUFFICES ASSUME HealthInit PROVE HealthInv
  OBVIOUS
<1>1. ~healthy /\ healthy \in BOOLEAN /\ ~ever_healthy /\ ever_healthy \in BOOLEAN
  BY Zenon DEF HealthInit
<1>2. /\ consecutive_ok = 0 /\ consecutive_fail = 0
      /\ history \in Seq({"ok", "fail"}) /\ Len(history) = 0
  BY DEF HealthInit
<1>3. Remembered /\ HealthyIffHistory
  BY <1>1, <1>2 DEF Remembered, HealthyIffHistory, PromotionStands
<1> QED
  BY <1>1, <1>2, <1>3, ThresholdsPositive, HealthAssumption
     DEF HealthAssumption, HealthInv, HealthTypeOK, NoOverdueTransition, InRotation

LEMMA ProbeSucceeds ==
  ASSUME HealthInv, record_probe_success PROVE HealthInv'
<1> USE ThresholdsPositive, HealthAssumption DEF HealthAssumption
<1>0. HealthTypeOK /\ NoOverdueTransition /\ InRotation /\ Remembered
  BY DEF HealthInv
<1>1. history' = Append(history, "ok") /\ consecutive_fail' = 0
  BY DEF record_probe_success
<1>2. /\ history' \in Seq({"ok", "fail"})
      /\ Len(history) \in Nat /\ Len(history') = Len(history) + 1
      /\ history'[Len(history) + 1] = "ok"
      /\ \A k \in 1..Len(history) : history'[k] = history[k]
  BY <1>0, <1>1, HistoryGrows
<1>3. PromotionStands' <=> healthy \/ consecutive_ok + 1 >= need
  BY <1>1, SuccessStands
<1>4. CASE healthy
  <2>1. UNCHANGED <<healthy, consecutive_ok, ever_healthy>> /\ need' = need
    BY <1>4 DEF record_probe_success, need
  <2>2. Remembered'
    <3>1. ever_healthy' /\ \E k \in 1..Len(history') : history'[k] = "ok"
      BY <1>0, <1>2, <1>4, <2>1 DEF InRotation
    <3>2. /\ 0 < Len(history') /\ history'[Len(history') - 0] = "ok"
          /\ \A k \in (Len(history') - 0 + 1)..Len(history') : FALSE
      BY <1>2
    <3> QED
      BY <1>1, <1>4, <2>1, <3>1, <3>2 DEF Remembered
  <2>3. HealthTypeOK' /\ NoOverdueTransition' /\ InRotation'
    BY <1>0, <1>1, <1>2, <1>4, <2>1 DEF HealthTypeOK, NoOverdueTransition, InRotation
  <2>4. HealthyIffHistory'
    BY <1>3, <1>4, <2>1 DEF HealthyIffHistory
  <2> QED
    BY <2>2, <2>3, <2>4 DEF HealthInv
<1>5. CASE ~healthy
  <2> DEFINE ok == saturating_add(consecutive_ok)
  <2>1. /\ healthy' = (ok >= need)
        /\ consecutive_ok' = IF ok >= need THEN 0 ELSE ok
        /\ ever_healthy' = (ever_healthy \/ ok >= need)
    BY <1>5 DEF record_probe_success
  <2>2. ok \in 0..U32Max /\ ok = consecutive_ok + 1
    BY <1>0, <1>5 DEF saturating_add, HealthTypeOK, NoOverdueTransition
  <2> HIDE DEF ok
  <2>3. CASE ok >= need
    <3>1. healthy' = TRUE /\ ever_healthy' = TRUE /\ consecutive_ok' = 0
      BY <1>0, <2>1, <2>3 DEF HealthTypeOK
    <3>2. Remembered'
      <4>1. \E k \in 1..Len(history') : history'[k] = "ok"
        BY <1>2
      <4>2. /\ 0 < Len(history') /\ history'[Len(history') - 0] = "ok"
            /\ \A k \in (Len(history') - 0 + 1)..Len(history') : FALSE
        BY <1>2
      <4> QED
        BY <1>1, <3>1, <4>1, <4>2 DEF Remembered
    <3>3. HealthTypeOK' /\ NoOverdueTransition' /\ InRotation'
      BY <1>0, <1>1, <1>2, <3>1 DEF HealthTypeOK, NoOverdueTransition, InRotation
    <3>4. HealthyIffHistory'
      BY <1>3, <2>2, <2>3, <3>1 DEF HealthyIffHistory
    <3> QED
      BY <3>2, <3>3, <3>4 DEF HealthInv
  <2>4. CASE ~(ok >= need)
    <3>1. healthy' = FALSE
      <4>1. (ok >= need) = FALSE
        BY <2>4
      <4> QED
        BY <2>1, <4>1, Zenon
    <3>2. (ever_healthy' <=> ever_healthy) /\ ever_healthy' \in BOOLEAN
      BY <2>1, <2>4, Zenon
    <3>3. consecutive_ok' = ok
      BY <2>1, <2>4
    <3>4. need' = need
      BY <3>2 DEF need
    <3>5. ever_healthy
      <4>1. consecutive_ok + 1 >= 1
        BY <1>0 DEF HealthTypeOK
      <4> QED
        BY <2>2, <2>4, <4>1 DEF need
    <3>6. Remembered'
      <4>1. ever_healthy' /\ \E k \in 1..Len(history') : history'[k] = "ok"
        BY <1>2, <3>2, <3>5
      <4>2. /\ consecutive_ok \in Nat /\ consecutive_ok <= Len(history)
            /\ consecutive_ok < Len(history) => history[Len(history) - consecutive_ok] = "fail"
            /\ \A k \in (Len(history) - consecutive_ok + 1)..Len(history) : history[k] = "ok"
        BY <1>0, <1>5 DEF Remembered, HealthTypeOK
      <4>3. ok <= Len(history') /\ (ok < Len(history') => history'[Len(history') - ok] = "fail")
        BY <1>2, <2>2, <4>2
      <4>4. ASSUME NEW k \in (Len(history') - ok + 1)..Len(history') PROVE history'[k] = "ok"
        <5>1. \/ k = Len(history) + 1
              \/ /\ k \in 1..Len(history)
                 /\ k \in (Len(history) - consecutive_ok + 1)..Len(history)
          BY <1>2, <2>2, <4>2
        <5> QED
          BY <1>2, <4>2, <5>1
      <4> QED
        BY <3>1, <3>3, <4>1, <4>3, <4>4 DEF Remembered
    <3>7. HealthTypeOK' /\ NoOverdueTransition' /\ InRotation'
      <4>1. ~healthy' /\ healthy' \in BOOLEAN
        BY <3>1
      <4>2. consecutive_ok' \in 0..U32Max /\ consecutive_ok' < need'
        BY <2>2, <2>4, <3>3, <3>4
      <4> QED
        BY <1>1, <1>2, <3>2, <4>1, <4>2 DEF HealthTypeOK, NoOverdueTransition, InRotation
    <3>8. HealthyIffHistory'
      BY <1>3, <1>5, <2>2, <2>4, <3>1 DEF HealthyIffHistory
    <3> QED
      BY <3>6, <3>7, <3>8 DEF HealthInv
  <2> QED
    BY <2>3, <2>4
<1> QED
  BY <1>4, <1>5

LEMMA ResultFails ==
  ASSUME HealthInv, record_failure PROVE HealthInv'
<1> USE ThresholdsPositive, HealthAssumption DEF HealthAssumption
<1> DEFINE fail == saturating_add(consecutive_fail)
           eject == healthy /\ fail >= unhealthy_threshold
<1>0. HealthTypeOK /\ NoOverdueTransition /\ InRotation /\ Remembered
  BY DEF HealthInv
<1>1. /\ history' = Append(history, "fail")
      /\ consecutive_ok' = 0
      /\ consecutive_fail' = IF eject THEN 0 ELSE fail
      /\ healthy' = (healthy /\ ~eject)
      /\ ever_healthy' = ever_healthy
  BY DEF record_failure
<1>2. /\ history' \in Seq({"ok", "fail"})
      /\ Len(history) \in Nat /\ Len(history') = Len(history) + 1
      /\ history'[Len(history) + 1] = "fail"
      /\ \A k \in 1..Len(history) : history'[k] = history[k]
  BY <1>0, <1>1, HistoryGrows
<1>3. PromotionStands' <=> healthy /\ consecutive_fail + 1 < unhealthy_threshold
  BY <1>1, FailureStands
<1>4. /\ fail \in 0..U32Max /\ (healthy => fail = consecutive_fail + 1)
      /\ consecutive_fail \in Nat
  BY <1>0 DEF saturating_add, HealthTypeOK, NoOverdueTransition
<1>5. need' \in 1..U32Max
  BY <1>1 DEF need, healthy_threshold, AtLeastOne
<1> HIDE DEF fail
<1>6. HealthTypeOK' /\ NoOverdueTransition' /\ InRotation'
  BY <1>0, <1>1, <1>2, <1>4, <1>5 DEF HealthTypeOK, NoOverdueTransition, InRotation
<1>7. HealthyIffHistory'
  <2>1. eject <=> healthy /\ ~(consecutive_fail + 1 < unhealthy_threshold)
    BY <1>4
  <2> HIDE DEF eject
  <2> QED
    BY <1>1, <1>3, <2>1, Zenon DEF HealthyIffHistory
<1>8. Remembered'
  <2>1. ever_healthy' <=> \E k \in 1..Len(history') : history'[k] = "ok"
    <3>1. (\E k \in 1..Len(history') : history'[k] = "ok")
             <=> \E k \in 1..Len(history) : history[k] = "ok"
      <4>1. \A k \in 1..Len(history') : k \in 1..Len(history) \/ k = Len(history) + 1
        BY <1>2
      <4>2. \A k \in 1..Len(history) : k \in 1..Len(history')
        BY <1>2
      <4>3. "fail" # "ok"
        OBVIOUS
      <4> QED
        BY <1>2, <4>1, <4>2, <4>3, Zenon
    <3> QED
      BY <1>0, <1>1, <3>1 DEF Remembered
  <2>2. CASE healthy /\ ~eject
    <3>1. healthy' /\ consecutive_fail' = consecutive_fail + 1
      BY <1>1, <1>4, <2>2
    <3>2. /\ consecutive_fail < Len(history)
          /\ history[Len(history) - consecutive_fail] = "ok"
          /\ \A k \in (Len(history) - consecutive_fail + 1)..Len(history) : history[k] = "fail"
      BY <1>0, <2>2 DEF Remembered
    <3>3. /\ consecutive_fail' < Len(history')
          /\ history'[Len(history') - consecutive_fail'] = "ok"
      BY <1>2, <1>4, <3>1, <3>2
    <3>4. ASSUME NEW k \in (Len(history') - consecutive_fail' + 1)..Len(history')
          PROVE  history'[k] = "fail"
      <4>0. k \in (Len(history) - consecutive_fail + 1)..(Len(history) + 1)
        <5>1. Len(history') - consecutive_fail' + 1 = Len(history) - consecutive_fail + 1
          BY <1>2, <1>4, <3>1
        <5> QED
          BY <1>2, <3>4, <5>1
      <4>1. \/ k = Len(history) + 1
            \/ /\ k \in 1..Len(history)
               /\ k \in (Len(history) - consecutive_fail + 1)..Len(history)
        <5>1. /\ Len(history) \in Nat /\ consecutive_fail \in Nat
              /\ consecutive_fail < Len(history)
          BY <1>2, <1>4, <3>2
        <5> QED
          BY <4>0, <5>1
      <4> QED
        BY <1>2, <3>2, <4>1
    <3> QED
      BY <2>1, <3>1, <3>3, <3>4 DEF Remembered
  <2>3. CASE ~(healthy /\ ~eject)
    <3>1. ~healthy'
      BY <1>1, <2>3, Zenon
    <3>2. /\ 0 <= Len(history') /\ history'[Len(history') - 0] = "fail"
          /\ \A k \in (Len(history') - 0 + 1)..Len(history') : FALSE
      BY <1>2
    <3> QED
      BY <1>1, <2>1, <3>1, <3>2 DEF Remembered
  <2> QED
    BY <2>2, <2>3
<1> QED
  BY <1>6, <1>7, <1>8 DEF HealthInv

LEMMA HealthNextInv == HealthInv /\ [HealthNext]_healthVars => HealthInv'
<1> SUFFICES ASSUME HealthInv, [HealthNext]_healthVars PROVE HealthInv'
  OBVIOUS
<1>1. CASE UNCHANGED healthVars
  <2>1. /\ healthy' = healthy /\ consecutive_ok' = consecutive_ok
        /\ consecutive_fail' = consecutive_fail /\ ever_healthy' = ever_healthy
        /\ history' = history
    BY <1>1 DEF healthVars
  <2>2. PromotionStands' <=> PromotionStands
    BY <2>1 DEF PromotionStands, PromotesAt, DemotesAt, RunOf, healthy_threshold,
                unhealthy_threshold
  <2> QED
    BY <2>1, <2>2 DEF HealthInv, HealthTypeOK, NoOverdueTransition, InRotation, Remembered,
                      HealthyIffHistory, need, healthy_threshold, unhealthy_threshold
<1>2. CASE HealthNext
  BY <1>2, ProbeSucceeds, ResultFails
     DEF HealthNext, record_probe_failure, record_passive_failure
<1> QED
  BY <1>1, <1>2

\* The u32 counters never leave their range, whatever the thresholds.
THEOREM HealthTypes == HealthSpec => []HealthTypeOK
<1>1. HealthInv => HealthTypeOK
  BY DEF HealthInv
<1> QED
  BY <1>1, HealthInitInv, HealthNextInv, PTL DEF HealthSpec

\* An instance in rotation is short of the failures that eject it, and one out
\* of rotation short of the successes that restore it, for every threshold.
THEOREM TransitionsAreTimely == HealthSpec => []NoOverdueTransition
<1>1. HealthInv => NoOverdueTransition
  BY DEF HealthInv
<1> QED
  BY <1>1, HealthInitInv, HealthNextInv, PTL DEF HealthSpec

\* The lock-free bit is at all times what the whole history of probe results
\* and passive failures says, for every pair of thresholds and every order.
THEOREM HealthFollowsHistory == HealthSpec => []HealthyIffHistory
<1>1. HealthInv => HealthyIffHistory
  BY DEF HealthInv
<1> QED
  BY <1>1, HealthInitInv, HealthNextInv, PTL DEF HealthSpec
============================================================================
