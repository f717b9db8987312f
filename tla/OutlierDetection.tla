------------------------- MODULE OutlierDetection --------------------------
(***************************************************************************)
(* Outlier detection of one upstream (crates/control/src/upstream/         *)
(* outlier.rs): UpstreamGroup::record_outcome.                             *)
(*                                                                         *)
(* A task that got an answer from an instance records it there, also when  *)
(* the instance has been ejected in the meantime.  record_outcome holds    *)
(* only that instance's counters mutex while it counts the ejected         *)
(* instances of the whole group with lock-free reads: one read is one      *)
(* action, so the count can be overtaken.  What happens under the mutex    *)
(* before the first and after the last of these reads is one action each.  *)
(***************************************************************************)
EXTENDS UpstreamGroup

CONSTANTS
  Consecutive,         \* outlier_consecutive: failures that eject
  MaxEjectionPercent,  \* outlier_max_ejection_percent
  BaseEjection,        \* outlier_base_ejection, in clock ticks
  BackoffShiftCap      \* OUTLIER_BACKOFF_SHIFT_CAP

NoTask == "none"

ASSUME OutlierAssumption ==
  /\ NoTask \notin Tasks
  /\ Consecutive \in Nat \ {0}        \* 0 disables: record_outcome returns
  /\ MaxEjectionPercent \in 0..100
  /\ BaseEjection \in Nat
  /\ BackoffShiftCap \in Nat

\* Powers of two are naturals that grow with the exponent.
ASSUME PowersGrow ==
  \A n \in 0..BackoffShiftCap : 2^n \in Nat /\ 2^n <= 2^BackoffShiftCap

VARIABLES
  consecutive_gw_fail,      \* per instance, under its mutex
  outlier_eject_count,      \* per instance, under its mutex
  outlier_ejected_until,    \* per instance, read lock-free
  now,                      \* the clock, never stepped back here
  counters,                 \* counters[i]: the task inside i's mutex, or NoTask
  scan                      \* scan[t]: what t has read so far, or NoScan

outlierVars == <<consecutive_gw_fail, outlier_eject_count, outlier_ejected_until,
                 now, counters, scan>>

NoScan == [at |-> 0, next |-> 0, now_ms |-> 0, already |-> 0]

is_outlier_ejected(i, now_ms) == outlier_ejected_until[i] > now_ms
Ejected == {i \in Instances : is_outlier_ejected(i, now)}

OutlierInit ==
  /\ consecutive_gw_fail = [i \in Instances |-> 0]
  /\ outlier_eject_count = [i \in Instances |-> 0]
  /\ outlier_ejected_until = [i \in Instances |-> 0]
  /\ now = 0
  /\ counters = [i \in Instances |-> NoTask]
  /\ scan = [t \in Tasks |-> NoScan]

CanRecord(t, i) == scan[t] = NoScan /\ counters[i] = NoTask

\* A non-failure resets the streak and the backoff.
RecordSuccess(t, i) ==
  /\ CanRecord(t, i)
  /\ consecutive_gw_fail' = [consecutive_gw_fail EXCEPT ![i] = 0]
  /\ outlier_eject_count' = [outlier_eject_count EXCEPT ![i] = 0]
  /\ UNCHANGED <<outlier_ejected_until, now, counters, scan>>

\* A failure short of the threshold only counts.
RecordFailure(t, i) ==
  /\ CanRecord(t, i)
  /\ consecutive_gw_fail[i] + 1 < Consecutive
  /\ consecutive_gw_fail' = [consecutive_gw_fail EXCEPT ![i] = @ + 1]
  /\ UNCHANGED <<outlier_eject_count, outlier_ejected_until, now, counters, scan>>

\* The failure that reaches it: the task keeps the mutex and reads the clock.
ReachThreshold(t, i) ==
  /\ CanRecord(t, i)
  /\ consecutive_gw_fail[i] + 1 >= Consecutive
  /\ consecutive_gw_fail' = [consecutive_gw_fail EXCEPT ![i] = @ + 1]
  /\ counters' = [counters EXCEPT ![i] = t]
  /\ scan' = [scan EXCEPT ![t] = [at |-> i, next |-> 1, now_ms |-> now, already |-> 0]]
  /\ UNCHANGED <<outlier_eject_count, outlier_ejected_until, now>>

\* One lock-free read of the already_ejected count.
CountNext(t) ==
  LET s == scan[t] IN
  /\ s.at # 0
  /\ s.next <= N
  /\ scan' = [scan EXCEPT ![t] =
       [s EXCEPT !.next = @ + 1,
                 !.already = IF is_outlier_ejected(s.next, s.now_ms) THEN @ + 1 ELSE @]]
  /\ UNCHANGED <<consecutive_gw_fail, outlier_eject_count, outlier_ejected_until,
                 now, counters>>

\* The cap, in integers: one more ejection must stay within the percentage.
OverCapOffByOneMut(already) == already * 100 > MaxEjectionPercent * N
OverCap(already) == (already + 1) * 100 > MaxEjectionPercent * N

WindowUncappedMut(i) == BaseEjection * 2^outlier_eject_count[i]

Window(i) ==
  BaseEjection * 2^(IF outlier_eject_count[i] < BackoffShiftCap
                    THEN outlier_eject_count[i] ELSE BackoffShiftCap)

\* The count is complete: the cap keeps the instance in rotation ...
KeepInRotationNoResetMut(t) ==
  LET s == scan[t] IN
  /\ s.at # 0
  /\ s.next > N
  /\ OverCap(s.already)
  /\ counters' = [counters EXCEPT ![s.at] = NoTask]
  /\ scan' = [scan EXCEPT ![t] = NoScan]
  /\ UNCHANGED <<consecutive_gw_fail, outlier_eject_count, outlier_ejected_until, now>>

KeepInRotation(t) ==
  LET s == scan[t] IN
  /\ s.at # 0
  /\ s.next > N
  /\ OverCap(s.already)
  /\ consecutive_gw_fail' = [consecutive_gw_fail EXCEPT ![s.at] = 0]
  /\ counters' = [counters EXCEPT ![s.at] = NoTask]
  /\ scan' = [scan EXCEPT ![t] = NoScan]
  /\ UNCHANGED <<outlier_eject_count, outlier_ejected_until, now>>

\* ... or it is ejected for a window that backs off.
Eject(t) ==
  LET s == scan[t] IN
  /\ s.at # 0
  /\ s.next > N
  /\ ~OverCap(s.already)
  /\ outlier_ejected_until' =
       [outlier_ejected_until EXCEPT ![s.at] = s.now_ms + Window(s.at)]
  /\ outlier_eject_count' = [outlier_eject_count EXCEPT ![s.at] = @ + 1]
  /\ consecutive_gw_fail' = [consecutive_gw_fail EXCEPT ![s.at] = 0]
  /\ counters' = [counters EXCEPT ![s.at] = NoTask]
  /\ scan' = [scan EXCEPT ![t] = NoScan]
  /\ UNCHANGED now

Tick ==
  /\ now' = now + 1
  /\ UNCHANGED <<consecutive_gw_fail, outlier_eject_count, outlier_ejected_until,
                 counters, scan>>

OutlierNext ==
  \/ \E t \in Tasks : \/ \E i \in Instances : \/ RecordSuccess(t, i)
                                              \/ RecordFailure(t, i)
                                              \/ ReachThreshold(t, i)
                      \/ CountNext(t) \/ KeepInRotation(t) \/ Eject(t)
  \/ Tick

OutlierSpec == OutlierInit /\ [][OutlierNext]_outlierVars

----------------------------------------------------------------------------
Scans == [at : 0..N, next : 0..N + 1, now_ms : Nat, already : 0..N]

OutlierTypeOK ==
  /\ consecutive_gw_fail \in [Instances -> 0..Consecutive]
  /\ outlier_eject_count \in [Instances -> Nat]
  /\ outlier_ejected_until \in [Instances -> Nat]
  /\ now \in Nat
  /\ counters \in [Instances -> Tasks \cup {NoTask}]
  /\ scan \in [Tasks -> Scans]

\* The most instances the policy lets be out at once.
EjectionCap == (MaxEjectionPercent * N) \div 100

\* Tasks that count at the same time can each miss the ejection the others are
\* about to make, and no more than that: the cap is passed by at most one
\* instance per task beyond the first (record_outcome counts without a group
\* lock).
OvershootBounded ==
  Cardinality(Ejected) <= EjectionCap + (Cardinality(Tasks) - 1)

\* Outside the critical section no streak is at the threshold: every failure
\* that reaches it is acted on, and refused or carried out, the streak starts
\* afresh ("a fresh threshold's worth of chances").
StreakResolved ==
  \A i \in Instances :
    consecutive_gw_fail[i] >= Consecutive => counters[i] # NoTask

\* However often an instance flaps, no ejection lasts longer than the largest
\* backoff window (OUTLIER_BACKOFF_SHIFT_CAP).
WindowBounded ==
  \A i \in Instances :
    outlier_ejected_until[i] <= now + BaseEjection * 2^BackoffShiftCap
============================================================================
