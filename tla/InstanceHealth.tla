-------------------------- MODULE InstanceHealth ---------------------------
(***************************************************************************)
(* The active-health state machine of one upstream instance                *)
(* (crates/control/src/upstream/instance.rs).                              *)
(*                                                                         *)
(* The prober's results and the passive failures of forwarded requests     *)
(* reach the instance in any order; each of them is applied in one         *)
(* critical section of the instance's counters mutex, hence one action.    *)
(* history records what was applied, in order: it is what the counters     *)
(* have to summarise, and no action reads it.                              *)
(***************************************************************************)
EXTENDS Naturals, Sequences

CONSTANTS
  HealthyThreshold,      \* healthy_threshold of the manifest, may be 0
  UnhealthyThreshold,    \* unhealthy_threshold of the manifest, may be 0
  U32Max                 \* where the u32 counters saturate

ASSUME HealthAssumption ==
  /\ U32Max \in Nat \ {0}
  /\ HealthyThreshold \in 0..U32Max
  /\ UnhealthyThreshold \in 0..U32Max

VARIABLES
  healthy,            \* the lock-free bit that pick reads
  consecutive_ok,
  consecutive_fail,
  ever_healthy,
  history             \* "ok" or "fail" for each result applied so far

healthVars == <<healthy, consecutive_ok, consecutive_fail, ever_healthy, history>>

\* UpstreamInstance::new clamps both thresholds to at least one.
AtLeastOne(n) == IF n = 0 THEN 1 ELSE n
healthy_threshold == AtLeastOne(HealthyThreshold)
unhealthy_threshold == AtLeastOne(UnhealthyThreshold)

saturating_add(n) == IF n < U32Max THEN n + 1 ELSE U32Max

\* UpstreamInstance::new: out of rotation until a probe passes.
HealthInit ==
  /\ healthy = FALSE
  /\ consecutive_ok = 0
  /\ consecutive_fail = 0
  /\ ever_healthy = FALSE
  /\ history = <<>>

\* The successes a promotion takes: one the first time ever, then all of them.
need == IF ever_healthy THEN healthy_threshold ELSE 1

record_probe_success_keeps_failMut ==
  /\ history' = Append(history, "ok")
  /\ UNCHANGED consecutive_fail
  /\ IF healthy
     THEN UNCHANGED <<healthy, consecutive_ok, ever_healthy>>
     ELSE LET ok == saturating_add(consecutive_ok) IN
          /\ healthy' = (ok >= need)
          /\ consecutive_ok' = IF ok >= need THEN 0 ELSE ok
          /\ ever_healthy' = (ever_healthy \/ ok >= need)

record_probe_success ==
  /\ history' = Append(history, "ok")
  /\ consecutive_fail' = 0
  /\ IF healthy
     THEN UNCHANGED <<healthy, consecutive_ok, ever_healthy>>
     ELSE LET ok == saturating_add(consecutive_ok) IN
          /\ healthy' = (ok >= need)
          /\ consecutive_ok' = IF ok >= need THEN 0 ELSE ok
          /\ ever_healthy' = (ever_healthy \/ ok >= need)

record_failure_off_by_oneMut ==
  LET fail  == saturating_add(consecutive_fail)
      eject == healthy /\ fail > unhealthy_threshold
  IN  /\ history' = Append(history, "fail")
      /\ consecutive_ok' = 0
      /\ consecutive_fail' = IF eject THEN 0 ELSE fail
      /\ healthy' = (healthy /\ ~eject)
      /\ UNCHANGED ever_healthy

record_failure ==
  LET fail  == saturating_add(consecutive_fail)
      eject == healthy /\ fail >= unhealthy_threshold
  IN  /\ history' = Append(history, "fail")
      /\ consecutive_ok' = 0
      /\ consecutive_fail' = IF eject THEN 0 ELSE fail
      /\ healthy' = (healthy /\ ~eject)
      /\ UNCHANGED ever_healthy

\* The two callers of record_failure.
record_probe_failure == record_failure
record_passive_failure == record_failure

HealthNext ==
  \/ record_probe_success
  \/ record_probe_failure
  \/ record_passive_failure

HealthSpec == HealthInit /\ [][HealthNext]_healthVars

----------------------------------------------------------------------------
HealthTypeOK ==
  /\ healthy \in BOOLEAN
  /\ consecutive_ok \in 0..U32Max
  /\ consecutive_fail \in 0..U32Max
  /\ ever_healthy \in BOOLEAN
  /\ history \in Seq({"ok", "fail"})

\* The n results up to and including the i-th are all r.
RunOf(r, n, i) == n <= i /\ \A k \in (i - n + 1)..i : history[k] = r

\* The i-th result puts the instance in rotation: the first success ever, or
\* the last of healthy_threshold successes in a row.
PromotesAt(i) ==
  /\ history[i] = "ok"
  /\ \/ \A k \in 1..(i - 1) : history[k] = "fail"
     \/ RunOf("ok", healthy_threshold, i)

\* The i-th result takes it out: the last of unhealthy_threshold failures.
DemotesAt(i) == RunOf("fail", unhealthy_threshold, i)

\* Some result promoted the instance and none since demoted it.
PromotionStands ==
  \E p \in 1..Len(history) :
    PromotesAt(p) /\ \A d \in (p + 1)..Len(history) : ~DemotesAt(d)

\* The bit pick reads is what the results applied so far say it should be: an
\* instance is in rotation iff some result promoted it and none since demoted
\* it, although the counters forget everything at each transition
\* (record_probe_success, record_failure).
HealthyIffHistory == healthy <=> PromotionStands

\* Whatever the counters say, a transition is never overdue: an instance in
\* rotation is short of the failures that eject it, and one out of rotation
\* short of the successes that restore it.
NoOverdueTransition ==
  /\ healthy => consecutive_fail < unhealthy_threshold
  /\ ~healthy => consecutive_ok < need
============================================================================
