----------------------------- MODULE MCOutlier -----------------------------
(* Three instances of which the policy lets one be ejected, for a clock of  *)
(* MaxNow ticks.                                                            *)
EXTENDS OutlierDetection, TLC

CONSTANTS
  MaxNow,         \* bound on the clock
  MaxEjections    \* bound on the ejections of one instance without a success

ClockBound ==
  /\ now <= MaxNow
  /\ \A i \in Instances : outlier_eject_count[i] <= MaxEjections

Symmetry == Permutations(Tasks)
============================================================================
