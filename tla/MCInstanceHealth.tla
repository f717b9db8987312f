------------------------- MODULE MCInstanceHealth --------------------------
(* Every sequence of up to MaxHistory results, for thresholds that differ.  *)
EXTENDS InstanceHealth

CONSTANT MaxHistory       \* bound on the number of results applied

HistoryBound == Len(history) < MaxHistory
============================================================================
