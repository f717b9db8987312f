--------------------------- MODULE UpstreamGroup ---------------------------
(***************************************************************************)
(* What the machines of one upstream have in common: the instances of its  *)
(* group (crates/control/src/upstream/mod.rs), fixed while the group       *)
(* lives, and the tasks that use it.                                       *)
(***************************************************************************)
EXTENDS Naturals, FiniteSets

CONSTANTS
  Tasks,          \* tasks that forward to the upstream and record outcomes
  N               \* instances of the group

ASSUME GroupAssumption ==
  /\ IsFiniteSet(Tasks) /\ Tasks # {}
  /\ N \in Nat \ {0}

\* In vector order.
Instances == 1..N
============================================================================
