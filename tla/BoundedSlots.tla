--------------------------- MODULE BoundedSlots ----------------------------
(***************************************************************************)
(* What the circuit breaker and the trusted pool promise their callers: a  *)
(* fixed number of slots, taken one at a time and given back one at a      *)
(* time, with never more than Max of them out.                             *)
(***************************************************************************)
EXTENDS Naturals

CONSTANT Max

VARIABLE taken

Acquire == taken < Max /\ taken' = taken + 1
Release == taken > 0 /\ taken' = taken - 1

Init == taken \in 0..Max
Next == Acquire \/ Release
Spec == Init /\ [][Next]_taken
============================================================================
