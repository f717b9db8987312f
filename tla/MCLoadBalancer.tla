-------------------------- MODULE MCLoadBalancer ---------------------------
(* Three instances, the second twice as heavy.                              *)
EXTENDS LoadBalancer, TLC

Weights == [i \in 1..N |-> IF i = 2 THEN 2 ELSE 1]

Symmetry == Permutations(Tasks)
============================================================================
