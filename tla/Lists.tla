------------------------------- MODULE Lists -------------------------------
(***************************************************************************)
(* Lists, as far as the community modules have nothing the proofs can use. *)
(***************************************************************************)
EXTENDS Integers, Sequences, SequencesExt

\* Vec::retain, Iterator::filter: the elements that pass the test, in order.
\* (SelectSeq by another name, since the provers do not expand that one.)
Keep(s, Test(_)) ==
  LET kept[i \in 0..Len(s)] ==
        IF i = 0 THEN <<>>
        ELSE IF Test(s[i]) THEN Append(kept[i - 1], s[i]) ELSE kept[i - 1]
  IN  kept[Len(s)]

\* A list, as opposed to any other function.
IsList(s) == Len(s) \in Nat /\ s = [i \in 1..Len(s) |-> s[i]]
============================================================================
