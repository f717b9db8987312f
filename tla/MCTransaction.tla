--------------------------- MODULE MCTransaction ---------------------------
EXTENDS Transaction, TLC

\* A per-try timeout, an overall deadline, or both; with neither nothing ends an
\* upstream that does not answer.
Policies == [per_try : BOOLEAN, overall : BOOLEAN] \ {[per_try |-> FALSE, overall |-> FALSE]}
============================================================================
