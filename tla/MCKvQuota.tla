----------------------------- MODULE MCKvQuota -----------------------------
EXTENDS KvQuota

\* Two requests run f1, a third runs f2.
TwoOnOne == [t \in Tasks |-> IF t = "t3" THEN "f2" ELSE "f1"]

\* Two requests run the same filter.
SameFilter == [t \in Tasks |-> "f1"]

OneByte == [k \in FixedKeys |-> 1]
=============================================================================
