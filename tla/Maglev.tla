------------------------------- MODULE Maglev ------------------------------
(***************************************************************************)
(* The weighted Maglev lookup table (crates/control/src/maglev.rs), built  *)
(* once per reconcile for an upstream with lb_algorithm = "maglev".        *)
(*                                                                         *)
(* Each entry is [h1, h2, weight]: the two halves of the murmur3 hash of   *)
(* the instance's address, and its weight.                                 *)
(***************************************************************************)
EXTENDS Integers, Sequences, FiniteSets, SequencesExt, FiniteSetsExt

CONSTANT U16Max         \* u16::MAX

Empty == 0

offset(e, m) == e.h1 % m
skip(e, m) == (e.h2 % (m - 1)) + 1

\* The k-th slot the instance prefers.
Preferred(e, m, k) == (offset(e, m) + k * skip(e, m)) % m

\* The least k >= next whose slot is empty.  The sequence repeats after m, so
\* when there is none among m the inner loop never ends.
Probe(entry, e, m, next) ==
  LET free == {k \in next..(next + m - 1) : entry[Preferred(e, m, k)] = Empty}
  IN  IF free = {} THEN -1 ELSE Min(free)

\* The turn of instance i in a round, in the state
\* [entry, next, target, filled, stuck] of the loop.
Turn(st, entries, m, round, i) ==
  IF \/ st.filled = m                              \* break 'fill
     \/ st.stuck
     \/ entries[i].weight = 0                      \* never its turn
     \/ round * entries[i].weight < st.target[i]   \* not its turn yet
  THEN st
  ELSE LET heaviest == Max({entries[j].weight : j \in DOMAIN entries})
           k == Probe(st.entry, entries[i], m, st.next[i])
       IN  IF k = -1 THEN [st EXCEPT !.stuck = TRUE]
           ELSE [st EXCEPT !.target[i] = @ + heaviest,
                           !.entry[Preferred(entries[i], m, k)] = i,
                           !.next[i] = k + 1,
                           !.filled = @ + 1]

\* The heaviest instance takes a turn every round, so m rounds fill the table.
fill(entries, m) ==
  LET n == Len(entries)
      turns == [j \in 1..(m * n) |-> <<((j - 1) \div n) + 1, ((j - 1) % n) + 1>>]
  IN  FoldLeft(LAMBDA st, rt : Turn(st, entries, m, rt[1], rt[2]),
               [entry  |-> [c \in 0..(m - 1) |-> Empty],
                next   |-> [i \in 1..n |-> 0],
                target |-> [i \in 1..n |-> entries[i].weight],
                filled |-> 0,
                stuck  |-> FALSE],
               turns)

\* The table keeps the index of an instance, which is one less, as a u16.
as_u16(e) == ((e - 1) % (U16Max + 1)) + 1

build(entries, m) ==
  LET st == fill(entries, m)
  IN  [entry |-> [c \in 0..(m - 1) |-> as_u16(st.entry[c])], stuck |-> st.stuck]

\* The entries an instance got.
Share(table, i) == Cardinality({c \in DOMAIN table.entry : table.entry[c] = i})
============================================================================
