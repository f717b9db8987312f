----------------------------- MODULE Host_proofs ---------------------------
(***************************************************************************)
(* What the host (crates/host) keeps, for every value of the constants.    *)
(*   - The trusted pool: for every number of threads, every pool size and  *)
(*     every recycling and breaker threshold, the slots are counted        *)
(*     exactly, the instances that exist never outnumber the pool size,    *)
(*     and no thread waits in checkout with nobody left to wake it.        *)
(*   - The quota: for every set of filters, keys, lengths, calls and caps, *)
(*     whatever the interleaving, no charge goes over a cap; and while the *)
(*     calls of one filter are on different keys, the charges are exact,   *)
(*     their sum is the total, and the backend itself is within the caps.  *)
(*     A sum is the cardinality of a set of units (SumOf in KvQuota): it   *)
(*     needs no recursion and its laws follow from those of Cardinality.   *)
(***************************************************************************)
EXTENDS TrustedPool, KvQuota, FiniteSetTheorems, SequenceTheorems, TLAPS

----------------------------------------------------------------------------
(* The trusted pool.                                                       *)

\* A thread owns an instance exactly while it runs a call on it.
HeldIffRunning == \A t \in Threads : held[t] # NoInstance <=> pc[t] = "running"

\* The inductive invariant.  SlotAccounting needs HeldIffRunning (what a thread
\* puts back in the stack is an instance), and NoStrandedWaiter needs both
\* SlotAccounting (a full pool has owners that will come back) and
\* CooldownNeedsStreak (a woken thread that leaves met a tripped breaker).
Inv ==
  /\ PoolTypeOK
  /\ HeldIffRunning
  /\ SlotAccounting
  /\ CooldownNeedsStreak
  /\ NoStrandedWaiter

----------------------------------------------------------------------------
\* Types, and the instance a running thread has.

LEMMA InitTypes == PoolInit => PoolTypeOK /\ HeldIffRunning
BY PoolAssumption
   DEF PoolInit, PoolTypeOK, HeldIffRunning, PCs, NoInstance, PoolAssumption

LEMMA NextTypes ==
  ASSUME PoolTypeOK, HeldIffRunning, [PoolNext]_poolVars
  PROVE  PoolTypeOK' /\ HeldIffRunning'
<1> USE PoolAssumption DEF PoolAssumption, PoolTypeOK, HeldIffRunning, PCs, NoInstance, Goto
<1>1. ASSUME NEW t \in Threads, Enter(t)
      PROVE  PoolTypeOK' /\ HeldIffRunning'
  BY <1>1 DEF Enter
<1>2. ASSUME NEW t \in Threads, CheckoutRefused(t)
      PROVE  PoolTypeOK' /\ HeldIffRunning'
  BY <1>2 DEF CheckoutRefused, AtLoopTop
<1>3. ASSUME NEW t \in Threads, CheckoutReuse(t)
      PROVE  PoolTypeOK' /\ HeldIffRunning'
  <2>1. Len(idle) \in Nat /\ Len(idle) # 0 /\ idle[Len(idle)] \in Nat
    BY <1>3 DEF CheckoutReuse
  <2>2. SubSeq(idle, 1, Len(idle) - 1) \in Seq(Nat)
    BY <2>1
  <2> QED
    BY <1>3, <2>1, <2>2 DEF CheckoutReuse, AtLoopTop
<1>4. ASSUME NEW t \in Threads, CheckoutReserve(t)
      PROVE  PoolTypeOK' /\ HeldIffRunning'
  BY <1>4 DEF CheckoutReserve, AtLoopTop
<1>5. ASSUME NEW t \in Threads, CheckoutWait(t)
      PROVE  PoolTypeOK' /\ HeldIffRunning'
  BY <1>5 DEF CheckoutWait, AtLoopTop
<1>6. ASSUME NEW t \in Threads, WaitTimeout(t)
      PROVE  PoolTypeOK' /\ HeldIffRunning'
  BY <1>6 DEF WaitTimeout
<1>7. ASSUME NEW t \in Threads, BuildOk(t)
      PROVE  PoolTypeOK' /\ HeldIffRunning'
  BY <1>7 DEF BuildOk
<1>8. ASSUME NEW t \in Threads, BuildFail(t)
      PROVE  PoolTypeOK' /\ HeldIffRunning'
  BY <1>8 DEF BuildFail, FreeSlot
<1>9. ASSUME NEW t \in Threads, CheckIn(t)
      PROVE  PoolTypeOK' /\ HeldIffRunning'
  <2>1. held[t] \in Nat
    BY <1>9 DEF CheckIn
  <2>2. Append(idle, held[t] + 1) \in Seq(Nat)
    BY <2>1
  <2> QED
    BY <1>9, <2>2 DEF CheckIn, clear_breaker
<1>10. ASSUME NEW t \in Threads, RecycleDrop(t)
       PROVE  PoolTypeOK' /\ HeldIffRunning'
  BY <1>10 DEF RecycleDrop
<1>11. ASSUME NEW t \in Threads, RecycleFree(t)
       PROVE  PoolTypeOK' /\ HeldIffRunning'
  BY <1>11 DEF RecycleFree, FreeSlot, clear_breaker
<1>12. ASSUME NEW t \in Threads, TrapDrop(t)
       PROVE  PoolTypeOK' /\ HeldIffRunning'
  BY <1>12 DEF TrapDrop
<1>13. ASSUME NEW t \in Threads, TrapFree(t)
       PROVE  PoolTypeOK' /\ HeldIffRunning'
  BY <1>13 DEF TrapFree, FreeSlot, OneMoreTrap
<1>14. ASSUME NEW t \in Threads, notify_one(t)
       PROVE  PoolTypeOK' /\ HeldIffRunning'
  BY <1>14 DEF notify_one, Waiters
<1>15. ASSUME CooldownElapses \/ ClockStepsBack
       PROVE  PoolTypeOK' /\ HeldIffRunning'
  BY <1>15 DEF CooldownElapses, ClockStepsBack
<1>16. CASE UNCHANGED poolVars
  BY <1>16 DEF poolVars
<1> QED
  BY <1>1, <1>2, <1>3, <1>4, <1>5, <1>6, <1>7, <1>8, <1>9, <1>10, <1>11, <1>12,
     <1>13, <1>14, <1>15, <1>16 DEF PoolNext, ThreadStep

----------------------------------------------------------------------------
\* Slots.

LEMMA OwnersFinite ==
  /\ IsFiniteSet(SlotOwners)
  /\ Cardinality(SlotOwners) \in Nat
<1>1. SlotOwners \subseteq Threads
  BY DEF SlotOwners
<1> QED
  BY <1>1, FS_Subset, FS_CardinalityType, PoolAssumption DEF PoolAssumption

\* How the number of slots out of the stack changes when one thread moves.
LEMMA OneMoves ==
  ASSUME PoolTypeOK, NEW t \in Threads, NEW l \in PCs, pc' = [pc EXCEPT ![t] = l]
  PROVE  /\ (pc[t] \in SlotPCs <=> l \in SlotPCs) =>
              Cardinality(SlotOwners') = Cardinality(SlotOwners)
         /\ pc[t] \notin SlotPCs /\ l \in SlotPCs =>
              Cardinality(SlotOwners') = Cardinality(SlotOwners) + 1
         /\ pc[t] \in SlotPCs /\ l \notin SlotPCs =>
              /\ Cardinality(SlotOwners') = Cardinality(SlotOwners) - 1
              /\ Cardinality(SlotOwners) > 0
<1>1. /\ l \in SlotPCs => SlotOwners' = SlotOwners \cup {t}
      /\ l \notin SlotPCs => SlotOwners' = SlotOwners \ {t}
  BY DEF SlotOwners, PoolTypeOK
<1>2. t \in SlotOwners <=> pc[t] \in SlotPCs
  BY DEF SlotOwners
<1>3. /\ IsFiniteSet(SlotOwners)
      /\ Cardinality(SlotOwners) \in Nat
  BY OwnersFinite
<1>4. /\ Cardinality(SlotOwners \cup {t}) =
            IF t \in SlotOwners THEN Cardinality(SlotOwners) ELSE Cardinality(SlotOwners) + 1
      /\ Cardinality(SlotOwners \ {t}) =
            IF t \in SlotOwners THEN Cardinality(SlotOwners) - 1 ELSE Cardinality(SlotOwners)
  BY <1>3, FS_AddElement, FS_RemoveElement
<1>5. t \in SlotOwners => Cardinality(SlotOwners) > 0
  BY <1>3, FS_EmptySet
<1> QED
  BY <1>1, <1>2, <1>3, <1>4, <1>5

LEMMA InitSlots == PoolInit => SlotAccounting
<1> SUFFICES ASSUME PoolInit PROVE SlotAccounting
  OBVIOUS
<1>1. SlotOwners = {}
  BY DEF PoolInit, SlotOwners, SlotPCs
<1>2. Cardinality(SlotOwners) = 0
  BY <1>1, FS_EmptySet
<1> QED
  BY <1>2, PoolAssumption DEF PoolInit, SlotAccounting, PoolAssumption

LEMMA NextSlots ==
  ASSUME PoolTypeOK, HeldIffRunning, SlotAccounting, [PoolNext]_poolVars
  PROVE  SlotAccounting'
<1> USE DEF Goto
<1>0. /\ Len(idle) \in Nat /\ live \in Nat /\ Cap \in Nat
      /\ Cardinality(SlotOwners) \in Nat
      /\ live = Len(idle) + Cardinality(SlotOwners) /\ live <= Cap
  BY OwnersFinite, PoolAssumption DEF PoolTypeOK, SlotAccounting, PoolAssumption
\* The threads outside the slots move among themselves.
<1>1. ASSUME NEW t \in Threads, NEW l \in PCs \ SlotPCs, pc[t] \notin SlotPCs,
             pc' = [pc EXCEPT ![t] = l], UNCHANGED <<idle, live>>
      PROVE  SlotAccounting'
  <2>1. Cardinality(SlotOwners') = Cardinality(SlotOwners)
    BY <1>1, OneMoves
  <2> QED
    BY <1>0, <1>1, <2>1 DEF SlotAccounting
\* A thread keeps its slot from one step to the next.
<1>2. ASSUME NEW t \in Threads, NEW l \in SlotPCs, pc[t] \in SlotPCs,
             pc' = [pc EXCEPT ![t] = l], UNCHANGED <<idle, live>>
      PROVE  SlotAccounting'
  <2>1. l \in PCs
    BY DEF SlotPCs, PCs
  <2>2. Cardinality(SlotOwners') = Cardinality(SlotOwners)
    BY <1>2, <2>1, OneMoves
  <2> QED
    BY <1>0, <1>2, <2>2 DEF SlotAccounting
\* A thread gives its slot up: live.saturating_sub(1) does not saturate.
<1>3. ASSUME NEW t \in Threads, pc[t] \in SlotPCs,
             pc' = [pc EXCEPT ![t] = "notify"], live' = FreeSlot, idle' = idle
      PROVE  SlotAccounting'
  <2>1. "notify" \in PCs /\ "notify" \notin SlotPCs
    BY DEF PCs, SlotPCs
  <2>2. /\ Cardinality(SlotOwners') = Cardinality(SlotOwners) - 1
        /\ Cardinality(SlotOwners) > 0
    BY <1>3, <2>1, OneMoves
  <2> QED
    BY <1>0, <1>3, <2>2 DEF SlotAccounting, FreeSlot
<1>4. ASSUME NEW t \in Threads, CheckoutReuse(t)
      PROVE  SlotAccounting'
  <2>1. /\ pc' = [pc EXCEPT ![t] = "running"] /\ pc[t] \notin SlotPCs
        /\ "running" \in PCs /\ "running" \in SlotPCs
    BY <1>4 DEF CheckoutReuse, AtLoopTop, SlotPCs, PCs
  <2>2. Cardinality(SlotOwners') = Cardinality(SlotOwners) + 1
    BY <2>1, OneMoves
  <2>3. Len(idle) # 0
    BY <1>4 DEF CheckoutReuse, PoolTypeOK
  <2>4. Len(SubSeq(idle, 1, Len(idle) - 1)) = Len(idle) - 1
    <3> DEFINE n == Len(idle) - 1
    <3>1. n \in Nat /\ 1 \in Int /\ n \in Int
      BY <1>0, <2>3
    <3>2. \A i \in 1..n : idle[i] \in Nat
      BY <1>0 DEF PoolTypeOK
    <3> HIDE DEF n
    <3>3. Len(SubSeq(idle, 1, n)) = IF 1 <= n THEN n - 1 + 1 ELSE 0
      BY <3>1, <3>2, SubSeqProperties
    <3>4. Len(SubSeq(idle, 1, n)) = n
      BY <3>1, <3>3
    <3> QED
      BY <3>4, Zenon DEF n
  <2>5. Len(idle') = Len(idle) - 1 /\ live' = live
    BY <1>4, <2>4 DEF CheckoutReuse
  <2> QED
    BY <1>0, <2>2, <2>5 DEF SlotAccounting
<1>5. ASSUME NEW t \in Threads, CheckoutReserve(t)
      PROVE  SlotAccounting'
  <2>1. /\ pc' = [pc EXCEPT ![t] = "building"] /\ pc[t] \notin SlotPCs
        /\ "building" \in PCs /\ "building" \in SlotPCs
    BY <1>5 DEF CheckoutReserve, AtLoopTop, SlotPCs, PCs
  <2>2. Cardinality(SlotOwners') = Cardinality(SlotOwners) + 1
    BY <2>1, OneMoves
  <2> QED
    BY <1>0, <1>5, <2>2 DEF CheckoutReserve, SlotAccounting
<1>6. ASSUME NEW t \in Threads, CheckIn(t)
      PROVE  SlotAccounting'
  <2>1. /\ pc' = [pc EXCEPT ![t] = "notify"] /\ pc[t] \in SlotPCs
        /\ "notify" \in PCs /\ "notify" \notin SlotPCs
    BY <1>6 DEF CheckIn, SlotPCs, PCs
  <2>2. Cardinality(SlotOwners') = Cardinality(SlotOwners) - 1
    BY <2>1, OneMoves
  <2>3. Len(Append(idle, held[t] + 1)) = Len(idle) + 1
    BY DEF PoolTypeOK
  <2> QED
    BY <1>0, <1>6, <2>2, <2>3 DEF CheckIn, SlotAccounting
<1>7. ASSUME NEW t \in Threads, notify_one(t)
      PROVE  SlotAccounting'
  <2>1. SlotOwners' = SlotOwners
    BY <1>7 DEF notify_one, SlotOwners, SlotPCs, Waiters, PoolTypeOK
  <2> QED
    BY <1>0, <1>7, <2>1 DEF notify_one, SlotAccounting
<1>8. ASSUME CooldownElapses \/ ClockStepsBack
      PROVE  SlotAccounting'
  BY <1>8 DEF CooldownElapses, ClockStepsBack, SlotAccounting, SlotOwners
<1>9. CASE UNCHANGED poolVars
  BY <1>9 DEF poolVars, SlotAccounting, SlotOwners
<1>10. ASSUME NEW t \in Threads,
              Enter(t) \/ CheckoutRefused(t) \/ CheckoutWait(t) \/ WaitTimeout(t)
       PROVE  SlotAccounting'
  BY <1>1, <1>10
     DEF Enter, CheckoutRefused, CheckoutWait, WaitTimeout, AtLoopTop, SlotPCs, PCs
<1>11. ASSUME NEW t \in Threads, BuildOk(t) \/ RecycleDrop(t) \/ TrapDrop(t)
       PROVE  SlotAccounting'
  BY <1>2, <1>11 DEF BuildOk, RecycleDrop, TrapDrop, SlotPCs
<1>12. ASSUME NEW t \in Threads, BuildFail(t) \/ RecycleFree(t) \/ TrapFree(t)
       PROVE  SlotAccounting'
  BY <1>3, <1>12 DEF BuildFail, RecycleFree, TrapFree, SlotPCs
<1> QED
  BY <1>4, <1>5, <1>6, <1>7, <1>8, <1>9, <1>10, <1>11, <1>12 DEF PoolNext, ThreadStep

----------------------------------------------------------------------------
\* The breaker's two fields, and the waiters.

LEMMA NextStreak ==
  ASSUME PoolTypeOK, CooldownNeedsStreak, [PoolNext]_poolVars
  PROVE  CooldownNeedsStreak'
<1> USE PoolAssumption DEF PoolAssumption, PoolTypeOK, CooldownNeedsStreak
<1>1. ASSUME NEW t \in Threads, TrapFree(t)
      PROVE  CooldownNeedsStreak'
  BY <1>1 DEF TrapFree, OneMoreTrap
<1>2. ASSUME NEW t \in Threads, CheckIn(t) \/ RecycleFree(t)
      PROVE  CooldownNeedsStreak'
  BY <1>2 DEF CheckIn, RecycleFree, clear_breaker
<1>3. ASSUME CooldownElapses \/ ClockStepsBack
      PROVE  CooldownNeedsStreak'
  BY <1>3 DEF CooldownElapses, ClockStepsBack
<1>4. ASSUME UNCHANGED <<consecutive_traps, cooldown>>
      PROVE  CooldownNeedsStreak'
  BY <1>4
<1>5. ASSUME NEW t \in Threads,
             \/ Enter(t) \/ CheckoutRefused(t) \/ CheckoutReuse(t) \/ CheckoutReserve(t)
             \/ CheckoutWait(t) \/ WaitTimeout(t) \/ BuildOk(t) \/ BuildFail(t)
             \/ RecycleDrop(t) \/ TrapDrop(t) \/ notify_one(t)
      PROVE  UNCHANGED <<consecutive_traps, cooldown>>
  BY <1>5 DEF Enter, CheckoutRefused, CheckoutReuse, CheckoutReserve, CheckoutWait,
              WaitTimeout, BuildOk, BuildFail, RecycleDrop, TrapDrop, notify_one
<1>6. CASE UNCHANGED poolVars
  BY <1>4, <1>6 DEF poolVars
<1> QED
  BY <1>1, <1>2, <1>3, <1>4, <1>5, <1>6 DEF PoolNext, ThreadStep

\* A pool at its size with an empty stack has a slot in somebody's hands.
LEMMA FullPoolHasOwner ==
  ASSUME PoolTypeOK, SlotAccounting, idle = <<>>, live >= Cap
  PROVE  \E t \in Threads : pc[t] \in SlotPCs
<1>1. Cardinality(SlotOwners) \in Nat /\ IsFiniteSet(SlotOwners)
  BY OwnersFinite
<1>2. Len(idle) = 0
  OBVIOUS
<1>3. Cardinality(SlotOwners) # 0
  BY <1>1, <1>2, PoolAssumption DEF PoolAssumption, SlotAccounting, PoolTypeOK
<1>4. SlotOwners # {}
  BY <1>3, FS_EmptySet
<1> QED
  BY <1>4 DEF SlotOwners

\* Where a thread is that will wake a waiter or take the slot itself.
Rescuer(t) == pc[t] \in SlotPCs \cup {"notify", "retry"}

LEMMA NextWaiters ==
  ASSUME PoolTypeOK, SlotAccounting, CooldownNeedsStreak, NoStrandedWaiter, [PoolNext]_poolVars
  PROVE  NoStrandedWaiter'
<1> USE DEF Goto, PoolTypeOK, PCs
<1> DEFINE Rescued == \/ \E t \in Threads : Rescuer(t)
                      \/ consecutive_traps >= TrapThreshold
<1>0. NoStrandedWaiter <=> (Waiters # {} => Rescued)
  BY DEF NoStrandedWaiter, Rescuer
<1>1. NoStrandedWaiter' <=> (Waiters' # {} => Rescued')
  BY DEF NoStrandedWaiter, Rescuer
<1>2. ASSUME NEW t \in Threads, pc'[t] \in SlotPCs \cup {"notify", "retry"}
      PROVE  NoStrandedWaiter'
  BY <1>1, <1>2 DEF Rescuer
\* A thread that was no rescuer moves and adds no waiter.
<1>3. ASSUME NEW t \in Threads, NEW l \in {"out", "checkout"},
             pc' = [pc EXCEPT ![t] = l], ~Rescuer(t), UNCHANGED consecutive_traps
      PROVE  NoStrandedWaiter'
  <2>1. Waiters' \subseteq Waiters
    BY <1>3 DEF Waiters
  <2>2. \A u \in Threads : Rescuer(u) => Rescuer(u)'
    BY <1>3 DEF Rescuer
  <2>3. Rescued => Rescued'
    BY <1>3, <2>2
  <2> QED
    BY <1>0, <1>1, <2>1, <2>3
<1>4. ASSUME NEW t \in Threads, Enter(t) \/ WaitTimeout(t)
      PROVE  NoStrandedWaiter'
  BY <1>3, <1>4 DEF Enter, WaitTimeout, Rescuer, SlotPCs
<1>5. ASSUME NEW t \in Threads, CheckoutRefused(t)
      PROVE  NoStrandedWaiter'
  <2>1. consecutive_traps >= TrapThreshold /\ consecutive_traps' = consecutive_traps
    BY <1>5 DEF CheckoutRefused, CooldownNeedsStreak
  <2> QED
    BY <1>1, <2>1
<1>6. ASSUME NEW t \in Threads,
             \/ CheckoutReuse(t) \/ CheckoutReserve(t) \/ BuildOk(t) \/ BuildFail(t)
             \/ CheckIn(t) \/ RecycleDrop(t) \/ RecycleFree(t)
             \/ TrapDrop(t) \/ TrapFree(t)
      PROVE  NoStrandedWaiter'
  <2>1. pc'[t] \in SlotPCs \cup {"notify", "retry"}
    BY <1>6 DEF CheckoutReuse, CheckoutReserve, BuildOk, BuildFail, CheckIn,
                RecycleDrop, RecycleFree, TrapDrop, TrapFree, SlotPCs
  <2> QED
    BY <1>2, <2>1
<1>7. ASSUME NEW t \in Threads, CheckoutWait(t)
      PROVE  NoStrandedWaiter'
  <2>1. PICK u \in Threads : pc[u] \in SlotPCs
    BY <1>7, FullPoolHasOwner DEF CheckoutWait
  <2>2. u # t /\ pc'[u] = pc[u]
    BY <1>7, <2>1 DEF CheckoutWait, AtLoopTop, SlotPCs
  <2> QED
    BY <1>2, <2>1, <2>2
<1>8. ASSUME NEW t \in Threads, notify_one(t)
      PROVE  NoStrandedWaiter'
  <2>1. CASE Waiters = {} /\ Goto(t, "out")
    <3>1. Waiters' = {}
      BY <2>1 DEF Waiters
    <3> QED
      BY <1>1, <3>1
  <2>2. CASE \E w \in Waiters : pc' = [pc EXCEPT ![t] = "out", ![w] = "retry"]
    <3>1. PICK w \in Waiters : pc' = [pc EXCEPT ![t] = "out", ![w] = "retry"]
      BY <2>2
    <3>2. w \in Threads /\ pc'[w] = "retry"
      BY <3>1 DEF Waiters
    <3> QED
      BY <1>2, <3>2
  <2> QED
    BY <1>8, <2>1, <2>2 DEF notify_one
<1>9. ASSUME UNCHANGED <<pc, consecutive_traps>>
      PROVE  NoStrandedWaiter'
  BY <1>9 DEF NoStrandedWaiter, Waiters
<1>10. ASSUME CooldownElapses \/ ClockStepsBack \/ UNCHANGED poolVars
       PROVE  UNCHANGED <<pc, consecutive_traps>>
  BY <1>10 DEF CooldownElapses, ClockStepsBack, poolVars
<1> QED
  BY <1>4, <1>5, <1>6, <1>7, <1>8, <1>9, <1>10 DEF PoolNext, ThreadStep

----------------------------------------------------------------------------
LEMMA InitInv == PoolInit => Inv
<1> SUFFICES ASSUME PoolInit PROVE Inv
  OBVIOUS
<1>1. PoolTypeOK /\ HeldIffRunning /\ SlotAccounting
  BY InitTypes, InitSlots
<1>2. CooldownNeedsStreak /\ NoStrandedWaiter
  BY DEF PoolInit, CooldownNeedsStreak, NoStrandedWaiter, Waiters
<1> QED
  BY <1>1, <1>2 DEF Inv

LEMMA NextInv == Inv /\ [PoolNext]_poolVars => Inv'
<1> SUFFICES ASSUME Inv, [PoolNext]_poolVars PROVE Inv'
  OBVIOUS
<1> QED
  BY NextTypes, NextSlots, NextStreak, NextWaiters DEF Inv

\* Of the slots counted, only some have an instance behind them.
LEMMA PhysicalBounded == Inv => PhysicalWithinCap
<1> SUFFICES ASSUME Inv PROVE PhysicalWithinCap
  OBVIOUS
<1>1. StoreOwners \in SUBSET SlotOwners
  BY DEF Inv, HeldIffRunning, StoreOwners, SlotOwners, SlotPCs
<1>2. IsFiniteSet(SlotOwners) /\ Cardinality(SlotOwners) \in Nat
  BY OwnersFinite
<1>3. Cardinality(StoreOwners) <= Cardinality(SlotOwners) /\ Cardinality(StoreOwners) \in Nat
  BY <1>1, <1>2, FS_Subset, FS_CardinalityType
<1> QED
  BY <1>2, <1>3, PoolAssumption
     DEF Inv, PoolTypeOK, SlotAccounting, PhysicalWithinCap, Physical, PoolAssumption

\* live counts every slot exactly once and never passes the pool size, for any
\* number of threads, with builds that fail and calls that trap.
THEOREM SlotsAccounted == PoolSpec => []SlotAccounting
<1>1. Inv => SlotAccounting
  BY DEF Inv
<1> QED
  BY <1>1, InitInv, NextInv, PTL DEF PoolSpec

\* The instances that exist never outnumber the pool size, recycling included.
THEOREM PhysicalIsWithinCap == PoolSpec => []PhysicalWithinCap
BY InitInv, NextInv, PhysicalBounded, PTL DEF PoolSpec

\* No wakeup is lost: a thread blocked in checkout has somebody left to wake it,
\* or the breaker has tripped (and then wait_for's timeout ends the wait).
THEOREM NoWaiterIsStranded == PoolSpec => []NoStrandedWaiter
<1>1. Inv => NoStrandedWaiter
  BY DEF Inv
<1> QED
  BY <1>1, InitInv, NextInv, PTL DEF PoolSpec

\* The breaker is open only after an unbroken streak of traps (run_pooled,
\* clear_breaker).
THEOREM CooldownFollowsStreak == PoolSpec => []CooldownNeedsStreak
<1>1. Inv => CooldownNeedsStreak
  BY DEF Inv
<1> QED
  BY <1>1, InitInv, NextInv, PTL DEF PoolSpec

----------------------------------------------------------------------------
(* Sums as cardinalities.                                                  *)

\* The units of one element.
Column(x, n) == {x} \X (1..n)

LEMMA ColumnSize ==
  ASSUME NEW x, NEW n \in Nat
  PROVE  IsFiniteSet(Column(x, n)) /\ Cardinality(Column(x, n)) = n
<1>1. IsFiniteSet({x}) /\ Cardinality({x}) = 1
  BY FS_Singleton
<1>2. IsFiniteSet(1..n) /\ Cardinality(1..n) = n
  BY FS_Interval
<1>3. 1 * n = n
  OBVIOUS
<1> QED
  <2>1. /\ IsFiniteSet({x} \X (1..n))
        /\ Cardinality({x} \X (1..n)) = Cardinality({x}) * Cardinality(1..n)
    BY <1>1, <1>2, FS_Product, Zenon
  <2> QED
    BY <1>1, <1>2, <1>3, <2>1, Zenon DEF Column

LEMMA UnitsMembers ==
  ASSUME NEW S, NEW n \in [S -> Nat]
  PROVE  /\ \A c \in Units(n) : c[1] \in S /\ c[2] \in 1..n[c[1]] /\ c = <<c[1], c[2]>>
         /\ \A x \in S : \A j \in 1..n[x] : <<x, j>> \in Units(n)
<1>1. DOMAIN n = S
  OBVIOUS
<1>2. ASSUME NEW c \in Units(n)
      PROVE  c[1] \in S /\ c[2] \in 1..n[c[1]] /\ c = <<c[1], c[2]>>
  <2>1. PICK x \in S : c \in {x} \X (1..n[x])
    BY <1>1 DEF Units
  <2> QED
    BY <2>1
<1>3. ASSUME NEW x \in S, NEW j \in 1..n[x] PROVE <<x, j>> \in Units(n)
  <2>1. <<x, j>> \in {x} \X (1..n[x])
    OBVIOUS
  <2> QED
    BY <1>1, <2>1 DEF Units
<1> QED
  BY <1>2, <1>3

LEMMA SumIsNat ==
  ASSUME NEW S, IsFiniteSet(S), NEW n \in [S -> Nat]
  PROVE  IsFiniteSet(Units(n)) /\ SumOf(n) \in Nat
<1> DEFINE F == [x \in S |-> Column(x, n[x])]
           Columns == {F[x] : x \in S}
<1>1. IsFiniteSet(Columns)
  <2>1. F \in Surjection(S, Columns)
    BY DEF Surjection
  <2> QED
    BY <2>1, FS_Surjection
<1>2. \A T \in Columns : IsFiniteSet(T)
  BY ColumnSize
<1>3. Units(n) = UNION Columns
  <2>1. Columns = {{x} \X (1..n[x]) : x \in DOMAIN n}
    BY DEF Column
  <2> QED
    BY <2>1 DEF Units
<1> QED
  BY <1>1, <1>2, <1>3, FS_UNION, FS_CardinalityType DEF SumOf

LEMMA SumGrows ==
  ASSUME NEW S, IsFiniteSet(S), NEW n \in [S -> Nat], NEW m \in [S -> Nat],
         \A x \in S : n[x] <= m[x]
  PROVE  SumOf(n) <= SumOf(m)
<1>1. Units(n) \subseteq Units(m)
  <2>1. SUFFICES ASSUME NEW c \in Units(n) PROVE c \in Units(m)
    OBVIOUS
  <2>2. c[1] \in S /\ c[2] \in 1..n[c[1]] /\ c = <<c[1], c[2]>>
    BY UnitsMembers
  <2>3. c[2] \in 1..m[c[1]]
    BY <2>2
  <2> QED
    BY <2>2, <2>3, UnitsMembers
<1> QED
  BY <1>1, SumIsNat, FS_Subset DEF SumOf

\* A sum changes by what one of its terms does.
LEMMA SumChanges ==
  ASSUME NEW S, IsFiniteSet(S), NEW n \in [S -> Nat], NEW x \in S, NEW v \in Nat,
         NEW m, m = [n EXCEPT ![x] = v]
  PROVE  /\ SumOf(n) \in Nat /\ SumOf(m) \in Nat
         /\ SumOf(m) = SumOf(n) - n[x] + v
<1> DEFINE R == {c \in Units(n) : c[1] # x}
<1>0. m \in [S -> Nat] /\ m[x] = v /\ \A y \in S : y # x => m[y] = n[y]
  OBVIOUS
<1>1. IsFiniteSet(R) /\ Cardinality(R) \in Nat
  <2>1. R \subseteq Units(n)
    OBVIOUS
  <2> QED
    BY <2>1, SumIsNat, FS_Subset, FS_CardinalityType
<1>2. ASSUME NEW g \in [S -> Nat], \A y \in S : y # x => g[y] = n[y]
      PROVE  SumOf(g) = Cardinality(R) + g[x]
  <2>1. Units(g) = R \cup Column(x, g[x])
    <3>1. ASSUME NEW c \in Units(g) PROVE c \in R \cup Column(x, g[x])
      <4>1. c[1] \in S /\ c[2] \in 1..g[c[1]] /\ c = <<c[1], c[2]>>
        BY UnitsMembers
      <4>2. CASE c[1] = x
        BY <4>1, <4>2 DEF Column
      <4>3. CASE c[1] # x
        <5>1. c[2] \in 1..n[c[1]]
          BY <1>2, <4>1, <4>3
        <5>2. <<c[1], c[2]>> \in Units(n)
          BY <4>1, <5>1, UnitsMembers
        <5> QED
          BY <4>1, <4>3, <5>2
      <4> QED
        BY <4>2, <4>3
    <3>2. ASSUME NEW c \in R PROVE c \in Units(g)
      <4>0. c \in Units(n) /\ c[1] # x
        OBVIOUS
      <4>1. c[1] \in S /\ c[2] \in 1..n[c[1]] /\ c = <<c[1], c[2]>>
        BY <4>0, UnitsMembers
      <4>2. c[2] \in 1..g[c[1]]
        BY <1>2, <4>0, <4>1
      <4>3. <<c[1], c[2]>> \in Units(g)
        BY <4>1, <4>2, UnitsMembers
      <4> QED
        BY <4>1, <4>3
    <3>3. ASSUME NEW c \in Column(x, g[x]) PROVE c \in Units(g)
      <4>1. c = <<x, c[2]>> /\ c[2] \in 1..g[x]
        BY DEF Column
      <4>2. <<x, c[2]>> \in Units(g)
        BY <4>1, UnitsMembers
      <4> QED
        BY <4>1, <4>2
    <3> QED
      BY <3>1, <3>2, <3>3
  <2>2. R \cap Column(x, g[x]) = {}
    BY DEF Column
  <2>3. /\ IsFiniteSet(Column(x, g[x])) /\ Cardinality(Column(x, g[x])) = g[x]
        /\ g[x] \in Nat
    BY ColumnSize
  <2>4. Cardinality(R \cap Column(x, g[x])) = 0
    BY <2>2, FS_EmptySet
  <2> HIDE DEF R
  <2>5. Cardinality(Units(g)) = Cardinality(R) + Cardinality(Column(x, g[x]))
                                - Cardinality(R \cap Column(x, g[x]))
    BY <1>1, <2>1, <2>3, FS_Union, Zenon
  <2> QED
    BY <1>1, <2>3, <2>4, <2>5 DEF SumOf
<1>3. SumOf(n) = Cardinality(R) + n[x] /\ SumOf(m) = Cardinality(R) + v
  BY <1>0, <1>2
<1> HIDE DEF R
<1> QED
  BY <1>0, <1>1, <1>3, SumIsNat

LEMMA SumOfZeros ==
  ASSUME NEW S, NEW n \in [S -> Nat], \A x \in S : n[x] = 0
  PROVE  SumOf(n) = 0
<1>1. Units(n) = {}
  BY UnitsMembers
<1> QED
  BY <1>1, FS_EmptySet DEF SumOf

----------------------------------------------------------------------------
(* Types: no interleaving takes a charge over its cap.                     *)

\* A call that removes gives back: an entry, and bytes.
Removing ==
  \A t \in Tasks : at[t] \in {"remove", "release"} => op[t].entries = -1 /\ op[t].bytes <= 0

QuotaTypes == TypeOK /\ Removing

LEMMA StoredNat == /\ \A n \in Stored : n \in Nat /\ n # Absent
                   /\ Absent \in Int /\ KeyLen = 1
                   /\ \A k \in FixedKeys : k \in Keys /\ FixedLen[k] \in Stored
                   /\ Lengths \subseteq Stored /\ KvKeys \subseteq Keys
                   /\ \A t \in Tasks : FilterOf[t] \in Filters
                   /\ NoOp \notin Ops
<1>1. NoOp.key = "none"
  BY DEF NoOp
<1> QED
  BY <1>1, QuotaAssumption DEF QuotaAssumption, Stored, Absent, KeyLen, Keys, Ops

\* A charge that fits, or that gives back, stays within the caps.
LEMMA ChargeTypes ==
  ASSUME TypeOK, NEW f \in Filters, NEW e \in Int, NEW b \in Int,
         Fits(f, e, b) \/ (e <= 0 /\ b <= 0), Charge(f, e, b)
  PROVE  /\ ns' \in [Filters -> [entries : 0..MaxNsEntries, bytes : 0..MaxNsBytes]]
         /\ total' \in [entries : 0..MaxTotalEntries, bytes : 0..MaxTotalBytes]
<1>0. /\ MaxNsEntries \in Nat /\ MaxNsBytes \in Nat
      /\ MaxTotalEntries \in Nat /\ MaxTotalBytes \in Nat
  BY QuotaAssumption DEF QuotaAssumption
<1>1. /\ ns[f] \in [entries : 0..MaxNsEntries, bytes : 0..MaxNsBytes]
      /\ total \in [entries : 0..MaxTotalEntries, bytes : 0..MaxTotalBytes]
  BY DEF TypeOK
<1>2. /\ e <= 0 \/ (/\ ns[f].entries + e <= MaxNsEntries
                    /\ total.entries + e <= MaxTotalEntries)
      /\ b <= 0 \/ (/\ ns[f].bytes + b <= MaxNsBytes
                    /\ total.bytes + b <= MaxTotalBytes)
  BY DEF Fits
<1>3. /\ Clamp(ns[f].entries + e) \in 0..MaxNsEntries
      /\ Clamp(ns[f].bytes + b) \in 0..MaxNsBytes
      /\ Clamp(total.entries + e) \in 0..MaxTotalEntries
      /\ Clamp(total.bytes + b) \in 0..MaxTotalBytes
  BY <1>0, <1>1, <1>2 DEF Clamp
<1>4. /\ Plus(ns[f], e, b) \in [entries : 0..MaxNsEntries, bytes : 0..MaxNsBytes]
      /\ Plus(total, e, b) \in [entries : 0..MaxTotalEntries, bytes : 0..MaxTotalBytes]
  BY <1>3 DEF Plus
<1> QED
  BY <1>4 DEF Charge, TypeOK

\* Where a step of t leaves the calls.
LEMMA GotoTypes ==
  ASSUME QuotaTypes, NEW t \in Tasks, NEW l, NEW o, CallAt(t, l, o),
         \/ l = "idle" /\ o = NoOp
         \/ l \in {"admit", "write"} /\ o \in Ops
         \/ l \in {"remove", "release"} /\ o \in Ops /\ o.entries = -1 /\ o.bytes <= 0
  PROVE  /\ at'[t] = l /\ op'[t] = o
         /\ \A u \in Tasks : u # t => at'[u] = at[u] /\ op'[u] = op[u]
         /\ at' \in [Tasks -> {"idle", "admit", "write", "remove", "release"}]
         /\ op' \in [Tasks -> Ops \cup {NoOp}]
         /\ \A u \in Tasks : at'[u] = "idle" <=> op'[u] = NoOp
         /\ Removing'
<1>1. l \in {"idle", "admit", "write", "remove", "release"} /\ o \in Ops \cup {NoOp}
  OBVIOUS
<1>2. /\ at'[t] = l /\ op'[t] = o
      /\ \A u \in Tasks : u # t => at'[u] = at[u] /\ op'[u] = op[u]
      /\ at' \in [Tasks -> {"idle", "admit", "write", "remove", "release"}]
      /\ op' \in [Tasks -> Ops \cup {NoOp}]
  BY <1>1 DEF CallAt, QuotaTypes, TypeOK
<1>3. l = "idle" <=> o = NoOp
  BY StoredNat
<1>4. \A u \in Tasks : at'[u] = "idle" <=> op'[u] = NoOp
  BY <1>2, <1>3 DEF QuotaTypes, TypeOK
<1>5. Removing'
  BY <1>2 DEF QuotaTypes, Removing
<1> QED
  BY <1>2, <1>4, <1>5

\* The call t writes v (a length, or Absent) at key k of its filter.
LEMMA PutTypes ==
  ASSUME QuotaTypes, NEW t \in Tasks, NEW k \in Keys, NEW v \in Stored \cup {Absent},
         Put(t, k, v)
  PROVE  /\ store' \in [Filters -> [Keys -> Stored \cup {Absent}]]
         /\ store'[FilterOf[t]][k] = v
         /\ \A f \in Filters, j \in Keys :
              f # FilterOf[t] \/ j # k => store'[f][j] = store[f][j]
BY StoredNat DEF QuotaTypes, TypeOK, Put

LEMMA QuotaInitTypes == Init => QuotaTypes
<1> SUFFICES ASSUME Init PROVE QuotaTypes
  OBVIOUS
<1>1. /\ MaxNsEntries \in Nat /\ MaxNsBytes \in Nat
      /\ MaxTotalEntries \in Nat /\ MaxTotalBytes \in Nat
  BY QuotaAssumption DEF QuotaAssumption
<1>2. /\ NoUsage \in [entries : 0..MaxNsEntries, bytes : 0..MaxNsBytes]
      /\ NoUsage \in [entries : 0..MaxTotalEntries, bytes : 0..MaxTotalBytes]
  BY <1>1 DEF NoUsage
<1> QED
  BY <1>2 DEF Init, QuotaTypes, TypeOK, Removing

\* What every call does to the types; the charge of a step follows in Exact.
LEMMA QuotaNextTypes == QuotaTypes /\ [Next]_vars => QuotaTypes'
<1> SUFFICES ASSUME QuotaTypes, [Next]_vars PROVE QuotaTypes'
  OBVIOUS
<1>0. TypeOK /\ Removing /\ op \in [Tasks -> Ops \cup {NoOp}]
  BY DEF QuotaTypes, TypeOK
<1>1. CASE UNCHANGED vars
  BY <1>0, <1>1 DEF vars, QuotaTypes, TypeOK, Removing
<1>2. ASSUME NEW t \in Tasks, NEW l, NEW o, CallAt(t, l, o), UNCHANGED <<store, ns, total>>,
             \/ l = "idle" /\ o = NoOp
             \/ l \in {"admit", "write"} /\ o \in Ops
             \/ l \in {"remove", "release"} /\ o \in Ops /\ o.entries = -1 /\ o.bytes <= 0
      PROVE  QuotaTypes'
  BY <1>0, <1>2, GotoTypes DEF QuotaTypes, TypeOK
<1>3. ASSUME NEW t \in Tasks, NEW k \in KvKeys, NEW len \in Lengths, SetRead(t, k, len)
      PROVE  QuotaTypes'
  <2> DEFINE o == IF Value(t, k) = Absent
                  THEN [key |-> k, len |-> len, entries |-> 1, bytes |-> KeyLen + len]
                  ELSE [key |-> k, len |-> len, entries |-> 0, bytes |-> len - Value(t, k)]
  <2>1. Value(t, k) \in Stored \cup {Absent}
    BY <1>0, StoredNat DEF Value, TypeOK
  <2>2. o \in Ops
    BY <2>1, StoredNat DEF Ops
  <2> QED
    BY <1>2, <1>3, <2>2 DEF SetRead
<1>4. ASSUME NEW t \in Tasks, NEW k \in FixedKeys, FixedRead(t, k) PROVE QuotaTypes'
  <2>1. /\ [key |-> k, len |-> FixedLen[k], entries |-> 1,
            bytes |-> KeyLen + FixedLen[k]] \in Ops
        /\ [key |-> k, len |-> FixedLen[k], entries |-> 0, bytes |-> 0] \in Ops
    BY StoredNat DEF Ops
  <2> QED
    BY <1>2, <1>4, <2>1 DEF FixedRead
<1>5. ASSUME NEW t \in Tasks, Admit(t) PROVE QuotaTypes'
  <2>1. op[t] \in Ops /\ op[t].entries \in Int /\ op[t].bytes \in Int
    BY <1>0, <1>5 DEF Admit, TypeOK, Ops
  <2>2. CASE Fits(FilterOf[t], op[t].entries, op[t].bytes)
    <3>1. /\ Charge(FilterOf[t], op[t].entries, op[t].bytes) /\ CallAt(t, "write", op[t])
          /\ store' = store
      BY <1>5, <2>2 DEF Admit
    <3> QED
      BY <1>0, <2>1, <2>2, <3>1, ChargeTypes, GotoTypes, StoredNat DEF QuotaTypes, TypeOK
  <2>3. CASE ~Fits(FilterOf[t], op[t].entries, op[t].bytes)
    BY <1>2, <1>5, <2>3 DEF Admit
  <2> QED
    BY <2>2, <2>3
<1>6. ASSUME NEW t \in Tasks, Write(t) PROVE QuotaTypes'
  <2>1. op[t].key \in Keys /\ op[t].len \in Stored
    BY <1>0, <1>6 DEF Write, TypeOK, Ops
  <2> QED
    BY <1>0, <1>6, <2>1, PutTypes, GotoTypes DEF Write, QuotaTypes, TypeOK
<1>7. ASSUME NEW t \in Tasks, NEW k \in KvKeys, DeleteRead(t, k) PROVE QuotaTypes'
  <2> DEFINE o == [key |-> k, len |-> Value(t, k), entries |-> -1,
                   bytes |-> -(KeyLen + Value(t, k))]
  <2>1. Value(t, k) \in Stored
    BY <1>0, <1>7, StoredNat DEF Value, TypeOK, DeleteRead
  <2>2. o \in Ops /\ o.entries = -1 /\ o.bytes <= 0
    BY <2>1, StoredNat DEF Ops
  <2> QED
    BY <1>2, <1>7, <2>2 DEF DeleteRead
<1>8. ASSUME NEW t \in Tasks, Remove(t) PROVE QuotaTypes'
  <2>1. /\ op[t] \in Ops /\ op[t].key \in Keys /\ op[t].entries = -1 /\ op[t].bytes <= 0
        /\ Absent \in Stored \cup {Absent}
    BY <1>0, <1>8 DEF Remove, TypeOK, Ops, Removing
  <2> QED
    BY <1>0, <1>8, <2>1, PutTypes, GotoTypes DEF Remove, QuotaTypes, TypeOK
<1>9. ASSUME NEW t \in Tasks, Release(t) PROVE QuotaTypes'
  <2>1. op[t].entries \in Int /\ op[t].entries <= 0 /\ op[t].bytes \in Int /\ op[t].bytes <= 0
    BY <1>0, <1>9 DEF Release, TypeOK, Ops, Removing
  <2> QED
    BY <1>0, <1>9, <2>1, ChargeTypes, GotoTypes, StoredNat DEF Release, QuotaTypes, TypeOK
<1> QED
  BY <1>1, <1>3, <1>4, <1>5, <1>6, <1>7, <1>8, <1>9 DEF Next

\* Whatever the interleaving, also of calls on the same key, what a filter and
\* all filters are charged stays within the caps.
THEOREM ChargesWithinCaps == Spec => []TypeOK
<1>1. QuotaTypes => TypeOK
  BY DEF QuotaTypes
<1> QED
  BY QuotaInitTypes, QuotaNextTypes, <1>1, PTL DEF Spec

----------------------------------------------------------------------------
(* Exactness: what a filter is charged, key by key.                        *)

\* The call t has charged the key k of f for a value it has not written yet, or
\* has not given back the charge for one it has removed.
Covers(t, f, k) == FilterOf[t] = f /\ at[t] \in {"write", "release"} /\ op[t].key = k

\* The keys with a charge.
ChargedKeys(g) == {k \in Keys : g[k] > 0}
OneIf(n) == IF n > 0 THEN 1 ELSE 0

\* charge[f][k], the bytes f is charged for k: those of the value there, or of
\* the value of the call that covers k.
Balance(usage, charge) ==
  \A f \in Filters : /\ usage[f].bytes = SumOf(charge[f])
                     /\ usage[f].entries = Cardinality(ChargedKeys(charge[f]))

Books(charge) ==
  /\ Balance(ns, charge)
  /\ \A f \in Filters, k \in Keys :
       (\A t \in Tasks : ~Covers(t, f, k)) => charge[f][k] = Size(f, k)
  /\ \A t \in Tasks : at[t] \in {"write", "release"} =>
       charge[FilterOf[t]][op[t].key] = KeyLen + op[t].len

Charges == [Filters -> [Keys -> Nat]]

\* What a call read still holds when it charges, removes or gives back.
Pending(t) ==
  LET f == FilterOf[t]  o == op[t] IN
  /\ at[t] \in {"admit", "write"} /\ o.key \in FixedKeys => o.len = FixedLen[o.key]
  /\ at[t] = "admit" => /\ o.entries = IF store[f][o.key] = Absent THEN 1 ELSE 0
                        /\ o.bytes = KeyLen + o.len - Size(f, o.key)
  /\ at[t] \in {"remove", "release"} =>
       /\ o.entries = -1 /\ o.bytes = -(KeyLen + o.len) /\ o.key \in KvKeys
       /\ store[f][o.key] = IF at[t] = "remove" THEN o.len ELSE Absent

\* A counter or a bucket never changes its length.
FixedStored == \A f \in Filters, k \in FixedKeys : store[f][k] \in {Absent, FixedLen[k]}

ExactInv ==
  /\ QuotaTypes /\ KeysApart /\ FixedStored /\ TotalIsSum
  /\ \A t \in Tasks : Pending(t)
  /\ \E charge \in Charges : Books(charge)

\* The sum and the number of the keys charged, when the charge of one changes.
LEMMA KeyCharged ==
  ASSUME NEW g \in [Keys -> Nat], NEW k \in Keys, NEW v \in Nat,
         NEW h, h = [g EXCEPT ![k] = v]
  PROVE  /\ SumOf(g) \in Nat /\ SumOf(h) \in Nat /\ SumOf(h) = SumOf(g) + (v - g[k])
         /\ Cardinality(ChargedKeys(g)) \in Nat
         /\ Cardinality(ChargedKeys(h)) \in Nat
         /\ Cardinality(ChargedKeys(h))
              = Cardinality(ChargedKeys(g))
                + (OneIf(v) - OneIf(g[k]))
<1> DEFINE G == ChargedKeys(g)
           H == ChargedKeys(h)
           R == G \ {k}
<1>0. IsFiniteSet(Keys)
  BY QuotaAssumption DEF QuotaAssumption
<1>1. SumOf(g) \in Nat /\ SumOf(h) \in Nat /\ SumOf(h) = SumOf(g) + (v - g[k])
  <2>1. SumOf(g) \in Nat /\ SumOf(h) \in Nat /\ SumOf(h) = SumOf(g) - g[k] + v
    BY <1>0, SumChanges, Zenon
  <2>2. g[k] \in Nat
    OBVIOUS
  <2> QED
    BY <2>1, <2>2
<1>2. IsFiniteSet(R) /\ Cardinality(R) \in Nat
  <2>1. R \in SUBSET Keys
    BY DEF ChargedKeys
  <2> QED
    BY <1>0, <2>1, FS_Subset, FS_CardinalityType
<1>3. /\ k \notin R
      /\ g[k] > 0 => G = R \cup {k}
      /\ ~(g[k] > 0) => G = R
      /\ v > 0 => H = R \cup {k}
      /\ ~(v > 0) => H = R
  BY DEF ChargedKeys
<1> HIDE DEF G, H, R
<1>4. Cardinality(R \cup {k}) = Cardinality(R) + 1
  BY <1>2, <1>3, FS_AddElement
<1>5. /\ Cardinality(G) = Cardinality(R) + OneIf(g[k])
      /\ Cardinality(H) = Cardinality(R) + OneIf(v)
  <2>1. Cardinality(R) + 0 = Cardinality(R)
    BY <1>2
  <2>2. Cardinality(G) = Cardinality(R) + OneIf(g[k])
    BY <1>3, <1>4, <2>1, Zenon DEF OneIf
  <2>3. Cardinality(H) = Cardinality(R) + OneIf(v)
    BY <1>3, <1>4, <2>1, Zenon DEF OneIf
  <2> QED
    BY <2>2, <2>3
<1>6. Cardinality(G) \in Nat /\ Cardinality(H) \in Nat
      /\ Cardinality(H) = Cardinality(G) + (OneIf(v) - OneIf(g[k]))
  BY <1>2, <1>5 DEF OneIf
<1> QED
  BY <1>1, <1>6 DEF G, H

\* d is c but for key k of f, now charged v, and balances what is charged next.
Recharged(c, d, f, k, v) ==
  /\ d[f][k] = v
  /\ \A g \in Filters, j \in Keys : g # f \/ j # k => d[g][j] = c[g][j]
  /\ Balance(ns', d)

\* A charge for one key keeps the books and the total.
LEMMA ChargeMoves ==
  ASSUME TypeOK, TotalIsSum, NEW c \in Charges, Balance(ns, c),
         NEW f \in Filters, NEW k \in Keys, NEW v \in Nat, NEW e, NEW b,
         e = OneIf(v) - OneIf(c[f][k]), b = v - c[f][k], Charge(f, e, b)
  PROVE  TotalIsSum' /\ \E d \in Charges : Recharged(c, d, f, k, v)
<1> DEFINE h == [c[f] EXCEPT ![k] = v]
           d == [c EXCEPT ![f] = h]
<1>1. c[f] \in [Keys -> Nat] /\ c[f][k] \in Nat /\ h \in [Keys -> Nat] /\ d \in Charges
  BY DEF Charges
<1>2. e \in Int /\ b \in Int
  BY <1>1 DEF OneIf
<1>3. /\ SumOf(c[f]) \in Nat /\ SumOf(h) \in Nat /\ SumOf(h) = SumOf(c[f]) + b
      /\ Cardinality(ChargedKeys(c[f])) \in Nat
      /\ Cardinality(ChargedKeys(h)) \in Nat
      /\ Cardinality(ChargedKeys(h)) = Cardinality(ChargedKeys(c[f])) + e
  <2>1. h = [c[f] EXCEPT ![k] = v] /\ c[f] \in [Keys -> Nat]
    BY <1>1
  <2> HIDE DEF h
  <2> QED
    BY <2>1, KeyCharged, Zenon
<1>4. /\ d[f] = h /\ h[k] = v /\ \A j \in Keys : j # k => h[j] = c[f][j]
      /\ \A g \in Filters : g # f => d[g] = c[g]
  BY <1>1 DEF Charges
<1>5. ns' = [ns EXCEPT ![f] = Plus(ns[f], e, b)] /\ total' = Plus(total, e, b)
  BY DEF Charge
<1> HIDE DEF h, d
<1>6. Plus(ns[f], e, b) = [entries |-> Cardinality(ChargedKeys(h)),
                           bytes |-> SumOf(h)]
  <2>1. /\ ns[f].entries + e = Cardinality(ChargedKeys(h))
        /\ ns[f].bytes + b = SumOf(h)
    BY <1>3 DEF Balance
  <2>2. ~(ns[f].entries + e < 0) /\ ~(ns[f].bytes + b < 0)
    BY <1>3, <2>1
  <2> QED
    BY <2>1, <2>2 DEF Plus, Clamp
<1>7. ASSUME NEW g \in Filters
      PROVE  /\ ns'[g].bytes = SumOf(d[g])
             /\ ns'[g].entries = Cardinality(ChargedKeys(d[g]))
  <2>1. CASE g = f
    <3>1. ns'[f] = Plus(ns[f], e, b)
      BY <1>5 DEF TypeOK
    <3> QED
      BY <1>4, <1>6, <2>1, <3>1
  <2>2. CASE g # f
    <3>1. ns'[g] = ns[g] /\ d[g] = c[g]
      BY <1>4, <1>5, <2>2 DEF TypeOK
    <3> QED
      BY <3>1 DEF Balance
  <2> QED
    BY <2>1, <2>2
<1>8. TotalIsSum'
  <2> DEFINE E == [g \in Filters |-> ns[g].entries]
             B == [g \in Filters |-> ns[g].bytes]
             E2 == [g \in Filters |-> ns'[g].entries]
             B2 == [g \in Filters |-> ns'[g].bytes]
  <2>a. IsFiniteSet(Filters)
    BY QuotaAssumption DEF QuotaAssumption
  <2>0. IsFiniteSet(Filters) /\ total.entries \in Nat /\ total.bytes \in Nat
        /\ total.entries = SumOf(E) /\ total.bytes = SumOf(B)
    BY QuotaAssumption DEF QuotaAssumption, TypeOK, TotalIsSum
  <2>1. /\ E \in [Filters -> Nat] /\ B \in [Filters -> Nat]
        /\ E[f] = ns[f].entries /\ B[f] = ns[f].bytes
    BY DEF TypeOK
  <2>2. ns'[f].entries = ns[f].entries + e /\ ns'[f].bytes = ns[f].bytes + b
        /\ ns'[f].entries \in Nat /\ ns'[f].bytes \in Nat
    BY <1>3, <1>4, <1>7 DEF Balance
  <2>3. \A g \in Filters : g # f => ns'[g] = ns[g]
    BY <1>5 DEF TypeOK
  <2>4. /\ E2 = [E EXCEPT ![f] = ns'[f].entries]
        /\ B2 = [B EXCEPT ![f] = ns'[f].bytes]
    BY <2>3
  <2> HIDE DEF E, B, E2, B2
  <2>5. SumOf(E2) \in Nat /\ SumOf(E2) = SumOf(E) - E[f] + ns'[f].entries
    <3>1. PICK n \in [Filters -> Nat] : n = E
      BY <2>1
    <3>2. PICK w \in Nat : w = ns'[f].entries
      BY <2>2
    <3>3. PICK m : m = [n EXCEPT ![f] = w]
      OBVIOUS
    <3>4. SumOf(m) \in Nat /\ SumOf(m) = SumOf(n) - n[f] + w
      BY <2>a, <3>3, SumChanges, Zenon
    <3>5. E2 = m
      BY <2>4, <3>1, <3>2, <3>3
    <3> QED
      BY <3>1, <3>2, <3>4, <3>5
  <2>9. SumOf(B2) \in Nat /\ SumOf(B2) = SumOf(B) - B[f] + ns'[f].bytes
    <3>1. PICK n \in [Filters -> Nat] : n = B
      BY <2>1
    <3>2. PICK w \in Nat : w = ns'[f].bytes
      BY <2>2
    <3>3. PICK m : m = [n EXCEPT ![f] = w]
      OBVIOUS
    <3>4. SumOf(m) \in Nat /\ SumOf(m) = SumOf(n) - n[f] + w
      BY <2>a, <3>3, SumChanges, Zenon
    <3>5. B2 = m
      BY <2>4, <3>1, <3>2, <3>3
    <3> QED
      BY <3>1, <3>2, <3>4, <3>5
  <2>6. total.entries + e = SumOf(E2) /\ total.bytes + b = SumOf(B2)
    BY <1>2, <2>0, <2>1, <2>2, <2>5, <2>9
  <2>7. ~(total.entries + e < 0) /\ ~(total.bytes + b < 0)
    BY <2>5, <2>6, <2>9
  <2>8. total'.entries = SumOf(E2) /\ total'.bytes = SumOf(B2)
    BY <1>5, <2>6, <2>7 DEF Plus, Clamp
  <2> QED
    BY <2>8 DEF TotalIsSum, E2, B2
<1>9. /\ d[f][k] = v
      /\ \A g \in Filters, j \in Keys : g # f \/ j # k => d[g][j] = c[g][j]
  BY <1>4
<1>10. Balance(ns', d)
  BY <1>7 DEF Balance
<1> QED
  BY <1>1, <1>8, <1>9, <1>10, Zenon DEF Recharged

LEMMA ExactInit == Init => ExactInv
<1> SUFFICES ASSUME Init PROVE ExactInv
  OBVIOUS
<1>1. QuotaTypes
  BY QuotaInitTypes
<1>2. KeysApart /\ FixedStored /\ \A t \in Tasks : Pending(t)
  BY QuotaAssumption DEF QuotaAssumption, Init, KeysApart, FixedStored, Pending, Keys
<1> DEFINE zero == [k \in Keys |-> 0]
           c == [f \in Filters |-> zero]
           z == [f \in Filters |-> 0]
<1>3. SumOf(zero) = 0 /\ SumOf(z) = 0 /\ Cardinality(ChargedKeys(zero)) = 0
  <2>1. zero \in [Keys -> Nat] /\ z \in [Filters -> Nat] /\ ChargedKeys(zero) = {}
    BY DEF ChargedKeys
  <2> QED
    BY <2>1, SumOfZeros, FS_EmptySet
<1>4. \A f \in Filters : ns[f].entries = 0 /\ ns[f].bytes = 0
  BY DEF Init, NoUsage
<1>5. TotalIsSum
  <2>1. [f \in Filters |-> ns[f].entries] = z /\ [f \in Filters |-> ns[f].bytes] = z
    BY <1>4
  <2>2. total.entries = 0 /\ total.bytes = 0
    BY DEF Init, NoUsage
  <2> HIDE DEF z
  <2> QED
    BY <1>3, <2>1, <2>2 DEF TotalIsSum
<1>6. Books(c)
  <2>1. \A f \in Filters : c[f] = zero
    OBVIOUS
  <2>2. Balance(ns, c)
    <3> HIDE DEF c, zero
    <3> QED
      BY <1>3, <1>4, <2>1 DEF Balance
  <2>3. \A f \in Filters, k \in Keys : c[f][k] = 0 /\ Size(f, k) = 0
    BY DEF Init, Size
  <2> QED
    BY <2>2, <2>3 DEF Books, Init
<1>7. c \in Charges
  BY DEF Charges
<1> QED
  BY <1>1, <1>2, <1>5, <1>6, <1>7 DEF ExactInv

\* What another call knows and covers stays as it is when t, which is on
\* another key of that filter or on another filter, takes a step.
LEMMA OthersUndisturbed ==
  ASSUME QuotaTypes, KeysApart, NEW t \in Tasks, at[t] # "idle",
         \A u \in Tasks : u # t => at'[u] = at[u] /\ op'[u] = op[u],
         \A f \in Filters, j \in Keys :
           f # FilterOf[t] \/ j # op[t].key => store'[f][j] = store[f][j],
         NEW u \in Tasks, u # t, Pending(u)
  PROVE  Pending(u)'
<1>1. at'[u] = at[u] /\ op'[u] = op[u]
  OBVIOUS
<1>2. CASE at[u] = "idle"
  BY <1>1, <1>2 DEF Pending
<1>3. CASE at[u] # "idle"
  <2>1. op[u] \in Ops /\ op[u].key \in Keys /\ FilterOf[u] \in Filters
    BY <1>3, StoredNat DEF QuotaTypes, TypeOK, Ops
  <2>2. store'[FilterOf[u]][op[u].key] = store[FilterOf[u]][op[u].key]
    BY <1>3, <2>1 DEF KeysApart
  <2> QED
    BY <1>1, <2>2 DEF Pending, Size
<1> QED
  BY <1>2, <1>3

\* The steps that charge nothing: the books stay as they are.
LEMMA ReadStep ==
  ASSUME ExactInv, NEW t \in Tasks, NEW o \in Ops, NEW l \in {"admit", "write", "remove"},
         at[t] = "idle", CallAt(t, l, o), UNCHANGED <<store, ns, total>>, QuotaTypes', KeysApart',
         Pending(t)', l = "write" => Size(FilterOf[t], o.key) = KeyLen + o.len
  PROVE  ExactInv'
<1>0. QuotaTypes /\ KeysApart /\ FixedStored /\ TotalIsSum /\ \A u \in Tasks : Pending(u)
  BY DEF ExactInv
<1>1. /\ at'[t] = l /\ op'[t] = o
      /\ \A u \in Tasks : u # t => at'[u] = at[u] /\ op'[u] = op[u]
  BY <1>0 DEF CallAt, QuotaTypes, TypeOK
<1>2. FixedStored' /\ TotalIsSum'
  BY <1>0 DEF FixedStored, TotalIsSum
<1>3. \A u \in Tasks : Pending(u)'
  <2>1. SUFFICES ASSUME NEW u \in Tasks, u # t PROVE Pending(u)'
    OBVIOUS
  <2> QED
    BY <1>0, <1>1, <2>1 DEF Pending, Size
<1>4. PICK c \in Charges : Books(c)
  BY DEF ExactInv
<1>5. Books(c)'
  <2>1. Balance(ns', c)
    BY <1>4 DEF Books, Balance
  <2>2. ASSUME NEW f \in Filters, NEW k \in Keys, \A u \in Tasks : ~Covers(u, f, k)'
        PROVE  c[f][k] = Size(f, k)'
    <3>1. \A u \in Tasks : ~Covers(u, f, k)
      BY <1>1, <2>2 DEF Covers
    <3> QED
      BY <1>4, <3>1 DEF Books, Size
  <2>3. ASSUME NEW u \in Tasks, at'[u] \in {"write", "release"}
        PROVE  c[FilterOf[u]][op'[u].key] = KeyLen + op'[u].len
    <3>1. CASE u # t
      BY <1>1, <1>4, <2>3, <3>1 DEF Books
    <3>2. CASE u = t
      <4>1. l = "write" /\ o.key \in Keys /\ FilterOf[t] \in Filters
        BY <1>1, <2>3, <3>2, StoredNat DEF Ops
      <4>2. \A w \in Tasks : ~Covers(w, FilterOf[t], o.key)
        <5>1. SUFFICES ASSUME NEW w \in Tasks, w # t, Covers(w, FilterOf[t], o.key) PROVE FALSE
          BY DEF Covers
        <5> QED
          BY <1>1, <4>1, <5>1 DEF Covers, KeysApart
      <4> QED
        BY <1>1, <1>4, <3>2, <4>1, <4>2 DEF Books
    <3> QED
      BY <3>1, <3>2
  <2> QED
    BY <2>1, <2>2, <2>3 DEF Books
<1> QED
  BY <1>2, <1>3, <1>4, <1>5 DEF ExactInv

\* The later steps of a call on key k of filter f, where the charges c become d.
LEMMA CallStep ==
  ASSUME ExactInv, NEW t \in Tasks, at[t] # "idle", NEW f \in Filters, NEW k \in Keys,
         f = FilterOf[t], k = op[t].key,
         NEW c \in Charges, Books(c), NEW d \in Charges, Balance(ns', d),
         \A g \in Filters, j \in Keys :
           g # f \/ j # k => d[g][j] = c[g][j] /\ store'[g][j] = store[g][j],
         \A u \in Tasks : u # t => at'[u] = at[u] /\ op'[u] = op[u],
         at'[t] \in {"write", "release"} => op'[t].key = k /\ d[f][k] = KeyLen + op'[t].len,
         at'[t] \notin {"write", "release"} => d[f][k] = Size(f, k)',
         QuotaTypes', KeysApart', FixedStored', TotalIsSum', Pending(t)'
  PROVE  ExactInv'
<1>0. QuotaTypes /\ KeysApart /\ \A u \in Tasks : Pending(u)
  BY DEF ExactInv
<1>1. \A u \in Tasks : Pending(u)'
  <2>1. ASSUME NEW u \in Tasks, u # t PROVE Pending(u)'
    BY <1>0, <2>1, OthersUndisturbed
  <2> QED
    BY <2>1
<1>2. \A u \in Tasks : u # t /\ FilterOf[u] = f /\ at[u] # "idle" => op[u].key # k
  BY <1>0 DEF KeysApart
<1>3. Books(d)'
  <2>1. ASSUME NEW g \in Filters, NEW j \in Keys, \A u \in Tasks : ~Covers(u, g, j)'
        PROVE  d[g][j] = Size(g, j)'
    <3>1. CASE g = f /\ j = k
      <4>1. at'[t] \notin {"write", "release"}
        BY <2>1, <3>1 DEF Covers
      <4> QED
        BY <3>1, <4>1
    <3>2. CASE g # f \/ j # k
      <4>1. \A u \in Tasks : ~Covers(u, g, j)
        BY <2>1, <3>2 DEF Covers
      <4>2. c[g][j] = Size(g, j)
        BY <4>1 DEF Books
      <4> QED
        BY <3>2, <4>2 DEF Size
    <3> QED
      BY <3>1, <3>2
  <2>2. ASSUME NEW u \in Tasks, at'[u] \in {"write", "release"}
        PROVE  d[FilterOf[u]][op'[u].key] = KeyLen + op'[u].len
    <3>1. CASE u = t
      BY <2>2, <3>1
    <3>2. CASE u # t
      <4>1. /\ at[u] \in {"write", "release"} /\ op'[u] = op[u]
            /\ c[FilterOf[u]][op[u].key] = KeyLen + op[u].len
        BY <2>2, <3>2 DEF Books
      <4>2. FilterOf[u] \in Filters /\ op[u].key \in Keys
        BY <1>0, <4>1, StoredNat DEF QuotaTypes, TypeOK, Ops
      <4>3. FilterOf[u] # f \/ op[u].key # k
        BY <1>2, <3>2, <4>1
      <4> QED
        BY <4>1, <4>2, <4>3
    <3> QED
      BY <3>1, <3>2
  <2> QED
    BY <2>1, <2>2 DEF Books
<1> QED
  BY <1>1, <1>3 DEF ExactInv

LEMMA ExactNext == ExactInv /\ [Next /\ KeysApart']_vars => ExactInv'
<1> SUFFICES ASSUME ExactInv, [Next /\ KeysApart']_vars PROVE ExactInv'
  OBVIOUS
<1>0. QuotaTypes /\ TypeOK /\ KeysApart /\ FixedStored /\ TotalIsSum /\ \A u \in Tasks : Pending(u)
  BY DEF ExactInv, QuotaTypes
<1>1. CASE UNCHANGED vars
  <2>1. /\ store' = store /\ ns' = ns /\ total' = total /\ at' = at /\ op' = op
    BY <1>1 DEF vars
  <2>2. PICK c \in Charges : Books(c)
    BY DEF ExactInv
  <2>3. Books(c)'
    BY <2>1, <2>2 DEF Books, Balance, Covers, Size
  <2>4. QuotaTypes' /\ KeysApart' /\ FixedStored' /\ TotalIsSum'
    BY <1>0, <2>1 DEF QuotaTypes, TypeOK, Removing, KeysApart, FixedStored, TotalIsSum
  <2>5. \A u \in Tasks : Pending(u)'
    BY <1>0, <2>1 DEF Pending, Size
  <2> QED
    BY <2>3, <2>4, <2>5 DEF ExactInv
<1>2. SUFFICES ASSUME Next, KeysApart' PROVE ExactInv'
  BY <1>1
<1>3. QuotaTypes'
  BY <1>0, <1>2, QuotaNextTypes
<1>4. ASSUME NEW t \in Tasks, NEW l, NEW o, CallAt(t, l, o)
      PROVE  /\ at'[t] = l /\ op'[t] = o
             /\ \A u \in Tasks : u # t => at'[u] = at[u] /\ op'[u] = op[u]
  BY <1>0, <1>4 DEF TypeOK, CallAt
<1>5. ASSUME NEW t \in Tasks, NEW k \in KvKeys, NEW len \in Lengths, SetRead(t, k, len)
      PROVE  ExactInv'
  <2> DEFINE o == IF Value(t, k) = Absent
                  THEN [key |-> k, len |-> len, entries |-> 1, bytes |-> KeyLen + len]
                  ELSE [key |-> k, len |-> len, entries |-> 0, bytes |-> len - Value(t, k)]
  <2>1. at[t] = "idle" /\ CallAt(t, "admit", o) /\ UNCHANGED <<store, ns, total>>
    BY <1>5 DEF SetRead
  <2>2. /\ Value(t, k) \in Stored \cup {Absent} /\ Value(t, k) = store[FilterOf[t]][k]
        /\ len \in Nat /\ k \in Keys /\ k \notin FixedKeys
    BY <1>0, StoredNat, QuotaAssumption DEF Value, TypeOK, QuotaAssumption
  <2>3. /\ o \in Ops /\ o.key = k /\ o.len = len
        /\ o.entries = IF Value(t, k) = Absent THEN 1 ELSE 0
        /\ o.bytes = KeyLen + o.len - Size(FilterOf[t], k)
    <3>1. CASE Value(t, k) = Absent
      BY <2>2, <3>1, StoredNat DEF Ops, Size
    <3>2. CASE Value(t, k) # Absent
      <4>1. Value(t, k) \in Nat /\ Size(FilterOf[t], k) = KeyLen + Value(t, k) /\ KeyLen = 1
        BY <2>2, <3>2, StoredNat DEF Size
      <4>2. len - Value(t, k) = KeyLen + len - (KeyLen + Value(t, k)) /\ len - Value(t, k) \in Int
        BY <2>2, <4>1
      <4>3. o = [key |-> k, len |-> len, entries |-> 0, bytes |-> len - Value(t, k)]
        BY <3>2
      <4> HIDE DEF o
      <4> QED
        BY <2>2, <3>2, <4>1, <4>2, <4>3, StoredNat DEF Ops
    <3> QED
      BY <3>1, <3>2
  <2> HIDE DEF o
  <2>4. Pending(t)'
    BY <1>4, <2>1, <2>2, <2>3 DEF Pending, Size
  <2> QED
    BY <1>2, <1>3, <2>1, <2>3, <2>4, ReadStep
<1>6. ASSUME NEW t \in Tasks, NEW k \in FixedKeys, FixedRead(t, k) PROVE ExactInv'
  <2> DEFINE o == [key |-> k, len |-> FixedLen[k], entries |-> 1,
                   bytes |-> KeyLen + FixedLen[k]]
             w == [key |-> k, len |-> FixedLen[k], entries |-> 0, bytes |-> 0]
  <2>1. /\ at[t] = "idle" /\ UNCHANGED <<store, ns, total>>
        /\ Value(t, k) = Absent => CallAt(t, "admit", o)
        /\ Value(t, k) # Absent => CallAt(t, "write", w)
    BY <1>6 DEF FixedRead
  <2>2. /\ Value(t, k) \in {Absent, FixedLen[k]} /\ Value(t, k) = store[FilterOf[t]][k]
        /\ FixedLen[k] \in Nat /\ k \in Keys /\ k \notin KvKeys /\ FixedLen[k] \in Stored
    BY <1>0, StoredNat, QuotaAssumption DEF Value, FixedStored, QuotaAssumption
  <2>3. /\ o \in Ops /\ o.key = k /\ o.len = FixedLen[k] /\ o.entries = 1
        /\ o.bytes = KeyLen + FixedLen[k]
        /\ w \in Ops /\ w.key = k /\ w.len = FixedLen[k]
    BY <2>2, StoredNat DEF Ops
  <2> HIDE DEF o, w
  <2>4. CASE Value(t, k) = Absent
    <3>1. Size(FilterOf[t], k) = 0
      BY <2>2, <2>4 DEF Size
    <3>2. Pending(t)'
      <4>1. at'[t] = "admit" /\ op'[t] = o /\ store' = store
        BY <1>4, <2>1, <2>4
      <4>2. Size(FilterOf[t], k)' = 0 /\ o.bytes = KeyLen + o.len - 0
        BY <2>2, <2>3, <3>1, <4>1, StoredNat DEF Size
      <4> QED
        BY <2>2, <2>3, <2>4, <4>1, <4>2 DEF Pending
    <3> QED
      BY <1>2, <1>3, <2>1, <2>3, <2>4, <3>2, ReadStep
  <2>5. CASE Value(t, k) # Absent
    <3>1. Size(FilterOf[t], k) = KeyLen + FixedLen[k]
      BY <2>2, <2>5 DEF Size
    <3>2. Pending(t)'
      BY <1>4, <2>1, <2>2, <2>3, <2>5 DEF Pending
    <3> QED
      BY <1>2, <1>3, <2>1, <2>3, <2>5, <3>1, <3>2, ReadStep
  <2> QED
    BY <2>4, <2>5
<1>7. ASSUME NEW t \in Tasks, NEW k \in KvKeys, DeleteRead(t, k) PROVE ExactInv'
  <2> DEFINE o == [key |-> k, len |-> Value(t, k), entries |-> -1,
                   bytes |-> -(KeyLen + Value(t, k))]
  <2>1. at[t] = "idle" /\ CallAt(t, "remove", o) /\ UNCHANGED <<store, ns, total>>
    BY <1>7 DEF DeleteRead
  <2>2. /\ Value(t, k) \in Stored /\ Value(t, k) = store[FilterOf[t]][k]
        /\ k \in Keys /\ k \notin FixedKeys
    BY <1>0, <1>7, StoredNat, QuotaAssumption DEF Value, TypeOK, QuotaAssumption, DeleteRead
  <2>3. /\ o \in Ops /\ o.key = k /\ o.len = Value(t, k) /\ o.entries = -1
        /\ o.bytes = -(KeyLen + Value(t, k))
    BY <2>2, StoredNat DEF Ops
  <2> HIDE DEF o
  <2>4. Pending(t)'
    BY <1>4, <2>1, <2>2, <2>3 DEF Pending
  <2> QED
    BY <1>2, <1>3, <2>1, <2>3, <2>4, ReadStep
<1>8. PICK c \in Charges : Books(c)
  BY DEF ExactInv
<1>9. ASSUME NEW t \in Tasks, at[t] # "idle"
      PROVE  /\ op[t] \in Ops /\ op[t].key \in Keys /\ op[t].len \in Nat /\ op[t].len \in Stored
             /\ FilterOf[t] \in Filters /\ Pending(t)
             /\ c[FilterOf[t]][op[t].key] = IF at[t] \in {"write", "release"}
                                            THEN KeyLen + op[t].len
                                            ELSE Size(FilterOf[t], op[t].key)
  <2>1. /\ op[t] \in Ops /\ op[t].key \in Keys /\ op[t].len \in Nat /\ op[t].len \in Stored
        /\ FilterOf[t] \in Filters /\ Pending(t)
    BY <1>0, <1>9, StoredNat DEF TypeOK, Ops
  <2>2. CASE at[t] \in {"write", "release"}
    BY <1>8, <2>1, <2>2 DEF Books
  <2>3. CASE at[t] \notin {"write", "release"}
    <3>1. \A u \in Tasks : ~Covers(u, FilterOf[t], op[t].key)
      BY <1>0, <1>9, <2>3 DEF Covers, KeysApart
    <3> QED
      BY <1>8, <2>1, <2>3, <3>1 DEF Books
  <2> QED
    BY <2>1, <2>2, <2>3
<1>10. ASSUME NEW t \in Tasks, Admit(t) PROVE ExactInv'
  <2>1. at[t] = "admit" /\ store' = store
    BY <1>10 DEF Admit
  <2>f. PICK f \in Filters, k \in Keys : f = FilterOf[t] /\ k = op[t].key
    BY <1>9, <2>1
  <2>2. /\ op[t] \in Ops /\ k \in Keys /\ f \in Filters /\ op[t].len \in Nat
        /\ c[f][k] = Size(f, k) /\ Pending(t)
    BY <1>9, <2>f, <2>1
  <2>3. FixedStored'
    BY <1>0, <2>1 DEF FixedStored
  <2>4. CASE ~Fits(f, op[t].entries, op[t].bytes)
    <3>1. CallAt(t, "idle", NoOp) /\ ns' = ns /\ total' = total
      BY <1>10, <2>f, <2>4 DEF Admit
    <3>2. Balance(ns', c) /\ TotalIsSum'
      BY <1>0, <1>8, <3>1 DEF Books, Balance, TotalIsSum
    <3>3. /\ at'[t] = "idle" /\ op'[t] = NoOp
          /\ \A u \in Tasks : u # t => at'[u] = at[u] /\ op'[u] = op[u]
      BY <1>4, <3>1
    <3>4. Pending(t)' /\ c[f][k] = Size(f, k)'
      BY <2>1, <2>2, <3>3 DEF Pending, Size
    <3> QED
      BY <1>2, <1>3, <1>8, <2>f, <2>1, <2>2, <2>3, <3>2, <3>3, <3>4, CallStep
  <2>5. CASE Fits(f, op[t].entries, op[t].bytes)
    <3>1. Charge(f, op[t].entries, op[t].bytes) /\ CallAt(t, "write", op[t])
      BY <1>10, <2>f, <2>5 DEF Admit
    <3>2. PICK v \in Nat : v = KeyLen + op[t].len /\ v > 0
      BY <2>2, StoredNat
    <3>p. /\ op[t].entries = IF store[FilterOf[t]][op[t].key] = Absent THEN 1 ELSE 0
          /\ op[t].bytes = KeyLen + op[t].len - Size(FilterOf[t], op[t].key)
      <4>1. Pending(t)
        BY <2>2
      <4>2. at[t] = "admit" =>
              /\ op[t].entries = IF store[FilterOf[t]][op[t].key] = Absent THEN 1 ELSE 0
              /\ op[t].bytes = KeyLen + op[t].len - Size(FilterOf[t], op[t].key)
        BY <4>1, Zenon DEF Pending
      <4> QED
        BY <2>1, <4>2, Zenon
    <3>3. /\ op[t].bytes = v - c[f][k]
          /\ op[t].entries = OneIf(v) - OneIf(c[f][k])
      <4>1. store[f][k] \in Stored \cup {Absent}
        BY <1>0, <2>2 DEF TypeOK
      <4>2. /\ op[t].entries = IF store[f][k] = Absent THEN 1 ELSE 0
            /\ op[t].bytes = v - Size(f, k)
        <5>1. op[t].entries = IF store[f][k] = Absent THEN 1 ELSE 0
          BY <2>f, <3>p
        <5>2. Size(f, k) = Size(FilterOf[t], op[t].key)
          BY <2>f, Zenon
        <5>3. op[t].bytes = KeyLen + op[t].len - Size(FilterOf[t], op[t].key)
          BY <3>p, Zenon
        <5>4. op[t].bytes = v - Size(f, k)
          <6>1. op[t].bytes = KeyLen + (op[t].len - Size(f, k))
            BY <5>2, <5>3, Zenon
          <6>2. op[t].len \in Nat /\ Size(f, k) \in Nat /\ KeyLen \in Nat
            BY <2>2, StoredNat DEF Charges
          <6> QED
            BY <3>2, <6>1, <6>2
        <5> QED
          BY <5>1, <5>4, Zenon
      <4>3. Size(f, k) = (IF store[f][k] = Absent THEN 0 ELSE KeyLen + store[f][k])
        BY DEF Size
      <4>4. OneIf(v) = 1 /\ OneIf(c[f][k]) = IF store[f][k] = Absent THEN 0 ELSE 1
        BY <2>2, <3>2, <4>1, <4>3, StoredNat DEF OneIf
      <4> QED
        BY <2>2, <4>2, <4>4
    <3>5. Balance(ns, c) /\ TypeOK /\ TotalIsSum
      BY <1>0, <1>8 DEF Books
    <3>6. TotalIsSum' /\ \E d \in Charges : Recharged(c, d, f, k, v)
      BY <3>1, <3>3, <3>5, ChargeMoves, Zenon
    <3>d. PICK d \in Charges : Recharged(c, d, f, k, v)
      BY <3>6
    <3>r. /\ d[f][k] = v /\ Balance(ns', d)
          /\ \A g \in Filters, j \in Keys : g # f \/ j # k => d[g][j] = c[g][j]
      BY <3>d DEF Recharged
    <3>7. /\ at'[t] = "write" /\ op'[t] = op[t]
          /\ \A u \in Tasks : u # t => at'[u] = at[u] /\ op'[u] = op[u]
      BY <1>4, <3>1
    <3>8. Pending(t)' /\ d[f][k] = KeyLen + op'[t].len
      BY <2>1, <2>2, <3>2, <3>r, <3>7 DEF Pending
    <3>9. \A g \in Filters, j \in Keys :
            g # f \/ j # k => d[g][j] = c[g][j] /\ store'[g][j] = store[g][j]
      BY <2>1, <3>r
    <3> QED
      BY <1>2, <1>3, <1>8, <2>f, <2>1, <2>2, <2>3, <3>6, <3>r, <3>7, <3>8, <3>9, CallStep
  <2> QED
    BY <2>4, <2>5
<1>11. ASSUME NEW t \in Tasks, Write(t) PROVE ExactInv'
  <2>f. PICK f \in Filters, k \in Keys : f = FilterOf[t] /\ k = op[t].key
    BY <1>9, <1>11 DEF Write
  <2>1. /\ at[t] = "write" /\ Put(t, k, op[t].len) /\ CallAt(t, "idle", NoOp)
        /\ ns' = ns /\ total' = total
    BY <1>11, <2>f DEF Write
  <2>2. /\ k \in Keys /\ f \in Filters /\ op[t].len \in Nat /\ op[t].len \in Stored
        /\ c[f][k] = KeyLen + op[t].len /\ Pending(t)
    BY <1>9, <2>f, <2>1
  <2>3. /\ store'[f][k] = op[t].len
        /\ \A g \in Filters, j \in Keys : g # f \/ j # k => store'[g][j] = store[g][j]
    BY <1>0, <2>f, <2>1, <2>2, PutTypes
  <2>4. FixedStored'
    <3>1. k \in FixedKeys => op[t].len = FixedLen[k]
      BY <2>f, <2>1, <2>2, Zenon DEF Pending
    <3>2. ASSUME NEW g \in Filters, NEW j \in FixedKeys
          PROVE  store'[g][j] \in {Absent, FixedLen[j]}
      <4>1. j \in Keys /\ store[g][j] \in {Absent, FixedLen[j]}
        BY <1>0, StoredNat DEF FixedStored
      <4> QED
        BY <2>3, <3>1, <4>1
    <3> QED
      BY <3>2 DEF FixedStored
  <2>5. Balance(ns', c) /\ TotalIsSum'
    BY <1>0, <1>8, <2>1 DEF Books, Balance, TotalIsSum
  <2>6. /\ at'[t] = "idle" /\ op'[t] = NoOp
        /\ \A u \in Tasks : u # t => at'[u] = at[u] /\ op'[u] = op[u]
    BY <1>4, <2>1
  <2>7. Pending(t)' /\ c[f][k] = Size(f, k)'
    BY <2>2, <2>3, <2>6, StoredNat DEF Pending, Size
  <2> QED
    BY <1>2, <1>3, <1>8, <2>f, <2>1, <2>2, <2>3, <2>4, <2>5, <2>6, <2>7, CallStep
<1>12. ASSUME NEW t \in Tasks, Remove(t) PROVE ExactInv'
  <2>f. PICK f \in Filters, k \in Keys : f = FilterOf[t] /\ k = op[t].key
    BY <1>9, <1>12 DEF Remove
  <2>1. /\ at[t] = "remove" /\ Put(t, k, Absent) /\ CallAt(t, "release", op[t])
        /\ ns' = ns /\ total' = total
    BY <1>12, <2>f DEF Remove
  <2>2. /\ k \in Keys /\ f \in Filters /\ op[t].len \in Nat /\ op[t].len \in Stored
        /\ c[f][k] = Size(f, k) /\ Pending(t)
    BY <1>9, <2>f, <2>1
  <2>3. /\ store'[f][k] = Absent
        /\ \A g \in Filters, j \in Keys : g # f \/ j # k => store'[g][j] = store[g][j]
    BY <1>0, <2>f, <2>1, <2>2, PutTypes
  <2>4. FixedStored'
    <3>1. ASSUME NEW g \in Filters, NEW j \in FixedKeys
          PROVE  store'[g][j] \in {Absent, FixedLen[j]}
      <4>1. j \in Keys /\ store[g][j] \in {Absent, FixedLen[j]}
        BY <1>0, StoredNat DEF FixedStored
      <4> QED
        BY <2>3, <4>1
    <3> QED
      BY <3>1 DEF FixedStored
  <2>5. Balance(ns', c) /\ TotalIsSum'
    BY <1>0, <1>8, <2>1 DEF Books, Balance, TotalIsSum
  <2>6. /\ at'[t] = "release" /\ op'[t] = op[t]
        /\ \A u \in Tasks : u # t => at'[u] = at[u] /\ op'[u] = op[u]
    BY <1>4, <2>1
  <2>7. Pending(t)' /\ c[f][k] = KeyLen + op'[t].len
    BY <2>f, <2>1, <2>2, <2>3, <2>6, StoredNat DEF Pending, Size
  <2> QED
    BY <1>2, <1>3, <1>8, <2>f, <2>1, <2>2, <2>3, <2>4, <2>5, <2>6, <2>7, CallStep
<1>13. ASSUME NEW t \in Tasks, Release(t) PROVE ExactInv'
  <2>f. PICK f \in Filters, k \in Keys : f = FilterOf[t] /\ k = op[t].key
    BY <1>9, <1>13 DEF Release
  <2>1. /\ at[t] = "release" /\ Charge(f, op[t].entries, op[t].bytes) /\ CallAt(t, "idle", NoOp)
        /\ store' = store
    BY <1>13, <2>f DEF Release
  <2>2. /\ k \in Keys /\ f \in Filters /\ op[t].len \in Nat
        /\ c[f][k] = KeyLen + op[t].len /\ Pending(t)
    BY <1>9, <2>f, <2>1
  <2>3. FixedStored'
    BY <1>0, <2>1 DEF FixedStored
  <2>4. op[t].bytes = 0 - c[f][k] /\ op[t].entries = OneIf(0) - OneIf(c[f][k])
    BY <2>f, <2>1, <2>2, StoredNat DEF Pending, OneIf
  <2>5. Balance(ns, c) /\ TypeOK /\ TotalIsSum /\ 0 \in Nat
    BY <1>0, <1>8 DEF Books
  <2>6. TotalIsSum' /\ \E d \in Charges : Recharged(c, d, f, k, 0)
    BY <2>1, <2>4, <2>5, ChargeMoves, Zenon
  <2>d. PICK d \in Charges : Recharged(c, d, f, k, 0)
    BY <2>6
  <2>7. /\ d[f][k] = 0 /\ Balance(ns', d)
        /\ \A g \in Filters, j \in Keys : g # f \/ j # k => d[g][j] = c[g][j]
    BY <2>d DEF Recharged
  <2>8. /\ at'[t] = "idle" /\ op'[t] = NoOp
        /\ \A u \in Tasks : u # t => at'[u] = at[u] /\ op'[u] = op[u]
    BY <1>4, <2>1
  <2>9. Pending(t)' /\ d[f][k] = Size(f, k)'
    BY <2>f, <2>1, <2>2, <2>7, <2>8 DEF Pending, Size
  <2>10. \A g \in Filters, j \in Keys :
           g # f \/ j # k => d[g][j] = c[g][j] /\ store'[g][j] = store[g][j]
    BY <2>1, <2>7
  <2> QED
    BY <1>2, <1>3, <1>8, <2>f, <2>1, <2>2, <2>3, <2>6, <2>7, <2>8, <2>9, <2>10, CallStep
<1> QED
  BY <1>2, <1>5, <1>6, <1>7, <1>10, <1>11, <1>12, <1>13 DEF Next

----------------------------------------------------------------------------
(* What the books say of the charges and of the backend.                   *)

LEMMA SizeNat ==
  ASSUME QuotaTypes, NEW f \in Filters, NEW k \in Keys
  PROVE  Size(f, k) \in Nat /\ (Size(f, k) > 0 <=> store[f][k] # Absent)
<1>1. store[f][k] \in Stored \cup {Absent}
  BY DEF QuotaTypes, TypeOK
<1> QED
  BY <1>1, StoredNat DEF Size

\* Every key and every byte of the backend is charged, but for those given back
\* already.
LEMMA HeldIsCharged ==
  ASSUME ExactInv, NEW charge \in Charges, Books(charge), NEW f \in Filters
  PROVE  /\ Held(f) \subseteq ChargedKeys(charge[f])
         /\ HeldBytes(f) \ GivenBack(f) \subseteq Units(charge[f])
<1>0. QuotaTypes /\ \A t \in Tasks : Pending(t)
  BY DEF ExactInv
<1>1. charge[f] \in [Keys -> Nat]
  BY DEF Charges
<1>2. ASSUME NEW t \in Tasks, NEW k \in Keys, Covers(t, f, k)
      PROVE  /\ op[t].len \in Nat /\ charge[f][k] = KeyLen + op[t].len
             /\ at[t] # "write" => store[f][k] = Absent
  <2>1. at[t] \in {"write", "release"} /\ FilterOf[t] = f /\ op[t].key = k
    BY <1>2 DEF Covers
  <2>2. op[t].len \in Nat
    BY <1>0, <2>1, StoredNat DEF QuotaTypes, TypeOK, Ops
  <2>3. at[t] # "write" => store[f][k] = Absent
    BY <1>0, <2>1 DEF Pending
  <2> QED
    BY <2>1, <2>2, <2>3 DEF Books
<1>3. ASSUME NEW k \in Keys, \A t \in Tasks : ~Covers(t, f, k)
      PROVE  charge[f][k] = Size(f, k)
  BY <1>3 DEF Books
<1>4. ASSUME NEW k \in Held(f) PROVE k \in ChargedKeys(charge[f])
  <2>1. k \in Keys /\ Size(f, k) > 0
    BY <1>0, SizeNat DEF Held
  <2>2. CASE \A t \in Tasks : ~Covers(t, f, k)
    BY <1>3, <2>1, <2>2 DEF ChargedKeys
  <2>3. CASE \E t \in Tasks : Covers(t, f, k)
    BY <1>2, <2>1, <2>3, StoredNat DEF ChargedKeys
  <2> QED
    BY <2>2, <2>3
<1>5. ASSUME NEW u \in HeldBytes(f) \ GivenBack(f) PROVE u \in Units(charge[f])
  <2> DEFINE n == [k \in Keys |-> Size(f, k)]
  <2>1. n \in [Keys -> Nat]
    BY <1>0, SizeNat
  <2>2. u \in Units(n)
    BY DEF HeldBytes
  <2>3. u[1] \in Keys /\ u[2] \in 1..n[u[1]] /\ u = <<u[1], u[2]>>
    BY <2>1, <2>2, UnitsMembers
  <2>4. u[2] \in 1..Size(f, u[1])
    BY <2>3
  <2> HIDE DEF n
  <2>5. u[2] \in 1..charge[f][u[1]]
    <3>1. CASE \A t \in Tasks : ~Covers(t, f, u[1])
      BY <1>3, <2>3, <2>4, <3>1
    <3>2. CASE \E t \in Tasks : Covers(t, f, u[1])
      <4>1. PICK t \in Tasks : Covers(t, f, u[1])
        BY <3>2
      <4>2. /\ op[t].len \in Nat /\ charge[f][u[1]] = KeyLen + op[t].len
            /\ at[t] # "write" => store[f][u[1]] = Absent
        BY <1>2, <2>3, <4>1
      <4>3. at[t] = "write"
        <5>1. Size(f, u[1]) > 0
          BY <1>0, <2>3, <2>4, SizeNat
        <5> QED
          BY <1>0, <2>3, <4>2, <5>1, SizeNat
      <4>4. ~(KeyLen + op[t].len < u[2])
        BY <4>1, <4>3 DEF GivenBack, Covers
      <4> QED
        BY <1>0, <2>3, <2>4, <4>2, <4>4, StoredNat, SizeNat
    <3> QED
      BY <3>1, <3>2
  <2>6. <<u[1], u[2]>> \in Units(charge[f])
    BY <1>1, <2>3, <2>5, UnitsMembers
  <2> QED
    BY <2>3, <2>6
<1> QED
  BY <1>4, <1>5

LEMMA BooksAreExact == ExactInv => AccountingExact
<1> SUFFICES ASSUME ExactInv, NEW f \in Filters,
                    \A t \in Tasks : FilterOf[t] = f => at[t] = "idle"
             PROVE  ns[f] = [entries |-> Cardinality(Held(f)),
                             bytes |-> Cardinality(HeldBytes(f))]
  BY DEF AccountingExact
<1>0. QuotaTypes
  BY DEF ExactInv
<1>1. PICK charge \in Charges : Books(charge)
  BY DEF ExactInv
<1>2. \A k \in Keys : charge[f][k] = Size(f, k)
  <2>1. \A t \in Tasks, k \in Keys : ~Covers(t, f, k)
    BY DEF Covers
  <2> QED
    BY <1>1, <2>1 DEF Books
<1>3. charge[f] = [k \in Keys |-> Size(f, k)]
  BY <1>2 DEF Charges
<1>4. ChargedKeys(charge[f]) = Held(f)
  BY <1>0, <1>2, SizeNat DEF ChargedKeys, Held
<1>5. /\ ns[f].bytes = SumOf(charge[f])
      /\ ns[f].entries = Cardinality(ChargedKeys(charge[f]))
  BY <1>1 DEF Books, Balance
<1>6. ns[f].bytes = Cardinality(HeldBytes(f)) /\ ns[f].entries = Cardinality(Held(f))
  BY <1>3, <1>4, <1>5 DEF SumOf, HeldBytes
<1>7. ns[f] \in [entries : 0..MaxNsEntries, bytes : 0..MaxNsBytes]
  BY <1>0 DEF QuotaTypes, TypeOK
<1> QED
  BY <1>6, <1>7

LEMMA BooksBoundTheStore == ExactInv => StoreWithinCaps
<1> SUFFICES ASSUME ExactInv PROVE StoreWithinCaps
  OBVIOUS
<1>0. TypeOK /\ TotalIsSum /\ IsFiniteSet(Filters) /\ IsFiniteSet(Keys)
  BY QuotaAssumption DEF ExactInv, QuotaTypes, QuotaAssumption
<1>c. /\ MaxNsEntries \in Nat /\ MaxNsBytes \in Nat
      /\ MaxTotalEntries \in Nat /\ MaxTotalBytes \in Nat
  BY QuotaAssumption DEF QuotaAssumption
<1>1. PICK charge \in Charges : Books(charge)
  BY DEF ExactInv
<1>2. ASSUME NEW f \in Filters
      PROVE  /\ Cardinality(Held(f)) \in Nat /\ Cardinality(Held(f)) <= ns[f].entries
             /\ Settled(f) \in Nat /\ Settled(f) <= ns[f].bytes
             /\ ns[f].entries \in 0..MaxNsEntries /\ ns[f].bytes \in 0..MaxNsBytes
  <2>1. /\ ns[f].bytes = Cardinality(Units(charge[f]))
        /\ ns[f].entries = Cardinality(ChargedKeys(charge[f]))
    BY <1>1 DEF Books, Balance, SumOf
  <2>2. /\ Held(f) \subseteq ChargedKeys(charge[f])
        /\ HeldBytes(f) \ GivenBack(f) \subseteq Units(charge[f])
    BY <1>1, HeldIsCharged
  <2>3. charge[f] \in [Keys -> Nat]
    BY DEF Charges
  <2>4. IsFiniteSet(Units(charge[f]))
    BY <1>0, <2>3, SumIsNat
  <2>5. IsFiniteSet(ChargedKeys(charge[f]))
    <3>1. ChargedKeys(charge[f]) \subseteq Keys
      BY DEF ChargedKeys
    <3> QED
      BY <1>0, <3>1, FS_Subset
  <2>6. Cardinality(Held(f)) \in Nat /\ Cardinality(Held(f)) <= ns[f].entries
    BY <2>1, <2>2, <2>5, FS_Subset, FS_CardinalityType
  <2>7. Settled(f) \in Nat /\ Settled(f) <= ns[f].bytes
    BY <2>1, <2>2, <2>4, FS_Subset, FS_CardinalityType DEF Settled
  <2> QED
    BY <1>0, <2>6, <2>7 DEF TypeOK
<1>3. \A f \in Filters : Cardinality(Held(f)) <= MaxNsEntries /\ Settled(f) <= MaxNsBytes
  BY <1>2, <1>c
<1>4. SumOf([f \in Filters |-> Cardinality(Held(f))]) <= MaxTotalEntries
  <2>1. PICK n \in [Filters -> Nat] : n = [f \in Filters |-> Cardinality(Held(f))]
    BY <1>2
  <2>a. \A f \in Filters : ns[f].entries \in Nat
    BY <1>2, <1>c
  <2>2. PICK m \in [Filters -> Nat] : m = [f \in Filters |-> ns[f].entries]
    BY <2>a
  <2>3. \A f \in Filters : n[f] <= m[f]
    BY <1>2, <2>1, <2>2
  <2>4. SumOf(n) <= SumOf(m) /\ SumOf(n) \in Nat
    BY <1>0, <2>3, SumGrows, SumIsNat
  <2>5. SumOf(m) = total.entries /\ total.entries \in 0..MaxTotalEntries
    BY <1>0, <2>2 DEF TotalIsSum, TypeOK
  <2> QED
    BY <1>c, <2>1, <2>4, <2>5
<1>5. SumOf([f \in Filters |-> Settled(f)]) <= MaxTotalBytes
  <2>1. PICK n \in [Filters -> Nat] : n = [f \in Filters |-> Settled(f)]
    BY <1>2
  <2>a. \A f \in Filters : ns[f].bytes \in Nat
    BY <1>2, <1>c
  <2>2. PICK m \in [Filters -> Nat] : m = [f \in Filters |-> ns[f].bytes]
    BY <2>a
  <2>3. \A f \in Filters : n[f] <= m[f]
    BY <1>2, <2>1, <2>2
  <2>4. SumOf(n) <= SumOf(m) /\ SumOf(n) \in Nat
    BY <1>0, <2>3, SumGrows, SumIsNat
  <2>5. SumOf(m) = total.bytes /\ total.bytes \in 0..MaxTotalBytes
    BY <1>0, <2>2 DEF TotalIsSum, TypeOK
  <2> QED
    BY <1>c, <2>1, <2>4, <2>5
<1> QED
  BY <1>3, <1>4, <1>5 DEF StoreWithinCaps

\* As long as the calls in progress of a filter are on different keys, what
\* `admit` and `release` add up is exact: between its calls a filter is charged
\* for the keys and the bytes it holds, whatever its earlier calls were.
THEOREM ChargesAreExact == ApartSpec => []AccountingExact
<1> QED
  BY ExactInit, ExactNext, BooksAreExact, PTL DEF ApartSpec

\* Then the saturating arithmetic of `admit` and `release` never saturates: the
\* host-wide usage is the sum of the filters'.
THEOREM TotalsAreSums == ApartSpec => []TotalIsSum
<1>1. ExactInv => TotalIsSum
  BY DEF ExactInv
<1> QED
  BY ExactInit, ExactNext, <1>1, PTL DEF ApartSpec

\* Then the caps bound what the backend holds at every moment of every call, not
\* only what is charged: charging before a write and releasing after a delete
\* leave no moment at which a key or a byte is there unpaid.
THEOREM StoreStaysWithinCaps == ApartSpec => []StoreWithinCaps
<1> QED
  BY ExactInit, ExactNext, BooksBoundTheStore, PTL DEF ApartSpec
============================================================================
