---------------------------- MODULE TrustedPool ----------------------------
(***************************************************************************)
(* The pool of reusable trusted filter instances (crates/host/src/lib.rs:  *)
(* LoadedInner::checkout, run_pooled, PoolInner, TrustedPool).             *)
(*                                                                         *)
(* A thread that runs a hook of a trusted filter checks an instance out,   *)
(* runs the call and checks the instance back in.  Every section of the    *)
(* code under the pool's mutex is one action; instantiation, the guest     *)
(* call, dropping a Store and Condvar::notify_one happen outside the lock  *)
(* and are steps of their own, so every interleaving of them is explored.  *)
(*                                                                         *)
(* The condition variable is parking_lot's (external): no spurious         *)
(* wakeups, notify_one wakes at most one of the threads waiting at that    *)
(* moment and is lost when none waits.  A wait may time out at any moment. *)
(* The wall clock is abstracted to what the breaker asks of it: whether a  *)
(* non-zero cooldown_until_ms lies in the future.                          *)
(***************************************************************************)
EXTENDS Integers, Sequences, FiniteSets

CONSTANTS
  Threads,                   \* threads running hooks of this filter
  Cap,                       \* pool size after the clamp in load_inner
  MaxRequestsPerInstance,    \* calls after which an instance is recycled
  TrapThreshold,             \* TRUSTED_TRAP_BREAKER_THRESHOLD
  U32Max                     \* where consecutive_traps saturates

ASSUME PoolAssumption ==
  /\ IsFiniteSet(Threads)
  /\ Cap \in Nat \ {0}
  /\ MaxRequestsPerInstance \in Nat
  /\ TrapThreshold \in Nat \ {0}
  /\ U32Max \in Nat
  /\ TrapThreshold <= U32Max

VARIABLES
  idle,               \* the served counts of the idle instances, a stack
  live,               \* slots accounted for
  consecutive_traps,
  cooldown,           \* "clear": cooldown_until_ms = 0; "open": in the
                      \* future; "elapsed": non-zero and in the past
  held,               \* held[t]: served count of t's instance, or NoInstance
  pc

poolVars == <<idle, live, consecutive_traps, cooldown, held, pc>>

NoInstance == -1

PCs == {"out", "checkout", "waiting", "retry", "building", "running",
        "recycled", "trapped", "notify"}

\* At the top of checkout's loop: a newcomer, or a waiter that was notified.
AtLoopTop(t) == pc[t] \in {"checkout", "retry"}

\* The threads whose slot is counted in live and is not in the idle stack.
SlotPCs == {"building", "running", "recycled", "trapped"}
SlotOwners == {t \in Threads : pc[t] \in SlotPCs}

Waiters == {t \in Threads : pc[t] = "waiting"}

\* The instances that exist: idle ones, ones a thread owns, ones being built.
StoreOwners == {t \in Threads : held[t] # NoInstance \/ pc[t] = "building"}
Physical == Len(idle) + Cardinality(StoreOwners)

----------------------------------------------------------------------------
\* TrustedPool::new: one eager instance, built at load.
PoolInit ==
  /\ idle = <<0>>
  /\ live = 1
  /\ consecutive_traps = 0
  /\ cooldown = "clear"
  /\ held = [t \in Threads |-> NoInstance]
  /\ pc = [t \in Threads |-> "out"]

Goto(t, l) == pc' = [pc EXCEPT ![t] = l]

\* live.saturating_sub(1)
FreeSlot == IF live = 0 THEN 0 ELSE live - 1

\* consecutive_traps.saturating_add(1)
OneMoreTrap == IF consecutive_traps < U32Max THEN consecutive_traps + 1 ELSE U32Max

\* PoolInner::clear_breaker.  (An operator named ...Mut is a deliberately wrong
\* variant of the one after it: no action uses it, and PROJECT.json names the
\* property that must fail when it is put in place of the right one.)
ClearTrapsOnlyMut ==
  /\ consecutive_traps' = 0
  /\ UNCHANGED cooldown

clear_breaker ==
  /\ consecutive_traps' = 0
  /\ cooldown' = "clear"

\* A hook of the filter is called: run_hook -> run_pooled -> checkout.
Enter(t) ==
  /\ pc[t] = "out"
  /\ Goto(t, "checkout")
  /\ UNCHANGED <<idle, live, consecutive_traps, cooldown, held>>

----------------------------------------------------------------------------
\* checkout: the four outcomes of one critical section.

CheckoutRefused(t) ==
  /\ AtLoopTop(t)
  /\ cooldown = "open"
  /\ Goto(t, "out")                              \* RunError::Unavailable
  /\ UNCHANGED <<idle, live, consecutive_traps, cooldown, held>>

CheckoutReuse(t) ==
  /\ AtLoopTop(t)
  /\ cooldown # "open"
  /\ idle # <<>>
  /\ held' = [held EXCEPT ![t] = idle[Len(idle)]]
  /\ idle' = SubSeq(idle, 1, Len(idle) - 1)
  /\ Goto(t, "running")
  /\ UNCHANGED <<live, consecutive_traps, cooldown>>

CheckoutReserve(t) ==
  /\ AtLoopTop(t)
  /\ cooldown # "open"
  /\ idle = <<>>
  /\ live < Cap
  /\ live' = live + 1
  /\ Goto(t, "building")
  /\ UNCHANGED <<idle, consecutive_traps, cooldown, held>>

CheckoutWait(t) ==
  /\ AtLoopTop(t)
  /\ cooldown # "open"
  /\ idle = <<>>
  /\ live >= Cap
  /\ Goto(t, "waiting")
  /\ UNCHANGED <<idle, live, consecutive_traps, cooldown, held>>

\* Only gives up while the pool is still full, and otherwise waits on for a notify.
WaitTimeoutLostMut(t) ==
  /\ pc[t] = "waiting"
  /\ idle = <<>> /\ live >= Cap
  /\ Goto(t, "out")
  /\ UNCHANGED <<idle, live, consecutive_traps, cooldown, held>>

\* wait_for timed out: RunError::Unavailable without another look at the pool.
WaitTimeout(t) ==
  /\ pc[t] = "waiting"
  /\ Goto(t, "out")
  /\ UNCHANGED <<idle, live, consecutive_traps, cooldown, held>>

\* instantiate_initialized, outside the lock.
BuildOk(t) ==
  /\ pc[t] = "building"
  /\ held' = [held EXCEPT ![t] = 0]
  /\ Goto(t, "running")
  /\ UNCHANGED <<idle, live, consecutive_traps, cooldown>>

BuildFailSilentMut(t) ==
  /\ pc[t] = "building"
  /\ live' = FreeSlot
  /\ Goto(t, "out")
  /\ UNCHANGED <<idle, consecutive_traps, cooldown, held>>

BuildFail(t) ==
  /\ pc[t] = "building"
  /\ live' = FreeSlot
  /\ Goto(t, "notify")                           \* then RunError::Instantiate
  /\ UNCHANGED <<idle, consecutive_traps, cooldown, held>>

----------------------------------------------------------------------------
\* run_pooled: check-in.

\* The call returned and the instance may serve again.
CheckIn(t) ==
  /\ pc[t] = "running"
  /\ held[t] + 1 < MaxRequestsPerInstance
  /\ idle' = Append(idle, held[t] + 1)
  /\ held' = [held EXCEPT ![t] = NoInstance]
  /\ clear_breaker
  /\ Goto(t, "notify")
  /\ UNCHANGED live

\* The call returned and the instance is spent: the Store is dropped first ...
RecycleSlotFirstMut(t) ==
  /\ pc[t] = "running"
  /\ held[t] + 1 >= MaxRequestsPerInstance
  /\ live' = FreeSlot
  /\ Goto(t, "recycled")
  /\ UNCHANGED <<idle, consecutive_traps, cooldown, held>>

RecycleDrop(t) ==
  /\ pc[t] = "running"
  /\ held[t] + 1 >= MaxRequestsPerInstance
  /\ held' = [held EXCEPT ![t] = NoInstance]
  /\ Goto(t, "recycled")
  /\ UNCHANGED <<idle, live, consecutive_traps, cooldown>>

\* ... and its slot is given up afterwards, under the lock.
RecycleFree(t) ==
  /\ pc[t] = "recycled"
  /\ clear_breaker
  /\ live' = FreeSlot
  /\ Goto(t, "notify")
  /\ UNCHANGED <<idle, held>>

\* The call trapped: the instance is dropped ...
TrapDrop(t) ==
  /\ pc[t] = "running"
  /\ held' = [held EXCEPT ![t] = NoInstance]
  /\ Goto(t, "trapped")
  /\ UNCHANGED <<idle, live, consecutive_traps, cooldown>>

\* ... then the slot is freed and the pool-wide breaker counts the trap.
TrapKeepsSlotMut(t) ==
  /\ pc[t] = "trapped"
  /\ consecutive_traps' = OneMoreTrap
  /\ cooldown' = IF OneMoreTrap >= TrapThreshold THEN "open" ELSE cooldown
  /\ Goto(t, "notify")
  /\ UNCHANGED <<idle, live, held>>

TrapFree(t) ==
  /\ pc[t] = "trapped"
  /\ live' = FreeSlot
  /\ consecutive_traps' = OneMoreTrap
  /\ cooldown' = IF OneMoreTrap >= TrapThreshold THEN "open" ELSE cooldown
  /\ Goto(t, "notify")
  /\ UNCHANGED <<idle, held>>

\* available.notify_one(), after the lock is released; the call returns.
notify_one(t) ==
  /\ pc[t] = "notify"
  /\ \/ /\ Waiters = {}
        /\ Goto(t, "out")
     \/ \E w \in Waiters : pc' = [pc EXCEPT ![t] = "out", ![w] = "retry"]
  /\ UNCHANGED <<idle, live, consecutive_traps, cooldown, held>>

----------------------------------------------------------------------------
\* The wall clock against cooldown_until_ms; SystemTime may also step back.
CooldownElapses ==
  /\ cooldown = "open"
  /\ cooldown' = "elapsed"
  /\ UNCHANGED <<idle, live, consecutive_traps, held, pc>>

ClockStepsBack ==
  /\ cooldown = "elapsed"
  /\ cooldown' = "open"
  /\ UNCHANGED <<idle, live, consecutive_traps, held, pc>>

----------------------------------------------------------------------------
ThreadStep(t) ==
  \/ CheckoutRefused(t) \/ CheckoutReuse(t) \/ CheckoutReserve(t)
  \/ CheckoutWait(t)    \/ WaitTimeout(t)
  \/ BuildOk(t)         \/ BuildFail(t)
  \/ CheckIn(t)         \/ RecycleDrop(t)   \/ RecycleFree(t)
  \/ TrapDrop(t)        \/ TrapFree(t)      \/ notify_one(t)

PoolNext ==
  \/ \E t \in Threads : Enter(t) \/ ThreadStep(t)
  \/ CooldownElapses
  \/ ClockStepsBack

PoolSpec == PoolInit /\ [][PoolNext]_poolVars

\* A thread keeps being scheduled, and each of its steps ends: a guest call and
\* an init are cut off by their epoch deadlines, a wait by its timeout, a
\* critical section is short.  Nothing is assumed of arrivals or of the clock.
PoolFairSpec == PoolSpec /\ \A t \in Threads : WF_poolVars(ThreadStep(t))

----------------------------------------------------------------------------
PoolTypeOK ==
  /\ idle \in Seq(Nat)
  /\ live \in Nat
  /\ consecutive_traps \in 0..U32Max
  /\ cooldown \in {"clear", "open", "elapsed"}
  /\ held \in [Threads -> Nat \cup {NoInstance}]
  /\ pc \in [Threads -> PCs]

\* live counts every slot exactly once, whoever has it and whatever failed on
\* the way (PoolInner: "live counts every instance that currently exists (idle
\* + checked-out + being-built)"), and never passes the pool size.
SlotAccounting ==
  /\ live = Len(idle) + Cardinality(SlotOwners)
  /\ live <= Cap

\* The instances that physically exist never outnumber the pool size, not even
\* while one is recycled or discarded and another thread builds its successor
\* (run_pooled drops the Store before it gives up the slot).
PhysicalWithinCap == Physical <= Cap

\* The breaker's cooldown is only ever set by a trap streak that no success has
\* interrupted since (run_pooled and clear_breaker keep the two together).
CooldownNeedsStreak ==
  cooldown # "clear" => consecutive_traps >= TrapThreshold

\* A thread blocked in checkout is never left with nobody to wake it: somebody
\* still has a slot or a wakeup on its way, unless the breaker has tripped, in
\* which case the woken thread leaves without passing the wakeup on.
NoStrandedWaiter ==
  Waiters # {} =>
    \/ \E t \in Threads : pc[t] \in SlotPCs \cup {"notify", "retry"}
    \/ consecutive_traps >= TrapThreshold

\* Once calls stop arriving, every thread gets out of the pool again: no lost
\* wakeup, tripped breaker or failed build can block one for ever (checkout:
\* "this bounded wait is the host-side backpressure").
EveryCheckoutEnds ==
  <>[][\A t \in Threads : ~Enter(t)]_poolVars => <>[](\A t \in Threads : pc[t] = "out")
============================================================================
