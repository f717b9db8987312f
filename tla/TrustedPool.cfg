SPECIFICATION PoolFairSpec
CONSTANTS
  Threads = {t1, t2, t3, t4, t5}
  Cap = 2
  MaxRequestsPerInstance = 2
  TrapThreshold = 2
  U32Max = 3
INVARIANTS
  SlotAccounting
  PhysicalWithinCap
  CooldownNeedsStreak
  NoStrandedWaiter
PROPERTY EveryCheckoutEnds
