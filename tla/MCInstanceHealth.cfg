CONSTANTS
  HealthyThreshold = 2
  UnhealthyThreshold = 3
  U32Max = 4
  MaxHistory = 11
SPECIFICATION HealthSpec
CONSTRAINT HistoryBound
INVARIANTS
  HealthyIffHistory
  NoOverdueTransition
