CONSTANTS
  Tasks = {t1, t2}
  N = 3
  Consecutive = 2
  MaxEjectionPercent = 34
  BaseEjection = 1
  BackoffShiftCap = 1
  MaxNow = 3
  MaxEjections = 2
SPECIFICATION OutlierSpec
SYMMETRY Symmetry
CONSTRAINT ClockBound
INVARIANTS
  OvershootBounded
  StreakResolved
  WindowBounded
