SPECIFICATION Spec
CONSTANTS
  Filters = {"f1", "f2"}
  Tasks = {"t1", "t2"}
  FilterOf <- SameFilter
  KvKeys = {"x", "y"}
  FixedKeys = {"c"}
  Lengths = {0, 2}
  FixedLen <- OneByte
  MaxNsEntries = 2
  MaxNsBytes = 5
  MaxTotalEntries = 3
  MaxTotalBytes = 7
INVARIANTS
  AccountingExact
