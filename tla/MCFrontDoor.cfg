SPECIFICATION Spec
CONSTANTS
  NONE = NONE
  MAX_BACKEND_WEIGHT = 6
  MAX_TABLE_LEN = 8
  MAX_BLOB_BYTES = 3
  MAX_INSTANCE_WEIGHT = 4
  MAX_HASH_TABLE_SIZE = 13
  Ceiling = 6
  Murmur <- MCMurmur
  U16Max = 3
  U64Max = 100
  Sources <- MCSources
  Inbound <- MCInbound
  InFlight <- MCInFlight
  Tasks <- MCTasks
  Hash <- MCHash
  IP_SLOTS = 2
  Interval = 2
  Boot = 3
  ClockMax = 5
  MaxStepBacks = 1
  UsizeMax = 3
INVARIANTS RoutedAsMeant ConfigServable GrantsBounded RetryHonest SplitNeverSpurious
CHECK_DEADLOCK FALSE
