SPECIFICATION TxSpec
CONSTANTS
  Requests = {r1, r2}
  Instances = {i1, i2}
  MaxRetries = 1
  MaxRequests = 1
  MaxBuffers = 1
  TimeoutPolicies <- Policies
  MaxCancels = 1
  NoInstance = none
INVARIANT GaugeExact
