CONSTANTS
  NONE = NONE
  t1 = t1
  t2 = t2
  Task = {t1, t2}
  Chain <- Chains
  ReadsBody = {"waf"}
  Trusted = {"auth"}
  Policy <- Policies
  RequestEdit <- RequestEdits
  ResponseEdit <- ResponseEdits
  Inbound <- Requests
  UpstreamMap <- ResponseMap
  OverQuic = {t2}
  AltSvc = "h3"
  Target_ <- Asked
  Zone <- Answers
  MaxCalls = 1
  Careless = {t1}
  Buffers = 1
SPECIFICATION Spec
INVARIANTS
  ForwardOnlyIfPassed
  ResponseMirrors
  OnlyVettedDialled
  HeadersClean
PROPERTIES
  EveryRequestEnds
CHECK_DEADLOCK FALSE
