SPECIFICATION ListenerFairSpec
CONSTANTS
  Tcp = {c1, c2}
  Quic = {q1, q2}
  MaxConnections = 2
  MaxStreams = 2
INVARIANTS
  PermitsExact
  NoEarlyCut
  DrainIsComplete
PROPERTIES
  ShutdownEnds
