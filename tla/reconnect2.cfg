CONSTANTS
  N = 2
  MaxView = 4
  Skew = TRUE
  Hasty = {}
  MaxEarly = 0
  MaxLost = 0
  Deaf = {}
  MaxConnects = 1
SPECIFICATION ReconSpec
INVARIANT
  ConsistentUntilReconnect
