CONSTANTS
  N = 3
  MaxView = 1
  Skew = FALSE
  Hasty = {}
  MaxEarly = 0
  MaxLost = 1
  Deaf = {0, 1, 2}
SPECIFICATION SyncSpec
INVARIANT NoPanic
