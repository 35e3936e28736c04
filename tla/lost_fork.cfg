CONSTANTS
  N = 3
  MaxView = 3
  Skew = FALSE
  Hasty = {}
  MaxEarly = 0
  MaxLost = 1
  Deaf = {2}
SPECIFICATION LossySpec
INVARIANT NoFork
