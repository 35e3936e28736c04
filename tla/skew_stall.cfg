CONSTANTS
  N = 2
  MaxView = 2
  Skew = TRUE
  Hasty = {}
  MaxEarly = 0
  MaxLost = 0
  Deaf = {}
SPECIFICATION FairSpec
PROPERTY Progress
