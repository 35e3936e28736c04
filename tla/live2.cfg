CONSTANTS
  N = 2
  MaxView = 4
  Skew = FALSE
  Hasty = {}
  MaxEarly = 0
  MaxLost = 0
  Deaf = {}
SPECIFICATION FairSpec
PROPERTY Progress
