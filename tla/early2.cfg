CONSTANTS
  N = 2
  MaxView = 3
  Skew = TRUE
  Hasty = {0, 1}
  MaxEarly = 1
  MaxLost = 1
  Deaf = {0, 1}
SPECIFICATION SyncSpec
INVARIANTS
  TypeOK
  LeaderOfView
  CertWeight
  DeliveredParents
  SignersHoldBlock
PROPERTY CertsWriteOnce
