CONSTANTS
  N = 3
  MaxView = 2
  Skew = FALSE
  Hasty = {}
  MaxEarly = 0
  MaxLost = 0
  Deaf = {}
SPECIFICATION SyncSpec
INVARIANTS
  ReputationConsistency
  CertifiedAck
  OneBlockCerts
  NoFalseEvidence
  NoPanic
PROPERTY ImplementsLedger
