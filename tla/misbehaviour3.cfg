CONSTANTS
  N = 3
  MaxView = 3
  Skew = FALSE
  Hasty = {}
  MaxEarly = 0
  MaxLost = 0
  Deaf = {}
  Builds = {"withhold", "equivocate", "maliProposal", "maliVote"}
SPECIFICATION MisSpec
INVARIANTS
  ReputationConsistency
  CertifiedAck
  NoPanic
  PenaltiesExact
  OnlyGuiltyAccused
PROPERTY MisExtendsLedger
