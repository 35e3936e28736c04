CONSTANTS
  Info = {i1, i2}
  Voter = {v1, v2}
  Sig = {s1, s2}
  MaxVotes = 2
  nil = nil
SPECIFICATION CodecSpec
INVARIANTS
  CacheCoherent
  SignaturesFound
  HashIdentifiesHeader
