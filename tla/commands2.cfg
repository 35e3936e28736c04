CONSTANTS
  N = 2
  BlockSize = 2
  InitialPool = 1
  MaxBatch = 4
  MaxLateBatch = 2
  Late = {1}
  MaxBacklog = 2
SPECIFICATION FairClientSpec
CHECK_DEADLOCK FALSE
INVARIANTS
  TokenConservation
  OneRound
  OneBatchPerBlock
  LedgerInOrder
PROPERTIES
  EveryBatchCommits
