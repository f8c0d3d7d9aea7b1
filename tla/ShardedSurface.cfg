CONSTANTS
  Workers = 3
  BatchChunksPerWorker = 16
  MinBatchChunkBytes = 1048576
  MaxDocuments = 4
  MaxSelection = 3
  Batches <- MCBatches
SPECIFICATION Spec
INVARIANTS
  ShardsAreBalanced
  ShardsMergeToBatch
PROPERTIES
  ShardCallReturns
