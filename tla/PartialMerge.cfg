CONSTANTS
  Workers = 2
  BatchChunksPerWorker = 16
  MinBatchChunkBytes = 1048576
  MaxDocuments = 2
  MaxSelection = 2
  Batches <- MCBatches
SPECIFICATION Spec
INVARIANT OnlyCoversMerge
