CONSTANTS
  Workers = 3
  BatchChunksPerWorker = 16
  MinBatchChunkBytes = 2
  MaxDocuments = 3
  Batches <- MCBatches
SPECIFICATION Spec
INVARIANTS
  ChunksPartitioned
  SuccessIsComplete
PROPERTIES
  ImplementsContract
