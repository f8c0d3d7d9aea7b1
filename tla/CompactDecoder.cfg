CONSTANTS
  Sentences <- MCSentences
  WeightOf <- MCWeight
  HashOf <- MCHash
  MaxDenseStates = 4
SPECIFICATION Spec
INVARIANTS
  TableHasRoom
  DenseAgreesWithHash
  CompactAgreesWithReference
  SelectionIsBest
CHECK_DEADLOCK FALSE
