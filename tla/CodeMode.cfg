CONSTANTS
  Addresses = {a1, a2}
  Vocabularies <- MCVocabularies
  Documents <- MCDocuments
  MaxChars = 3
  MaxChunkUnits = 3
  MaxPrograms = 2
  MaxDocumentPrograms = 1
  MaxLength = 6
SPECIFICATION CodeModeSpec
CHECK_DEADLOCK FALSE
INVARIANTS
  ProgramsAreContextFree
  ReplayIsExact
  ReplayIsLossless
  FlatOnlyLosesBridges
  ParityWithinLimits
  RoundTrips
