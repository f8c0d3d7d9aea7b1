CONSTANTS
  Addresses = {a1}
  Vocabularies <- MCOneVocabulary
  Documents <- MCDocuments
  MaxChars = 2
  MaxChunkUnits = 2
  MaxPrograms = 2
  MaxDocumentPrograms = 1
SPECIFICATION Spec
INVARIANT PersistentMatchesStateless
