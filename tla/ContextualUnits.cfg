CONSTANTS
  Documents <- MCDocuments
  ContinuationDistance = 2
  FencedRun = 3
  LongLine = 9
  Lexicon <- MCLexicon
  LongestToken = 8
  MaxVariants = 4
  Listed <- MCListed
  Modes <- MCModes
  MaxSentenceTokens = 3
  MaxFallbackChars = 3
  AnalysisCapacity = 2
  ProgramCapacity = 2
  DocumentCapacity = 1
  MaxDocuments = 2
  Disambiguate <- MCDisambiguate
SPECIFICATION Spec
CHECK_DEADLOCK FALSE
INVARIANTS
  RichValidates
  StreamsAgree
  SurfaceAgrees
  FallbackCutsSurvive
