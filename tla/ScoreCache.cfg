CONSTANTS
  seeded = seeded
  c1 = c1
  c2 = c2
  Workers = {w1}
  Contents <- MCContents
  Begin = Begin
  End = End
  Seed <- MCSeed
  SharedSlots = 1
  EndSignature = 2
  PreparedLimit = 1
  MaxLive = 2
  MaxCarried = 1
  AnalysisCapacity = 1
  RowCapacity = 2
  InlineTransitions = 1
  OverflowCapacity = 1
SPECIFICATION Spec
INVARIANTS
  CodesIdentifyContent
  ScoresAreExact
  BanksAreExact
  HandlesAreExact
SYMMETRY MCSymmetry
