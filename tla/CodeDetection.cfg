CONSTANTS
  Documents <- MCDocuments
  ContinuationDistance = 2
  FencedRun = 3
  LongLine = 9
SPECIFICATION Spec
CHECK_DEADLOCK FALSE
INVARIANTS
  UnitsAreContextFree
  SpecialisedRunsAgree
  ArtifactsAreHinted
  ProseStaysProse
