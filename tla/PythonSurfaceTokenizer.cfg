CONSTANTS
  Threads = {t1, t2, t3}
  ThreadCounts = {0, 1}
  MaxCalls = 1
SPECIFICATION TokenizerSpec
CHECK_DEADLOCK FALSE
INVARIANTS
  RuntimesAreExclusive
  HoldersNeverWait
  TaintedRuntimesStayUnused
  ClearIsComplete
PROPERTY
  CallsReturn
