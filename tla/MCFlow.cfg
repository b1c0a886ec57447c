SPECIFICATION FairSpec
CONSTANTS
  Scenarios <- MCScenarios
  MaxBlock = 4
  MaxStack = 3
  None = None
INVARIANTS
  TypeOK
  ExceptionsAreExpected
  ReportedWasExecuted
  ReportedIsPossible
  ShadowStackIsReal
  NotLost
  RootReturnEndsTrace
PROPERTIES
  FaultsEnd
CHECK_DEADLOCK FALSE
