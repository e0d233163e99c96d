CONSTANTS
  Arguments <- MCArguments
  Paths <- MCPaths
  Sources <- MCSources
  CommandLines <- MCCommandLines
  Suites <- MCSuites
  MaxArgs = 3
SPECIFICATION SessionSpec
INVARIANTS
  SessionTypeOK
  OnlySurvivedErrorsSucceed
  StdoutIsCode
  GreenSuite
  RejectedForItsReason
PROPERTIES
  KeepsPromise
  CallsEnd
  SuiteEnds
  SuiteWritesNothing
