CONSTANTS
  Name <- TwoNames
  Exprs <- MCExprs
  Statements <- MCStatements
  Programs <- MCPrograms
  MaxDepth = 3
  Classes <- FlowClasses
SPECIFICATION FlowSpec
INVARIANTS
  FlowTypeOK
  WarnedWithoutReuse
  MissingReturnsAreErrors
  UnreachableIsNotRun
  StrayJumpsAreErrors
  UnusedIsNeverRead
