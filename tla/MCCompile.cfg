CONSTANTS
  Name <- OneName
  Exprs <- MCExprs
  Statements <- MCStatements
  Programs <- MCPrograms
  MaxDepth = 4
  MaxWaiting = 2
  Classes <- CompileClasses
SPECIFICATION CompileSpec
INVARIANTS
  OnlyHiddenGlobalsAbort
  AcceptedCodeVerifies
  SymbolTablesAgree
  UnanalysedIsNotGenerated
PROPERTIES
  AddedReturnIsDead
  OnlyForwardCallsAreLeftOut
