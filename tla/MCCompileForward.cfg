CONSTANTS
  Name <- OneName
  Exprs <- MCExprs
  Statements <- MCStatements
  Programs <- MCPrograms
  MaxDepth = 4
  MaxWaiting = 0
  Classes <- ForwardClasses
SPECIFICATION CompileSpec
INVARIANTS
  AssertionsHold
