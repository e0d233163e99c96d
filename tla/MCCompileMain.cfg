CONSTANTS
  Name <- OneName
  Exprs <- MCExprs
  Statements <- MCStatements
  Programs <- MCPrograms
  MaxDepth = 4
  MaxWaiting = 0
  Classes <- MainClasses
SPECIFICATION CompileSpec
INVARIANTS
  PrependedInFront
