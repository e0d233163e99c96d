CONSTANTS
  Name <- OneName
  Exprs <- MCExprs
  Statements <- MCStatements
  Programs <- MCPrograms
  MaxDepth = 4
  MaxWaiting = 0
  Classes <- TypeClasses
SPECIFICATION CompileSpec
INVARIANTS
  AcceptedCodeVerifies
