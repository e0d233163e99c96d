CONSTANTS
  Name <- NoNames
  Exprs <- MCExprs
  Statements <- MCStatements
  Programs <- MCPrograms
  MaxDepth = 3
SPECIFICATION FlowSpec
INVARIANTS
  RunIsAtBuilder
PROPERTIES
  CodeRunExactly
