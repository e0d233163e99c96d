CONSTANTS
  Name <- TwoNames
  Exprs <- MCExprs
  Statements <- MCStatements
  Programs <- MCPrograms
  MaxDepth = 3
  Classes <- ReuseClasses
SPECIFICATION FlowSpec
INVARIANTS
  UninitializedReadsAreWarned
