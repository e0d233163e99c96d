CONSTANTS
  Name <- TwoNames
  Exprs <- MCExprs
  Statements <- MCStatements
  Programs <- MCPrograms
  MaxDepth = 3
  Classes <- LoopClasses
SPECIFICATION FlowSpec
INVARIANTS
  UninitializedReadsAreWarned
