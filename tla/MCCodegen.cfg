CONSTANTS
  Name <- MCName
  Exprs <- MCExprs
  Statements <- MCStatements
  Programs <- MCPrograms
  MaxDepth = 3
SPECIFICATION GenSpec
INVARIANTS
  GenTypeOK
  ScopesMatch
  LoopStackMatches
  OneOpenBlock
