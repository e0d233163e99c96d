CONSTANTS
  Name <- MCName
  Exprs <- MCExprs
  Statements <- MCStatements
  Programs <- MCPrograms
  MaxDepth = 3
SPECIFICATION Spec
INVARIANTS
  TypeOK
  ScopesMatchPath
  LoopDepthMatchesPath
  InsideFunctionMatchesPath
  BeforeStaysAssigned
PROPERTIES
  MisplacedJumpsReported
