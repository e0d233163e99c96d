CONSTANTS
  Lexemes <- MCLexemes
  MaxNesting = 4
  MaxErrors = 2
  MaxLines = 2
  MaxColumn = 7
SPECIFICATION ParseSpec
INVARIANTS
  ParseTypeOK
  NothingDroppedSilently
  NestingAsWritten
PROPERTIES
  ErrorsArePlaced
