--------------------------------- MODULE Lexer ---------------------------------
(***************************************************************************)
(* The scanner of lexer.l: where it says a token starts.                   *)
(*                                                                         *)
(* Between two tokens it keeps a line, which Flex counts, and a column,    *)
(* which the actions count.  A lexeme is what one rule matches, and of its *)
(* text only the shape counts: its length, the newlines in it, and how     *)
(* many characters follow the last of these.                               *)
(***************************************************************************)
EXTENDS Integers, Sequences, FiniteSets, SequencesExt

CONSTANTS
  Lexemes,    \* [kind, token, len, lines, tail]; token: "" if it is skipped
  MaxLines,   \* bound: lines of the text
  MaxColumn   \* bound: columns counted on a line

LexemeKinds == {"token", "string", "comment", "newline", "blank"}

ASSUME LexemeAssumption ==
  \A l \in Lexemes :
    /\ l.kind \in LexemeKinds
    /\ l.len \in Nat \ {0} /\ l.lines \in Nat /\ l.tail \in 0 .. l.len
    /\ l.kind = "newline" => l.lines = 1 /\ l.tail = 0
    /\ l.kind \in {"token", "blank"} => l.lines = 0

VARIABLES
  yylineno, yycolumn,  \* the counters of the scanner
  yylloc,              \* the location of the last lexeme
  row, column,         \* where the next lexeme really starts
  shifted              \* a lexeme of several lines has ended on this line

lexVars == <<yylineno, yycolumn, yylloc, row, column, shifted>>

LexInit ==
  /\ yylineno = 1 /\ yycolumn = 1
  /\ yylloc = [line |-> 1, col |-> 1]
  /\ row = 1 /\ column = 1 /\ shifted = FALSE

\* Flex has counted the newlines of the lexeme when the action starts.
YY_USER_ACTION(l) ==
  /\ yylineno' = yylineno + l.lines
  /\ yylloc' = [line |-> yylineno', col |-> yycolumn]

\* Fault: a newline does not reset the column.
columnAfterComment(l) ==
  IF l.kind = "comment" /\ l.lines > 0 THEN 1 ELSE yycolumn + l.len

\* A comment that spans lines and a newline reset the column, whatever follows
\* on the last line of the comment; a string literal does not.
columnAfter(l) ==
  IF l.kind = "newline" \/ (l.kind = "comment" /\ l.lines > 0) THEN 1
  ELSE yycolumn + l.len

Scan(l) ==
  /\ YY_USER_ACTION(l)
  /\ yycolumn' = columnAfter(l)
  /\ row' = row + l.lines
  /\ column' = IF l.lines > 0 THEN l.tail + 1 ELSE column + l.len
  /\ shifted' = (l.kind # "newline" /\ (shifted \/ l.lines > 0))
  /\ row' <= MaxLines /\ yycolumn' <= MaxColumn /\ column' <= MaxColumn
================================================================================
