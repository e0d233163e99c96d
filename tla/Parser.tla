--------------------------------- MODULE Parser --------------------------------
(***************************************************************************)
(* The statement level of parser.y: the nesting of statements and the      *)
(* recovery `error ;', one step per lexeme.                                *)
(*                                                                         *)
(* A terminal stands for a phrase: "simple" for what precedes the          *)
(* semicolon of a statement without children, "if" and "loop" for the      *)
(* header with its parentheses, "func" for a void function's.  "bad" is    *)
(* any token that no phrase goes on with: Bison drops the phrase begun.    *)
(* So is the parenthesis in `int f(': at top level `int f' is the          *)
(* beginning of a declaration to Bison, a "simple" phrase.                 *)
(***************************************************************************)
EXTENDS Lexer

CONSTANTS MaxNesting, MaxErrors   \* bounds: the stack, the syntax errors

Terminals ==
  {"simple", "semicolon", "lbrace", "rbrace", "if", "else", "loop", "func", "bad"}
ASSUME ParserAssumption ==
  /\ {MaxNesting, MaxErrors} \subseteq Nat
  /\ \A l \in Lexemes : l.token \in Terminals \cup {""}

VARIABLES
  stack,    \* the phrases begun, outermost first
  closed,   \* a statement is complete, and what follows has not been read
  outcome,  \* reading, or what yyparse returned: accepted, rejected
  errors,   \* calls of yyerror
  nulls,    \* statements that are null
  braces,   \* reference: opening braces in the text, less closing ones
  skipped   \* the same of what recovery has discarded

parseVars == <<lexVars, stack, closed, outcome, errors, nulls, braces, skipped>>

Lists == {"lbrace", "body"}
Dependent == {"if", "else", "loop"}   \* the next statement is a child of it

ParseInit ==
  /\ LexInit
  /\ stack = <<>> /\ closed = FALSE /\ outcome = "reading"
  /\ errors = 0 /\ nulls = 0 /\ braces = 0 /\ skipped = 0

Top(s) == IF s = <<>> THEN "program" ELSE Last(s)

Brace(t) == CASE t = "lbrace" -> 1 [] t = "rbrace" -> -1 [] OTHER -> 0

(***************************************************************************)
(* Reductions before t is shifted: after a complete statement all those it *)
(* completes, up to the list they are in or, if t is an else, up to the    *)
(* nearest if that has none.                                               *)
(***************************************************************************)
OpenLists == {i \in DOMAIN stack : stack[i] \in Lists}
ListLevel == IF OpenLists = {} THEN 0 ELSE Max(OpenLists)
OpenIfs == {i \in DOMAIN stack : i > ListLevel /\ stack[i] = "if"}

Reduced(t) ==
  IF ~closed THEN stack
  ELSE SubSeq(stack, 1, IF t = "else" /\ OpenIfs # {} THEN Max(OpenIfs) ELSE ListLevel)

\* Whether t may follow in the state that s describes.  Of the functions only the
\* void ones get as far as their body.
Fits(s, t) ==
  CASE Top(s) \in {"simple", "error"} -> t = "semicolon"
    [] Top(s) = "func"                -> t = "lbrace"
    [] OTHER -> \/ t \in {"simple", "lbrace", "if", "loop"}
                \/ t = "func" /\ s = <<>>
                \/ t = "rbrace" /\ Top(s) \in Lists
                \/ t = "else" /\ closed /\ Top(s) = "if"

Begin(s, t) ==
  /\ t \in {"simple", "lbrace", "if", "else", "loop", "func"}
  /\ stack' = CASE t = "else"                   -> Append(Front(s), t)
                [] t = "lbrace" /\ Top(s) = "func"   -> Append(Front(s), "body")
                [] OTHER                        -> Append(s, t)
  /\ Len(stack') <= MaxNesting
  /\ closed' = FALSE
  /\ UNCHANGED nulls

Complete(s, t) ==
  /\ t \in {"semicolon", "rbrace"}
  /\ stack' = Front(s)
  /\ closed' = TRUE
  /\ nulls' = nulls + (IF Top(s) = "error" THEN 1 ELSE 0)

Shift(s, t) ==
  /\ Fits(s, t)
  /\ Begin(s, t) \/ Complete(s, t)
  /\ UNCHANGED <<errors, skipped>>

\* Fault: only the first syntax error is reported.
yyerrorOnce(s) == errors' = 1

yyerror(s) == errors < MaxErrors /\ errors' = errors + 1

\* Fault: recovery goes on with the phrase begun.
DropNothing(s) == s

\* Fault: errors are recovered from at top level only.
DropAll(s) == <<>>

\* Where the grammar allows `error': a statement is due.
DropPhrase(s) == IF Top(s) \in {"simple", "func"} THEN Front(s) ELSE s

\* The token in error ends the recovery or is the first one discarded.
Recover(s, t) ==
  /\ ~Fits(s, t) /\ Top(s) # "error"
  /\ yyerror(s)
  /\ IF t = "semicolon" THEN Complete(Append(DropPhrase(s), "error"), t) /\ UNCHANGED skipped
     ELSE /\ stack' = Append(DropPhrase(s), "error")
          /\ closed' = FALSE
          /\ skipped' = skipped + Brace(t)
          /\ UNCHANGED nulls

Discard(s, t) ==
  /\ Top(s) = "error" /\ ~Fits(s, t)
  /\ skipped' = skipped + Brace(t)
  /\ UNCHANGED <<stack, closed, errors, nulls>>

Blank(l) ==
  /\ l.token = ""
  /\ UNCHANGED <<stack, closed, errors, nulls, braces, skipped>>

Token(l) ==
  /\ l.token # ""
  /\ LET s == Reduced(l.token) IN
       Shift(s, l.token) \/ Recover(s, l.token) \/ Discard(s, l.token)
  /\ braces' = braces + Brace(l.token)

\* yyparse returns 1 if it is recovering when the text ends.
EndOfFile ==
  /\ outcome' = IF Reduced("") = <<>> THEN "accepted" ELSE "rejected"
  /\ errors' = IF Reduced("") = <<>> \/ Top(stack) = "error" THEN errors ELSE errors + 1
  /\ UNCHANGED <<lexVars, stack, closed, nulls, braces, skipped>>

ParseNext ==
  \/ /\ outcome = "reading"
     /\ \/ \E l \in Lexemes : Scan(l) /\ UNCHANGED outcome /\ (Blank(l) \/ Token(l))
        \/ EndOfFile
  \/ outcome # "reading" /\ UNCHANGED parseVars

ParseSpec == ParseInit /\ [][ParseNext]_parseVars
--------------------------------------------------------------------------------
(***************************************************************************)
(* Properties.                                                             *)
(***************************************************************************)
\* Only the last phrase on the stack may be one without children.
ParseTypeOK ==
  /\ {yylineno, yycolumn, row, column} \subseteq Nat \ {0}
  /\ \A i \in DOMAIN stack :
       stack[i] \in Lists \cup Dependent
         \/ (i = Len(stack) /\ stack[i] \in {"simple", "func", "error"})
  /\ closed => Top(stack) \notin {"simple", "func", "error"}
  /\ outcome \in {"reading", "accepted", "rejected"}
  /\ nulls \in 0 .. errors

\* Each statement that recovery drops has been reported by an error of its own:
\* yyerrok is in the one place where it keeps Bison from being silent about the
\* next one.  A program accepted without a report has lost no statement.
NothingDroppedSilently ==
  outcome # "rejected" => errors = nulls + (IF Top(stack) = "error" THEN 1 ELSE 0)

\* The lists open in the parser are those whose braces it has not discarded: what
\* is parsed after a recovery may be nested otherwise than the text, but only by
\* discarded braces, and without an error the nesting is that of the text.
NestingAsWritten ==
  outcome # "rejected" => Cardinality(OpenLists) = braces - skipped

\* A syntax error is reported at the token it is about, unless a comment or a
\* string literal of several lines precedes it on its line, or it is one.
ErrorsArePlaced ==
  [][errors' > errors /\ outcome' = "reading"
       => /\ yylloc'.line = row \/ row' > row
          /\ yylloc'.col = column \/ shifted]_parseVars
================================================================================
