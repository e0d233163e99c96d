------------------------------- MODULE MCCodegen -------------------------------
(***************************************************************************)
(* Small programs for the code generator alone: also programs that the     *)
(* analyzer rejects, with calls of functions that are not there, and with  *)
(* an int function, which the parser does not accept (see Ast).            *)
(***************************************************************************)
EXTENDS Codegen

One == [op |-> "int", id |-> "", args |-> <<>>]
X == [op |-> "var", id |-> "x", args |-> <<>>]
NoCall == [op |-> "call", id |-> "g", args |-> <<X>>]
And == [op |-> "log", id |-> "", args |-> <<X, One>>]
AndCall == [op |-> "log", id |-> "", args |-> <<X, NoCall>>]

MCName == {"x"}
MCExprs == {One, X, NoCall, And, AndCall}

Decl(e) == [kind |-> "decl", name |-> "x", expr |-> e]
Assign(e) == [kind |-> "assign", name |-> "x", expr |-> e]

MCStatements == {
  Decl(<<>>),
  Assign(One),
  [kind |-> "ret", expr |-> <<One>>],
  [kind |-> "break"],
  [kind |-> "continue"],
  [kind |-> "null"],
  [kind |-> "block"],
  [kind |-> "if", cond |-> And],
  [kind |-> "if", cond |-> AndCall],
  [kind |-> "while", cond |-> One],
  [kind |-> "while", cond |-> NoCall],
  [kind |-> "for", init |-> <<Decl(<<One>>)>>, cond |-> <<>>, inc |-> <<Assign(One)>>],
  [kind |-> "for", init |-> <<>>, cond |-> <<NoCall>>, inc |-> <<>>]}

\* int f(int x) {...}   void main() {...}
F == [kind |-> "func", name |-> "f", ret |-> "int",
      params |-> <<[name |-> "x", type |-> "int"]>>]
Main == [kind |-> "func", name |-> "main", ret |-> "void", params |-> <<>>]

MCPrograms == {<<F>>, <<Main>>}
================================================================================
