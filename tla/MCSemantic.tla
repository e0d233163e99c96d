------------------------------ MODULE MCSemantic -------------------------------
(***************************************************************************)
(* Small programs for the semantic analyzer alone.  The int function is    *)
(* one the pass is written for, but the parser does not accept (see Ast).  *)
(***************************************************************************)
EXTENDS Semantic

One == [op |-> "int", id |-> "", args |-> <<>>]
X == [op |-> "var", id |-> "x", args |-> <<>>]
Call == [op |-> "call", id |-> "f", args |-> <<X>>]

MCName == {"x"}

MCExprs == {One, X, Call}

Decl(e) == [kind |-> "decl", name |-> "x", expr |-> e]
Assign(e) == [kind |-> "assign", name |-> "x", expr |-> e]

MCStatements == {
  Decl(<<>>),
  Assign(One),
  [kind |-> "ret", expr |-> <<X>>],
  [kind |-> "break"],
  [kind |-> "null"],
  [kind |-> "block"],
  [kind |-> "if", cond |-> One],
  [kind |-> "while", cond |-> Call],
  [kind |-> "for", init |-> <<Decl(<<One>>)>>, cond |-> <<>>,
   inc |-> <<Assign(X)>>]}

\* int f(int x) {...}   void f() {...}
IntF == [kind |-> "func", name |-> "f", ret |-> "int",
         params |-> <<[name |-> "x", type |-> "int"]>>]
VoidF == [kind |-> "func", name |-> "f", ret |-> "void", params |-> <<>>]

MCPrograms == {<<IntF, VoidF>>}
================================================================================
