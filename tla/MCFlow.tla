-------------------------------- MODULE MCFlow ---------------------------------
(***************************************************************************)
(* Programs over one or two variables, for the analyzer and a run of it:   *)
(* control flow over one variable, then scopes over two.  The int function *)
(* is what returnsOnAllPaths is for; the parser has none (see Ast).        *)
(***************************************************************************)
EXTENDS FlowSoundness

One == [op |-> "int", id |-> "", args |-> <<>>]
Var(n) == [op |-> "var", id |-> n, args |-> <<>>]
TwoNames == {"x", "y"}
MCExprs == {One, Var("x"), Var("y")}

Decl(n, e) == [kind |-> "decl", name |-> n, expr |-> e]
Assign(n, e) == [kind |-> "assign", name |-> n, expr |-> e]
Ret == [kind |-> "ret", expr |-> <<One>>]
Break == [kind |-> "break"]
Continue == [kind |-> "continue"]
Block == [kind |-> "block"]
If == [kind |-> "if", cond |-> One]
While(e) == [kind |-> "while", cond |-> e]
For(init, inc) == [kind |-> "for", init |-> init, cond |-> <<>>, inc |-> inc]

FlowStatements == {
  Decl("x", <<>>), Assign("x", One), [kind |-> "expr", expr |-> Var("x")],
  Ret, Break, Continue, [kind |-> "null"],
  Block, If, While(One),
  For(<<>>, <<Assign("x", Var("x"))>>)}

Func(name, ret, ps) == [kind |-> "func", name |-> name, ret |-> ret,
  params |-> [i \in DOMAIN ps |-> [name |-> ps[i], type |-> "int"]]]

ScopeStatements == {
  Decl("x", <<>>), Decl("y", <<Var("x")>>), Assign("x", Var("y")),
  [kind |-> "expr", expr |-> Var("y")],
  Block, If, For(<<Decl("y", <<One>>)>>, <<Assign("y", Var("x"))>>),
  For(<<Assign("x", One)>>, <<>>)}

LoopStatements == {
  Decl("x", <<>>), [kind |-> "expr", expr |-> Var("x")],
  For(<<>>, <<Assign("x", One)>>)}

NoFunctions == {<<>>}
FlowPrograms == {<<Func("f", "int", <<>>)>>}
ScopePrograms == {<<Func("f", "void", <<"y">>)>>}

MCStatements == FlowStatements \cup ScopeStatements \cup LoopStatements
MCPrograms == NoFunctions \cup FlowPrograms \cup ScopePrograms

Class(statements, programs, depth, reuse, incAssigns) ==
  [statements |-> statements, programs |-> programs, depth |-> depth,
   reuse |-> reuse, incAssigns |-> incAssigns]

FlowClasses == {Class(FlowStatements, FlowPrograms, 3, FALSE, FALSE),
                Class(ScopeStatements, ScopePrograms, 2, TRUE, TRUE)}
ReuseClasses == {Class(ScopeStatements, NoFunctions, 2, TRUE, FALSE)}
LoopClasses == {Class(LoopStatements, NoFunctions, 1, FALSE, TRUE)}
================================================================================
