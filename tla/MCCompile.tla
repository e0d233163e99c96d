------------------------------- MODULE MCCompile -------------------------------
(***************************************************************************)
(* Small programs for the analyzer and the generator together.  Those with *)
(* int functions are what the two passes are written for; the parser gives *)
(* them the others only (see Ast).                                         *)
(***************************************************************************)
EXTENDS Compile

One == [op |-> "int", id |-> "", args |-> <<>>]
X == [op |-> "var", id |-> "x", args |-> <<>>]
CallF == [op |-> "call", id |-> "f", args |-> <<X>>]
CallH == [op |-> "call", id |-> "h", args |-> <<>>]
CallG == [op |-> "call", id |-> "g", args |-> <<>>]
And(l, r) == [op |-> "log", id |-> "", args |-> <<l, r>>]

OneName == {"x"}
Less == [op |-> "cmp", id |-> "", args |-> <<X, One>>]
Equal == [op |-> "cmp", id |-> "", args |-> <<Less, And(X, One)>>]
PrintNothing == [op |-> "call", id |-> "print", args |-> <<>>]
MCExprs == {One, X, CallF, CallG, CallH, PrintNothing, And(X, One), And(X, CallF),
            Less, Equal}

Decl(e) == [kind |-> "decl", name |-> "x", expr |-> e]
Assign(e) == [kind |-> "assign", name |-> "x", expr |-> e]
Eval(e) == [kind |-> "expr", expr |-> e]
Ret(e) == [kind |-> "ret", expr |-> <<e>>]
Return == [kind |-> "ret", expr |-> <<>>]
Break == [kind |-> "break"]
Continue == [kind |-> "continue"]
Block == [kind |-> "block"]
If(e) == [kind |-> "if", cond |-> e]
While(e) == [kind |-> "while", cond |-> e]
For(init, inc) == [kind |-> "for", init |-> init, cond |-> <<>>, inc |-> inc]

Func(name, ret, ps) == [kind |-> "func", name |-> name, ret |-> ret,
  params |-> [i \in DOMAIN ps |-> [name |-> ps[i], type |-> "int"]]]

ScriptStatements == {
  Decl(<<One>>), Assign(X), Ret(One), Break,
  Block, If(And(X, One)), For(<<Decl(<<One>>)>>, <<Assign(X)>>)}

NoFunctions == {<<>>}

FunctionStatements == {
  Assign(One), Ret(One), Break, Continue, [kind |-> "null"],
  Block, If(And(X, CallF)), While(One), For(<<Decl(<<One>>)>>, <<Assign(X)>>)}

FunctionPrograms == {<<Func("f", "int", <<"x">>)>>}
VoidStatements == (FunctionStatements \ {Ret(One)}) \cup {Return}
VoidPrograms == {<<Func("f", "void", <<"x">>)>>}

\* void f(void x) { .. x = g(); .. }   void g() {...}
ForwardStatements == {Assign(CallG), Block}
VoidF == [kind |-> "func", name |-> "f", ret |-> "void",
          params |-> <<[name |-> "x", type |-> "void"]>>]
ForwardPrograms == {<<VoidF, Func("g", "void", <<>>)>>}

\* Globals and calls around functions that use them, and call each other or what
\* does not exist: int x = 1; void h() { g(); } h(); void g() {...}
OrderStatements == {
  Decl(<<One>>), Assign(X), Eval(CallH), Eval(CallG), Eval(PrintNothing),
  Ret(One), Block}
OrderPrograms == {<<Func("h", "void", <<>>)>>,
                  <<Func("h", "void", <<>>), Func("g", "void", <<>>)>>}

\* (x < 1) == (x && 1)
TypeStatements == {Decl(<<One>>), Eval(Equal)}

\* Statements in front of void main() {...}
MainStatements == {Eval(One), Ret(One), Block, If(One)}
MainPrograms == {<<Func("main", "void", <<>>)>>}

MCStatements == ScriptStatements \cup FunctionStatements \cup VoidStatements
                \cup ForwardStatements \cup OrderStatements \cup TypeStatements \cup MainStatements
MCPrograms == NoFunctions \cup FunctionPrograms \cup VoidPrograms
              \cup ForwardPrograms \cup OrderPrograms \cup MainPrograms

Class(statements, programs, depth) ==
  [statements |-> statements, programs |-> programs, depth |-> depth,
   bareDeclaration |-> FALSE, bareReturn |-> FALSE]

CompileClasses == {Class(ScriptStatements, NoFunctions, 3),
                   Class(FunctionStatements, FunctionPrograms, 4),
                   Class(VoidStatements, VoidPrograms, 3),
                   Class(OrderStatements, OrderPrograms, 2)}
ForwardClasses == {Class(ForwardStatements, ForwardPrograms, 2)}
TypeClasses == {Class(TypeStatements, NoFunctions, 2)}
MainClasses == {Class(MainStatements, MainPrograms, 2)}
================================================================================
