---------------------------------- MODULE Ast ----------------------------------
(***************************************************************************)
(* The syntax tree of a MiniLang program and the walk both passes make     *)
(* over it.                                                                *)
(*                                                                         *)
(* The parser hands a finished tree to the passes; the passes visit it     *)
(* depth first, and what a pass has seen so far is the path from the root  *)
(* to the node it is at.  `cursor' is that path and nothing else of the    *)
(* tree is kept: each visit picks the next node among `Statements', so a   *)
(* behaviour of the walk is a tree, and the behaviours are all the trees   *)
(* the grammar derives with at most MaxDepth open statements.              *)
(***************************************************************************)
EXTENDS Integers, Sequences, FiniteSets, SequencesExt

CONSTANTS
  Name,        \* identifiers used for variables
  Exprs,       \* the expressions of the programs, closed under operands
  Statements,  \* the statement nodes a program may contain, functions aside
  Programs,    \* the lists of function definitions a program may contain
  MaxDepth     \* bound: open statements on the path to the current node

(***************************************************************************)
(* Node shapes.  An optional child is a sequence of length 0 or 1.         *)
(*   expression  [op, id, args]        id: variable, function or "";       *)
(*                                     args: the operand expressions       *)
(*   decl/assign [kind, name, expr]    expr: optional for decl             *)
(*   expr/ret    [kind, expr]          expr: optional for ret              *)
(*   if/while    [kind, cond]          for: [kind, init, cond, inc]        *)
(*   func        [kind, name, ret, params]     params: <<[name, type]..>>  *)
(***************************************************************************)
ExprOps == {"int", "str", "var", "neg", "not", "bin", "cmp", "log", "call"}
SimpleKinds == {"decl", "assign", "expr"}
JumpKinds == {"ret", "break", "continue"}
LeafKinds == SimpleKinds \cup JumpKinds \cup {"null"}
LoopKinds == {"while", "for"}
CompoundKinds == LoopKinds \cup {"block", "if"}

\* type: INT gives "int", TOK_VOID gives "void".  The type of a function is "void"
\* in every tree the parser delivers: at top level Bison shifts the name after INT
\* into a declaration (parser.y 164, 168) rather than reducing INT to a type, and the
\* parenthesis of an int function is a syntax error.  Both passes are written for
\* int functions, which the grammar has rules and actions for, and so are the models.
DeclaredTypes == {"int", "void"}

Parameters == [name : Name, type : DeclaredTypes]

\* The function definitions of all programs.
Functions == UNION {{p[i] : i \in DOMAIN p} : p \in Programs}

IsFunction(f) ==
  /\ f.kind = "func"
  /\ f.ret \in DeclaredTypes
  /\ f.params \in Seq(Parameters)

IsOptional(xs) == xs \in {<<>>} \cup {<<e>> : e \in Exprs}

IsSimple(n) ==
  /\ n.kind \in SimpleKinds
  /\ n.kind \in {"decl", "assign"} => n.name \in Name
  /\ IF n.kind = "decl" THEN IsOptional(n.expr) ELSE n.expr \in Exprs

\* A declaration in the header of a for-statement has an initializer, and its
\* increment is no declaration.
IsStatement(n) ==
  /\ n.kind \in LeafKinds \cup CompoundKinds
  /\ n.kind \in SimpleKinds => IsSimple(n)
  /\ n.kind = "ret" => IsOptional(n.expr)
  /\ n.kind \in {"if", "while"} => n.cond \in Exprs
  /\ n.kind = "for" =>
       /\ IsOptional(n.cond)
       /\ n.init # <<>> => /\ IsSimple(n.init[1])
                           /\ n.init[1].kind = "decl" => n.init[1].expr # <<>>
       /\ n.inc # <<>> => IsSimple(n.inc[1]) /\ n.inc[1].kind # "decl"

\* Expressions are finite trees: among any of them is one none of whose
\* operands is among them.
ASSUME ExprAssumption ==
  /\ \A e \in Exprs : \A i \in DOMAIN e.args : e.args[i] \in Exprs
  /\ \A S \in SUBSET Exprs :
       S # {} => \E e \in S : \A i \in DOMAIN e.args : e.args[i] \notin S

ASSUME AstAssumption ==
  /\ MaxDepth \in Nat
  /\ \A n \in Statements : IsStatement(n)
  /\ Programs \subseteq Seq(Functions)
  /\ \A f \in Functions : IsFunction(f)

VARIABLES
  cursor,   \* the open statements, outermost first: <<[node, slot], ...>>
  pending   \* the function definitions the walk has not reached yet

treeVars == <<cursor, pending>>

\* The operands of the optional expression list xs that are variables.
VarsOf(xs) ==
  LET V[e \in Exprs] == IF e.op = "var" THEN {e.id}
                        ELSE UNION {V[e.args[i]] : i \in DOMAIN e.args}
  IN UNION {V[xs[i]] : i \in DOMAIN xs}

(***************************************************************************)
(* A child is due in a block at any time, and exactly once in each other   *)
(* position.                                                               *)
(***************************************************************************)
FirstSlot(n) == CASE n.kind = "block" -> "list"
                  [] n.kind = "if"    -> "then"
                  [] OTHER            -> "body"

Filled(slot) == CASE slot = "list" -> "list"
                  [] slot = "then" -> "thenDone"
                  [] OTHER         -> "done"

\* The path once the statement below it is complete.
Advance(path) ==
  IF path = <<>> THEN path
  ELSE [path EXCEPT ![Len(path)].slot = Filled(@)]

(***************************************************************************)
(* Where the grammar allows node n: functions only at top level, a block   *)
(* as a function's body.  An erroneous statement (`error ;') is dropped    *)
(* from a list, but stays as a null child of if, while and for; as an else *)
(* branch it leaves an if without one.                                     *)
(***************************************************************************)
Room(n) ==
  IF cursor = <<>>
  THEN /\ n.kind # "null"
       /\ n.kind = "func" => pending # <<>> /\ n = Head(pending)
  ELSE LET top == Last(cursor)
       IN /\ n.kind # "func"
          /\ top.slot \in {"list", "then", "else", "body"}
          /\ top.node.kind = "func" => n.kind = "block"
          /\ n.kind = "null" => /\ top.node.kind \in LoopKinds \cup {"if"}
                                 /\ top.slot # "else"

\* Visit a statement without children.
VisitLeaf(n) ==
  /\ n.kind \in LeafKinds
  /\ Room(n)
  /\ cursor' = Advance(cursor)
  /\ UNCHANGED pending

\* Go down into a statement with children.
Open(n) ==
  /\ n.kind \in CompoundKinds
  /\ Room(n)
  /\ Len(cursor) < MaxDepth
  /\ cursor' = Append(cursor, [node |-> n, slot |-> FirstSlot(n)])
  /\ UNCHANGED pending

OpenFunction(f) ==
  /\ f.kind = "func"
  /\ Room(f)
  /\ Len(cursor) < MaxDepth
  /\ cursor' = Append(cursor, [node |-> f, slot |-> FirstSlot(f)])
  /\ pending' = Tail(pending)

\* The if-statement has an else branch, and the walk goes on to it.
OpenElse ==
  /\ cursor # <<>>
  /\ Last(cursor).slot = "thenDone"
  /\ cursor' = [cursor EXCEPT ![Len(cursor)].slot = "else"]
  /\ UNCHANGED pending

\* The innermost open statement, of the given kind, is complete.
Close(kind) ==
  /\ cursor # <<>>
  /\ Last(cursor).node.kind = kind
  /\ Last(cursor).slot \in {"list", "thenDone", "done"}
  /\ cursor' = Advance(Front(cursor))
  /\ UNCHANGED pending

\* The path holds a loop whose body the walk is in.
InLoop == \E i \in DOMAIN cursor : cursor[i].node.kind \in LoopKinds

Slots == {"list", "then", "thenDone", "else", "body", "done"}

Entries == [node : Statements \cup Functions, slot : Slots]

CursorTypeOK ==
  /\ cursor \in Seq(Entries)
  /\ pending \in Seq(Functions)

TreeInit ==
  /\ cursor = <<>>
  /\ pending \in Programs
================================================================================
