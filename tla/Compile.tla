-------------------------------- MODULE Compile --------------------------------
(***************************************************************************)
(* The two passes over one program: main.cpp runs the code generator on    *)
(* the trees the analyzer accepts.  Here both follow the same walk, so     *)
(* that what the analyzer has checked at a statement and what the          *)
(* generator relies on there are two parts of one state.                   *)
(*                                                                         *)
(* The analyzer takes functions and top-level statements in the order of   *)
(* the source, the generator takes the functions first: the statements     *)
(* between functions wait, analysed but not generated.                     *)
(***************************************************************************)
EXTENDS Semantic

CONSTANTS
  MaxWaiting, \* bound: top-level statements that wait at one time
  Classes     \* the classes of programs considered

\* bareDeclaration: a declaration may be a branch or loop body by itself.
\* bareReturn: a return without a value may stand outside a function.
ASSUME CompileAssumption ==
  /\ MaxWaiting \in Nat
  /\ \A c \in Classes :
       /\ c.statements \subseteq Statements
       /\ c.programs \subseteq Programs
       /\ c.depth \in 0 .. MaxDepth
       /\ {c.bareDeclaration, c.bareReturn} \subseteq BOOLEAN

VARIABLES
  stage, module, builder, allocas, declared, loopStack, locals, emitted,
  waiting,   \* the statements analysed but not generated, in their order
  class      \* the class the program is taken from

Code == INSTANCE Codegen

compileVars == <<vars, stage, module, builder, allocas, declared, loopStack,
                 locals, emitted, waiting, class>>

GenUnchanged == UNCHANGED <<stage, module, builder, allocas, declared,
                            loopStack, locals, emitted>>

SemUnchanged == UNCHANGED <<phase, scopes, functionTable, loopDepth,
                            insideFunction, currentFunctionReturnType, assigned,
                            failed, diags, frames>>

Bare(n) == n.kind = "decl" /\ cursor # <<>> /\ Parent.node.kind # "block"

BareReturn(n) == n.kind = "ret" /\ n.expr = <<>> /\ ~insideFunction

InClass(n) ==
  /\ n \in class.statements
  /\ n.kind \in CompoundKinds => Len(cursor) < class.depth
  /\ Bare(n) => class.bareDeclaration
  /\ BareReturn(n) => class.bareReturn

CompileInit ==
  /\ Init
  /\ Code!GenInit
  /\ waiting = <<>>
  /\ class \in Classes
  /\ pending \in class.programs

\* Both passes are at the same statement: everywhere in a function, and at top
\* level once what has waited is generated.
Together == cursor = <<>> => waiting = <<>>

BothVisit(n) ==
  /\ InClass(n)
  /\ Together
  /\ (Leaf(n) /\ Code!Leaf(n)) \/ (Down(n) /\ Code!Down(n))

Walk ==
  \/ \E n \in Statements : BothVisit(n)
  \/ /\ pending # <<>>
     /\ EnterFunction(Head(pending))
     /\ Code!EnterFunction(Head(pending))
  \/ (ElseBranch \/ SkipElse) /\ (Code!ElseBranch \/ Code!SkipElse)
  \/ Up /\ Code!Up
  \/ LeaveFunction /\ Code!LeaveFunction

\* Only statements without children wait in the programs considered.
Wait(n) ==
  /\ InClass(n)
  /\ cursor = <<>> /\ pending # <<>>
  /\ Len(waiting) < MaxWaiting
  /\ Leaf(n)
  /\ waiting' = Append(waiting, n)
  /\ GenUnchanged

GenerateWaiting ==
  /\ stage \in {"main", "prepend"}
  /\ waiting # <<>>
  /\ Code!Leaf(Head(waiting))
  /\ waiting' = Tail(waiting)
  /\ SemUnchanged

\* main stops after an error of the analyzer.
Accepted == ~failed /\ stage \in Code!Generating

CompileStep ==
  \/ GatherSignatures /\ GenUnchanged /\ UNCHANGED waiting
  \/ Accepted /\ Walk /\ UNCHANGED waiting
  \/ Accepted /\ \E n \in Statements : Wait(n)
  \/ Accepted /\ GenerateWaiting
  \/ Accepted /\ phase = "analyze" /\ Code!StartMain /\ SemUnchanged /\ UNCHANGED waiting
  \/ Accepted /\ waiting = <<>> /\ Finish /\ Code!FinishMain /\ UNCHANGED waiting

CompileNext ==
  \/ CompileStep /\ UNCHANGED class
  \/ ~Accepted /\ UNCHANGED compileVars

CompileSpec == CompileInit /\ [][CompileNext]_compileVars
--------------------------------------------------------------------------------
(***************************************************************************)
(* Properties.                                                             *)
(***************************************************************************)
\* No assertion of the code generator ("Semantic error leaked into codegen",
\* "assignment expression codegen failed") fails, and no missing alloca is
\* used, on a program the analyzer accepts.
AssertionsHold == stage = "aborted" => failed

\* The global variables the analyzer knows and the generator does not yet.
Hidden == UNION {{n.name} : n \in {d \in Range(waiting) : d.kind = "decl"}}

\* The variables the analyzer has seen a statement use or assign.
Touched == {n \in DOMAIN scopes[1] : scopes[1][n].used} \cup assigned

\* An assertion fails on an accepted program only in a function that stands
\* below the declaration of a global and names it: the generator takes the
\* function first.
OnlyHiddenGlobalsAbort ==
  stage = "aborted" /\ ~failed => cursor # <<>> /\ Hidden \cap Touched # {}

\* The functions generated for an accepted program pass verifyFunction, in
\* particular each block has one terminator and the returned types match.
AcceptedCodeVerifies == stage = "failed" => failed

Both == Accepted /\ phase = "analyze"

\* Where a statement is both analysed and generated, the symbol table of the
\* analyzer, that of the generator and the allocas hold the same names scope by
\* scope, the globals that wait to be generated aside: a name means the same
\* variable to all three.
SymbolTablesAgree ==
  Both /\ ~CutOff /\ ~Code!Stopped
    => /\ Len(scopes) = Len(allocas)
       /\ \A i \in DOMAIN scopes :
            /\ DOMAIN scopes[i] = declared[i + 1] \cup (IF i = 1 THEN Hidden ELSE {})
            /\ declared[i + 1] = DOMAIN allocas[i]

\* Code that the analyzer has left unanalysed, after a return, break or
\* continue, is not generated either: the generator stops at the terminator.
UnanalysedIsNotGenerated == Both /\ CutOff => Code!Stopped

\* The expressions the code of a statement computes.
SimpleValues(n) == IF n.kind = "decl" THEN Range(n.expr) ELSE {n.expr}

Values(n) ==
  CASE n.kind \in SimpleKinds     -> SimpleValues(n)
    [] n.kind = "ret"             -> Range(n.expr)
    [] n.kind \in {"if", "while"} -> {n.cond}
    [] n.kind = "for"             -> Range(n.cond)
         \cup UNION {SimpleValues(m) : m \in Range(n.init) \cup Range(n.inc)}
    [] OTHER                      -> {}

\* Those the generator has no value for: what needs it is left out.
LeftOut(n) == {e \in Values(n) : Code!codegenExpr[e].type = "none"}

\* e calls a function that is defined further down.
CallsForward(e) ==
  LET C[d \in Exprs] ==
        \/ d.op = "call" /\ d.id \in {f.name : f \in Range(pending)}
        \/ \E i \in DOMAIN d.args : C[d.args[i]]
  IN C[e]

\* Code the analyzer has accepted is left out ("Unknown function", and the compiler
\* goes on) only in a function, and only for the call of one that is defined further
\* down.  A top-level statement is analysed before the functions below it and
\* generated after them: nothing of it is left out.
OnlyForwardCallsAreLeftOut ==
  [][/\ GenerateWaiting => LeftOut(Head(waiting)) = {}
     /\ \A n \in {m \in class.statements : LeftOut(m) # {}} :
          BothVisit(n) /\ ~CutOff /\ ~Code!Stopped /\ ~failed'
            => cursor # <<>> /\ \A e \in LeftOut(n) : CallsForward(e)]_compileVars

\* The `return 0' the generator adds to a non-void function that ends without a
\* terminator is never reached: the analyzer's returnsOnAllPaths implies that
\* the last block has no way in.  Both passes are written for such functions; the
\* parser has none for them (see Ast).
AddedReturnIsDead ==
  [][LeaveFunction /\ ~failed' /\ Parent.node.ret # "void" /\ Parent.node.name # "main"
       => Code!HasTerminator(builder) \/ builder.at \notin builder.live]_compileVars

\* The statements in front of an explicit main stay in front of its code.
PrependedInFront == stage = "prepend" /\ cursor = <<>> => builder.mid
================================================================================
