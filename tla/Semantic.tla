------------------------------- MODULE Semantic --------------------------------
(***************************************************************************)
(* The semantic analysis pass: SymbolTable and SemanticAnalyzer of         *)
(* include/semantic.hpp and src/semantic.cpp.                              *)
(*                                                                         *)
(* A step analyses one statement node: a leaf whole, a compound statement  *)
(* on the way down (the part of analyzeIf, analyzeFor, ... before the      *)
(* child) and on the way up (the part after it).  What the recursive       *)
(* functions hold in C++ locals between the two is in `frames'.            *)
(***************************************************************************)
EXTENDS Ast, ScopeStack

DataTypes == {"int", "string", "void", "bool", "unknown"}

ErrorKinds == {"redeclared", "undeclared", "function", "type", "jump",
               "return", "missing return"}
WarningKinds == {"uninitialized", "unused", "unreachable"}

\* What a diagnostic is about: a name, or nothing ("").
Subjects == Name \cup {""}
Diagnostic == (ErrorKinds \cup WarningKinds) \X Subjects

\* SymbolTable::SymbolTable registers print, whose validator replaces the
\* comparison with the parameter types.
Builtin == "print"

FunctionNames == {Builtin} \cup {f.name : f \in Functions}

VARIABLES
  phase,         \* "gather", "analyze" or "done": the passes of analyze()
  scopes,        \* variableScopes: sequence of maps, name -> [type, used]
  functionTable, \* functionTable: name -> [ret, params]
  loopDepth,     \* loopDepth
  insideFunction,            \* insideFunction
  currentFunctionReturnType, \* currentFunctionReturnType
  assigned,      \* definitelyAssigned
  failed,        \* hasErrors()
  diags,         \* the diagnostics the last step added
  frames         \* locals of the analyses in progress, one per open statement

semVars == <<phase, scopes, functionTable, loopDepth, insideFunction,
             currentFunctionReturnType, assigned, failed, diags, frames>>
vars == <<treeVars, semVars>>

--------------------------------------------------------------------------------
(***************************************************************************)
(* SymbolTable.                                                            *)
(***************************************************************************)
Scopes == UNION {[D -> [type : DataTypes, used : BOOLEAN]] : D \in SUBSET Name}

isVariableDeclared(sc, n) == Bound(sc, n)

lookupVariable(sc, n) == Find(sc, n)

\* declareVariable, after the test for a redeclaration in the same scope.
declareVariable(sc, n, type) == Bind(sc, n, [type |-> type, used |-> FALSE])

\* Fault: only variables of the current scope become used.
markUsedHere(sc, names) ==
  [sc EXCEPT ![Len(sc)] =
     [n \in DOMAIN @ |-> [@[n] EXCEPT !.used = @ \/ n \in names]]]

\* isUsed of the variables the names refer to.
markUsed(sc, names) ==
  [i \in DOMAIN sc |->
     [n \in DOMAIN sc[i] |->
        [sc[i][n] EXCEPT !.used = @ \/ (n \in names /\ i = Innermost(sc, n))]]]

Unused(sc) == {n \in DOMAIN Last(sc) : ~Last(sc)[n].used}

checkUnusedVariablesInCurrentScope(sc) == {<<"unused", n>> : n \in Unused(sc)}

--------------------------------------------------------------------------------
(***************************************************************************)
(* Types of expressions.  The type of a node follows from the types ts of  *)
(* its operands; "unknown" says that an error was reported below.          *)
(***************************************************************************)
Declared(f) == f \in DOMAIN functionTable

KnownOperands(ts) == \A i \in DOMAIN ts : ts[i] # "unknown"

printValidator(ts) == Len(ts) = 1 /\ ts[1] \in {"int", "string", "unknown"}

\* Operand types an operator accepts.
Accepts(e, ts) ==
  CASE e.op = "neg" -> ts[1] = "int"
    [] e.op = "not" -> ts[1] \in {"int", "bool"}
    [] e.op = "bin" -> ts[1] = "int" /\ ts[2] = "int"
    [] e.op = "cmp" -> ts[1] = ts[2]
    [] e.op = "log" -> {ts[1], ts[2]} \cap {"void", "string"} = {}
    [] OTHER        -> TRUE

OperatorTypes == [neg |-> "int", bin |-> "int",
                  not |-> "bool", cmp |-> "bool", log |-> "bool"]

callType(e, ts) ==
  IF ~Declared(e.id) \/ (e.id = Builtin /\ ~printValidator(ts))
  THEN "unknown"
  ELSE functionTable[e.id].ret

OwnType(sc, e, ts) ==
  CASE e.op = "int"  -> "int"
    [] e.op = "str"  -> "string"
    [] e.op = "var"  -> IF isVariableDeclared(sc, e.id)
                        THEN lookupVariable(sc, e.id).type ELSE "unknown"
    [] e.op = "call" -> callType(e, ts)
    [] OTHER         -> IF KnownOperands(ts) /\ Accepts(e, ts)
                        THEN OperatorTypes[e.op] ELSE "unknown"

TypesIn(sc) ==
  LET T[e \in Exprs] == OwnType(sc, e, [i \in DOMAIN e.args |-> T[e.args[i]]])
  IN T

\* Fault: a call of an undeclared function is not reported.
callOfDeclaredIsWrong(e, ts) ==
  \/ e.id = Builtin /\ ~printValidator(ts)
  \/ /\ Declared(e.id)
     /\ e.id # Builtin
     /\ KnownOperands(ts)
     /\ ts # functionTable[e.id].params

callIsWrong(e, ts) ==
  \/ ~Declared(e.id)
  \/ e.id = Builtin /\ ~printValidator(ts)
  \/ /\ Declared(e.id)
     /\ e.id # Builtin
     /\ KnownOperands(ts)
     /\ ts # functionTable[e.id].params

\* The diagnostics analysing node e adds, those of its operands aside.
OwnDiags(sc, as, e, ts) ==
  CASE e.op = "var" ->
         IF ~isVariableDeclared(sc, e.id) THEN {<<"undeclared", e.id>>}
         ELSE IF e.id \notin as THEN {<<"uninitialized", e.id>>} ELSE {}
    [] e.op = "call" -> IF callIsWrong(e, ts) THEN {<<"function", "">>} ELSE {}
    [] OTHER -> IF KnownOperands(ts) /\ ~Accepts(e, ts)
                THEN {<<"type", "">>} ELSE {}

\* The nodes analyzeExpr reaches from e: the arguments of a call to an
\* undeclared function are not analysed.
Reached ==
  LET R[e \in Exprs] ==
        {e} \cup IF e.op = "call" /\ ~Declared(e.id) THEN {}
                 ELSE UNION {R[e.args[i]] : i \in DOMAIN e.args}
  IN R

--------------------------------------------------------------------------------
(***************************************************************************)
(* Analysing part of a statement maps an environment to the next one:      *)
(* the scopes, definitelyAssigned and the diagnostics added so far.        *)
(***************************************************************************)
Env == [scopes |-> scopes, assigned |-> assigned, diags |-> {}]

report(a, kind, n, wrong) ==
  IF wrong THEN [a EXCEPT !.diags = @ \cup {<<kind, n>>}] ELSE a

\* xs is an optional expression; analyzeExpr(nullptr) does nothing.
analyzeExpr(a, xs) ==
  IF xs = <<>> THEN a
  ELSE LET reached == Reached[xs[1]]
           ts(e) == [i \in DOMAIN e.args |-> TypesIn(a.scopes)[e.args[i]]]
       IN [a EXCEPT
             !.scopes = markUsed(@, {e.id : e \in {d \in reached : d.op = "var"}}),
             !.diags = @ \cup (Diagnostic \cap
                UNION {OwnDiags(a.scopes, a.assigned, e, ts(e)) : e \in reached})]

exprType(a, xs) == IF xs = <<>> THEN "void" ELSE TypesIn(a.scopes)[xs[1]]

\* The variable is declared before its initializer is analysed, and a
\* redeclaration returns without analysing it.
analyzeVarDecl(a, n) ==
  IF n.name \in DOMAIN Last(a.scopes)
  THEN report(a, "redeclared", n.name, TRUE)
  ELSE LET declared == [a EXCEPT !.scopes = declareVariable(@, n.name, "int")]
           analysed == analyzeExpr(declared, n.expr)
       IN IF n.expr = <<>> THEN declared
          ELSE [report(analysed, "type", "",
                       exprType(declared, n.expr) \notin {"int", "unknown"})
                EXCEPT !.assigned = @ \cup {n.name}]

analyzeAssignment(a, n) ==
  LET declared == isVariableDeclared(a.scopes, n.name)
      analysed == analyzeExpr(report(a, "undeclared", n.name, ~declared),
                              <<n.expr>>)
      type == exprType(a, <<n.expr>>)
  IN IF declared
     THEN [report(analysed, "type", "",
                  type \notin {lookupVariable(a.scopes, n.name).type, "unknown"})
           EXCEPT !.assigned = @ \cup {n.name}]
     ELSE analysed

\* analyzeStmt of a declaration, an assignment or an expression.
analyzeSimple(a, n) ==
  CASE n.kind = "decl"   -> analyzeVarDecl(a, n)
    [] n.kind = "assign" -> analyzeAssignment(a, n)
    [] n.kind = "expr"   -> analyzeExpr(a, <<n.expr>>)

analyzeOptional(a, ns) == IF ns = <<>> THEN a ELSE analyzeSimple(a, ns[1])

analyzeCondition(a, xs) ==
  report(analyzeExpr(a, xs), "type", "",
         xs # <<>> /\ exprType(a, xs) \notin {"int", "bool", "unknown"})

\* The increment is analysed in the header, before the body.
analyzeForHeader(a, n) ==
  LET inScope == [a EXCEPT !.scopes = Append(@, EmptyScope)]
  IN analyzeOptional(
       analyzeCondition(analyzeOptional(inScope, n.init), n.cond), n.inc)

analyzeReturnValue(a, n) ==
  LET type == exprType(a, n.expr)
      ret == currentFunctionReturnType
  IN report(analyzeExpr(a, n.expr), "return", "",
            /\ insideFunction
            /\ IF n.expr = <<>> THEN ret # "void"
               ELSE ret = "void" \/ type \notin {ret, "unknown"})

\* Fault: definitelyAssigned is not cleared for the function.
declareParametersOnly(a, ps) ==
  LET names == {ps[i].name : i \in DOMAIN ps}
  IN [a EXCEPT !.scopes = Append(@, [n \in names |-> [type |-> "int", used |-> FALSE]]),
               !.assigned = @ \cup names]

\* Adds the parameters; a repeated name keeps its first declaration.
declareParameters(a, ps) ==
  LET names == {ps[i].name : i \in DOMAIN ps}
      First(n) == CHOOSE i \in DOMAIN ps :
                    /\ ps[i].name = n
                    /\ \A j \in DOMAIN ps : ps[j].name = n => i <= j
      scope == [n \in names |-> [type |-> ps[First(n)].type, used |-> FALSE]]
  IN report([a EXCEPT !.scopes = Append(@, scope), !.assigned = names],
            "redeclared", "", Cardinality(names) < Len(ps))

leaveScope(a) ==
  [a EXCEPT !.scopes = Front(@),
            !.diags = @ \cup checkUnusedVariablesInCurrentScope(a.scopes)]
--------------------------------------------------------------------------------
(***************************************************************************)
(* The activation records of the recursive analyses.                       *)
(*   skip       the statement is not analysed: it follows a terminator in  *)
(*              some enclosing block                                       *)
(*   list       of a block: "open", "terminated" by a return, break or     *)
(*              continue (terminatorEncountered), "cut" after the warning  *)
(*   ret        returnsOnAllPaths of the children seen so far; it counts   *)
(*              the statements that were not analysed too                  *)
(*   before     definitelyAssigned to be restored (before, savedAssigned)  *)
(*   afterThen  definitelyAssigned at the end of the then branch           *)
(***************************************************************************)
Frames == [skip : BOOLEAN, list : {"open", "terminated", "cut"}, ret : BOOLEAN,
           before : SUBSET Name, afterThen : SUBSET Name]

frame(skip, before) ==
  [skip |-> skip, list |-> "open", ret |-> FALSE,
   before |-> before, afterThen |-> {}]

Parent == Last(cursor)
Local == Last(frames)

\* The next statement is one its block does not analyse.
CutOff == frames # <<>> /\ (Local.skip \/ Local.list # "open")

\* Fault: one returning branch of an if-statement is enough.
returnsOnSomePath(entry, ret, returns) == ret \/ returns

\* returnsOnAllPaths of the statement at the end of path once a child that
\* returns (or not) is complete.
returnsWith(entry, ret, returns) ==
  CASE entry.node.kind = "block" -> ret \/ returns
    [] entry.node.kind = "if"    -> returns /\ (entry.slot = "else" => ret)
    [] entry.node.kind = "func"  -> returns
    [] OTHER                     -> FALSE

\* The records fs of the path after a child of its last statement.
childDone(fs, path, returns) ==
  IF fs = <<>> THEN fs
  ELSE [fs EXCEPT ![Len(fs)].ret = returnsWith(path[Len(fs)], @, returns)]

\* Fault: a jump as the branch of an if-statement counts too.
terminatedAnywhere(fs, n) ==
  IF fs # <<>> /\ n.kind \in JumpKinds
  THEN [fs EXCEPT ![Len(fs)].list = "terminated"]
  ELSE fs

\* A direct return, break or continue ends the analysis of its block.
terminated(fs, n) ==
  IF fs # <<>> /\ Parent.node.kind = "block" /\ n.kind \in JumpKinds
  THEN [fs EXCEPT ![Len(fs)].list = "terminated"]
  ELSE fs

\* returnsOnAllPaths of the statement the walk is about to leave.
Returns == /\ Parent.node.kind \in {"block", "func", "if"}
           /\ Parent.slot # "thenDone"
           /\ Local.ret

Become(a) ==
  /\ scopes' = a.scopes
  /\ assigned' = a.assigned
  /\ diags' = a.diags
  /\ failed' = (failed \/ \E d \in a.diags : d[1] \in ErrorKinds)

Analyzing == phase = "analyze" /\ ~CutOff

InFunctionUnchanged ==
  UNCHANGED <<phase, functionTable, insideFunction, currentFunctionReturnType>>

--------------------------------------------------------------------------------
(***************************************************************************)
(* Pass 1 of analyze: the first definition of a name is kept.              *)
(***************************************************************************)
Signature(f) == [ret |-> f.ret,
                 params |-> [i \in DOMAIN f.params |-> f.params[i].type]]

GatherSignatures ==
  LET names == {pending[i].name : i \in DOMAIN pending}
      First(f) == CHOOSE i \in DOMAIN pending :
                    /\ pending[i].name = f
                    /\ \A j \in DOMAIN pending : pending[j].name = f => i <= j
      again == Builtin \in names \/ Cardinality(names) < Len(pending)
  IN /\ phase = "gather"
     /\ phase' = "analyze"
     /\ functionTable' = [f \in names \cup {Builtin} |->
          IF f = Builtin THEN [ret |-> "void", params |-> <<>>]
          ELSE Signature(pending[First(f)])]
     /\ Become(report(Env, "function", "", again))
     /\ UNCHANGED <<treeVars, loopDepth, insideFunction,
                    currentFunctionReturnType, frames>>

(***************************************************************************)
(* Pass 2: statements without children.                                    *)
(***************************************************************************)
AnalyzeLeaf(n, a) ==
  /\ Analyzing
  /\ VisitLeaf(n)
  /\ Become(a)
  /\ frames' = terminated(childDone(frames, cursor, n.kind = "ret"), n)
  /\ UNCHANGED loopDepth
  /\ InFunctionUnchanged

AnalyzeSimple(n) == n.kind \in SimpleKinds /\ AnalyzeLeaf(n, analyzeSimple(Env, n))
AnalyzeReturn(n) == n.kind = "ret" /\ AnalyzeLeaf(n, analyzeReturnValue(Env, n))

\* Fault: off by one in the test of loopDepth.
AnalyzeJumpOffByOne(n) ==
  /\ n.kind \in {"break", "continue"}
  /\ AnalyzeLeaf(n, report(Env, "jump", "", loopDepth < 0))

AnalyzeJump(n) ==
  /\ n.kind \in {"break", "continue"}
  /\ AnalyzeLeaf(n, report(Env, "jump", "", loopDepth <= 0))
AnalyzeNull(n) == n.kind = "null" /\ AnalyzeLeaf(n, Env)

(***************************************************************************)
(* Statements with children, on the way down.                              *)
(***************************************************************************)

\* Fault: analyzeFor does not count its body as a loop.
EnterNotCountingFor(n, a, before) ==
  /\ Analyzing
  /\ Open(n)
  /\ Become(a)
  /\ frames' = Append(frames, frame(FALSE, before))
  /\ loopDepth' = loopDepth + IF n.kind = "while" THEN 1 ELSE 0
  /\ InFunctionUnchanged

Enter(n, a, before) ==
  /\ Analyzing
  /\ Open(n)
  /\ Become(a)
  /\ frames' = Append(frames, frame(FALSE, before))
  /\ loopDepth' = loopDepth + IF n.kind \in LoopKinds THEN 1 ELSE 0
  /\ InFunctionUnchanged

EnterBlock(n) ==
  n.kind = "block" /\ Enter(n, [Env EXCEPT !.scopes = Append(@, EmptyScope)], {})

EnterIf(n) ==
  n.kind = "if" /\ Enter(n, analyzeCondition(Env, <<n.cond>>), assigned)

EnterWhile(n) ==
  n.kind = "while" /\ Enter(n, analyzeCondition(Env, <<n.cond>>), assigned)

EnterFor(n) ==
  /\ n.kind = "for"
  /\ LET a == analyzeForHeader(Env, n) IN Enter(n, a, a.assigned)

EnterFunction(f) ==
  /\ Analyzing
  /\ OpenFunction(f)
  /\ Become(declareParameters(Env, f.params))
  /\ frames' = Append(frames, frame(FALSE, assigned))
  /\ insideFunction' = TRUE
  /\ currentFunctionReturnType' = f.ret
  /\ UNCHANGED <<phase, functionTable, loopDepth>>

ElseBranch ==
  /\ phase = "analyze"
  /\ OpenElse
  /\ ~Local.skip
  /\ frames' = [frames EXCEPT ![Len(frames)].afterThen = assigned]
  /\ Become([Env EXCEPT !.assigned = Local.before])
  /\ UNCHANGED loopDepth
  /\ InFunctionUnchanged

(***************************************************************************)
(* ... and on the way up.                                                  *)
(***************************************************************************)
Leave(kind, a) ==
  /\ phase = "analyze"
  /\ Close(kind)
  /\ ~Local.skip
  /\ Become(a)
  /\ frames' = childDone(Front(frames), cursor, Returns)
  /\ loopDepth' = loopDepth - IF kind \in LoopKinds THEN 1 ELSE 0
  /\ UNCHANGED <<phase, functionTable, currentFunctionReturnType>>

LeaveBlock ==
  /\ Leave("block", leaveScope(Env))
  /\ UNCHANGED insideFunction

\* The branches join in what both assigned.
LeaveIf ==
  /\ Leave("if", [Env EXCEPT !.assigned = Local.before \cup
       IF Parent.slot = "done" THEN Local.afterThen \cap @ ELSE {}])
  /\ UNCHANGED insideFunction

\* Fault: definitelyAssigned is cleared rather than restored.
LeaveWhileClearing ==
  /\ Leave("while", [Env EXCEPT !.assigned = {}])
  /\ UNCHANGED insideFunction

LeaveWhile ==
  /\ Leave("while", [Env EXCEPT !.assigned = Local.before])
  /\ UNCHANGED insideFunction

\* Fault: the scope of the loop variable is not left.
LeaveForInScope ==
  /\ Leave("for", [Env EXCEPT !.assigned = Local.before])
  /\ UNCHANGED insideFunction

LeaveFor ==
  /\ Leave("for", [leaveScope(Env) EXCEPT !.assigned = Local.before])
  /\ UNCHANGED insideFunction

missingReturn(f) == f.ret # "void" /\ f.name # "main" /\ ~Local.ret

\* Fault: insideFunction is not reset.
LeaveFunctionInside ==
  /\ Leave("func", [leaveScope(report(Env, "missing return", "",
                                      missingReturn(Parent.node)))
                    EXCEPT !.assigned = Local.before])
  /\ UNCHANGED insideFunction

LeaveFunction ==
  /\ Leave("func", [leaveScope(report(Env, "missing return", "",
                                      missingReturn(Parent.node)))
                    EXCEPT !.assigned = Local.before])
  /\ insideFunction' = FALSE

(***************************************************************************)
(* After a terminator analyzeBlock warns at the next statement and breaks  *)
(* out of its loop; the rest of the block is walked for returnsOnAllPaths  *)
(* alone.                                                                  *)
(***************************************************************************)
cutWarning == IF Local.skip \/ Local.list = "cut" THEN {}
              ELSE {<<"unreachable", "">>}

cutFrames == IF Local.skip THEN frames
             ELSE [frames EXCEPT ![Len(frames)].list = "cut"]

Skipped ==
  /\ phase = "analyze"
  /\ UNCHANGED <<scopes, assigned, failed, loopDepth>>
  /\ InFunctionUnchanged

SkipLeaf(n) ==
  /\ CutOff
  /\ VisitLeaf(n)
  /\ diags' = cutWarning
  /\ frames' = childDone(cutFrames, cursor, n.kind = "ret")
  /\ Skipped

SkipEnter(n) ==
  /\ CutOff
  /\ Open(n)
  /\ diags' = cutWarning
  /\ frames' = Append(cutFrames, frame(TRUE, {}))
  /\ Skipped

SkipElse ==
  /\ OpenElse
  /\ Local.skip
  /\ diags' = {}
  /\ UNCHANGED frames
  /\ Skipped

SkipLeave ==
  /\ \E kind \in CompoundKinds : Close(kind)
  /\ Local.skip
  /\ diags' = {}
  /\ frames' = childDone(Front(frames), cursor, Returns)
  /\ Skipped

(***************************************************************************)
(* The end of analyze.                                                     *)
(***************************************************************************)
Finish ==
  /\ phase = "analyze"
  /\ cursor = <<>>
  /\ pending = <<>>
  /\ phase' = "done"
  /\ Become([Env EXCEPT !.diags = checkUnusedVariablesInCurrentScope(scopes)])
  /\ UNCHANGED <<treeVars, functionTable, loopDepth, insideFunction,
                 currentFunctionReturnType, frames>>

Terminating == phase = "done" /\ UNCHANGED vars

--------------------------------------------------------------------------------
SemInit ==
  /\ phase = "gather"
  /\ scopes = <<EmptyScope>>
  /\ functionTable = <<>>
  /\ loopDepth = 0
  /\ insideFunction = FALSE
  /\ currentFunctionReturnType = "int"
  /\ assigned = {}
  /\ failed = FALSE
  /\ diags = {}
  /\ frames = <<>>

Init == TreeInit /\ SemInit

Leaf(n) == AnalyzeSimple(n) \/ AnalyzeReturn(n) \/ AnalyzeJump(n)
           \/ AnalyzeNull(n) \/ SkipLeaf(n)

Down(n) == EnterBlock(n) \/ EnterIf(n) \/ EnterWhile(n) \/ EnterFor(n)
           \/ SkipEnter(n)

Up == LeaveBlock \/ LeaveIf \/ LeaveWhile \/ LeaveFor \/ SkipLeave

Next ==
  \/ GatherSignatures
  \/ \E n \in Statements : Leaf(n) \/ Down(n)
  \/ pending # <<>> /\ EnterFunction(Head(pending))
  \/ ElseBranch
  \/ SkipElse
  \/ Up
  \/ LeaveFunction
  \/ Finish
  \/ Terminating

Spec == Init /\ [][Next]_vars
--------------------------------------------------------------------------------
(***************************************************************************)
(* Properties.                                                             *)
(***************************************************************************)
\* Every variable of the analyzer has its type, and there is one activation
\* record per open statement.
TypeOK ==
  /\ CursorTypeOK
  /\ phase \in {"gather", "analyze", "done"}
  /\ scopes \in Seq(Scopes)
  /\ DOMAIN functionTable \subseteq FunctionNames
  /\ loopDepth \in Nat
  /\ insideFunction \in BOOLEAN
  /\ currentFunctionReturnType \in DeclaredTypes
  /\ assigned \subseteq Name
  /\ failed \in BOOLEAN
  /\ diags \subseteq Diagnostic
  /\ frames \in Seq(Frames)
  /\ Len(frames) = Len(cursor)

\* The open statements under analysis whose kind is in kinds.
Analysed(kinds) == {i \in DOMAIN frames :
                      ~frames[i].skip /\ cursor[i].node.kind \in kinds}

\* The scope stack of the symbol table is the global scope and one scope for
\* each block, for-statement and function being analysed, whatever statements
\* were skipped: enterScope and exitScope pair up, exitScope never throws
\* "Cannot exit global scope", and no declaration lands in another scope.
ScopesMatchPath == Len(scopes) = 1 + Cardinality(Analysed({"block", "for", "func"}))

\* loopDepth counts the loops whose bodies are being analysed, so that it
\* is back at 0 between statements of the program.
LoopDepthMatchesPath == loopDepth = Cardinality(Analysed(LoopKinds))

\* insideFunction and the return type returns are checked against are those of
\* the function on the path.
InsideFunctionMatchesPath ==
  /\ insideFunction <=> \E i \in DOMAIN cursor : cursor[i].node.kind = "func"
  /\ insideFunction => currentFunctionReturnType = cursor[1].node.ret

\* A break or continue the analyzer visits is an error exactly when no loop of
\* the same function encloses it (loopDepth is one counter for all functions).
MisplacedJumpsReported ==
  [][\A n \in Statements :
       AnalyzeJump(n) => (<<"jump", "">> \in diags' <=> ~InLoop)]_vars

\* What was assigned before a branch or a loop is assigned in it: restoring
\* `before' on the way out never drops a variable assigned on every path.
BeforeStaysAssigned ==
  \A i \in Analysed({"if", "while", "for"}) :
    /\ frames[i].before \subseteq assigned
    /\ cursor[i].node.kind = "if" /\ cursor[i].slot \in {"else", "done"}
         => frames[i].before \subseteq frames[i].afterThen
================================================================================
