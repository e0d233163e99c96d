-------------------------------- MODULE Codegen --------------------------------
(***************************************************************************)
(* The code generator: CodeGenContext of src/codegen.hpp and               *)
(* src/codegen.cpp, from the tree to the basic blocks of LLVM functions.   *)
(*                                                                         *)
(* Of the instructions only the terminators are kept, and of a block only  *)
(* what later code can depend on: whether it has a terminator, and whether *)
(* control can reach it.  A block nothing refers to any more gives its     *)
(* name back, so the names stand for blocks and not for their number.      *)
(* A step generates one statement, as in Semantic.                         *)
(***************************************************************************)
EXTENDS Ast, ScopeStack

\* The names of basic blocks.
Blocks == Nat \ {0}

VARIABLES
  stage,      \* the part of generateCode under way, or how it ended
  module,     \* the functions of the LLVM module: name -> definition
  builder,    \* the IRBuilder and the blocks of the current function
  allocas,    \* scopes: name -> does its alloca dominate the current block
  declared,   \* symbolTable: the names declared in each scope; it has a
              \* global scope of its own below those of allocas
  loopStack,  \* loopStack: <<[breakBB, continueBB], ...>>
  locals,     \* C++ locals of the statements under way, one per open statement
  emitted     \* the last step's branches, and the blocks it put code in

genVars == <<stage, module, builder, allocas, declared, loopStack, locals, emitted>>

\* "main" fills a synthetic main, "prepend" an explicit one.
Generating == {"functions", "main", "prepend"}
Stages == Generating \cup {"done", "failed", "aborted"}

\* at: GetInsertBlock; mid: the insertion point is in front of the code of at;
\* open: blocks without a terminator; live: blocks some branch leads to;
\* wrong: the function will not pass verifyFunction.
Builders == [at : Blocks, mid : BOOLEAN, open : SUBSET Blocks,
             live : SUBSET Blocks, wrong : BOOLEAN]

\* The builder in the entry block of a new function.
Entry == [at |-> 1, mid |-> FALSE, open |-> {1}, live |-> {1}, wrong |-> FALSE]

\* The builder in front of the code of a finished function.
InFront == [at |-> 1, mid |-> TRUE, open |-> {}, live |-> {1}, wrong |-> FALSE]

LoopContexts == [breakBB : Blocks, continueBB : Blocks]

\* skip: nothing is generated for the statement; stopped: Block's loop broke;
\* other: the target of a false condition; after: mergeBB, afterLoopBB or
\* afterBB; again: loopCondBB or condBB; inc: incBB; known: the usable
\* variables of the innermost scope when a branch or loop began.
Locals == [skip : BOOLEAN, stopped : BOOLEAN, other : Blocks \cup {0},
           after : Blocks \cup {0}, again : Blocks \cup {0},
           inc : Blocks \cup {0}, known : SUBSET Name]

Plain == [skip |-> FALSE, stopped |-> FALSE, other |-> 0, after |-> 0,
          again |-> 0, inc |-> 0, known |-> {}]

\* name -> does its alloca dominate the current block
AllocaScopes == UNION {[names -> BOOLEAN] : names \in SUBSET Name}

LocalBlocks(l) == {l.other, l.after, l.again, l.inc}

Targets(loop) == {loop.breakBB, loop.continueBB}

Referenced == (UNION {LocalBlocks(locals[i]) : i \in DOMAIN locals})
              \cup (UNION {Targets(loopStack[i]) : i \in DOMAIN loopStack})

Nothing == [edges |-> <<>>, code |-> {}]

\* Names a step may not give to a new block.
InUse == Referenced \cup builder.open \cup {builder.at}

\* The generator's state while a statement is generated; type: of the value of
\* the last expression, "none" for nullptr and "void" if there is none.
GenWith(names) ==
  [b |-> [builder EXCEPT !.live = @ \cap names],
   allocas |-> allocas, declared |-> declared, taken |-> names,
   edges |-> <<>>, code |-> {}, aborted |-> FALSE, type |-> "void"]

Gen == GenWith(InUse)

--------------------------------------------------------------------------------
(***************************************************************************)
(* The builder.                                                            *)
(***************************************************************************)
\* BasicBlock::Create: the k-th block created from here on gets the k-th name
\* that is not taken.
NewBlock(g, k) ==
  CHOOSE b \in 1 .. Cardinality(g.taken) + k :
    b \notin g.taken /\ Cardinality((1 .. b) \ g.taken) = k

Take(g, bs) == [g EXCEPT !.taken = @ \cup bs]

\* builder.GetInsertBlock()->getTerminator()
HasTerminator(b) == b.mid \/ b.at \notin b.open

Reject(g, when) == [g EXCEPT !.b.wrong = @ \/ when]
Abort(g, when) == [g EXCEPT !.aborted = @ \/ when]

\* Instructions other than terminators.
Emit(g) == Reject([g EXCEPT !.code = @ \cup {g.b.at}],
                  ~g.b.mid /\ g.b.at \notin g.b.open)

\* A branch to one or two blocks, or a return.
Terminate(g, targets) ==
  Reject([g EXCEPT !.b.open = @ \ {g.b.at},
                   !.b.live = @ \cup IF g.b.at \in @ THEN Range(targets) ELSE {},
                   !.edges = Recorded(@, g.b.at, targets)],
         HasTerminator(g.b))

\* SetInsertPoint to a block that is inserted into the function now.
StartBlock(g, x) == [g EXCEPT !.b.at = x, !.b.mid = FALSE, !.b.open = @ \cup {x}]

\* Fault: no branch out of a block that ends without one.
BranchNever(g, x) == g

\* Fault: a branch even after a return, break or continue.
BranchAlways(g, x) == Terminate(g, <<x>>)

\* if (!GetTerminator()) CreateBr(x)
BranchIfOpen(g, x) == IF HasTerminator(g.b) THEN g ELSE Terminate(g, <<x>>)

--------------------------------------------------------------------------------
(***************************************************************************)
(* Expressions.                                                            *)
(*   type      of the llvm::Value, "none" for nullptr                      *)
(*   loads     the variables loaded                                        *)
(*   moves     a logical operator left the builder in another block        *)
(*   flaws     "operands": of a type the verifier rejects; "cast": an      *)
(*             integer constant of a type that is no integer; "merge": the *)
(*             merge block of a logical operator whose right operand is    *)
(*             nullptr, which never gets a terminator                      *)
(***************************************************************************)
Constant(type) == [type |-> type, loads |-> {}, moves |-> FALSE, flaws |-> {}]

\* The code of l and then that of r, for a value of the given type.
Then(l, r, type) ==
  [type  |-> type,
   loads |-> l.loads \cup r.loads,
   moves |-> l.moves \/ r.moves,
   flaws |-> l.flaws \cup r.flaws]

Flaw(v, flaw, when) == [v EXCEPT !.flaws = @ \cup IF when THEN {flaw} ELSE {}]

\* The operator's code is left out when an operand is nullptr.
Operator(v, operands, allowed, type) ==
  IF "none" \in operands THEN [v EXCEPT !.type = "none"]
  ELSE Flaw([v EXCEPT !.type = type], "operands", operands \notin allowed)

Integral == {{"i32"}, {"i1"}}

codegenNot(v) ==
  IF v.type = "none" THEN v
  ELSE Flaw([v EXCEPT !.type = "i32"], "cast", v.type \notin {"i32", "i1"})

\* Not the right operand when the left one is nullptr.
codegenLogical(l, r) ==
  IF l.type = "none" THEN l
  ELSE Flaw(Flaw([Then(l, r, IF r.type = "none" THEN "none" ELSE "i32")
                    EXCEPT !.moves = TRUE],
                 "merge", r.type = "none"),
            "cast", {l.type, r.type} \cap {"ptr", "void"} # {})

\* Arguments up to the first that is nullptr.
Arguments(vs) ==
  FoldLeft(LAMBDA l, r : IF l.type = "none" THEN l ELSE Then(l, r, r.type),
           Constant("i32"), vs)

CreateCall(e, args, types, count) ==
  CASE args.type = "none" -> args
    [] args.type # "none" /\ e.id = "print" ->
         Flaw([args EXCEPT !.type = "i32"], "operands", types = {"void"})
    [] OTHER ->
         Flaw([args EXCEPT !.type = IF module[e.id].ret = "void" THEN "void" ELSE "i32"],
              "operands", count # Len(module[e.id].params) \/ ~types \subseteq {"i32"})

codegenCall(e, vs) ==
  IF (e.id = "print" /\ Len(vs) # 1) \/ e.id \notin {"print"} \cup DOMAIN module
  THEN Constant("none")
  ELSE CreateCall(e, Arguments(vs), {vs[i].type : i \in DOMAIN vs}, Len(vs))

codegenNode(e, vs) ==
  CASE e.op = "int"  -> Constant("i32")
    [] e.op = "str"  -> Constant("ptr")
    [] e.op = "var"  -> [Constant("i32") EXCEPT !.loads = {e.id}]
    [] e.op = "neg"  -> Operator(vs[1], {vs[1].type}, Integral, vs[1].type)
    [] e.op = "not"  -> codegenNot(vs[1])
    [] e.op = "bin"  -> Operator(Then(vs[1], vs[2], ""), {vs[1].type, vs[2].type},
                                 Integral, vs[1].type)
    [] e.op = "cmp"  -> Operator(Then(vs[1], vs[2], ""), {vs[1].type, vs[2].type},
                                 Integral \cup {{"ptr"}}, "i1")
    [] e.op = "log"  -> codegenLogical(vs[1], vs[2])
    [] e.op = "call" -> codegenCall(e, vs)

codegenExpr ==
  LET C[e \in Exprs] == codegenNode(e, [i \in DOMAIN e.args |-> C[e.args[i]]])
  IN C

findVariable(g, n) == Bound(g.allocas, n)
isDeclared(g, n) == n = "print" \/ \E i \in DOMAIN g.declared : n \in g.declared[i]

\* Loads and stores of variables.  An alloca of another branch does not
\* dominate them, which matters to the verifier where control gets to.
Access(g, names) ==
  Abort(Reject(Emit(g), /\ g.b.at \in g.b.live
                        /\ \E n \in names : findVariable(g, n) /\ ~Find(g.allocas, n)),
        \E n \in names : ~findVariable(g, n))

\* The builder leaves through another block than it was in.
Move(g) ==
  LET last == NewBlock(g, 1)
  IN StartBlock(Terminate(Take(g, {last}), <<last>>), last)

Load(g, v) ==
  Abort(Reject([Access(g, v.loads) EXCEPT !.type = v.type],
               v.flaws \cap {"operands", "merge"} # {}),
        "cast" \in v.flaws \/ \E n \in v.loads : ~isDeclared(g, n))

Value(g, v) == IF v.moves THEN Move(Load(g, v)) ELSE Load(g, v)

\* The code of an optional expression.
Eval(g, xs) == IF xs = <<>> THEN [g EXCEPT !.type = "void"]
               ELSE Value(g, codegenExpr[xs[1]])

\* ... of a condition, compared with an integer 0.
CompareWithZero(g, xs) == Abort(g, xs # <<>> /\ g.type \in {"ptr", "void"})

Condition(g, xs) == CompareWithZero(Eval(g, xs), xs)

HasValue(g) == g.type # "none"

--------------------------------------------------------------------------------
(***************************************************************************)
(* Statements without control flow.                                        *)
(***************************************************************************)
\* Fault: the alloca is recorded in the outermost scope.
registerInGlobalScope(g, n) ==
  [g EXCEPT !.allocas[1] = [m \in DOMAIN @ \cup {n} |-> TRUE],
            !.declared[Len(g.declared)] = @ \cup {n}]

registerVariable(g, n) ==
  [g EXCEPT !.allocas = Bind(@, n, TRUE),
            !.declared[Len(g.declared)] = @ \cup {n}]

CreateStore(g, xs) == Reject(g, xs # <<>> /\ g.type = "void")

Assigned(g, xs) == CreateStore(Abort(g, ~HasValue(g)), xs)

\* A value of nullptr is not stored.
codegenVarDeclaration(g, n) ==
  IF n.name \in Last(g.declared) THEN g
  ELSE CreateStore(Eval(registerVariable(Emit(g), n.name), n.expr), n.expr)

codegenAssignment(g, n) ==
  Assigned(Eval(Access(g, {n.name}), <<n.expr>>), <<n.expr>>)

codegenSimple(g, n) ==
  CASE n.kind = "decl"   -> codegenVarDeclaration(g, n)
    [] n.kind = "assign" -> codegenAssignment(g, n)
    [] n.kind = "expr"   -> Eval(g, <<n.expr>>)

codegenOptional(g, ns) == IF ns = <<>> THEN g ELSE codegenSimple(g, ns[1])

currentFunction == IF cursor # <<>> /\ cursor[1].node.kind = "func"
                   THEN cursor[1].node ELSE module["main"]

ReturnType == IF currentFunction.ret = "void" THEN "void" ELSE "i32"

CreateReturn(g, xs) ==
  IF HasValue(g)
  THEN Terminate(Reject(g, \/ g.type # ReturnType
                           \/ xs # <<>> /\ ReturnType = "void"), <<>>)
  ELSE g

codegenReturn(g, n) == CreateReturn(Eval(g, n.expr), n.expr)

pushScope(g) == [g EXCEPT !.allocas = Append(@, EmptyScope),
                          !.declared = Append(@, {})]

\* Fault: the scope of the generator's own symbol table is not left.
popAllocas(g) == [g EXCEPT !.allocas = Front(@)]

popScope(g) ==
  [g EXCEPT !.allocas = IF @ = <<>> THEN @ ELSE Front(@),
            !.declared = IF Len(@) > 1 THEN Front(@) ELSE @]

Usable(g) == {n \in DOMAIN Last(g.allocas) : Last(g.allocas)[n]}

\* What a branch or loop body declared outside a block of its own does not
\* dominate the code that follows.
LeaveRegion(g, known) ==
  [g EXCEPT !.allocas[Len(g.allocas)] = [n \in DOMAIN @ |-> @[n] /\ n \in known]]

pushLoop(loops, breakBB, continueBB) ==
  Append(loops, [breakBB |-> breakBB, continueBB |-> continueBB])

\* Fault: the loop is not popped.
keepLoop(loops) == loops

popLoop(loops) == Front(loops)

\* Fault: a break leaves the outermost loop.
outermostLoopEnd == loopStack[1].breakBB

getCurrentLoopEnd == Last(loopStack).breakBB

getCurrentLoopContinue == Last(loopStack).continueBB

--------------------------------------------------------------------------------
(***************************************************************************)
(* Steps.                                                                  *)
(***************************************************************************)
Parent == Last(cursor)
Local == Last(locals)

\* The loop over a list of statements ends when the current block has got a
\* terminator; the statements in front of an explicit main are all generated.
Stopped == IF cursor = <<>> THEN stage = "main" /\ HasTerminator(builder)
           ELSE Local.skip \/ Local.stopped

\* The next statement is generated; top-level ones come after the functions.
Active == /\ stage \in Generating
          /\ cursor = <<>> => stage # "functions"
          /\ ~Stopped

\* Fault: a list of statements goes on after a terminator.
childDoneOnly(ls, b) == ls

\* A list of statements looks at the builder after each of them.
childDone(ls, b) ==
  IF ls = <<>> THEN ls
  ELSE [ls EXCEPT ![Len(ls)].stopped =
          @ \/ (cursor[Len(ls)].node.kind = "block" /\ ~Last(ls).skip /\ HasTerminator(b))]

Put(g) ==
  /\ builder' = g.b
  /\ allocas' = g.allocas
  /\ declared' = g.declared
  /\ emitted' = [edges |-> g.edges, code |-> g.code]
  /\ stage' = IF g.aborted THEN "aborted" ELSE stage

GenLeaf(n, g) ==
  /\ Active
  /\ VisitLeaf(n)
  /\ Put(g)
  /\ locals' = childDone(locals, g.b)
  /\ UNCHANGED <<module, loopStack>>

GenSimple(n) == n.kind \in SimpleKinds /\ GenLeaf(n, codegenSimple(Gen, n))
GenReturn(n) == n.kind = "ret" /\ GenLeaf(n, codegenReturn(Gen, n))
GenNull(n) == n.kind = "null" /\ GenLeaf(n, Gen)

Jump(g, target) ==
  IF loopStack = <<>> THEN Abort(g, TRUE) ELSE Terminate(g, <<target>>)

GenBreak(n) == n.kind = "break" /\ GenLeaf(n, Jump(Gen, getCurrentLoopEnd))

GenContinue(n) ==
  n.kind = "continue" /\ GenLeaf(n, Jump(Gen, getCurrentLoopContinue))

GenOpen(kind, n) == n.kind = kind /\ Active /\ Open(n)

GenDown(g, local) ==
  /\ Put(g)
  /\ locals' = Append(locals, local)
  /\ UNCHANGED module

Skipping == [Plain EXCEPT !.skip = TRUE]

EnterBlock(n) ==
  /\ GenOpen("block", n)
  /\ GenDown(pushScope(Gen), Plain)
  /\ UNCHANGED loopStack

\* `other' is elseBB, or mergeBB when there turns out to be no else branch.
EnterThen(g) ==
  LET thenBB == NewBlock(g, 1)
      other == NewBlock(g, 2)
      branched == Terminate(Take(g, {thenBB, other}), <<thenBB, other>>)
  IN IF HasValue(g)
     THEN GenDown(StartBlock(branched, thenBB),
                  [Plain EXCEPT !.other = other, !.known = Usable(g)])
     ELSE GenDown(g, Skipping)

EnterIf(n) ==
  /\ GenOpen("if", n)
  /\ EnterThen(Condition(Gen, <<n.cond>>))
  /\ UNCHANGED loopStack

\* Fault: a continue of a for-statement jumps over the increment.
continueAtCondition(n, again, inc) == again

\* Fault: the block of the increment, which a while-statement has not.
continueAtIncrement(n, again, inc) == inc

continueTarget(n, again, inc) == IF n.kind = "for" THEN inc ELSE again

StartCondition(g, again) ==
  StartBlock(Terminate(Take(g, {again}), <<again>>), again)

\* The loop body is entered: g is the builder after the condition, which starts
\* in `again'; left is what remains of g without a value to branch on.
EnterLoop(n, g, left, again, known) ==
  LET bodyBB == NewBlock(g, 1)
      after == NewBlock(g, 2)
      inc == IF n.kind = "for" THEN NewBlock(g, 3) ELSE 0
      branched == Terminate(Take(g, {bodyBB, after, inc}), <<bodyBB, after>>)
  IN IF HasValue(g)
     THEN /\ GenDown(StartBlock(branched, bodyBB),
                     [Plain EXCEPT !.after = after, !.again = again,
                                   !.inc = inc, !.known = known])
          /\ loopStack' = pushLoop(loopStack, after, continueTarget(n, again, inc))
     ELSE GenDown(left, Skipping) /\ UNCHANGED loopStack

WhileBody(n, g, again) == EnterLoop(n, g, g, again, Usable(g))

EnterWhile(n) ==
  LET again == NewBlock(Gen, 1)
  IN /\ GenOpen("while", n)
     /\ WhileBody(n, Condition(StartCondition(Gen, again), <<n.cond>>), again)

ForBody(n, g, again) == EnterLoop(n, g, popScope(g), again, {})

ForCondition(n, g, again) ==
  ForBody(n, Condition(StartCondition(g, again), n.cond), again)

StartFor(n, g) == ForCondition(n, g, NewBlock(g, 1))

EnterFor(n) ==
  /\ GenOpen("for", n)
  /\ StartFor(n, codegenOptional(pushScope(Gen), n.init))

ElseBranch ==
  LET merge == NewBlock(Gen, 1)
      g == StartBlock(BranchIfOpen(Take(Gen, {merge}), merge), Local.other)
  IN /\ stage \in Generating
     /\ OpenElse
     /\ ~Local.skip
     /\ Put(LeaveRegion(g, Local.known))
     /\ locals' = [locals EXCEPT ![Len(locals)] = [@ EXCEPT !.other = 0, !.after = merge]]
     /\ UNCHANGED <<module, loopStack>>

GenUp(kind, g) ==
  /\ stage \in Generating
  /\ Close(kind)
  /\ ~Local.skip
  /\ Put(g)
  /\ locals' = childDone(Front(locals), g.b)
  /\ UNCHANGED module

LeaveBlock == GenUp("block", popScope(Gen)) /\ UNCHANGED loopStack

LeaveIf ==
  LET merge == IF Local.after = 0 THEN Local.other ELSE Local.after
  IN /\ GenUp("if", LeaveRegion(StartBlock(BranchIfOpen(Gen, merge), merge), Local.known))
     /\ UNCHANGED loopStack

LeaveWhile ==
  /\ GenUp("while", LeaveRegion(StartBlock(BranchIfOpen(Gen, Local.again), Local.after),
                                Local.known))
  /\ loopStack' = popLoop(loopStack)

LeaveFor ==
  LET inInc == StartBlock(BranchIfOpen(Gen, Local.inc), Local.inc)
      g == BranchIfOpen(codegenOptional(inInc, Parent.node.inc), Local.again)
  IN /\ GenUp("for", popScope(StartBlock(g, Local.after)))
     /\ loopStack' = popLoop(loopStack)

(***************************************************************************)
(* Functions.  verifyFunction wants one terminator in each block, operands *)
(* of the right types and definitions that dominate their uses.            *)
(***************************************************************************)
ReturnIfOpen(g) == IF HasTerminator(g.b) THEN g ELSE Terminate(g, <<>>)

verifyFails(g) == g.b.wrong \/ g.b.open # {}

\* The first function of a name keeps it.
EnterFunction(f) ==
  LET names == {f.params[i].name : i \in DOMAIN f.params}
  IN /\ stage = "functions"
     /\ OpenFunction(f)
     /\ module' = IF f.name \in DOMAIN module THEN module ELSE Recorded(module, f.name, f)
     /\ builder' = Entry
     /\ allocas' = Append(allocas, [n \in names |-> TRUE])
     /\ declared' = Append(declared, names)
     /\ emitted' = [Nothing EXCEPT !.code = {Entry.at}]
     /\ locals' = Append(locals, Plain)
     /\ UNCHANGED <<stage, loopStack>>

\* The insertion point restored is not used: a function or main comes next.
LeaveFunction ==
  LET g == popScope(ReturnIfOpen(Gen))
  IN /\ stage = "functions"
     /\ Close("func")
     /\ stage' = IF verifyFails(g) THEN "failed" ELSE stage
     /\ builder' = Entry
     /\ allocas' = g.allocas
     /\ declared' = g.declared
     /\ emitted' = [edges |-> g.edges, code |-> g.code]
     /\ locals' = Front(locals)
     /\ UNCHANGED <<module, loopStack>>

syntheticMain == [kind |-> "func", name |-> "main", ret |-> "int", params |-> <<>>]

\* The functions are generated, and the top-level statements come next.
StartMain ==
  /\ stage = "functions"
  /\ cursor = <<>>
  /\ pending = <<>>
  /\ stage' = IF "main" \in DOMAIN module THEN "prepend" ELSE "main"
  /\ builder' = IF "main" \in DOMAIN module THEN InFront ELSE Entry
  /\ module' = IF "main" \in DOMAIN module THEN module
               ELSE Recorded(module, "main", syntheticMain)
  /\ emitted' = Nothing
  /\ UNCHANGED <<treeVars, allocas, declared, loopStack, locals>>

\* An explicit main was verified before the statements in front of it were
\* generated, and is not verified again.
FinishMain ==
  LET g == ReturnIfOpen(Gen)
  IN /\ stage \in {"main", "prepend"}
     /\ cursor = <<>>
     /\ IF stage = "main"
        THEN /\ stage' = IF verifyFails(g) THEN "failed" ELSE "done"
             /\ builder' = g.b
             /\ emitted' = [edges |-> g.edges, code |-> g.code]
        ELSE /\ stage' = "done"
             /\ emitted' = Nothing
             /\ UNCHANGED builder
     /\ UNCHANGED <<treeVars, module, allocas, declared, loopStack, locals>>

(***************************************************************************)
(* Statements nothing is generated for.                                    *)
(***************************************************************************)
NotGenerated ==
  /\ stage \in Generating
  /\ emitted' = Nothing
  /\ UNCHANGED <<stage, module, builder, allocas, declared, loopStack>>

SkipLeaf(n) ==
  /\ Stopped
  /\ VisitLeaf(n)
  /\ UNCHANGED locals
  /\ NotGenerated

SkipEnter(n) ==
  /\ Stopped
  /\ Open(n)
  /\ locals' = Append(locals, Skipping)
  /\ NotGenerated

SkipElse ==
  /\ OpenElse
  /\ Local.skip
  /\ UNCHANGED locals
  /\ NotGenerated

SkipLeave ==
  /\ \E kind \in CompoundKinds : Close(kind)
  /\ Local.skip
  /\ locals' = childDone(Front(locals), builder)
  /\ NotGenerated

Terminating == stage \notin Generating /\ UNCHANGED <<treeVars, genVars>>

--------------------------------------------------------------------------------
GenInit ==
  /\ stage = "functions"
  /\ module = <<>>
  /\ builder = Entry
  /\ allocas = <<EmptyScope>>
  /\ declared = <<{}, {}>>
  /\ loopStack = <<>>
  /\ locals = <<>>
  /\ emitted = Nothing

Leaf(n) == GenSimple(n) \/ GenReturn(n) \/ GenBreak(n) \/ GenContinue(n)
           \/ GenNull(n) \/ SkipLeaf(n)

Down(n) == EnterBlock(n) \/ EnterIf(n) \/ EnterWhile(n) \/ EnterFor(n) \/ SkipEnter(n)

Up == LeaveBlock \/ LeaveIf \/ LeaveWhile \/ LeaveFor \/ SkipLeave

Next ==
  \/ \E n \in Statements : Leaf(n) \/ Down(n)
  \/ pending # <<>> /\ EnterFunction(Head(pending))
  \/ ElseBranch
  \/ SkipElse
  \/ Up
  \/ LeaveFunction
  \/ StartMain
  \/ FinishMain
  \/ Terminating

Init == TreeInit /\ GenInit

GenSpec == Init /\ [][Next]_<<treeVars, genVars>>
--------------------------------------------------------------------------------
(***************************************************************************)
(* Properties.                                                             *)
(***************************************************************************)
\* Every variable of the generator has its type, and there is one record of
\* locals per open statement.
GenTypeOK ==
  /\ CursorTypeOK
  /\ stage \in Stages
  /\ \A f \in DOMAIN module : IsFunction(module[f])
  /\ builder \in Builders
  /\ allocas \in Seq(AllocaScopes)
  /\ declared \in Seq(SUBSET Name)
  /\ loopStack \in Seq(LoopContexts)
  /\ locals \in Seq(Locals)
  /\ Len(locals) = Len(cursor)
  /\ \A b \in DOMAIN emitted.edges : b \in Blocks /\ Range(emitted.edges[b]) \subseteq Blocks
  /\ emitted.code \subseteq Blocks

\* The open statements of the given kinds that code is generated for.
Generated(kinds) == {i \in DOMAIN locals :
                       ~locals[i].skip /\ cursor[i].node.kind \in kinds}

\* The two records of the variables in scope stay in step, whatever part of a
\* statement is left out because an expression yields no value: there is one
\* scope for each open block, for-statement and function, and a declared
\* variable has been allocated ("variable declared but not allocated").
ScopesMatch ==
  /\ Len(allocas) = 1 + Cardinality(Generated({"block", "for", "func"}))
  /\ Len(declared) = Len(allocas) + 1
  /\ \A i \in DOMAIN allocas : declared[i + 1] = DOMAIN allocas[i]

\* The loop stack holds the targets of the loops on the path, the innermost
\* last: a break leaves, and a continue goes on with, the loop that encloses
\* it, also after a loop that was left out or has ended.
LoopStackMatches ==
  LET loops == Generated(LoopKinds)
      Nth(i) == Cardinality({j \in loops : j <= i})
  IN /\ Len(loopStack) = Cardinality(loops)
     /\ \A i \in loops :
          /\ loopStack[Nth(i)].breakBB = locals[i].after
          /\ loopStack[Nth(i)].continueBB =
               IF cursor[i].node.kind = "for" THEN locals[i].inc ELSE locals[i].again

\* Between statements the only block without a terminator is the current one:
\* each branch and loop body has been led on, also those that end in a jump or
\* are never reached, and the blocks still to be inserted are not yet part of
\* the function.
OneOpenBlock ==
  stage \in Generating =>
    /\ builder.open \subseteq {builder.at}
    /\ \A i \in DOMAIN locals :
         builder.open \cap {locals[i].after, locals[i].inc} = {}
================================================================================
