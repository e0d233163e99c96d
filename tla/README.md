# A verification project for the MiniLang compiler

MiniLang is a small imperative language (integers, strings in calls, blocks,
`if`, `while`, `for`, functions). Its compiler is a sequential C++17 program:
a Flex/Bison front end builds a syntax tree, a semantic analyzer accepts or
rejects it, and a generator turns an accepted tree into LLVM IR; a Python
script runs it on the tests. This directory models the parser's statement level
and error recovery, the two passes over the tree, the driver around them and
the test runner, checks them on small instances with TLC, alone, together and
against a run of the program. With TLAPS it proves, for programs, texts and
suites of any size: the bookkeeping of both passes, the analyzer's verdicts on
the flow of control and on variables, that the branches the generator emits
follow the control flow of the source, the parser's error recovery, and what
the driver and the test runner promise.

Paths below are relative to the repository unless they end in `.tla` or `.cfg`.

## 1. The system

| Component | Code | State it keeps | Operations | Modelled |
|---|---|---|---|---|
| Lexer | `src/lexer.l` | current line and column | next token | positions (`Lexer`) |
| Parser | `src/parser.y` | Bison's stack, the tree under construction | one reduction per rule, recovery at `;` | statements and recovery (`Parser`), tree shapes (`Ast`) |
| AST | `src/ast.hpp`, `src/ast.cpp` | the tree | construct, dump, call back into the generator | shapes and walk (`Ast`) |
| Symbol table of the analyzer | `include/semantic.hpp`, `src/semantic.cpp` | scope stack, function table | enter/exit scope, declare, look up, mark used | yes (`ScopeStack`, `Semantic`) |
| Semantic analyzer | same files | `loopDepth`, `insideFunction`, `currentFunctionReturnType`, `definitelyAssigned`, diagnostics | `analyze` in two passes, one function per node kind | yes (`Semantic`) |
| Code generator | `src/codegen.hpp`, `src/codegen.cpp` | IR builder, module, alloca scopes, its own symbol table, loop stack | `generateCode`, one `codegen` per node kind | yes, down to basic blocks (`Codegen`) |
| Optimizer and emission | `src/codegen.cpp` 714-853 | none of its own | calls into LLVM, writes files | outcomes and files (`Driver`) |
| Driver | `src/main.cpp` | options | parse, analyze, generate, optimize, emit; stop at the first failure | yes (`Driver`; `Compile` for order and stop) |
| Test runner | `run_tests.py` | results | run the compiler on each test, judge exit code and stderr | yes (`TestRunner`) |

**Interaction.** Everything is a direct call in one thread. `main` calls
`yyparse`, which leaves the tree in a global; then `SemanticAnalyzer::analyze`,
and if it reports no error `CodeGenContext::generateCode`; then the optimizer
and the emitter. Each phase that fails ends the process with its own exit code;
the exit code, stderr and the output file are all that a shell or the test
runner sees. The test runner starts one compiler after another, waits for each
at most 30 seconds and kills it then. The two passes share nothing but the tree. The generator
relies on what the analyzer established, and says so in assertions ("Semantic
error leaked into codegen"): this unwritten contract between two passes that
keep separate symbol tables, on different schedules, is the main subject here.

**What is hard.** Inside the compiler there is no concurrency, no persistence
and no network. The hard part is long sequences of legal calls: hand-paired pushes and pops of
scopes, loop counters and loop targets, across early returns of every kind;
sets of assigned names saved, restored and joined around branches; the rest of
a block being dropped by each pass on its own criterion; the insertion point of
the builder, which every nested statement moves; and the differences between
what the analyzer accepts and what the generator can do. Around it there are two
processes, a timeout that races the compiler's end, signals, outputs truncated
before they are written, and an error recovery that goes on with a program
other than the one written. The hazards are listed
one by one, at their lines, in `PROJECT.json`.

**What makes each component correct.**

- *Symbol tables*: one scope per open block, for-statement and function;
  a name means the innermost declaration; a use is booked on that declaration.
- *Analyzer*: its fields agree with the position in the tree; its warnings and
  errors are sound for every run of the program: no run reads a variable that
  holds no value without a warning, leaves a non-void function without a
  return, executes code called unreachable, jumps with no loop around it, or
  reads a variable reported as unused.
- *Generator*: scopes and loop targets agree with the position in the tree;
  each block gets exactly one terminator; the emitted branches take each run
  through exactly the code of the statements it executes.
- *Both*: an accepted program trips no assertion, its functions verify, both
  passes mean the same variables, and both drop the same code.
- *Parser and lexer*: no statement is lost without a report, what is parsed
  is nested as written, and reports are placed where the error is.
- *Driver*: exit code 0 exactly for a complete output, and no output touched
  before the program is accepted.
- *Test runner*: it ends, and a suite passes only for the right reasons.

## 2. The modules

| Module | Lines of | What it is |
|---|---|---|
| `Ast` | `ast.hpp`, `parser.y` | the node shapes, and the depth-first walk both passes make |
| `ScopeStack` | `semantic.cpp`, `codegen.cpp` | a stack of maps with lookup from the inside out |
| `Semantic` | `semantic.hpp`, `semantic.cpp` | the analyzer |
| `SemanticProofs` | | theorems about `Semantic`: types, scopes, loops, the function on the path, sets of assigned names |
| `Execution` | | one run of the source program, the reference |
| `FlowSoundness` | | `Semantic` and `Execution` on one walk |
| `FlowProofs` | | theorems about `FlowSoundness`: the flow of control |
| `VariableProofs` | | theorems about `FlowSoundness`: variables read too early, or reported as unused |
| `Codegen` | `codegen.hpp`, `codegen.cpp` | the generator |
| `CodegenProofs` | | theorems about `Codegen` and `EmittedFlow` |
| `EmittedFlow` | | `Codegen`, `Execution` and the emitted branches followed, on one walk |
| `Compile` | `main.cpp` | `Semantic` and `Codegen` on one walk, in their different orders |
| `Lexer` | `lexer.l` | the counters behind the positions of tokens |
| `Parser` | `parser.y` | statements and error recovery, on the tokens of `Lexer` |
| `ParserProofs` | | theorems about `Parser` and `Lexer` |
| `Compilation` | | what a call of the compiler promises, an abstract specification |
| `Driver` | `main.cpp`, `codegen.cpp` 714-853 | one compiler process, with the emit functions |
| `TestRunner` | `run_tests.py` | a shell or the test runner, together with the processes of `Driver`; refines `Compilation` |
| `SessionProofs` | | theorems about `TestRunner`, `Driver` and `Compilation` |
| `AstLemmas`, `SequenceLemmas` | | lemmas several proofs share: about the walk and the expressions of `Ast`, and about ends, fronts and counted positions of sequences |
| `MC*` | | the programs of the runs |

**The walk.** A tree is not enumerated and then analysed. `cursor` is the path
from the root to the current node, and each step picks the next node from
`Statements`; a behaviour *is* a tree, and all trees with at most `MaxDepth`
open statements, and any number of statements in each block, are covered in one
state space. This works because neither pass looks ahead at children it has
not visited, with one exception: `returnsOnAllPaths` walks a finished body, and
the model computes its result bottom-up in `frames[i].ret` while the body goes
by, counting code the analyzer left out as the C++ function does.
`if` with and without `else`, `for` with each optional part, empty statements
and the null statement left by the parser's error recovery are node shapes.

**Functions with a result.** The shapes are those the actions of the grammar
build, and `function_def` has an action for `int` functions. Bison never gets to
it: with `INT` read and an `IDENTIFIER` ahead it must choose between a type in
front of a function's name (`parser.y` 133) and the declaration of a variable
(164, 168), and it shifts, which is the declaration. So `int f(` is a syntax error at the
parenthesis, also in `README.md` 23 and 160 and in the tests with `int main()`,
and a function that reaches the passes is `void`. Both passes are written for
functions with a result all the same, and the model follows them:
`MissingReturnsAreErrors` and `AddedReturnIsDead` are about `returnsOnAllPaths`
and the generator as they are, for the day the header parses; the other
properties are about scripts and `void` functions as well, and every violation
run ends in a program the parser takes. To `Parser` an `int` header is a bad
token like any other. The conflict itself has no run, since it is one of the
grammar below the statement level.

**`Semantic`.** A compound statement is two steps, the part of `analyzeIf`,
`analyzeFor`, ... before the child and the part after it; what the C++ keeps in
locals in between is the record in `frames`. Correspondence:

| Code | Model |
|---|---|
| `variableScopes`, `functionTable`, `loopDepth`, `insideFunction`, `currentFunctionReturnType`, `definitelyAssigned`, `hasErrors()` | `scopes`, `functionTable`, `loopDepth`, `insideFunction`, `currentFunctionReturnType`, `assigned`, `failed` |
| diagnostics reported by a step | `diags`, of the last step only, by kind and name |
| first pass of `analyze` | `GatherSignatures` |
| `analyzeVarDecl`, `analyzeAssignment`, `analyzeExpr` | operators on an environment, used by `AnalyzeSimple` |
| `analyzeIf` | `EnterIf`, `ElseBranch`, `LeaveIf` |
| `analyzeWhile`, `analyzeFor`, `analyzeBlock`, `analyzeFunctionDef` | `Enter…`, `Leave…` |
| the `terminatorEncountered` cut of a block | `terminated`, `SkipLeaf`, `SkipEnter`, `SkipElse`, `SkipLeave` |

Expressions are trees in the constant `Exprs`; types, uses and diagnostics are
recursive functions over them.

**`Codegen`.** Of the IR it keeps basic blocks, which of them lack a
terminator (`builder.open`), which some branch leads to (`builder.live`), the
insertion point, the LLVM type of each value and whether a value is `nullptr`.
`builder.wrong` records what `verifyFunction` would reject: a second
terminator, an instruction after a terminator, operands or return values of the
wrong type, a use an alloca does not dominate. `stage` ends as `failed` if
verification fails and as `aborted` if an assertion of the code, or one of LLVM
(an integer constant of a pointer type), would stop the compiler. `emitted`
holds the branches of the last step. Blocks are named by natural
numbers; one that nothing refers to any more gives its name back, which keeps
the state finite without a bound on the blocks of a program, and `FreeName` of
`CodegenProofs` shows that `CHOOSE` always finds a new name. The inner blocks of
a logical operator are one block to the model, as control always comes out of
the last one; when its right operand is `nullptr` the code returns before it has
ended its merge block, and the function is marked as wrong.

**`Execution`.** One run of the source program along the same walk: where
control is (`status`), and which variables hold a value (`store`). Conditions
come out either way. When the run goes elsewhere (a branch not taken, the rest
of a block after a `break`) the walk passes through what is not executed. It
has the control flow the generator gives statements; that it has is not assumed
but checked, and proved, in `EmittedFlow`.

**`EmittedFlow`.** The run of `Execution` follows the statements, `pc` the
branches of each step (`Follow`), both with the same outcome of each condition;
`exits` holds where a loop leads when its condition is false. Programs without a
value for some expression (`HasValues`: a call of a function the generator has
not come to) are left out, as the generator drops what needs the value, and so
is code in front of an explicit `main` (`Flowing`), for which the builder has no
end of a block to go on at.

**`Compile`.** The analyzer takes functions and statements in the order of the
source, the generator takes all functions first. Top-level statements between
functions are analysed when the walk comes to them and put on `waiting`;
`GenerateWaiting` generates them once the functions are done, and from there on
both passes are again at the same statement. `Hidden` are the globals the
analyzer knows and the generator does not yet. What needs a value the generator
does not have is left out, as in the code: a call of a function further down
prints "Unknown function", the statement, branch or loop around it is dropped,
and the compiler goes on to exit code 0. `OnlyForwardCallsAreLeftOut` bounds this
to just these calls.

**`Lexer` and `Parser`.** A lexeme is what one rule of the scanner matches: its
length, its newlines and what follows the last of them; the text is not known in
advance but chosen token by token. `yylineno` and `yycolumn` are counted as the
actions count them, `row` and `column` as a reader would. `stack` is Bison's
stack cut down to the phrases begun. `Reduced` is the chain of reductions a
complete statement sets off before the next token is shifted, `DropPhrase` is
what Bison pops when it looks for a state that can shift `error`, and `Discard`
drops input up to the semicolon. In a state that can shift `error` Bison uses no
default reduction, so a bad token is noticed before the list in front of it is
closed. `nulls` counts the `$$ = nullptr` of `error ';'`.

**`Driver`, `TestRunner`, `Compilation`.** A process is `opts`, its `phase`, what
it has written to stdout, stderr and `files`, and its exit status as the parent
sees it, negative for a signal. What a phase finds out about the program is left
open: each step takes every way out the code has, so the properties hold whatever
the program is. Arguments are records of the option and of what they say as a
path, since `-o` takes whatever comes next. `Generate` may succeed with and without
a call left out. Code is printed to stdout in two steps like code written to a
file, so that a signal, which may come at any moment (`Killed`), finds a part of it there.
`TestRunner` starts a compiler by hand or as `run_compiler` does; `Collect` and
`Timeout` race, and an exception that `run_compiler` does not catch
(`PermissionError`, output that is not text) ends the runner with status 1
(`UncaughtException`). `KeepsPromise` maps a process to `Compilation`: its phases
up to the analysis are `running`, from the generator on `accepted`, and the
output is `old`, `broken` or `new`. `new` means that all the code generated is
there, which may be less than the program, as said above.

## 3. The runs

Each cfg gives constants their values and replaces no definition. The passing
runs visit between 150,000 and 620,000 distinct states each. `flow` and `compile`
take several classes of programs, as records in the constant `Classes`: the
statements and functions a program of the class may contain, its depth, and the
flags below.

| Run | Checks | Shows |
|---|---|---|
| `semantic` | `TypeOK`, `ScopesMatchPath`, `LoopDepthMatchesPath`, `InsideFunctionMatchesPath`, `BeforeStaysAssigned`, `MisplacedJumpsReported` | the analyzer's state agrees with the path, erroneous programs included |
| `flow` | `WarnedWithoutReuse`, `MissingReturnsAreErrors`, `UnreachableIsNotRun`, `StrayJumpsAreErrors`, `UnusedIsNeverRead`, types | the analyzer's verdicts are sound for every run: control flow over one variable, also for functions called before globals are assigned, and two variables shadowing each other |
| `codegen` | `GenTypeOK`, `ScopesMatch`, `LoopStackMatches`, `OneOpenBlock` | the generator's bookkeeping, on rejected programs too and with loops abandoned half-way |
| `emitted_flow` | `RunIsAtBuilder`, `CodeRunExactly` | the emitted control flow is that of the source |
| `compile` | `OnlyHiddenGlobalsAbort`, `AcceptedCodeVerifies`, `SymbolTablesAgree`, `UnanalysedIsNotGenerated`, `OnlyForwardCallsAreLeftOut`, `AddedReturnIsDead` | accepted scripts and functions compile, with globals before and between functions; the only assertion that fails is one about a hidden global, the only code left out is a call, in a function, of one defined further down, and the `return 0` the generator adds is dead code |
| `parser` | `NothingDroppedSilently`, `NestingAsWritten`, `ErrorsArePlaced`, types | with up to two syntax errors, every dropped statement has been reported, and nesting changes only by discarded braces |
| `session` | `KeepsPromise`, `CallsEnd`, `SuiteEnds`, `GreenSuite`, `RejectedForItsReason`, `OnlySurvivedErrorsSucceed`, `StdoutIsCode`, `SuiteWritesNothing`, types | every command line of three arguments and suites of two tests, with compilers that fail, crash, hang and are killed |

Five runs end in a violation on purpose; each is a place where the code does
something other than its documents or comments say.

| Run | Violates | Smallest program |
|---|---|---|
| `flow_reuse` | `UninitializedReadsAreWarned` | `{ int x = 1; } { int x; x; }`: `definitelyAssigned` holds names, not variables |
| `flow_increment` | `UninitializedReadsAreWarned` | `int x; for (; ; x = 1) x;`: the increment is analysed before the body |
| `compile_forward` | `AssertionsHold` | `void f(void x) { x = g(); } void g() {}`: accepted through the first pass, unknown to the generator |
| `compile_types` | `AcceptedCodeVerifies` | `(x < 1) == (x && 1)`: `bool` twice, but `i1` and `i32` |
| `compile_main` | `PrependedInFront` | `if (1) ..` and a `void main() {}`: the builder leaves the front of `main` |

`UnanalysedIsNotGenerated` holds in one direction only: what the analyzer leaves
out the generator leaves out too. The generator also drops code the analyzer
has not warned about, after a return inside a nested block
(`{ { return 1; } x = 1; }`) and after a `return` at top level.

### Bounds, and why they are enough

- *Depth* (`MaxDepth`, 1 to 4): three open statements hold every ordered pair
  and triple of block, `if`, loop and function nested in each other; the state
  of both passes is a stack with one entry per open statement, and a step reads
  the top entry and changes at most its neighbour. Width is not bounded.
- *Waiting statements* (`MaxWaiting` = 2): a declaration and a use of it, and two
  declarations, between two functions.
- *Syntax errors* (`MaxErrors` = 2, `MaxNesting` = 4, two lines of up to
  `MaxColumn` = 7 columns): an error, its recovery, and another after it or while
  it is going on, in every statement position; lexemes are one to five long.
- *Arguments* (`MaxArgs` = 3, eleven kinds): a source, and an option with its
  value or two options, in every order.
- *Suites*: the empty one and three of two tests, which together have each kind,
  with and without `EXPECT` lines. The runner keeps nothing between two tests but
  results.
- *Names*: one variable suffices for control flow, as the sets of names are
  handled name by name; two show shadowing and confusion between names.
- *Loops run once* (`Execution`): a further iteration starts with at least as
  many variables initialized and at the same place, so it reads no
  uninitialized variable, and reaches no end, that one iteration does not.
  `EmittedFlow` checks that the branch back goes to the condition, and from
  there out of the loop, and it is proved without a bound.
- *A function is run once, where it is defined,* for a call at a moment when no
  global holds a value, the worst case for what it reads.
- *Branches per step* (`MaxBranches` = 4 in `EmittedFlow`): the end of a
  for-statement with a logical operator in its increment takes three, the others
  fewer; the proofs show that no step takes more.
- *After an error* (`FlowSoundness`, `Compile`): the walk stops, since
  `hasErrors()` never becomes false again and `main` compiles nothing.

Four flags of the classes leave out programs for which the code is known to
fail its promise, so that the promise can be checked on the rest; for the first
two a violation run shows the failure. `reuse = FALSE`: each name is declared
once. `incAssigns = FALSE`: a for-increment is not the first to assign its
variable. `bareDeclaration = FALSE`: a declaration is not a branch or loop body
by itself; with TRUE, `while (1) int x; x = x;` is accepted by the analyzer,
but the alloca does not dominate the later use and `verifyFunction` rejects it.
`bareReturn = FALSE`: no return without a value stands outside a function, and
none of the programs returns a string there: `analyzeReturn` checks neither
outside a function, so `return;` and `return "s";` are accepted, and `main`, which
returns an `i32`, fails to verify.
A function body that uses a global declared further up is accepted and trips an
assertion of the generator; these programs are in the run, and
`OnlyHiddenGlobalsAbort` says that nothing else does.

### Fairness

Each pass is one terminating recursion over a finite tree; there is no scheduler
and nothing to wait for. For them all properties are invariants or properties of
single steps.

`SessionSpec` assumes weak fairness of two things. A compiler started from a
shell takes its next step: it is one thread that waits for nobody and whose
loops are over the arguments, the text and the tree (`ReadOption` must consume an
argument, or `CallsEnd` fails). The test runner takes its next step: it is one
thread too, and the clock of `subprocess.run` goes on while it waits. Nothing is
assumed of the compilers the runner starts, which may hang in any phase, nor of
signals. TLC cannot evaluate fairness through the refinement mapping, so
`Compilation` has its safety part, checked as `KeepsPromise`, and its liveness
`Ends` as a leads-to, checked as `CallsEnd`.

## 4. What is proved

All theorems hold for every value of the constants that satisfies the
assumptions below, so for programs, texts, command lines and suites of any size.

| Assumption | Says |
|---|---|
| `AstAssumption` | statements and functions have the shapes the grammar's actions build, functions with a result included; `MaxDepth` is a natural number |
| `ExprAssumption` | expressions are finite trees: their operands are expressions, and among any of them is one none of whose operands is among them |
| `ClassAssumption` | a class of programs is made of such statements, functions and depths |
| `LexemeAssumption`, `ParserAssumption` | a lexeme has a kind, a length of at least one and its newlines, and gives at most one token |
| `DriverAssumption`, `RunnerAssumption` | arguments are made of an option and a text; a test is a source file the compiler can be given |

Each theorem follows from an inductive invariant: `Init` implies it, every step
keeps it (one lemma per action, from lemmas about the operators of the step),
and it implies the property.

### Analyzer (`SemanticProofs`)

| Theorem | States |
|---|---|
| `Balance` | `IInv` always holds |
| `TypeCorrect` | `TypeOK` |
| `ScopesBalanced` | `ScopesMatchPath`: `exitScope` never meets the global scope, and the scope stack is as deep as the path says |
| `LoopDepthBalanced` | `LoopDepthMatchesPath` |
| `JumpsReported` | `MisplacedJumpsReported`: a `break` or `continue` is reported exactly when no loop is open around it |
| `PathInvariant` | `PathInv` always holds |
| `FunctionIsPaths` | `InsideFunctionMatchesPath` |
| `RestoringIsSound` | `BeforeStaysAssigned`: what was assigned before a branch or loop is assigned after it |

`IInv` is `TypeOK /\ ScopesMatchPath /\ LoopDepthMatchesPath`. No part is
inductive alone: that `loopDepth` stays a natural number needs its being a
count, and that the scope stack is not empty when a declaration reads its top
needs its depth; both counts need the path and the records to be aligned, which
is part of `TypeOK`. The steps fall into three shapes:

1. a leaf leaves path and counts alone (`LeafStep`);
2. entering a statement puts one entry on the path, and one scope or one loop
   on the count if its kind has one (`EnterStep`);
3. leaving takes the same away (`LeaveStep`).

`MoreCount` says what one more entry does to the count, and serves 2 and, read
backwards, 3. `JumpsReported` needs one more lemma, about the walk's own marks:
what stands in a statement marked as skipped is marked too (`SkippedBelow`). The
count is of loops *under analysis*, and an analysed jump has no skipped statement
above it, so the loops counted are all the loops on the path.

`PathInv` adds the shape of the walk (`Walk`: a function is at the bottom of the
path and nowhere else, `slot`s fit their statements), which `insideFunction`
needs, and `BeforeGrows`: the sets saved by the statements on the path grow from
outside in. Without it `BeforeStaysAssigned` is not inductive: leaving an inner
loop restores what the inner one saved, and the outer one's names must be in it.

### Analyzer and run: control (`FlowProofs`)

| Theorem | States |
|---|---|
| `FlowIsAnalysis` | `FlowSpec => Spec`: next to a run the analyzer takes only steps of its own, so all theorems above hold here too |
| `RunBalance` | `RunInv`: the run's stacks are as deep as the path says |
| `FlowTypes` | `FlowTypeOK` |
| `FlowAgreement` | `FlowInv` always holds |
| `UnreachableIsDead` | `UnreachableIsNotRun`: code called unreachable, or left out, is never executed |
| `StrayJumpsFail` | `StrayJumpsAreErrors`: a program in which a run jumps with no loop around it is rejected |
| `MissingReturnsFail` | `MissingReturnsAreErrors`: a program in which a run leaves a non-void function without a return is rejected |

`FlowInv` relates two stacks entry by entry: the records of `analyzeBlock`,
`analyzeIf` and `returnsOnAllPaths`, and what the run has parked at the same
statements. A block is `Dead` once the analyzer has ended its list or found that
it returns. `Stopped` says that the run is not alive in a dead block and that no
statement inside it has a live run parked, so that none comes out of it;
`Returned` says that a statement found to return on all paths leaves no live run
behind, nor does a branch that does; `Static` ties skipped statements to the
block that was left off. The three hold each other up: a dead block stays dead
over an inner `if` only because of what the `if` has parked, and an `if` returns
only because both of its branches did. Every step stays (`AgreeStays`), opens
(`AgreePushes`), closes (`AgreePops`) or goes over to the other branch
(`AgreeSwaps`).

### Analyzer and run: variables (`VariableProofs`)

| Theorem | States |
|---|---|
| `VariablesAgree` | `VarInv /\ ReportInv` always holds |
| `UnusedNeverRead` | `UnusedIsNeverRead`: no run of an accepted program reads a variable reported as unused |
| `EarlyReadsWarned` | `WarnedWithoutReuse`: where a run of an accepted program reads a variable that holds no value there is a warning, if each name is declared once and for-increments assign only what was assigned before |

The last two compare the variables the analyzer marks in an expression with those
a run reads of it, so they need induction over expressions. `Recursion` in
`AstLemmas` gives it: by `ExprAssumption`, each function on `Exprs` whose value
depends on its values at the operands exists, so that `VarsOf` (`VarsInIs`) and
`Reached` (`ReachedIs`) are what their recursive definitions say.
`VarsAreReached` then compares them; where the analyzer looks no further, below
the call of an undeclared function, it has reported an error.

`VarInv` relates the data of the two, as long as the program is not rejected:

- `Levels`: the symbol table and the store of the run have the same scopes with
  the same names, and what the run has read is marked as used. Where a block
  is cut off the analyzer no longer declares, and only the scopes around it
  count. `UnusedNeverRead` follows, as a scope is checked when both leave it.
- `Tracked`: what `definitelyAssigned` holds has a value, if the run is alive at
  this place. It is only promised for programs that are `Strict`, with a name
  for each variable and no first assignment in a for-increment; the violation
  runs `flow_reuse` and `flow_increment` show that it fails for the others.
- `Saved`, `Among`: the sets the frames keep hold values too, wherever a run
  parked at that statement may go on. Restoring the set from before a branch
  or loop, or meeting the sets of both branches, keeps `Tracked` for this
  reason, and because no step takes a value away (`Persists`).

The steps are split as before, one lemma per action; `Base` collects the
invariants of the sections above they rest on. That a skipped branch does not
meet the run, that an `if` which returns leaves no live run and the sets grow
from outside in are needed again here.

### Generator (`CodegenProofs`)

| Theorem | States |
|---|---|
| `GenInvariant` | `GenInv` always holds |
| `GenTypes` | `GenTypeOK` |
| `ScopesStayMatched` | `ScopesMatch`: allocas and symbol table are one scope deep per open block, for-statement and function, on every way out of a statement |
| `LoopsStayMatched` | `LoopStackMatches`: a `break` or `continue` finds the targets of its own loop |
| `BlocksAreLeftTerminated` | `OneOpenBlock`: unless the function is wrong already, no block is left without a terminator but the one at the insertion point and those still to come |

All of this holds of rejected programs too. `GenInv` needs three parts that no
run's property states: `BlocksExist`, every statement under way has the blocks
it goes on to; `BlocksDiffer`, no two of them go on to the same block, without
which inserting one block could end another; and `Openness`, at most the current
block is open, and it is none of those to come. That names of blocks are
recycled makes this a real obligation: `FreeName` and `NewBlocksDiffer` show, by
counting, that new blocks differ from each other and from all in use.

### Generator and run: the emitted branches (`CodegenProofs`)

| Theorem | States |
|---|---|
| `FlowIsGeneration` | `FlowSpec => GenSpec`: next to a run the generator takes only steps of its own |
| `BranchesFollowTheRun` | `RunIsAtBuilder`: the emitted branches take each run to the insertion point exactly when the run is at the statement generated there |
| `CodeFollowsTheRun` | `CodeRunExactly`, an action property: the code a step emits is executed by exactly the runs that execute the statement |

`RunIsAtBuilder` speaks of the insertion point alone and is not inductive: where
a run comes back, at a merge block, the end of a loop or an increment, depends
on where control has waited meanwhile. `EmitInv` says so for each open statement:

- `Agrees`: a run that is `live` is at the insertion point; one that has
  returned is nowhere; one that is to leave or continue a loop waits at
  that jump's target of the innermost loop (`JumpTarget`); one parked at a
  statement waits where the part it does not take is left (`Untaken`), or, parked
  as one of the others, where those wait.
- `Apart`: the blocks an open statement goes on to are not the current one if
  that is open, and no two statements share one. So a step moves control only if
  it is at the insertion point, and waiting control is met by its own statement.
- `Orderly`: statements are left out only behind a terminator, and where one is
  due the builder is at the end of an open block.

A step is a composition of operators on the generator. `On` says what holds
between two of them, `Goes` how many branches one adds (an expression with
logical operators and a block begun add one each), `From` and `Through` that following them leads to
the insertion point and past the code added. As at most three are taken, the
recursive functions `Follow` and `Visited`, whose exponent is fixed, can be
computed (`Lead`). `CodeFollowsTheRun` also needs that a step adds neither code
nor branches to a block where control waits; at the end of a for-statement,
control is at the increment exactly for the runs that have come through the body
or continued (`IncrementIsDue`).

### Parser and lexer (`ParserProofs`)

| Theorem | States |
|---|---|
| `ParserInvariant` | the inductive invariant always holds |
| `ParseTypes` | `ParseTypeOK` |
| `EveryLossIsReported` | `NothingDroppedSilently`: each statement recovery drops has been reported |
| `NestingIsWritten` | `NestingAsWritten`: nesting is as written, but for braces that were discarded |
| `ErrorsAreAtTokens` | `ErrorsArePlaced`: a report is at the line and column of its token, unless a lexeme of several lines precedes it on its line |

The invariant adds `StackInv` to the properties: only the last phrase on the
stack may be one without children, and none is when a statement has just been
completed. Both counts of open lists and of dropped statements rest on it, as
`Reduced` and `DropPhrase` cut the stack back at different places. `PlaceInv`
says that the scanner's line is always right and its column until a lexeme of
several lines ends on that line.

### Driver and test runner (`SessionProofs`)

| Theorem | States |
|---|---|
| `PromiseKept` | `KeepsPromise`: a session refines `Compilation`, initial states to initial states and every step to a step or a stutter |
| `Agreement` | the inductive invariant always holds |
| `SessionTypes` | `SessionTypeOK` |
| `ErrorsFail` | `OnlySurvivedErrorsSucceed`: after an error and exit code 0 there was a recovered syntax error or a call left out, nothing else |
| `CleanStdout` | `StdoutIsCode` |
| `GreenIsGreen` | `GreenSuite` |
| `RejectionsAreReal` | `RejectedForItsReason` |
| `SuitesAreHarmless` | `SuiteWritesNothing`, an action property |

`ProcessInv` and `OutputInv` say what a process in each phase may have written
and what an exit status means; they are what the refinement needs, where a step
of the promise must know that an untouched output is still the old one.
`SuiteProcess` says that the runner starts compilers without options, so their
output is stdout. `VerdictsInv` carries what was known of a process when its
result was collected over to the end of the suite, when the process is gone.

### Checked by TLC only

- *Liveness*: `CallsEnd`, `SuiteEnds`. Fairness and `ENABLED` are beyond the prover.
- *What the generator makes of expressions*: `OnlyHiddenGlobalsAbort` and
  `AcceptedCodeVerifies` relate the analyzer's types of an expression to LLVM's.
  The induction over expressions is there (`Recursion`), the induction for
  `codegenExpr` is not; the proofs use no more of it than the sets its values are
  in. Both properties are about the classes of programs of the runs and fail
  outside them (`compile_forward`, `compile_types`).
- *The two passes together*: `SymbolTablesAgree`, `UnanalysedIsNotGenerated`,
  `OnlyForwardCallsAreLeftOut`, `AddedReturnIsDead`. They do not all hold
  of all programs: the analyzer cuts a block off after `return g();`, but with
  `g` defined further down the generator has no value to return, emits no `ret`,
  and goes on. A proof has to start from the classes, and the theorems about
  each pass would have to be reached through the instances of the modules in
  `Compile`, from where the prover imports none.

## 5. What is not modelled

- *Wording, lines and columns* of semantic diagnostics. Two diagnostics of one
  kind about one name in one step are one. The texts an `EXPECT` line may ask for
  are told apart by the phase they come from. The words "semantic error" come from two:
  the assertions of the generator print them, and `run_tests.py` 172 ignores case.
  `RejectedForItsReason` is about texts of the analyzer's own, such as
  "undeclared".
- *Values*: arithmetic, contents of strings and memory; an initializer without
  a value leaves its variable unwritten, which would be undefined to read.
- *Tokens within a phrase*: expressions and their precedence, declarations,
  headers. An error inside one is a bad token where the statement begins, which
  is where Bison goes back to.
- *Characters*: which of them make up a token, escapes in strings, and `atoi`,
  which is undefined for an integer literal out of range.
- *LLVM*: what the optimization passes do to the module, and how it is printed.
  A write to stdout that fails is left out as well.
- *`print()` of the AST* and the rest of `ast.cpp`: constructors, destructors and
  the double dispatch back into the generator; nothing calls `print()`.
- *The output of the test runner*, and its scan for `EXPECT` lines, which reads 31
  lines where its comment says 30. A warning test without such a line passes with
  or without a warning.

## 6. Plan

Done: all modules of section 2, and the proofs of section 4.

Next, in this order:

1. An assumption on classes that excludes calls of functions defined further
   down and comparisons of `bool`; under it, induction over expressions for
   `codegenExpr`, and the invariant that relates the analyzer's records to the
   generator's, for `UnanalysedIsNotGenerated` and `SymbolTablesAgree`.
2. Expression types: all operators, and top-level returns of a string, of
   nothing and of a comparison.
3. An abstract structured-control-flow specification refined by `EmittedFlow`.
