------------------------------- MODULE Execution -------------------------------
(***************************************************************************)
(* One run of a MiniLang program, at the level of its statements: where    *)
(* control goes and which variables hold a value.  It is the reference the *)
(* passes are compared with: the statements have the control flow that     *)
(* src/codegen.cpp gives them, conditions come out either way, and a call  *)
(* changes no variable of the caller.                                      *)
(*                                                                         *)
(* The run follows the walk over the tree.  Where the run goes elsewhere   *)
(* (a branch not taken, the rest of a block after a break) the walk passes *)
(* through statements the run does not execute.  A loop runs its body at   *)
(* most once: a further iteration starts from a store with more variables  *)
(* initialized, so it reads no uninitialized variable the first does not.  *)
(* A function body is run when it is defined, for a call at a moment when  *)
(* no global variable has been assigned.                                   *)
(***************************************************************************)
EXTENDS Ast, ScopeStack

VARIABLES
  status,  \* "live", or why the run is not at the current statement
  runs,    \* what resumes after each open statement
  store,   \* the scopes of the run: name -> [init, read]
  obs      \* what the last step of the run did

runVars == <<status, runs, store, obs>>

Statuses == {"live", "skipped", "broke", "continued", "returned"}

Variables == UNION {[D -> [init : BOOLEAN, read : BOOLEAN]] : D \in SUBSET Name}

\* parked: the status of the run while the walk is in a part the run does not
\* take; globals: the initialized globals at a function's definition.
Runs == [parked : Statuses \cup {"none"}, globals : SUBSET Name]

\* uninit: variables read before they were given a value; closed: variables
\* of the scopes that ended that were read; end: the run reached the end of a
\* function that owes a value; stray: it jumped with no loop around it.
Quiet == [uninit |-> {}, closed |-> {}, end |-> FALSE, stray |-> FALSE]

RunTypeOK ==
  /\ status \in Statuses
  /\ runs \in Seq(Runs)
  /\ store \in Seq(Variables)
  /\ obs \in [uninit : SUBSET Name, closed : SUBSET Name,
              end : BOOLEAN, stray : BOOLEAN]

--------------------------------------------------------------------------------
(***************************************************************************)
(* Statements without control flow, on an environment [store, uninit].     *)
(***************************************************************************)
Memory == [store |-> store, uninit |-> {}]

\* Every operand is read; a short-circuit operator may read fewer.
Read(m, xs) ==
  LET names == {n \in VarsOf(xs) : Bound(m.store, n)}
  IN [store |-> [i \in DOMAIN m.store |->
                   [n \in DOMAIN m.store[i] |->
                      [m.store[i][n] EXCEPT
                         !.read = @ \/ (n \in names /\ i = Innermost(m.store, n))]]],
      uninit |-> m.uninit \cup {n \in names : ~Find(m.store, n).init}]

Write(m, n) ==
  [m EXCEPT !.store =
     [i \in DOMAIN @ |->
        [k \in DOMAIN @[i] |->
           IF k = n /\ i = Innermost(@, n) THEN [@[i][k] EXCEPT !.init = TRUE]
           ELSE @[i][k]]]]

\* A declaration takes effect in its scope whether or not the run executes it.
DeclareIn(m, n) ==
  IF n.kind # "decl" \/ n.name \in DOMAIN Last(m.store) THEN m
  ELSE [m EXCEPT !.store = Bind(@, n.name, [init |-> FALSE, read |-> FALSE])]

Execute(m, n) ==
  CASE n.kind = "decl" ->
         LET d == Read(DeclareIn(m, n), n.expr)
         IN IF n.expr = <<>> THEN d ELSE Write(d, n.name)
    [] n.kind = "assign" -> Write(Read(m, <<n.expr>>), n.name)
    [] n.kind = "expr"   -> Read(m, <<n.expr>>)

Simple(m, n) == IF status = "live" THEN Execute(m, n) ELSE DeclareIn(m, n)

OnOptional(Op(_, _), m, ns) == IF ns = <<>> THEN m ELSE Op(m, ns[1])

\* The header of a for-statement in its own scope.  The reads of the increment
\* count here, before the body has run.
Header(m, n) ==
  LET init == OnOptional(Simple, [m EXCEPT !.store = Append(@, EmptyScope)], n.init)
      inc == IF n.inc = <<>> THEN <<>>
             ELSE <<n.inc[1].expr>>
  IN IF status = "live" THEN Read(init, n.cond \o inc) ELSE init

\* The increment runs when the body ends normally or in a continue.
Increment(m, n) ==
  IF n.inc # <<>> /\ n.inc[1].kind = "assign" THEN Write(m, n.inc[1].name) ELSE m

Remember(m, closed, end, stray) ==
  /\ store' = m.store
  /\ obs' = [uninit |-> m.uninit, closed |-> closed, end |-> end, stray |-> stray]

ReadIn(scope) == {n \in DOMAIN scope : scope[n].read}

--------------------------------------------------------------------------------
(***************************************************************************)
(* Steps of the run, one per visit of the walk.                            *)
(***************************************************************************)
RunSimple(n) ==
  /\ n.kind \in SimpleKinds
  /\ VisitLeaf(n)
  /\ Remember(Simple(Memory, n), {}, FALSE, FALSE)
  /\ UNCHANGED <<status, runs>>

JumpStatus == [ret |-> "returned", break |-> "broke", continue |-> "continued"]

RunJump(n) ==
  /\ n.kind \in JumpKinds
  /\ VisitLeaf(n)
  /\ status' = IF status = "live" THEN JumpStatus[n.kind] ELSE status
  /\ Remember(IF n.kind = "ret" /\ status = "live" THEN Read(Memory, n.expr)
              ELSE Memory,
              {}, FALSE, status = "live" /\ n.kind # "ret" /\ ~InLoop)
  /\ UNCHANGED runs

RunNull(n) ==
  /\ n.kind = "null"
  /\ VisitLeaf(n)
  /\ obs' = Quiet
  /\ UNCHANGED <<status, runs, store>>

RunBlock(n) ==
  /\ n.kind = "block"
  /\ Open(n)
  /\ runs' = Append(runs, [parked |-> "none", globals |-> {}])
  /\ Remember([Memory EXCEPT !.store = Append(@, EmptyScope)], {}, FALSE, FALSE)
  /\ UNCHANGED status

\* A condition comes out either way; a run that is not there parks.
Branch(n, m) ==
  \E taken \in {b \in BOOLEAN : b => status = "live"} :
    /\ Open(n)
    /\ status' = IF taken THEN "live" ELSE "skipped"
    /\ runs' = Append(runs, [parked |-> IF taken THEN "none" ELSE status,
                             globals |-> {}])
    /\ Remember(m, {}, FALSE, FALSE)

RunCondition(n) ==
  /\ n.kind \in {"if", "while"}
  /\ Branch(n, IF status = "live" THEN Read(Memory, <<n.cond>>) ELSE Memory)

\* Without a condition the body is entered.
RunFor(n) ==
  /\ n.kind = "for"
  /\ Branch(n, Header(Memory, n))
  /\ n.cond = <<>> /\ status = "live" => status' = "live"

Parked == Last(runs).parked

\* The run goes on after the then branch, or starts on the else branch.
RunElse ==
  /\ OpenElse
  /\ status' = IF Parked = "none" THEN "skipped" ELSE Parked
  /\ runs' = [runs EXCEPT ![Len(runs)].parked =
                IF Parked = "none" THEN status ELSE "none"]
  /\ obs' = Quiet
  /\ UNCHANGED store

RunFunction(f) ==
  LET initialized == {n \in Name : n \in DOMAIN store[1] /\ store[1][n].init}
      called == [i \in DOMAIN store |->
                   [n \in DOMAIN store[i] |-> [store[i][n] EXCEPT !.init = FALSE]]]
      params == [n \in {f.params[i].name : i \in DOMAIN f.params} |->
                   [init |-> TRUE, read |-> FALSE]]
  IN /\ OpenFunction(f)
     /\ status' = "live"
     /\ runs' = Append(runs, [parked |-> status, globals |-> initialized])
     /\ Remember([Memory EXCEPT !.store = Append(called, params)],
                 {}, FALSE, FALSE)

Resume(kind, after) ==
  /\ Close(kind)
  /\ runs' = Front(runs)
  /\ status' = IF Parked # "none" THEN Parked ELSE after

RunEndBlock ==
  /\ Resume("block", status)
  /\ Remember([Memory EXCEPT !.store = Front(@)], ReadIn(Last(store)), FALSE, FALSE)

RunEndIf ==
  /\ Resume("if", status)
  /\ obs' = Quiet
  /\ UNCHANGED store

\* A break or continue of the body ends at its loop.
AfterLoop == IF status \in {"broke", "continued"} THEN "live" ELSE status

RunEndWhile ==
  /\ Resume("while", AfterLoop)
  /\ obs' = Quiet
  /\ UNCHANGED store

RunEndFor ==
  /\ Resume("for", AfterLoop)
  /\ LET m == IF Parked = "none" /\ status \in {"live", "continued"}
              THEN Increment(Memory, Last(cursor).node) ELSE Memory
     IN Remember([m EXCEPT !.store = Front(@)], ReadIn(Last(store)), FALSE, FALSE)

\* main is exempt: the code generator lets it return 0.
OwesValue(f) == f.ret # "void" /\ f.name # "main"

RunEndFunction ==
  LET globals == [n \in DOMAIN store[1] |->
                    [store[1][n] EXCEPT !.init = n \in Last(runs).globals]]
  IN /\ Close("func")
     /\ runs' = Front(runs)
     /\ status' = Parked
     /\ Remember([Memory EXCEPT !.store = <<globals>>],
                 ReadIn(Last(store)),
                 status = "live" /\ OwesValue(Last(cursor).node), FALSE)

RunEndProgram ==
  /\ cursor = <<>>
  /\ pending = <<>>
  /\ Remember(Memory, ReadIn(store[1]), FALSE, FALSE)
  /\ UNCHANGED <<treeVars, status, runs>>

RunInit ==
  /\ status = "live"
  /\ runs = <<>>
  /\ store = <<EmptyScope>>
  /\ obs = Quiet
================================================================================
