------------------------------ MODULE EmittedFlow ------------------------------
(***************************************************************************)
(* The blocks the code generator builds compared with the control flow of  *)
(* the source program.  `pc' follows the emitted branches, the run of      *)
(* Execution follows the statements; both take the same outcome of each    *)
(* condition.  They agree if pc is at the insertion point exactly when the *)
(* run is at the statement generated there.                                *)
(***************************************************************************)
EXTENDS Codegen

VARIABLES
  status, runs, store, obs,   \* the run, see Execution
  pc,      \* the block control has come to in the code emitted so far, or 0
           \* after a return
  exits    \* per open statement: where its condition leads when it is false

Run == INSTANCE Execution

flowVars == <<treeVars, genVars, status, runs, store, obs, pc, exits>>

--------------------------------------------------------------------------------
\* The block after `from': edges with two targets go the way of `outcome'.
Successor(edges, from, outcome) ==
  IF from \notin DOMAIN edges THEN from
  ELSE CASE edges[from] = <<>>    -> 0
         [] Len(edges[from]) = 1  -> edges[from][1]
         [] Len(edges[from]) = 2  -> edges[from][outcome]

\* Bound: branches a run takes within one step of the generator; the end of a
\* for-statement takes the branch to the increment and the one back.
MaxBranches == 4

Follow(edges, from, outcome) ==
  LET F[k \in 0 .. MaxBranches] ==
        IF k = 0 THEN from ELSE Successor(edges, F[k - 1], outcome)
  IN F[MaxBranches]

\* The blocks passed up to the next condition.
Passed(edges, bs) ==
  bs \cup {edges[b][1] : b \in {c \in bs \cap DOMAIN edges : Len(edges[c]) = 1}}

Visited(edges, from) ==
  LET F[k \in 0 .. MaxBranches] ==
        IF k = 0 THEN {from} ELSE Passed(edges, F[k - 1])
  IN F[MaxBranches]

\* Programs considered: every expression has a value.  The generator reports a
\* call of a function it has not come to, and leaves out what needs its value.
ExprHasValue(e) == codegenExpr[e].type # "none"

SimpleHasValue(n) ==
  IF n.kind = "decl" THEN \A i \in DOMAIN n.expr : ExprHasValue(n.expr[i])
                     ELSE ExprHasValue(n.expr)

HasValues(n) ==
  /\ n.kind \in SimpleKinds => SimpleHasValue(n)
  /\ n.kind \in {"if", "while"} => ExprHasValue(n.cond)
  /\ n.kind = "ret" => \A i \in DOMAIN n.expr : ExprHasValue(n.expr[i])
  /\ n.kind = "for" => /\ \A i \in DOMAIN n.cond : ExprHasValue(n.cond[i])
                       /\ \A i \in DOMAIN n.init : SimpleHasValue(n.init[i])
                       /\ \A i \in DOMAIN n.inc : SimpleHasValue(n.inc[i])

Onwards(outcome) == pc' = Follow(emitted'.edges, pc, outcome)

--------------------------------------------------------------------------------
FlowInit ==
  /\ TreeInit
  /\ GenInit
  /\ Run!RunInit
  /\ pc = builder.at
  /\ exits = <<>>

FlowLeaf(n) ==
  /\ HasValues(n)
  /\ Leaf(n)
  /\ Run!RunSimple(n) \/ Run!RunJump(n) \/ Run!RunNull(n)
  /\ Onwards(1)
  /\ UNCHANGED exits

FlowDown(n) ==
  /\ HasValues(n)
  /\ Down(n)
  /\ Run!RunBlock(n) \/ Run!RunCondition(n) \/ Run!RunFor(n)
  /\ Onwards(IF status' = "live" THEN 1 ELSE 2)
  /\ exits' = Append(exits, IF Last(locals').again = 0 THEN 0
                            ELSE Follow(emitted'.edges, Last(locals').again, 2))

\* Back at the condition of a loop the run leaves the loop.
FlowUp ==
  /\ Up
  /\ Run!RunEndBlock \/ Run!RunEndIf \/ Run!RunEndWhile \/ Run!RunEndFor
  /\ LET next == Follow(emitted'.edges, pc, 1)
     IN pc' = IF next # 0 /\ next = Local.again THEN Last(exits) ELSE next
  /\ exits' = Front(exits)

FlowElse ==
  /\ ElseBranch \/ SkipElse
  /\ Run!RunElse
  /\ Onwards(1)
  /\ UNCHANGED exits

FlowFunction(f) ==
  /\ EnterFunction(f)
  /\ Run!RunFunction(f)
  /\ pc' = builder'.at
  /\ exits' = Append(exits, 0)

FlowEndFunction ==
  /\ LeaveFunction
  /\ Run!RunEndFunction
  /\ pc' = builder'.at
  /\ exits' = Front(exits)

FlowNext ==
  \/ \E n \in Statements : FlowLeaf(n) \/ FlowDown(n)
  \/ pending # <<>> /\ FlowFunction(Head(pending))
  \/ FlowElse
  \/ FlowUp
  \/ FlowEndFunction
  \/ StartMain /\ pc' = builder'.at /\ UNCHANGED <<status, runs, store, obs, exits>>
  \/ FinishMain /\ Run!RunEndProgram /\ Onwards(1) /\ UNCHANGED exits
  \/ stage \notin Generating /\ UNCHANGED flowVars

FlowSpec == FlowInit /\ [][FlowNext]_flowVars
--------------------------------------------------------------------------------
(***************************************************************************)
(* Properties.                                                             *)
(***************************************************************************)
\* In front of an explicit main the builder has no end of a block to go on at.
Flowing == stage \in {"functions", "main"}

\* Control in the emitted code is at the insertion point exactly when the run
\* of the source program is at the statement about to be generated there: every
\* branch, join, loop exit, break, continue and return leads where it should.
RunIsAtBuilder ==
  Flowing => (status = "live" <=> pc = builder.at /\ ~HasTerminator(builder))

\* The statement's own code is run: a for-increment after the body ends or
\* continues, anything else when the run is there.
Executes ==
  IF cursor # <<>> /\ cursor' = Advance(Front(cursor)) /\ Parent.node.kind = "for"
  THEN Run!Parked = "none" /\ status \in {"live", "continued"}
  ELSE status = "live"

\* The code emitted for a statement, or at the start of a function, is executed
\* by exactly the runs that execute it; in particular a continue does not jump
\* over the increment of its for-statement, and a break does.
CodeRunExactly ==
  [][Flowing /\ emitted'.code # {}
       => (Executes <=> Visited(emitted'.edges, pc) \cap emitted'.code # {})]_flowVars
================================================================================
