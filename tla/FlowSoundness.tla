----------------------------- MODULE FlowSoundness -----------------------------
(***************************************************************************)
(* The analyzer compared with the runs of the program it analyses: both    *)
(* follow the same walk over the tree, and at each statement what the      *)
(* analyzer reports is set against what the run does there.                *)
(***************************************************************************)
EXTENDS Semantic

CONSTANT Classes   \* the classes of programs considered

\* reuse: a program may declare a name that is or was visible; incAssigns: a
\* for-increment may be the first to assign its variable.
ASSUME ClassAssumption ==
  \A c \in Classes :
    /\ c.statements \subseteq Statements
    /\ c.programs \subseteq Programs
    /\ c.depth \in 0 .. MaxDepth
    /\ {c.reuse, c.incAssigns} \subseteq BOOLEAN

VARIABLES
  status, runs, store, obs,   \* the run, see Execution
  class,                      \* the class the program is taken from
  seen                        \* the names declared so far that concern `reuse'

Run == INSTANCE Execution

flowVars == <<vars, status, runs, store, obs, class, seen>>

--------------------------------------------------------------------------------
(***************************************************************************)
(* The programs of a class.                                                *)
(***************************************************************************)
DeclaredBy(n) ==
  CASE n.kind = "decl" -> {n.name}
    [] n.kind = "for" /\ n.init # <<>> /\ n.init[1].kind = "decl" ->
         {n.init[1].name}
    [] OTHER -> {}

Fresh(names) ==
  /\ ~class.reuse => names \cap seen = {}
  /\ seen' = IF class.reuse THEN seen ELSE seen \cup names

HeaderAssigns(n) ==
  IF n.kind = "for" /\ n.inc # <<>> /\ n.inc[1].kind = "assign"
  THEN {n.inc[1].name} ELSE {}

AssignedBefore(n) ==
  ~class.incAssigns => HeaderAssigns(n) \subseteq assigned \cup DeclaredBy(n)

InClass(n) ==
  /\ n \in class.statements
  /\ n.kind \in CompoundKinds => Len(cursor) < class.depth
  /\ Fresh(DeclaredBy(n))
  /\ AssignedBefore(n)

\* The parameters hide globals of the same name in the whole function.
FreshFunction(f) ==
  seen' = IF class.reuse THEN seen
          ELSE seen \cup {f.params[i].name : i \in DOMAIN f.params}

--------------------------------------------------------------------------------
FlowInit ==
  /\ Init
  /\ Run!RunInit
  /\ class \in Classes
  /\ pending \in class.programs
  /\ seen = {}

FlowLeaf(n) ==
  /\ InClass(n)
  /\ Leaf(n)
  /\ Run!RunSimple(n) \/ Run!RunJump(n) \/ Run!RunNull(n)
  /\ UNCHANGED class

FlowDown(n) ==
  /\ InClass(n)
  /\ Down(n)
  /\ Run!RunBlock(n) \/ Run!RunCondition(n) \/ Run!RunFor(n)
  /\ UNCHANGED class

FlowUp ==
  /\ Up
  /\ Run!RunEndBlock \/ Run!RunEndIf \/ Run!RunEndWhile \/ Run!RunEndFor
  /\ UNCHANGED <<class, seen>>

FlowFunction(f) ==
  EnterFunction(f) /\ Run!RunFunction(f) /\ FreshFunction(f) /\ UNCHANGED class

FlowEndFunction == LeaveFunction /\ Run!RunEndFunction /\ UNCHANGED <<class, seen>>

FlowWalk ==
  \/ GatherSignatures /\ UNCHANGED <<status, runs, store, obs, class, seen>>
  \/ \E n \in Statements : FlowLeaf(n) \/ FlowDown(n)
  \/ pending # <<>> /\ FlowFunction(Head(pending))
  \/ (ElseBranch \/ SkipElse) /\ Run!RunElse /\ UNCHANGED <<class, seen>>
  \/ FlowUp
  \/ FlowEndFunction
  \/ Finish /\ Run!RunEndProgram /\ UNCHANGED <<class, seen>>

\* Bound: the walk stops at the first error.  Nothing is compiled then, and
\* hasErrors never becomes false again.
FlowNext ==
  \/ ~failed /\ FlowWalk
  \/ (failed \/ phase = "done") /\ UNCHANGED flowVars

FlowSpec == FlowInit /\ [][FlowNext]_flowVars

--------------------------------------------------------------------------------
(***************************************************************************)
(* Properties.                                                             *)
(***************************************************************************)
FlowTypeOK ==
  /\ TypeOK
  /\ Run!RunTypeOK
  /\ class \in Classes
  /\ seen \subseteq Name

\* A variable some run reads before it holds a value is reported at that
\* statement, unless the program is rejected: the branch joins, the loops that
\* may not run, breaks, continues and returns lose no warning.
UninitializedReadsAreWarned ==
  ~failed => \A n \in obs.uninit : <<"uninitialized", n>> \in diags

\* So it is in programs that declare each name once and whose for-increments
\* only assign what was assigned before: only names that stand for several
\* variables, and increments analysed too early, hide a warning.
WarnedWithoutReuse ==
  ~class.reuse /\ ~class.incAssigns => UninitializedReadsAreWarned

\* A non-void function whose end some run reaches is rejected: returnsOnAllPaths
\* holds of no body that a run leaves without a return, although it counts
\* returns in unreachable code.
MissingReturnsAreErrors == obs.end => failed

\* No run executes a statement that analyzeBlock calls unreachable or skips.
UnreachableIsNotRun == CutOff => status # "live"

\* A program with a jump that leaves no loop is rejected.
StrayJumpsAreErrors == obs.stray => failed

\* A variable reported as unused is read by no run of an accepted program, in
\* particular not by a reader that meant another variable of the same name.
UnusedIsNeverRead ==
  ~failed => \A n \in obs.closed : <<"unused", n>> \notin diags
================================================================================
