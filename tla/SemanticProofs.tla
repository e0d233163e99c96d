----------------------------- MODULE SemanticProofs ----------------------------
(***************************************************************************)
(* Proofs about the semantic analyzer: its type invariant, the balance of  *)
(* its scope stack and loop counter, what follows for break and continue,  *)
(* and the names it takes for assigned, for all programs and depths.       *)
(***************************************************************************)
EXTENDS Semantic, AstLemmas, FiniteSetTheorems, WellFoundedInduction, TLAPS

Envs == [scopes : Seq(Scopes), assigned : SUBSET Name, diags : SUBSET Diagnostic]

--------------------------------------------------------------------------------
(***************************************************************************)
(* Lemmas on the operators of the model.                                   *)
(***************************************************************************)
\* A map over the elements of a sequence of scopes is a sequence of scopes.
LEMMA ScopeIntro ==
  ASSUME NEW D \in SUBSET Name, NEW s \in [D -> [type : DataTypes, used : BOOLEAN]]
  PROVE  s \in Scopes
BY DEF Scopes

\* A scope maps names of variables to symbols.
LEMMA ScopeElim ==
  ASSUME NEW s \in Scopes
  PROVE  /\ DOMAIN s \subseteq Name
         /\ s \in [DOMAIN s -> [type : DataTypes, used : BOOLEAN]]
BY DEF Scopes

\* The scope enterScope pushes is a scope.
LEMMA EmptyScopeType == EmptyScope \in Scopes
<1>1. EmptyScope \in [{} -> [type : DataTypes, used : BOOLEAN]]
  BY DEF EmptyScope
<1> QED BY <1>1, ScopeIntro

\* Declaring a variable changes the innermost scope alone.
LEMMA DeclareType ==
  ASSUME NEW sc \in Seq(Scopes), sc # <<>>, NEW n \in Name, NEW type \in DataTypes
  PROVE  /\ declareVariable(sc, n, type) \in Seq(Scopes)
         /\ Len(declareVariable(sc, n, type)) = Len(sc)
<1> DEFINE top == sc[Len(sc)]
           v == [type |-> type, used |-> FALSE]
           new == [m \in DOMAIN top \cup {n} |-> IF m = n THEN v ELSE top[m]]
<1>1. top \in Scopes
  OBVIOUS
<1>2. v \in [type : DataTypes, used : BOOLEAN]
  OBVIOUS
<1>3. new \in [DOMAIN top \cup {n} -> [type : DataTypes, used : BOOLEAN]]
  BY <1>1, <1>2, ScopeElim
<1>4. new \in Scopes
  BY <1>1, <1>3, ScopeElim, ScopeIntro
<1>5. declareVariable(sc, n, type) = [sc EXCEPT ![Len(sc)] = new]
  BY DEF declareVariable, Bind, Recorded
<1> HIDE DEF new
<1> QED BY <1>4, <1>5

\* Marking variables as used changes neither the scopes' number nor their names.
LEMMA MarkType ==
  ASSUME NEW sc \in Seq(Scopes), NEW names
  PROVE  /\ markUsed(sc, names) \in Seq(Scopes)
         /\ Len(markUsed(sc, names)) = Len(sc)
<1> DEFINE M(i) == [n \in DOMAIN sc[i] |->
                      [sc[i][n] EXCEPT !.used = @ \/ (n \in names /\ i = Innermost(sc, n))]]
<1>1. \A i \in 1 .. Len(sc) : M(i) \in Scopes
  <2> TAKE i \in 1 .. Len(sc)
  <2>1. sc[i] \in Scopes
    OBVIOUS
  <2>2. \A n \in DOMAIN sc[i] : sc[i][n] \in [type : DataTypes, used : BOOLEAN]
    BY <2>1, ScopeElim
  <2>3. \A n \in DOMAIN sc[i] :
          [sc[i][n] EXCEPT !.used = @ \/ (n \in names /\ i = Innermost(sc, n))]
            \in [type : DataTypes, used : BOOLEAN]
    BY <2>2
  <2>4. M(i) \in [DOMAIN sc[i] -> [type : DataTypes, used : BOOLEAN]]
    BY <2>3
  <2> QED BY <2>1, <2>4, ScopeElim, ScopeIntro
<1>2. markUsed(sc, names) = [i \in 1 .. Len(sc) |-> M(i)]
  BY DEF markUsed
<1> HIDE DEF M
<1> QED BY <1>1, <1>2
--------------------------------------------------------------------------------
(***************************************************************************)
(* The analysis of expressions and of statements without children keeps    *)
(* the environment typed and the number of scopes.                         *)
(***************************************************************************)
\* The analyzer's variables make a typed environment.
LEMMA EnvType ==
  ASSUME TypeOK
  PROVE  Env \in Envs /\ Env.scopes = scopes /\ Env.assigned = assigned
BY DEF TypeOK, Env, Envs

\* A diagnostic changes neither the scopes nor the assigned names.
LEMMA ReportType ==
  ASSUME NEW a \in Envs, NEW kind \in ErrorKinds \cup WarningKinds,
         NEW n \in Subjects, NEW wrong
  PROVE  /\ report(a, kind, n, wrong) \in Envs
         /\ report(a, kind, n, wrong).scopes = a.scopes
         /\ report(a, kind, n, wrong).assigned = a.assigned
<1>1. <<kind, n>> \in Diagnostic
  BY DEF Diagnostic
<1> QED BY <1>1 DEF Envs, report

\* checkExpression enters and leaves no scope and assigns no variable.
LEMMA ExprType ==
  ASSUME NEW a \in Envs, NEW xs
  PROVE  /\ analyzeExpr(a, xs) \in Envs
         /\ Len(analyzeExpr(a, xs).scopes) = Len(a.scopes)
         /\ analyzeExpr(a, xs).assigned = a.assigned
<1>1. CASE xs = <<>>
  BY <1>1 DEF analyzeExpr, Envs
<1>2. CASE xs # <<>>
  <2> DEFINE names == {e.id : e \in {d \in Reached[xs[1]] : d.op = "var"}}
  <2>1. PICK S : analyzeExpr(a, xs)
                   = [a EXCEPT !.scopes = markUsed(@, names),
                               !.diags = @ \cup (Diagnostic \cap S)]
    BY <1>2 DEF analyzeExpr
  <2> HIDE DEF names
  <2>2. a.scopes \in Seq(Scopes)
    BY DEF Envs
  <2>3. /\ markUsed(a.scopes, names) \in Seq(Scopes)
        /\ Len(markUsed(a.scopes, names)) = Len(a.scopes)
    BY <2>2, MarkType
  <2> QED BY <2>1, <2>3 DEF Envs
<1> QED BY <1>1, <1>2

\* What the analysis of a statement without children guarantees: b follows a.
Follows(b, a) == /\ b \in Envs
                 /\ Len(b.scopes) = Len(a.scopes)
                 /\ a.assigned \subseteq b.assigned

\* An expression keeps the environment typed and as deep as it was.
LEMMA FollowsExpr ==
  ASSUME NEW a \in Envs, NEW xs
  PROVE  Follows(analyzeExpr(a, xs), a)
BY ExprType DEF Follows

\* So does a diagnostic.
LEMMA FollowsReport ==
  ASSUME NEW a \in Envs, NEW kind \in ErrorKinds \cup WarningKinds,
         NEW n \in Subjects, NEW wrong
  PROVE  Follows(report(a, kind, n, wrong), a)
BY ReportType DEF Follows

\* So does one after another.
LEMMA FollowsTrans ==
  ASSUME NEW a \in Envs, NEW b, NEW c, Follows(b, a), Follows(c, b)
  PROVE  Follows(c, a)
BY DEF Follows, Envs

\* An assignment adds a name to definitelyAssigned.
LEMMA FollowsAssigned ==
  ASSUME NEW a \in Envs, NEW b, Follows(b, a), NEW n \in Name
  PROVE  Follows([b EXCEPT !.assigned = @ \cup {n}], a)
BY DEF Follows, Envs

\* The kinds of diagnostics that the proofs name are declared.
LEMMA Kinds == /\ "redeclared" \in ErrorKinds /\ "undeclared" \in ErrorKinds
               /\ "type" \in ErrorKinds /\ "jump" \in ErrorKinds
               /\ "return" \in ErrorKinds /\ "function" \in ErrorKinds
               /\ "missing return" \in ErrorKinds /\ "unused" \in WarningKinds
               /\ "unreachable" \in WarningKinds
               /\ "" \in Subjects /\ Name \subseteq Subjects
BY DEF ErrorKinds, WarningKinds, Subjects

\* analyzeVarDecl keeps the scope stack as deep as it was.
LEMMA VarDeclType ==
  ASSUME NEW a \in Envs, a.scopes # <<>>, NEW n, n.name \in Name
  PROVE  Follows(analyzeVarDecl(a, n), a)
<1> DEFINE declared == [a EXCEPT !.scopes = declareVariable(@, n.name, "int")]
           analysed == analyzeExpr(declared, n.expr)
           wrong == exprType(declared, n.expr) \notin {"int", "unknown"}
           reported == report(analysed, "type", "", wrong)
<1>1. CASE n.name \in DOMAIN Last(a.scopes)
  BY <1>1, FollowsReport, Kinds DEF analyzeVarDecl
<1>2. CASE n.name \notin DOMAIN Last(a.scopes)
  <2>1. Follows(declared, a)
    <3>1. a.scopes \in Seq(Scopes) /\ "int" \in DataTypes
      BY DEF Envs, DataTypes
    <3>2. /\ declareVariable(a.scopes, n.name, "int") \in Seq(Scopes)
          /\ Len(declareVariable(a.scopes, n.name, "int")) = Len(a.scopes)
      BY <3>1, DeclareType
    <3> QED BY <3>2 DEF Follows, Envs
  <2> HIDE DEF declared
  <2>2. declared \in Envs /\ Follows(analysed, a)
    BY <2>1, FollowsExpr, FollowsTrans DEF Follows
  <2> HIDE DEF analysed
  <2> HIDE DEF wrong
  <2>3. analysed \in Envs
    BY <2>2 DEF Follows
  <2>4. Follows(reported, a)
    <3>1. Follows(reported, analysed)
      BY <2>3, FollowsReport, Kinds
    <3> QED BY <3>1, <2>2, FollowsTrans
  <2> HIDE DEF reported
  <2>5. Follows([reported EXCEPT !.assigned = @ \cup {n.name}], a)
    BY <2>4, FollowsAssigned
  <2>6. analyzeVarDecl(a, n) = IF n.expr = <<>> THEN declared
                               ELSE [reported EXCEPT !.assigned = @ \cup {n.name}]
    BY <1>2 DEF analyzeVarDecl, declared, analysed, reported, wrong
  <2> QED BY <2>1, <2>5, <2>6
<1> QED BY <1>1, <1>2

\* So does analyzeAssignment.
LEMMA AssignmentType ==
  ASSUME NEW a \in Envs, NEW n, n.name \in Name
  PROVE  Follows(analyzeAssignment(a, n), a)
<1> DEFINE declared == isVariableDeclared(a.scopes, n.name)
           checked == report(a, "undeclared", n.name, ~declared)
           analysed == analyzeExpr(checked, <<n.expr>>)
           wrong == exprType(a, <<n.expr>>)
                      \notin {lookupVariable(a.scopes, n.name).type, "unknown"}
           reported == report(analysed, "type", "", wrong)
<1>1. Follows(checked, a)
  BY FollowsReport, Kinds
<1> HIDE DEF checked
<1>2. checked \in Envs /\ Follows(analysed, a)
  BY <1>1, FollowsExpr, FollowsTrans DEF Follows
<1> HIDE DEF analysed
<1> HIDE DEF wrong
<1>3. analysed \in Envs
  BY <1>2 DEF Follows
<1>4. Follows(reported, a)
  <2>1. Follows(reported, analysed)
    BY <1>3, FollowsReport, Kinds
  <2> QED BY <2>1, <1>2, FollowsTrans
<1> HIDE DEF reported
<1>5. Follows([reported EXCEPT !.assigned = @ \cup {n.name}], a)
  BY <1>4, FollowsAssigned
<1>6. analyzeAssignment(a, n) =
        IF declared THEN [reported EXCEPT !.assigned = @ \cup {n.name}] ELSE analysed
  BY DEF analyzeAssignment, checked, analysed, reported, wrong
<1> QED BY <1>2, <1>5, <1>6

\* So does each statement without a body.
LEMMA SimpleType ==
  ASSUME NEW a \in Envs, a.scopes # <<>>, NEW n, IsSimple(n)
  PROVE  Follows(analyzeSimple(a, n), a)
<1>1. CASE n.kind = "decl"
  <2>1. analyzeSimple(a, n) = analyzeVarDecl(a, n)
    BY <1>1 DEF analyzeSimple
  <2> QED BY <1>1, <2>1, VarDeclType DEF IsSimple
<1>2. CASE n.kind = "assign"
  <2>1. analyzeSimple(a, n) = analyzeAssignment(a, n)
    BY <1>2 DEF analyzeSimple
  <2> QED BY <1>2, <2>1, AssignmentType DEF IsSimple
<1>3. CASE n.kind = "expr"
  <2>1. analyzeSimple(a, n) = analyzeExpr(a, <<n.expr>>)
    BY <1>3 DEF analyzeSimple
  <2> QED BY <2>1, FollowsExpr
<1> QED BY <1>1, <1>2, <1>3 DEF IsSimple, SimpleKinds

\* So does the initialisation or increment of a for-statement, if there is one.
LEMMA OptionalType ==
  ASSUME NEW a \in Envs, a.scopes # <<>>, NEW ns, ns # <<>> => IsSimple(ns[1])
  PROVE  Follows(analyzeOptional(a, ns), a)
<1>1. CASE ns = <<>>
  BY <1>1 DEF analyzeOptional, Follows
<1>2. CASE ns # <<>>
  BY <1>2, SimpleType DEF analyzeOptional
<1> QED BY <1>1, <1>2

\* A condition enters no scope and assigns no variable.
LEMMA ConditionType ==
  ASSUME NEW a \in Envs, NEW xs
  PROVE  /\ Follows(analyzeCondition(a, xs), a)
         /\ analyzeCondition(a, xs).assigned = a.assigned
<1> DEFINE b == analyzeExpr(a, xs)
           wrong == xs # <<>> /\ exprType(a, xs) \notin {"int", "bool", "unknown"}
<1>1. b \in Envs /\ Follows(b, a) /\ b.assigned = a.assigned
  BY ExprType DEF Follows
<1>2. analyzeCondition(a, xs) = report(b, "type", "", wrong)
  BY DEF analyzeCondition
<1> HIDE DEF b, wrong
<1>3. /\ Follows(report(b, "type", "", wrong), b)
      /\ report(b, "type", "", wrong).assigned = b.assigned
  BY <1>1, ReportType, FollowsReport, Kinds
<1> QED BY <1>1, <1>2, <1>3, FollowsTrans

\* enterScope adds one scope.
LEMMA PushScopeType ==
  ASSUME NEW a \in Envs
  PROVE  /\ [a EXCEPT !.scopes = Append(@, EmptyScope)] \in Envs
         /\ Len([a EXCEPT !.scopes = Append(@, EmptyScope)].scopes) = Len(a.scopes) + 1
         /\ [a EXCEPT !.scopes = Append(@, EmptyScope)].assigned = a.assigned
<1>1. a.scopes \in Seq(Scopes)
  BY DEF Envs
<1>2. /\ Append(a.scopes, EmptyScope) \in Seq(Scopes)
      /\ Len(Append(a.scopes, EmptyScope)) = Len(a.scopes) + 1
  BY <1>1, EmptyScopeType
<1> QED BY <1>2 DEF Envs

\* The header of a for-statement enters one scope and unassigns no variable.
LEMMA HeaderType ==
  ASSUME NEW a \in Envs, NEW n, IsStatement(n), n.kind = "for"
  PROVE  /\ analyzeForHeader(a, n) \in Envs
         /\ Len(analyzeForHeader(a, n).scopes) = Len(a.scopes) + 1
         /\ a.assigned \subseteq analyzeForHeader(a, n).assigned
<1> DEFINE b == [a EXCEPT !.scopes = Append(@, EmptyScope)]
           c == analyzeOptional(b, n.init)
           d == analyzeCondition(c, n.cond)
           e == analyzeOptional(d, n.inc)
<1>1. b \in Envs /\ Len(b.scopes) = Len(a.scopes) + 1 /\ b.assigned = a.assigned
  BY PushScopeType
<1>2. Len(a.scopes) \in Nat
  BY DEF Envs
<1>3. analyzeForHeader(a, n) = e
  BY DEF analyzeForHeader
<1>4. /\ n.init # <<>> => IsSimple(n.init[1])
      /\ n.inc # <<>> => IsSimple(n.inc[1])
  BY DEF IsStatement
<1> HIDE DEF b
<1>5. b.scopes # <<>>
  BY <1>1, <1>2 DEF Envs
<1>6. Follows(c, b)
  BY <1>1, <1>4, <1>5, OptionalType
<1> HIDE DEF c
<1>7. c \in Envs
  BY <1>6 DEF Follows
<1>8. Follows(d, c)
  BY <1>7, ConditionType
<1> HIDE DEF d
<1>9. d \in Envs /\ d.scopes # <<>>
  BY <1>1, <1>2, <1>6, <1>8 DEF Follows, Envs
<1>10. Follows(e, d)
  BY <1>4, <1>9, OptionalType
<1>11. Follows(e, b)
  BY <1>1, <1>6, <1>8, <1>10, FollowsTrans
<1> HIDE DEF e
<1> QED BY <1>1, <1>3, <1>11 DEF Follows

\* analyzeReturn keeps the scope stack as deep as it was.
LEMMA ReturnType ==
  ASSUME NEW a \in Envs, NEW n
  PROVE  Follows(analyzeReturnValue(a, n), a)
<1> DEFINE b == analyzeExpr(a, n.expr)
<1>1. Follows(b, a) /\ b \in Envs
  BY FollowsExpr DEF Follows
<1>2. PICK wrong : analyzeReturnValue(a, n) = report(b, "return", "", wrong)
  BY DEF analyzeReturnValue
<1> HIDE DEF b
<1>3. Follows(report(b, "return", "", wrong), b)
  BY <1>1, FollowsReport, Kinds
<1> QED BY <1>1, <1>2, <1>3, FollowsTrans

\* A nonempty set of positions has a first one.
LEMMA FirstExists ==
  ASSUME NEW T \in SUBSET Nat, T # {}
  PROVE  \E x \in T : \A y \in T : x <= y
<1> DEFINE R == {ss \in Nat \X Nat : ss[1] < ss[2]}
<1>1. IsWellFoundedOn(R, Nat)
  BY NatLessThanWellFounded DEF OpToRel
<1>2. PICK x \in T : \A y \in T : <<y, x>> \notin R
  <2> HIDE DEF R
  <2> QED BY <1>1, WFMin
<1>3. ASSUME NEW y \in T PROVE x <= y
  <2>1. x \in Nat /\ y \in Nat /\ <<y, x>> \notin R
    BY <1>2
  <2>2. y < x => <<y, x>> \in R
    BY <2>1
  <2> QED BY <2>1, <2>2
<1> QED BY <1>3

\* The parameters of a function are declared in one new scope.
LEMMA ParametersType ==
  ASSUME NEW a \in Envs, NEW ps \in Seq(Parameters)
  PROVE  /\ declareParameters(a, ps) \in Envs
         /\ Len(declareParameters(a, ps).scopes) = Len(a.scopes) + 1
<1> DEFINE names == {ps[i].name : i \in DOMAIN ps}
           First(n) == CHOOSE i \in DOMAIN ps :
                    /\ ps[i].name = n
                    /\ \A j \in DOMAIN ps : ps[j].name = n => i <= j
           entry(n) == [type |-> ps[First(n)].type, used |-> FALSE]
           scope == [n \in names |-> entry(n)]
           b == [a EXCEPT !.scopes = Append(@, scope), !.assigned = names]
           wrong == Cardinality(names) < Len(ps)
<1>1. \A i \in DOMAIN ps : ps[i].name \in Name /\ ps[i].type \in DataTypes
  <2> TAKE i \in DOMAIN ps
  <2>1. ps[i] \in Parameters
    OBVIOUS
  <2> QED BY <2>1 DEF Parameters, DeclaredTypes, DataTypes
<1>2. names \subseteq Name
  BY <1>1
<1>3. \A n \in names : entry(n) \in [type : DataTypes, used : BOOLEAN]
  <2> TAKE n \in names
  <2> DEFINE T == {i \in DOMAIN ps : ps[i].name = n}
  <2>1. T \in SUBSET Nat /\ T # {}
    OBVIOUS
  <2>2. \E i \in T : \A j \in T : i <= j
    <3> HIDE DEF T
    <3> QED BY <2>1, FirstExists
  <2>3. First(n) \in DOMAIN ps
    BY <2>2
  <2> HIDE DEF First
  <2> QED BY <1>1, <2>3
<1>4. declareParameters(a, ps) = report(b, "redeclared", "", wrong)
  BY DEF declareParameters
<1> HIDE DEF names, First, entry, wrong
<1>5. scope \in Scopes
  BY <1>2, <1>3, ScopeIntro
<1> HIDE DEF scope
<1>6. b \in Envs /\ Len(b.scopes) = Len(a.scopes) + 1
  <2>1. a.scopes \in Seq(Scopes)
    BY DEF Envs
  <2>2. /\ Append(a.scopes, scope) \in Seq(Scopes)
        /\ Len(Append(a.scopes, scope)) = Len(a.scopes) + 1
    BY <1>5, <2>1
  <2> QED BY <1>2, <2>2 DEF Envs
<1> HIDE DEF b
<1>7. /\ report(b, "redeclared", "", wrong) \in Envs
      /\ report(b, "redeclared", "", wrong).scopes = b.scopes
  BY <1>6, ReportType, Kinds
<1> QED BY <1>4, <1>6, <1>7

\* The warnings of checkUnusedVariablesInCurrentScope are diagnostics.
LEMMA UnusedType ==
  ASSUME NEW sc \in Seq(Scopes), sc # <<>>
  PROVE  checkUnusedVariablesInCurrentScope(sc) \subseteq Diagnostic
<1>1. Last(sc) \in Scopes
  BY DEF Last
<1>2. Unused(sc) \subseteq Name
  BY <1>1, ScopeElim DEF Unused
<1>3. \A n \in Unused(sc) : <<"unused", n>> \in Diagnostic
  BY <1>2, Kinds DEF Diagnostic
<1> QED BY <1>3 DEF checkUnusedVariablesInCurrentScope

\* exitScope takes one scope away and leaves the assigned names alone.
LEMMA LeaveScopeType ==
  ASSUME NEW a \in Envs, a.scopes # <<>>
  PROVE  /\ leaveScope(a) \in Envs
         /\ Len(leaveScope(a).scopes) = Len(a.scopes) - 1
         /\ leaveScope(a).assigned = a.assigned
<1>1. a.scopes \in Seq(Scopes) /\ Len(a.scopes) >= 1
  BY DEF Envs
<1>2. /\ Front(a.scopes) \in Seq(Scopes)
      /\ Len(Front(a.scopes)) = Len(a.scopes) - 1
  BY <1>1 DEF Front
<1>3. checkUnusedVariablesInCurrentScope(a.scopes) \subseteq Diagnostic
  BY <1>1, UnusedType
<1> QED BY <1>2, <1>3 DEF leaveScope, Envs
--------------------------------------------------------------------------------
(***************************************************************************)
(* The path and its activation records.  Steps change them at the end, and *)
(* in ways that what is counted below does not see.                        *)
(***************************************************************************)
Aligned(fs, path) == /\ fs \in Seq(Frames)
                     /\ path \in Seq(Entries)
                     /\ Len(fs) = Len(path)

\* Records of a path through the same statements.
SameFrames(fs2, fs) == /\ fs2 \in Seq(Frames)
                       /\ Len(fs2) = Len(fs)
                       /\ \A i \in 1 .. Len(fs) : fs2[i].skip = fs[i].skip

\* path2 goes through one more statement.
OneMore(fs2, path2, fs, path) ==
  /\ Aligned(fs2, path2)
  /\ Aligned(fs, path)
  /\ Len(fs2) = Len(fs) + 1
  /\ \A i \in 1 .. Len(fs) : /\ fs2[i].skip = fs[i].skip
                             /\ path2[i].node = path[i].node

\* The statements under analysis of the given kinds, as in `Analysed'.
Counted(fs, path, kinds) ==
  {i \in 1 .. Len(fs) : ~fs[i].skip /\ path[i].node.kind \in kinds}

\* What a statement adds to a count.
Adds(r, node, kinds) == IF ~r.skip /\ node.kind \in kinds THEN 1 ELSE 0

\* What the model's properties count is what the lemmas below count.
LEMMA AnalysedIsCounted ==
  ASSUME NEW kinds, Aligned(frames, cursor)
  PROVE  Analysed(kinds) = Counted(frames, cursor, kinds)
BY DEF Analysed, Counted, Aligned

\* A path through the same statements, skipped alike, counts alike.
LEMMA SameCount ==
  ASSUME NEW fs, NEW path, NEW fs2, NEW path2, NEW kinds,
         Aligned(fs, path), SameFrames(fs2, fs), SameNodes(path2, path)
  PROVE  /\ Aligned(fs2, path2)
         /\ Counted(fs2, path2, kinds) = Counted(fs, path, kinds)
BY DEF Aligned, SameFrames, SameNodes, Counted

\* What is counted on a path is finite.
LEMMA CountType ==
  ASSUME NEW fs, NEW path, NEW kinds, Aligned(fs, path)
  PROVE  /\ IsFiniteSet(Counted(fs, path, kinds))
         /\ Cardinality(Counted(fs, path, kinds)) \in Nat
<1>1. Len(fs) \in Nat
  BY DEF Aligned
<1>2. IsFiniteSet(1 .. Len(fs))
  BY <1>1, FS_Interval
<1>3. Counted(fs, path, kinds) \subseteq 1 .. Len(fs)
  BY DEF Counted
<1> QED BY <1>2, <1>3, FS_Subset, FS_CardinalityType

\* One more statement on the path adds one to the count if it is analysed and
\* of the kinds counted, and nothing otherwise.
LEMMA MoreCount ==
  ASSUME NEW fs, NEW path, NEW fs2, NEW path2, NEW kinds,
         OneMore(fs2, path2, fs, path)
  PROVE  Cardinality(Counted(fs2, path2, kinds)) =
           Cardinality(Counted(fs, path, kinds))
           + Adds(fs2[Len(fs2)], path2[Len(path2)].node, kinds)
<1> DEFINE old == Counted(fs, path, kinds)
           new == Counted(fs2, path2, kinds)
           m == Len(fs) + 1
<1>1. /\ Len(fs) \in Nat /\ Len(fs2) = m /\ Len(path2) = m
      /\ Aligned(fs, path)
  BY DEF OneMore, Aligned
<1>2. IsFiniteSet(old) /\ Cardinality(old) \in Nat
  BY <1>1, CountType
<1>3. m \notin old
  BY <1>1 DEF Counted
<1>4. \A i \in 1 .. Len(fs) : i \in new <=> i \in old
  BY <1>1 DEF OneMore, Counted
<1>5. CASE ~fs2[m].skip /\ path2[m].node.kind \in kinds
  <2>1. new = old \cup {m}
    BY <1>1, <1>4, <1>5 DEF Counted
  <2>2. Cardinality(new) = Cardinality(old) + 1
    BY <2>1, <1>2, <1>3, FS_AddElement
  <2> QED BY <2>2, <1>1, <1>5 DEF Adds
<1>6. CASE ~(~fs2[m].skip /\ path2[m].node.kind \in kinds)
  <2>1. new = old
    BY <1>1, <1>4, <1>6 DEF Counted
  <2> QED BY <2>1, <1>1, <1>2, <1>6 DEF Adds
<1> QED BY <1>5, <1>6

\* Changing the last record but for its `skip'.
LEMMA LastFrame ==
  ASSUME NEW fs \in Seq(Frames), fs # <<>>, NEW r \in Frames,
         r.skip = fs[Len(fs)].skip
  PROVE  SameFrames([fs EXCEPT ![Len(fs)] = r], fs)
BY DEF SameFrames

\* Noting that a child is done skips no statement and revives none.
LEMMA ChildDoneShape ==
  ASSUME NEW fs \in Seq(Frames), NEW path, NEW returns \in BOOLEAN
  PROVE  SameFrames(childDone(fs, path, returns), fs)
<1>1. CASE fs = <<>>
  BY <1>1 DEF childDone, SameFrames
<1>2. CASE fs # <<>>
  <2> DEFINE top == fs[Len(fs)]
             ret == returnsWith(path[Len(fs)], top.ret, returns)
             new == [top EXCEPT !.ret = ret]
  <2>1. top \in Frames
    BY <1>2
  <2>2. top.ret \in BOOLEAN
    BY <2>1 DEF Frames
  <2>3. ret \in BOOLEAN
    BY <2>2 DEF returnsWith
  <2>4. childDone(fs, path, returns) = [fs EXCEPT ![Len(fs)] = new]
    BY <1>2 DEF childDone
  <2> HIDE DEF ret
  <2>5. new \in Frames /\ new.skip = top.skip
    BY <2>1, <2>3 DEF Frames
  <2> HIDE DEF new
  <2> QED BY <1>2, <2>4, <2>5, LastFrame
<1> QED BY <1>1, <1>2

\* Nor does noting how a list of statements went on.
LEMMA ListShape ==
  ASSUME NEW fs \in Seq(Frames), fs # <<>>, NEW l \in {"open", "terminated", "cut"}
  PROVE  SameFrames([fs EXCEPT ![Len(fs)].list = l], fs)
<1> DEFINE top == fs[Len(fs)]
           new == [top EXCEPT !.list = l]
<1>1. top \in Frames
  OBVIOUS
<1>2. new \in Frames /\ new.skip = top.skip
  BY <1>1 DEF Frames
<1>3. [fs EXCEPT ![Len(fs)].list = l] = [fs EXCEPT ![Len(fs)] = new]
  OBVIOUS
<1> HIDE DEF new
<1> QED BY <1>2, <1>3, LastFrame

\* Two such changes in a row are one.
LEMMA SameFramesTrans ==
  ASSUME NEW fs \in Seq(Frames), NEW gs, NEW hs, SameFrames(gs, fs), SameFrames(hs, gs)
  PROVE  SameFrames(hs, fs)
BY DEF SameFrames
--------------------------------------------------------------------------------
(***************************************************************************)
(* The inductive invariant: the types, and what is counted along the path. *)
(* Neither half is inductive alone: exitScope keeps the stack nonempty     *)
(* because the scope it leaves is counted, and so does the loop counter    *)
(* stay a natural number.                                                  *)
(***************************************************************************)
IInv == TypeOK /\ ScopesMatchPath /\ LoopDepthMatchesPath

ScopeKinds == {"block", "for", "func"}

\* The parts of TypeOK that are neither the path nor the loop counter.
OthersOK == /\ pending \in Seq(Functions)
            /\ phase \in {"gather", "analyze", "done"}
            /\ DOMAIN functionTable \subseteq FunctionNames
            /\ insideFunction \in BOOLEAN
            /\ currentFunctionReturnType \in DeclaredTypes

EnvOK == /\ scopes \in Seq(Scopes)
         /\ assigned \subseteq Name
         /\ failed \in BOOLEAN
         /\ diags \subseteq Diagnostic

\* The invariant taken apart, in terms of the counted path.
LEMMA InvParts ==
  ASSUME IInv
  PROVE  /\ OthersOK /\ EnvOK /\ Aligned(frames, cursor) /\ loopDepth \in Nat
         /\ Len(scopes) = 1 + Cardinality(Counted(frames, cursor, ScopeKinds))
         /\ loopDepth = Cardinality(Counted(frames, cursor, LoopKinds))
         /\ Len(scopes) \in Nat \ {0}
<1>1. Aligned(frames, cursor)
  BY DEF IInv, TypeOK, CursorTypeOK, Aligned
<1>2. OthersOK /\ EnvOK /\ loopDepth \in Nat
  BY DEF IInv, TypeOK, CursorTypeOK, OthersOK, EnvOK
<1>3. /\ Len(scopes) = 1 + Cardinality(Counted(frames, cursor, ScopeKinds))
      /\ loopDepth = Cardinality(Counted(frames, cursor, LoopKinds))
  BY <1>1, AnalysedIsCounted
  DEF IInv, ScopesMatchPath, LoopDepthMatchesPath, ScopeKinds
<1>4. Cardinality(Counted(frames, cursor, ScopeKinds)) \in Nat
  BY <1>1, CountType
<1> QED BY <1>1, <1>2, <1>3, <1>4

\* The invariant put together again after a step.
LEMMA InvOfParts ==
  ASSUME OthersOK', EnvOK', Aligned(frames', cursor'),
         Len(scopes') = 1 + Cardinality(Counted(frames', cursor', ScopeKinds)),
         loopDepth' = Cardinality(Counted(frames', cursor', LoopKinds))
  PROVE  IInv'
<1>1. \A kinds : Analysed(kinds)' = Counted(frames', cursor', kinds)
  BY DEF Analysed, Counted, Aligned
<1>2. loopDepth' \in Nat
  BY CountType
<1>3. TypeOK'
  BY <1>2 DEF TypeOK, CursorTypeOK, OthersOK, EnvOK, Aligned
<1>4. ScopesMatchPath'
  BY <1>1 DEF ScopesMatchPath, ScopeKinds
<1>5. LoopDepthMatchesPath'
  BY <1>1 DEF LoopDepthMatchesPath
<1> QED BY <1>3, <1>4, <1>5 DEF IInv

\* A step that ends with a typed environment leaves it in the variables.
LEMMA BecomeType ==
  ASSUME IInv, NEW a \in Envs, Become(a)
  PROVE  EnvOK' /\ scopes' = a.scopes /\ assigned' = a.assigned
BY InvParts DEF Become, EnvOK, Envs

\* A step that stays on the path.
LEMMA StaySame ==
  ASSUME IInv, OthersOK', EnvOK', SameFrames(frames', frames),
         SameNodes(cursor', cursor), Len(scopes') = Len(scopes),
         loopDepth' = loopDepth
  PROVE  IInv'
<1>1. Aligned(frames', cursor')
  BY InvParts, SameCount
<1>2. \A kinds : Counted(frames', cursor', kinds) = Counted(frames, cursor, kinds)
  BY InvParts, SameCount
<1> QED BY <1>1, <1>2, InvParts, InvOfParts

\* A step into a statement.
LEMMA DownMore ==
  ASSUME IInv, OthersOK', EnvOK', OneMore(frames', cursor', frames, cursor),
         NEW scopeAdded \in Nat, NEW loopAdded \in Nat,
         scopeAdded = Adds(frames'[Len(frames')], cursor'[Len(cursor')].node, ScopeKinds),
         loopAdded = Adds(frames'[Len(frames')], cursor'[Len(cursor')].node, LoopKinds),
         Len(scopes') = Len(scopes) + scopeAdded,
         loopDepth' = loopDepth + loopAdded
  PROVE  IInv'
<1>1. Aligned(frames, cursor) /\ Aligned(frames', cursor')
  BY InvParts DEF OneMore
<1>2. /\ Cardinality(Counted(frames', cursor', ScopeKinds)) =
           Cardinality(Counted(frames, cursor, ScopeKinds)) + scopeAdded
      /\ Cardinality(Counted(frames', cursor', LoopKinds)) =
           Cardinality(Counted(frames, cursor, LoopKinds)) + loopAdded
  BY MoreCount
<1>3. Cardinality(Counted(frames, cursor, ScopeKinds)) \in Nat
  BY <1>1, CountType
<1>4. Len(scopes') = 1 + Cardinality(Counted(frames', cursor', ScopeKinds))
  BY <1>2, <1>3, InvParts
<1>5. loopDepth' = Cardinality(Counted(frames', cursor', LoopKinds))
  BY <1>2, InvParts
<1> QED BY <1>1, <1>4, <1>5, InvOfParts

\* Appending a statement and its record to the path.
LEMMA Pushed ==
  ASSUME NEW fs, NEW path, Aligned(fs, path), NEW gs, SameFrames(gs, fs),
         NEW r \in Frames, NEW e \in Entries
  PROVE  /\ OneMore(Append(gs, r), Append(path, e), fs, path)
         /\ Append(gs, r)[Len(Append(gs, r))] = r
         /\ Append(path, e)[Len(Append(path, e))] = e
<1>1. /\ Append(gs, r) \in Seq(Frames) /\ Len(Append(gs, r)) = Len(fs) + 1
      /\ Append(gs, r)[Len(fs) + 1] = r
      /\ \A i \in 1 .. Len(fs) : Append(gs, r)[i].skip = fs[i].skip
  BY DEF Aligned, SameFrames
<1>2. /\ Append(path, e) \in Seq(Entries) /\ Len(Append(path, e)) = Len(fs) + 1
      /\ Append(path, e)[Len(fs) + 1] = e
      /\ \A i \in 1 .. Len(fs) : Append(path, e)[i].node = path[i].node
  BY DEF Aligned
<1> QED BY <1>1, <1>2 DEF OneMore, Aligned

\* The innermost open statement, its record, and the path without it.
LEMMA PathEnd ==
  ASSUME IInv, cursor # <<>>
  PROVE  /\ frames # <<>> /\ Len(frames) = Len(cursor) /\ Len(frames) \in Nat \ {0}
         /\ Local = frames[Len(frames)] /\ Local \in Frames
         /\ Parent = cursor[Len(cursor)] /\ Parent \in Entries
         /\ Front(frames) \in Seq(Frames)
         /\ Front(cursor) \in Seq(Entries)
         /\ Len(Front(frames)) = Len(frames) - 1
         /\ Len(Front(cursor)) = Len(frames) - 1
         /\ \A i \in 1 .. Len(frames) - 1 :
              Front(frames)[i] = frames[i] /\ Front(cursor)[i] = cursor[i]
<1>1. frames \in Seq(Frames) /\ cursor \in Seq(Entries) /\ Len(frames) = Len(cursor)
  BY InvParts DEF Aligned
<1>2. Len(cursor) \in Nat \ {0}
  BY <1>1
<1> QED BY <1>1, <1>2 DEF Local, Parent, Last, Front

\* A step out of a statement.
LEMMA UpLess ==
  ASSUME IInv, OthersOK', EnvOK', cursor # <<>>,
         SameFrames(frames', Front(frames)), SameNodes(cursor', Front(cursor)),
         Len(scopes') = Len(scopes) - Adds(Local, Parent.node, ScopeKinds),
         loopDepth' = loopDepth - Adds(Local, Parent.node, LoopKinds)
  PROVE  IInv'
<1>1. Aligned(frames, cursor)
  BY InvParts
<1>2. /\ frames' \in Seq(Frames) /\ Len(frames') = Len(frames) - 1
      /\ \A i \in 1 .. Len(frames) - 1 : frames'[i].skip = frames[i].skip
  BY PathEnd DEF SameFrames
<1>3. /\ cursor' \in Seq(Entries) /\ Len(cursor') = Len(frames) - 1
      /\ \A i \in 1 .. Len(frames) - 1 : cursor'[i].node = cursor[i].node
  BY PathEnd DEF SameNodes
<1>4. Aligned(frames', cursor')
  BY <1>2, <1>3 DEF Aligned
<1>5. OneMore(frames, cursor, frames', cursor')
  BY <1>1, <1>2, <1>3, <1>4, PathEnd DEF OneMore
<1>6. \A kinds : Cardinality(Counted(frames, cursor, kinds)) =
        Cardinality(Counted(frames', cursor', kinds)) + Adds(Local, Parent.node, kinds)
  BY <1>5, PathEnd, MoreCount
<1>7. /\ Cardinality(Counted(frames', cursor', ScopeKinds)) \in Nat
      /\ Cardinality(Counted(frames', cursor', LoopKinds)) \in Nat
  BY <1>4, CountType
<1>8. Adds(Local, Parent.node, ScopeKinds) \in Nat /\ Adds(Local, Parent.node, LoopKinds) \in Nat
  BY DEF Adds
<1>9. Len(scopes') = 1 + Cardinality(Counted(frames', cursor', ScopeKinds))
  BY <1>6, <1>7, <1>8, InvParts
<1>10. loopDepth' = Cardinality(Counted(frames', cursor', LoopKinds))
  BY <1>6, <1>7, <1>8, InvParts
<1> QED BY <1>4, <1>9, <1>10, InvOfParts
--------------------------------------------------------------------------------
(***************************************************************************)
(* The walk.                                                               *)
(***************************************************************************)
\* A visit of a leaf leaves the path through the same statements.
LEMMA VisitLeafShape ==
  ASSUME IInv, NEW n, VisitLeaf(n)
  PROVE  SameNodes(cursor', cursor) /\ pending' = pending
BY InvParts, AdvanceShape DEF VisitLeaf, Aligned

\* A compound statement that is opened is put at the end of the path.
LEMMA OpenShape ==
  ASSUME NEW n \in Statements, Open(n)
  PROVE  \E e \in Entries : /\ e.node = n
                            /\ cursor' = Append(cursor, e)
                            /\ pending' = pending
<1> DEFINE e == [node |-> n, slot |-> FirstSlot(n)]
<1>1. e \in Entries /\ e.node = n
  BY DEF Entries, FirstSlot, Slots
<1>2. cursor' = Append(cursor, e) /\ pending' = pending
  BY DEF Open
<1> QED BY <1>1, <1>2

\* So is a function definition.
LEMMA OpenFunctionShape ==
  ASSUME IInv, NEW f \in Functions, OpenFunction(f)
  PROVE  /\ \E e \in Entries : e.node = f /\ cursor' = Append(cursor, e)
         /\ pending' \in Seq(Functions)
<1> DEFINE e == [node |-> f, slot |-> FirstSlot(f)]
<1>1. e \in Entries /\ e.node = f
  BY DEF Entries, FirstSlot, Slots
<1>2. f.kind = "func" /\ Room(f)
  BY DEF OpenFunction
<1>3. pending # <<>>
  BY <1>2 DEF Room
<1>4. Tail(pending) \in Seq(Functions)
  BY <1>3, InvParts DEF OthersOK
<1> QED BY <1>1, <1>4 DEF OpenFunction

\* Turning to the else branch leaves the path through the same statements.
LEMMA OpenElseShape ==
  ASSUME IInv, OpenElse
  PROVE  SameNodes(cursor', cursor) /\ pending' = pending /\ cursor # <<>>
<1> DEFINE top == cursor[Len(cursor)]
           new == [top EXCEPT !.slot = "else"]
<1>1. cursor # <<>> /\ cursor \in Seq(Entries)
  BY InvParts DEF OpenElse, Aligned
<1>2. top \in Entries
  BY <1>1
<1>3. new \in Entries /\ new.node = top.node
  BY <1>2 DEF Entries, Slots
<1>4. cursor' = [cursor EXCEPT ![Len(cursor)] = new] /\ pending' = pending
  BY DEF OpenElse
<1> HIDE DEF new
<1> QED BY <1>1, <1>3, <1>4 DEF SameNodes

\* A statement that is closed is taken off the end of the path.
LEMMA CloseShape ==
  ASSUME IInv, NEW kind, Close(kind)
  PROVE  /\ cursor # <<>>
         /\ Parent.node.kind = kind
         /\ SameNodes(cursor', Front(cursor)) /\ pending' = pending
<1>1. cursor # <<>>
  BY DEF Close
<1>2. Front(cursor) \in Seq(Entries)
  BY <1>1, PathEnd
<1> QED BY <1>1, <1>2, AdvanceShape DEF Close, Parent

\* The records after a child, and what a terminator makes of them.
LEMMA TerminatedShape ==
  ASSUME NEW fs \in Seq(Frames), NEW n
  PROVE  SameFrames(terminated(fs, n), fs)
<1>1. SameFrames(fs, fs)
  BY DEF SameFrames
<1>2. fs # <<>> => SameFrames([fs EXCEPT ![Len(fs)].list = "terminated"], fs)
  BY ListShape
<1> QED BY <1>1, <1>2 DEF terminated

\* Cutting a list off skips none of the statements that are open.
LEMMA CutShape ==
  ASSUME IInv, CutOff
  PROVE  SameFrames(cutFrames, frames)
<1>1. frames \in Seq(Frames) /\ frames # <<>>
  BY InvParts DEF Aligned, CutOff
<1>2. SameFrames(frames, frames)
  BY <1>1 DEF SameFrames
<1>3. SameFrames([frames EXCEPT ![Len(frames)].list = "cut"], frames)
  BY <1>1, ListShape
<1> QED BY <1>2, <1>3 DEF cutFrames

\* Whether a statement returns on all paths is a truth value.
LEMMA ReturnsType ==
  ASSUME IInv, cursor # <<>>
  PROVE  Returns \in BOOLEAN
BY PathEnd DEF Returns

\* A new record is typed and skipped as it was asked to be.
LEMMA FrameType ==
  ASSUME NEW skip \in BOOLEAN, NEW before \in SUBSET Name
  PROVE  frame(skip, before) \in Frames /\ frame(skip, before).skip = skip
BY DEF frame, Frames

\* The unreachable-code warning is a diagnostic.
LEMMA CutWarningType == cutWarning \subseteq Diagnostic
<1>1. <<"unreachable", "">> \in Diagnostic
  BY Kinds DEF Diagnostic
<1> QED BY <1>1 DEF cutWarning
--------------------------------------------------------------------------------
(***************************************************************************)
(* Every action preserves the inductive invariant.                         *)
(***************************************************************************)
\* Steps that leave the function under analysis alone keep the rest of the
\* state typed.
LEMMA OthersSame ==
  ASSUME IInv, InFunctionUnchanged, pending' = pending
  PROVE  OthersOK'
BY InvParts DEF OthersOK, InFunctionUnchanged

\* A step that leaves path and records alone leaves them through the same
\* statements.
LEMMA SameFramesRefl ==
  ASSUME IInv
  PROVE  SameFrames(frames, frames) /\ SameNodes(cursor, cursor)
BY InvParts DEF Aligned, SameFrames, SameNodes

\* A leaf that leaves as many scopes keeps the invariant.
LEMMA LeafStep ==
  ASSUME IInv, NEW n, NEW a \in Envs, Len(a.scopes) = Len(scopes), AnalyzeLeaf(n, a)
  PROVE  IInv'
<1> DEFINE done == childDone(frames, cursor, n.kind = "ret")
<1>1. SameNodes(cursor', cursor) /\ pending' = pending
  BY VisitLeafShape DEF AnalyzeLeaf
<1>2. EnvOK' /\ Len(scopes') = Len(scopes)
  BY BecomeType DEF AnalyzeLeaf
<1>3. OthersOK'
  BY <1>1, OthersSame DEF AnalyzeLeaf
<1>4. SameFrames(frames', frames)
  <2>1. frames \in Seq(Frames)
    BY InvParts DEF Aligned
  <2>2. SameFrames(done, frames) /\ done \in Seq(Frames)
    BY <2>1, ChildDoneShape DEF SameFrames
  <2>3. frames' = terminated(done, n)
    BY DEF AnalyzeLeaf
  <2> HIDE DEF done
  <2> QED BY <2>1, <2>2, <2>3, TerminatedShape, SameFramesTrans
<1>5. loopDepth' = loopDepth
  BY DEF AnalyzeLeaf
<1> QED BY <1>1, <1>2, <1>3, <1>4, <1>5, StaySame

\* Entering a statement keeps the invariant if it enters a scope exactly when
\* it has one of its own.
LEMMA EnterStep ==
  ASSUME IInv, NEW n \in Statements, NEW a \in Envs, NEW before \in SUBSET Name,
         Len(a.scopes) = Len(scopes) + (IF n.kind \in ScopeKinds THEN 1 ELSE 0),
         Enter(n, a, before)
  PROVE  IInv'
<1> DEFINE r == frame(FALSE, before)
           scopeAdded == IF n.kind \in ScopeKinds THEN 1 ELSE 0
           loopAdded == IF n.kind \in LoopKinds THEN 1 ELSE 0
<1>1. PICK e \in Entries : e.node = n /\ cursor' = Append(cursor, e) /\ pending' = pending
  BY OpenShape DEF Enter
<1>2. EnvOK' /\ scopes' = a.scopes
  BY BecomeType DEF Enter
<1>3. OthersOK'
  BY <1>1, OthersSame DEF Enter
<1>4. r \in Frames /\ r.skip = FALSE /\ frames' = Append(frames, r)
  BY FrameType DEF Enter
<1> HIDE DEF r
<1>5. /\ OneMore(frames', cursor', frames, cursor)
      /\ frames'[Len(frames')] = r
      /\ cursor'[Len(cursor')] = e
  BY <1>1, <1>4, InvParts, SameFramesRefl, Pushed
<1>6. /\ scopeAdded = Adds(frames'[Len(frames')], cursor'[Len(cursor')].node, ScopeKinds)
      /\ loopAdded = Adds(frames'[Len(frames')], cursor'[Len(cursor')].node, LoopKinds)
  BY <1>1, <1>4, <1>5 DEF Adds
<1>7. Len(scopes') = Len(scopes) + scopeAdded /\ loopDepth' = loopDepth + loopAdded
  BY <1>2 DEF Enter
<1>8. scopeAdded \in Nat /\ loopAdded \in Nat
  OBVIOUS
<1> HIDE DEF scopeAdded, loopAdded
<1> QED BY <1>2, <1>3, <1>5, <1>6, <1>7, <1>8, DownMore

\* Leaving a statement keeps the invariant if it leaves a scope exactly when it
\* has one of its own.
LEMMA LeaveStep ==
  ASSUME IInv, NEW kind, NEW a \in Envs,
         Len(a.scopes) = Len(scopes) - (IF kind \in ScopeKinds THEN 1 ELSE 0),
         Leave(kind, a), insideFunction' \in BOOLEAN
  PROVE  IInv'
<1>1. /\ cursor # <<>> /\ Parent.node.kind = kind
      /\ SameNodes(cursor', Front(cursor)) /\ pending' = pending
  BY CloseShape DEF Leave
<1>2. EnvOK' /\ scopes' = a.scopes
  BY BecomeType DEF Leave
<1>3. OthersOK'
  BY <1>1, InvParts DEF OthersOK, Leave
<1>4. SameFrames(frames', Front(frames))
  BY <1>1, PathEnd, ReturnsType, ChildDoneShape DEF Leave
<1>5. ~Local.skip
  BY DEF Leave
<1>6. Len(scopes') = Len(scopes) - Adds(Local, Parent.node, ScopeKinds)
  BY <1>1, <1>2, <1>5 DEF Adds
<1>7. loopDepth' = loopDepth - Adds(Local, Parent.node, LoopKinds)
  BY <1>1, <1>5 DEF Adds, Leave
<1> QED BY <1>1, <1>2, <1>3, <1>4, <1>6, <1>7, UpLess

\* The analyzer's variables as an environment with at least the global scope.
LEMMA EnvHere ==
  ASSUME IInv
  PROVE  /\ Env \in Envs /\ Env.scopes = scopes /\ Env.assigned = assigned
         /\ Env.scopes # <<>> /\ Len(scopes) \in Nat \ {0}
         /\ scopes \in Seq(Scopes) /\ assigned \in SUBSET Name
BY EnvType, InvParts DEF IInv, TypeOK

\* Every action at a leaf keeps the invariant.
LEMMA InvLeaf ==
  ASSUME IInv, NEW n \in Statements, Leaf(n)
  PROVE  IInv'
<1>1. CASE AnalyzeSimple(n)
  <2>1. IsSimple(n)
    BY <1>1, AstAssumption DEF IsStatement, AnalyzeSimple
  <2>2. Follows(analyzeSimple(Env, n), Env)
    BY <2>1, EnvHere, SimpleType
  <2> QED BY <1>1, <2>2, EnvHere, LeafStep DEF AnalyzeSimple, Follows
<1>2. CASE AnalyzeReturn(n)
  <2>1. Follows(analyzeReturnValue(Env, n), Env)
    BY EnvHere, ReturnType
  <2> QED BY <1>2, <2>1, EnvHere, LeafStep DEF AnalyzeReturn, Follows
<1>3. CASE AnalyzeJump(n)
  <2>1. Follows(report(Env, "jump", "", loopDepth <= 0), Env)
    BY EnvHere, FollowsReport, Kinds
  <2> QED BY <1>3, <2>1, EnvHere, LeafStep DEF AnalyzeJump, Follows
<1>4. CASE AnalyzeNull(n)
  BY <1>4, EnvHere, LeafStep DEF AnalyzeNull
<1>5. CASE SkipLeaf(n)
  <2>1. SameNodes(cursor', cursor) /\ pending' = pending
    BY <1>5, VisitLeafShape DEF SkipLeaf
  <2>2. EnvOK' /\ Len(scopes') = Len(scopes) /\ loopDepth' = loopDepth
    BY <1>5, InvParts, CutWarningType DEF SkipLeaf, Skipped, EnvOK
  <2>3. OthersOK'
    BY <1>5, <2>1, OthersSame DEF SkipLeaf, Skipped
  <2>4. SameFrames(frames', frames)
    <3>1. SameFrames(cutFrames, frames) /\ cutFrames \in Seq(Frames)
      BY <1>5, CutShape DEF SkipLeaf, SameFrames
    <3>2. SameFrames(frames', cutFrames)
      BY <1>5, <3>1, ChildDoneShape DEF SkipLeaf
    <3> QED BY <3>1, <3>2, InvParts, SameFramesTrans DEF Aligned
  <2> QED BY <2>1, <2>2, <2>3, <2>4, StaySame
<1> QED BY <1>1, <1>2, <1>3, <1>4, <1>5 DEF Leaf

\* Every action that enters a statement keeps the invariant.
LEMMA InvDown ==
  ASSUME IInv, NEW n \in Statements, Down(n)
  PROVE  IInv'
<1>1. CASE EnterBlock(n)
  <2> DEFINE a == [Env EXCEPT !.scopes = Append(@, EmptyScope)]
  <2>1. a \in Envs /\ Len(a.scopes) = Len(scopes) + 1
    BY EnvHere, PushScopeType
  <2>2. n.kind = "block" /\ Enter(n, a, {})
    BY <1>1 DEF EnterBlock
  <2> HIDE DEF a
  <2>3. n.kind \in ScopeKinds
    BY <2>2 DEF ScopeKinds
  <2> QED BY <2>1, <2>2, <2>3, EnterStep
<1>2. ASSUME n.kind \in {"if", "while"},
             Enter(n, analyzeCondition(Env, <<n.cond>>), assigned)
      PROVE  IInv'
  <2> DEFINE a == analyzeCondition(Env, <<n.cond>>)
  <2>1. Follows(a, Env)
    BY EnvHere, ConditionType
  <2> HIDE DEF a
  <2>2. a \in Envs /\ Len(a.scopes) = Len(scopes)
    BY <2>1, EnvHere DEF Follows
  <2>3. n.kind \notin ScopeKinds
    BY <1>2 DEF ScopeKinds
  <2>4. Enter(n, a, assigned)
    BY <1>2 DEF a
  <2> QED BY <2>2, <2>3, <2>4, EnvHere, EnterStep
<1>3. CASE EnterFor(n)
  <2> DEFINE a == analyzeForHeader(Env, n)
  <2>1. n.kind = "for" /\ Enter(n, a, a.assigned)
    BY <1>3 DEF EnterFor
  <2>2. IsStatement(n)
    BY AstAssumption
  <2>3. a \in Envs /\ Len(a.scopes) = Len(scopes) + 1
    BY <2>1, <2>2, EnvHere, HeaderType
  <2> HIDE DEF a
  <2>4. n.kind \in ScopeKinds /\ a.assigned \in SUBSET Name
    BY <2>1, <2>3 DEF ScopeKinds, Envs
  <2> QED BY <2>1, <2>3, <2>4, EnterStep
<1>4. CASE SkipEnter(n)
  <2> DEFINE r == frame(TRUE, {})
  <2>1. PICK e \in Entries : e.node = n /\ cursor' = Append(cursor, e) /\ pending' = pending
    BY <1>4, OpenShape DEF SkipEnter
  <2>2. EnvOK' /\ scopes' = scopes /\ loopDepth' = loopDepth
    BY <1>4, InvParts, CutWarningType DEF SkipEnter, Skipped, EnvOK
  <2>3. OthersOK'
    BY <1>4, <2>1, OthersSame DEF SkipEnter, Skipped
  <2>4. r \in Frames /\ r.skip = TRUE /\ frames' = Append(cutFrames, r)
    BY <1>4, FrameType DEF SkipEnter
  <2> HIDE DEF r
  <2>5. SameFrames(cutFrames, frames)
    BY <1>4, CutShape DEF SkipEnter
  <2>6. /\ OneMore(frames', cursor', frames, cursor)
        /\ frames'[Len(frames')] = r
    BY <2>1, <2>4, <2>5, InvParts, Pushed
  <2> DEFINE none == 0
  <2>7. \A kinds : none = Adds(frames'[Len(frames')], cursor'[Len(cursor')].node, kinds)
    BY <2>4, <2>6 DEF Adds
  <2>8. /\ none \in Nat
        /\ Len(scopes') = Len(scopes) + none /\ loopDepth' = loopDepth + none
    BY <2>2, InvParts
  <2> HIDE DEF none
  <2> QED BY <2>2, <2>3, <2>6, <2>7, <2>8, DownMore
<1> QED BY <1>1, <1>2, <1>3, <1>4 DEF Down, EnterIf, EnterWhile

\* Restoring definitelyAssigned, or joining two of its values, stays in Name.
LEMMA RestoredType ==
  ASSUME NEW a \in Envs, NEW s \in SUBSET Name
  PROVE  /\ [a EXCEPT !.assigned = s] \in Envs
         /\ [a EXCEPT !.assigned = s].scopes = a.scopes
BY DEF Envs

\* The assigned names kept for a branch or a loop are names.
LEMMA LocalType ==
  ASSUME IInv, cursor # <<>>
  PROVE  Local.before \in SUBSET Name /\ Local.afterThen \in SUBSET Name
BY PathEnd DEF Frames

\* Every action that leaves a statement keeps the invariant.
LEMMA InvUp ==
  ASSUME IInv, Up
  PROVE  IInv'
<1> DEFINE joined == IF Parent.slot = "done" THEN Local.afterThen \cap assigned ELSE {}
<1>1. CASE LeaveBlock
  <2>1. leaveScope(Env) \in Envs /\ Len(leaveScope(Env).scopes) = Len(scopes) - 1
    BY EnvHere, LeaveScopeType
  <2>2. Leave("block", leaveScope(Env)) /\ insideFunction' = insideFunction
    BY <1>1 DEF LeaveBlock
  <2>3. "block" \in ScopeKinds /\ insideFunction' \in BOOLEAN
    BY <2>2, InvParts DEF ScopeKinds, OthersOK
  <2> QED BY <2>1, <2>2, <2>3, LeaveStep
<1>2. CASE LeaveIf
  <2> DEFINE s == Local.before \cup joined
             a == [Env EXCEPT !.assigned = s]
  <2>1. Leave("if", a) /\ insideFunction' = insideFunction
    BY <1>2, EnvHere DEF LeaveIf
  <2>2. cursor # <<>>
    BY <2>1 DEF Leave, Close
  <2>3. s \in SUBSET Name
    BY <2>2, LocalType
  <2> HIDE DEF s
  <2>4. a \in Envs /\ a.scopes = scopes
    BY <2>3, EnvHere, RestoredType
  <2> HIDE DEF a
  <2>5. "if" \notin ScopeKinds /\ insideFunction' \in BOOLEAN
    BY <2>1, InvParts DEF ScopeKinds, OthersOK
  <2>6. Len(a.scopes) = Len(scopes) - 0
    BY <2>4, EnvHere
  <2> QED BY <2>1, <2>4, <2>5, <2>6, LeaveStep
<1>3. CASE LeaveWhile
  <2> DEFINE a == [Env EXCEPT !.assigned = Local.before]
  <2>1. Leave("while", a) /\ insideFunction' = insideFunction
    BY <1>3 DEF LeaveWhile
  <2>2. cursor # <<>>
    BY <2>1 DEF Leave, Close
  <2>3. a \in Envs /\ a.scopes = scopes
    BY <2>2, LocalType, EnvHere, RestoredType
  <2> HIDE DEF a
  <2>4. "while" \notin ScopeKinds /\ insideFunction' \in BOOLEAN
    BY <2>1, InvParts DEF ScopeKinds, OthersOK
  <2>5. Len(a.scopes) = Len(scopes) - 0
    BY <2>3, EnvHere
  <2> QED BY <2>1, <2>3, <2>4, <2>5, LeaveStep
<1>4. CASE LeaveFor
  <2> DEFINE left == leaveScope(Env)
             a == [left EXCEPT !.assigned = Local.before]
  <2>1. Leave("for", a) /\ insideFunction' = insideFunction
    BY <1>4 DEF LeaveFor
  <2>2. cursor # <<>>
    BY <2>1 DEF Leave, Close
  <2>3. left \in Envs /\ Len(left.scopes) = Len(scopes) - 1
    BY EnvHere, LeaveScopeType
  <2> HIDE DEF left
  <2>4. a \in Envs /\ Len(a.scopes) = Len(scopes) - 1
    BY <2>2, <2>3, LocalType, RestoredType
  <2> HIDE DEF a
  <2>5. "for" \in ScopeKinds /\ insideFunction' \in BOOLEAN
    BY <2>1, InvParts DEF ScopeKinds, OthersOK
  <2> QED BY <2>1, <2>4, <2>5, LeaveStep
<1>5. CASE SkipLeave
  <2>1. PICK kind \in CompoundKinds : Close(kind)
    BY <1>5 DEF SkipLeave
  <2>2. /\ cursor # <<>> /\ SameNodes(cursor', Front(cursor)) /\ pending' = pending
    BY <2>1, CloseShape
  <2>3. EnvOK' /\ scopes' = scopes /\ loopDepth' = loopDepth
    BY <1>5, InvParts DEF SkipLeave, Skipped, EnvOK
  <2>4. OthersOK'
    BY <1>5, <2>2, OthersSame DEF SkipLeave, Skipped
  <2>5. SameFrames(frames', Front(frames))
    BY <1>5, <2>2, PathEnd, ReturnsType, ChildDoneShape DEF SkipLeave
  <2>6. \A kinds : Adds(Local, Parent.node, kinds) = 0
    BY <1>5 DEF SkipLeave, Adds
  <2>7. /\ Len(scopes') = Len(scopes) - Adds(Local, Parent.node, ScopeKinds)
        /\ loopDepth' = loopDepth - Adds(Local, Parent.node, LoopKinds)
    BY <2>3, <2>6, InvParts
  <2> QED BY <2>2, <2>3, <2>4, <2>5, <2>7, UpLess
<1> QED BY <1>1, <1>2, <1>3, <1>4, <1>5 DEF Up

\* Entering a function keeps the invariant: its parameters have a scope of
\* their own.
LEMMA InvEnterFunction ==
  ASSUME IInv, pending # <<>>, EnterFunction(Head(pending))
  PROVE  IInv'
<1> DEFINE f == Head(pending)
           a == declareParameters(Env, f.params)
           r == frame(FALSE, assigned)
<1>1. f \in Functions /\ f.params \in Seq(Parameters) /\ f.ret \in DeclaredTypes
      /\ f.kind = "func"
  BY InvParts, AstAssumption DEF OthersOK, IsFunction
<1>2. a \in Envs /\ Len(a.scopes) = Len(scopes) + 1
  BY <1>1, EnvHere, ParametersType
<1>3. EnterFunction(f)
  OBVIOUS
<1>4. r \in Frames /\ r.skip = FALSE
  BY EnvHere, FrameType
<1> HIDE DEF f
<1>5. /\ OpenFunction(f) /\ Become(a) /\ frames' = Append(frames, r)
      /\ insideFunction' = TRUE /\ currentFunctionReturnType' = f.ret
      /\ UNCHANGED <<phase, functionTable, loopDepth>>
  BY <1>3 DEF EnterFunction
<1> HIDE DEF a, r
<1>6. PICK e \in Entries : e.node = f /\ cursor' = Append(cursor, e)
  BY <1>1, <1>5, OpenFunctionShape
<1>7. pending' \in Seq(Functions)
  BY <1>1, <1>5, OpenFunctionShape
<1>8. EnvOK' /\ scopes' = a.scopes
  BY <1>2, <1>5, BecomeType
<1>9. OthersOK'
  BY <1>1, <1>5, <1>7, InvParts DEF OthersOK
<1>10. /\ OneMore(frames', cursor', frames, cursor)
       /\ frames'[Len(frames')] = r
       /\ cursor'[Len(cursor')] = e
  BY <1>4, <1>5, <1>6, InvParts, SameFramesRefl, Pushed
<1> DEFINE one == 1
           none == 0
<1>11. /\ one = Adds(frames'[Len(frames')], cursor'[Len(cursor')].node, ScopeKinds)
       /\ none = Adds(frames'[Len(frames')], cursor'[Len(cursor')].node, LoopKinds)
  BY <1>1, <1>4, <1>6, <1>10 DEF Adds, ScopeKinds, LoopKinds
<1>12. /\ one \in Nat /\ none \in Nat
       /\ Len(scopes') = Len(scopes) + one /\ loopDepth' = loopDepth + none
  BY <1>2, <1>5, <1>8, InvParts
<1> HIDE DEF one, none
<1> QED BY <1>8, <1>9, <1>10, <1>11, <1>12, DownMore

\* Leaving a function keeps the invariant.
LEMMA InvLeaveFunction ==
  ASSUME IInv, LeaveFunction
  PROVE  IInv'
<1> DEFINE wrong == missingReturn(Parent.node)
           checked == report(Env, "missing return", "", wrong)
           left == leaveScope(checked)
           a == [left EXCEPT !.assigned = Local.before]
<1>1. Leave("func", a) /\ insideFunction' = FALSE
  BY DEF LeaveFunction
<1>2. cursor # <<>>
  BY <1>1 DEF Leave, Close
<1> HIDE DEF wrong
<1>3. checked \in Envs /\ Len(checked.scopes) = Len(scopes)
  <2>1. Follows(checked, Env)
    BY EnvHere, FollowsReport, Kinds
  <2> QED BY <2>1, EnvHere DEF Follows
<1> HIDE DEF checked
<1>4. left \in Envs /\ Len(left.scopes) = Len(scopes) - 1
  <2>1. checked.scopes # <<>>
    BY <1>3, EnvHere
  <2> QED BY <1>3, <2>1, LeaveScopeType
<1> HIDE DEF left
<1>5. a \in Envs /\ Len(a.scopes) = Len(scopes) - 1
  BY <1>2, <1>4, LocalType, RestoredType
<1> HIDE DEF a
<1>6. "func" \in ScopeKinds /\ insideFunction' \in BOOLEAN
  BY <1>1 DEF ScopeKinds
<1> QED BY <1>1, <1>5, <1>6, LeaveStep

\* Turning to the else branch keeps the invariant.
LEMMA InvElse ==
  ASSUME IInv, ElseBranch \/ SkipElse
  PROVE  IInv'
<1>1. SameNodes(cursor', cursor) /\ pending' = pending /\ cursor # <<>>
  BY OpenElseShape DEF ElseBranch, SkipElse
<1>2. CASE ElseBranch
  <2> DEFINE a == [Env EXCEPT !.assigned = Local.before]
             top == frames[Len(frames)]
             new == [top EXCEPT !.afterThen = assigned]
  <2>1. a \in Envs /\ a.scopes = scopes
    BY <1>1, LocalType, EnvHere, RestoredType
  <2>2. Become(a)
    BY <1>2 DEF ElseBranch
  <2> HIDE DEF a
  <2>3. EnvOK' /\ Len(scopes') = Len(scopes)
    BY <2>1, <2>2, BecomeType
  <2>4. OthersOK' /\ loopDepth' = loopDepth
    BY <1>1, <1>2, OthersSame DEF ElseBranch
  <2>5. frames # <<>> /\ frames \in Seq(Frames) /\ top \in Frames
    BY <1>1, PathEnd, InvParts DEF Aligned
  <2>6. new \in Frames /\ new.skip = top.skip
    BY <2>5, EnvHere DEF Frames
  <2>7. frames' = [frames EXCEPT ![Len(frames)] = new]
    BY <1>2 DEF ElseBranch
  <2> HIDE DEF new
  <2>8. SameFrames(frames', frames)
    BY <2>5, <2>6, <2>7, LastFrame
  <2> QED BY <1>1, <2>3, <2>4, <2>8, StaySame
<1>3. CASE SkipElse
  <2>1. EnvOK' /\ Len(scopes') = Len(scopes) /\ loopDepth' = loopDepth
    BY <1>3, InvParts DEF SkipElse, Skipped, EnvOK
  <2>2. OthersOK'
    BY <1>1, <1>3, OthersSame DEF SkipElse, Skipped
  <2>3. SameFrames(frames', frames)
    BY <1>3, SameFramesRefl DEF SkipElse
  <2> QED BY <1>1, <2>1, <2>2, <2>3, StaySame
<1> QED BY <1>2, <1>3

\* The first pass keeps the invariant: it touches no scope.
LEMMA InvGather ==
  ASSUME IInv, GatherSignatures
  PROVE  IInv'
<1> DEFINE names == {pending[i].name : i \in DOMAIN pending}
           again == Builtin \in names \/ Cardinality(names) < Len(pending)
           a == report(Env, "function", "", again)
<1>1. Become(a)
  BY DEF GatherSignatures
<1> HIDE DEF again
<1>2. a \in Envs /\ Len(a.scopes) = Len(scopes)
  <2>1. Follows(a, Env)
    BY EnvHere, FollowsReport, Kinds
  <2> QED BY <2>1, EnvHere DEF Follows
<1> HIDE DEF a
<1>3. EnvOK' /\ Len(scopes') = Len(scopes)
  BY <1>1, <1>2, BecomeType
<1>4. names \cup {Builtin} \subseteq FunctionNames
  BY InvParts DEF OthersOK, FunctionNames
<1>5. DOMAIN functionTable' = names \cup {Builtin}
  BY DEF GatherSignatures
<1>6. OthersOK'
  BY <1>4, <1>5, InvParts DEF OthersOK, GatherSignatures, treeVars
<1>7. SameFrames(frames', frames) /\ SameNodes(cursor', cursor) /\ loopDepth' = loopDepth
  BY SameFramesRefl DEF GatherSignatures, treeVars
<1> QED BY <1>3, <1>6, <1>7, StaySame

\* The end of the analysis keeps the invariant.
LEMMA InvFinish ==
  ASSUME IInv, Finish
  PROVE  IInv'
<1> DEFINE w == checkUnusedVariablesInCurrentScope(scopes)
           a == [Env EXCEPT !.diags = w]
<1>1. w \subseteq Diagnostic
  BY EnvHere, UnusedType
<1> HIDE DEF w
<1>2. a \in Envs /\ a.scopes = scopes
  BY <1>1, EnvHere DEF Envs
<1>3. Become(a)
  BY DEF Finish, w
<1> HIDE DEF a
<1>4. EnvOK' /\ Len(scopes') = Len(scopes)
  BY <1>2, <1>3, BecomeType
<1>5. OthersOK'
  BY InvParts DEF OthersOK, Finish, treeVars
<1>6. SameFrames(frames', frames) /\ SameNodes(cursor', cursor) /\ loopDepth' = loopDepth
  BY SameFramesRefl DEF Finish, treeVars
<1> QED BY <1>4, <1>5, <1>6, StaySame

\* So does a step that changes nothing.
LEMMA InvStutter ==
  ASSUME IInv, UNCHANGED vars
  PROVE  IInv'
<1>1. UNCHANGED <<cursor, pending, semVars>>
  BY DEF vars, treeVars
<1>2. OthersOK' /\ EnvOK'
  BY <1>1, InvParts DEF semVars, OthersOK, EnvOK
<1> QED BY <1>1, <1>2, SameFramesRefl, StaySame DEF semVars

\* The invariant holds before the analysis.
LEMMA InvInit ==
  ASSUME Init
  PROVE  IInv
<1>1. scopes = <<EmptyScope>> /\ loopDepth = 0 /\ frames = <<>> /\ cursor = <<>>
  BY DEF Init, TreeInit, SemInit
<1>2. scopes \in Seq(Scopes) /\ Len(scopes) = 1
  BY <1>1, EmptyScopeType
<1>3. CursorTypeOK
  BY <1>1, AstAssumption DEF Init, TreeInit, CursorTypeOK
<1>4. DOMAIN functionTable \subseteq FunctionNames
  BY DEF Init, SemInit
<1>5. frames \in Seq(Frames) /\ Len(frames) = Len(cursor) /\ loopDepth \in Nat
  BY <1>1
<1>6. TypeOK
  BY <1>2, <1>3, <1>4, <1>5 DEF Init, SemInit, TypeOK, DeclaredTypes
<1>7. \A kinds : Analysed(kinds) = {}
  BY <1>1 DEF Analysed
<1>8. Cardinality({}) = 0
  BY FS_EmptySet
<1>9. /\ Cardinality(Analysed({"block", "for", "func"})) = 0
      /\ Cardinality(Analysed(LoopKinds)) = 0
  BY <1>7, <1>8
<1>10. ScopesMatchPath /\ LoopDepthMatchesPath
  BY <1>1, <1>2, <1>9 DEF ScopesMatchPath, LoopDepthMatchesPath
<1> QED BY <1>6, <1>10 DEF IInv

\* Every step keeps the invariant.
LEMMA InvNext ==
  ASSUME IInv, [Next]_vars
  PROVE  IInv'
<1>1. ASSUME NEW n \in Statements, Leaf(n) \/ Down(n) PROVE IInv'
  BY <1>1, InvLeaf, InvDown
<1>2. CASE pending # <<>> /\ EnterFunction(Head(pending))
  BY <1>2, InvEnterFunction
<1>3. CASE ElseBranch \/ SkipElse
  BY <1>3, InvElse
<1>4. CASE Up
  BY <1>4, InvUp
<1>5. CASE LeaveFunction
  BY <1>5, InvLeaveFunction
<1>6. CASE GatherSignatures
  BY <1>6, InvGather
<1>7. CASE Finish
  BY <1>7, InvFinish
<1>8. CASE Terminating \/ UNCHANGED vars
  BY <1>8, InvStutter DEF Terminating
<1> QED BY <1>1, <1>2, <1>3, <1>4, <1>5, <1>6, <1>7, <1>8 DEF Next
--------------------------------------------------------------------------------
\* The analyzer's state is typed and its counts agree with the path in every
\* state of every program, of any depth.
THEOREM Balance == Spec => []IInv
<1>1. Init => IInv
  BY InvInit
<1>2. IInv /\ [Next]_vars => IInv'
  BY InvNext
<1> QED BY <1>1, <1>2, PTL DEF Spec

\* Every variable of SemanticAnalyzer and SymbolTable keeps its type; in
\* particular loopDepth never becomes negative and the scope stack is a
\* sequence of maps.
THEOREM TypeCorrect == Spec => []TypeOK
<1>1. IInv => TypeOK
  BY DEF IInv
<1> QED BY <1>1, Balance, PTL

\* enterScope and exitScope pair up on every path through analyze, so exitScope
\* never throws and the global scope is the only one left at the end.
THEOREM ScopesBalanced == Spec => []ScopesMatchPath
<1>1. IInv => ScopesMatchPath
  BY DEF IInv
<1> QED BY <1>1, Balance, PTL

\* loopDepth is the number of loops whose bodies are being analysed.
THEOREM LoopDepthBalanced == Spec => []LoopDepthMatchesPath
<1>1. IInv => LoopDepthMatchesPath
  BY DEF IInv
<1> QED BY <1>1, Balance, PTL
--------------------------------------------------------------------------------
(***************************************************************************)
(* Skipped statements, and what loopDepth says at a break or continue.     *)
(***************************************************************************)
\* What a step does to the activation records.
LEMMA FramesStep ==
  ASSUME IInv, [Next]_vars
  PROVE  \/ SameFrames(frames', frames)
         \/ frames # <<>> /\ SameFrames(frames', Front(frames))
         \/ \E gs, r : /\ SameFrames(gs, frames)
                       /\ frames' = Append(gs, r)
                       /\ r.skip \/ ~CutOff
<1> DEFINE Pushes == \E gs, r : /\ SameFrames(gs, frames)
                                /\ frames' = Append(gs, r)
                                /\ r.skip \/ ~CutOff
           Pops == frames # <<>> /\ SameFrames(frames', Front(frames))
           Keeps == SameFrames(frames', frames)
<1>1. ASSUME NEW n, NEW a, AnalyzeLeaf(n, a) PROVE Keeps
  <2> DEFINE done == childDone(frames, cursor, n.kind = "ret")
  <2>1. frames \in Seq(Frames)
    BY InvParts DEF Aligned
  <2>2. SameFrames(done, frames) /\ done \in Seq(Frames)
    BY <2>1, ChildDoneShape DEF SameFrames
  <2>3. frames' = terminated(done, n)
    BY <1>1 DEF AnalyzeLeaf
  <2> HIDE DEF done
  <2> QED BY <2>1, <2>2, <2>3, TerminatedShape, SameFramesTrans
<1>2. ASSUME NEW n, SkipLeaf(n) PROVE Keeps
  <2>1. SameFrames(cutFrames, frames) /\ cutFrames \in Seq(Frames)
    BY <1>2, CutShape DEF SkipLeaf, SameFrames
  <2>2. SameFrames(frames', cutFrames)
    BY <1>2, <2>1, ChildDoneShape DEF SkipLeaf
  <2> QED BY <2>1, <2>2, InvParts, SameFramesTrans DEF Aligned
<1>3. ASSUME NEW n, NEW a, NEW before, Enter(n, a, before) PROVE Pushes
  <2>1. SameFrames(frames, frames) /\ ~CutOff /\ frames' = Append(frames, frame(FALSE, before))
    BY <1>3, SameFramesRefl DEF Enter, Analyzing
  <2> QED BY <2>1
<1>4. ASSUME NEW n, SkipEnter(n) PROVE Pushes
  <2> DEFINE r == frame(TRUE, {})
  <2>1. SameFrames(cutFrames, frames)
    BY <1>4, CutShape DEF SkipEnter
  <2>2. frames' = Append(cutFrames, r) /\ r.skip = TRUE
    BY <1>4, FrameType DEF SkipEnter
  <2> HIDE DEF r
  <2> QED BY <2>1, <2>2
<1>5. ASSUME NEW f, EnterFunction(f) PROVE Pushes
  <2>1. SameFrames(frames, frames) /\ ~CutOff /\ frames' = Append(frames, frame(FALSE, assigned))
    BY <1>5, SameFramesRefl DEF EnterFunction, Analyzing
  <2> QED BY <2>1
<1>6. ASSUME NEW kind, Close(kind), frames' = childDone(Front(frames), cursor, Returns)
      PROVE  Pops
  <2>1. cursor # <<>>
    BY <1>6 DEF Close
  <2> QED BY <1>6, <2>1, PathEnd, ReturnsType, ChildDoneShape
<1>7. ASSUME NEW kind, NEW a, Leave(kind, a) PROVE Pops
  BY <1>6, <1>7 DEF Leave
<1>8. ASSUME SkipLeave PROVE Pops
  BY <1>6, <1>8 DEF SkipLeave
<1>9. ASSUME ElseBranch PROVE Keeps
  <2> DEFINE top == frames[Len(frames)]
             new == [top EXCEPT !.afterThen = assigned]
  <2>1. cursor # <<>>
    BY <1>9 DEF ElseBranch, OpenElse
  <2>2. frames # <<>> /\ frames \in Seq(Frames) /\ top \in Frames
    BY <2>1, PathEnd, InvParts DEF Aligned
  <2>3. new \in Frames /\ new.skip = top.skip
    BY <2>2, EnvHere DEF Frames
  <2>4. frames' = [frames EXCEPT ![Len(frames)] = new]
    BY <1>9 DEF ElseBranch
  <2> HIDE DEF new
  <2> QED BY <2>2, <2>3, <2>4, LastFrame
<1>10. ASSUME SkipElse \/ GatherSignatures \/ Finish \/ UNCHANGED vars PROVE Keeps
  <2>1. frames' = frames
    BY <1>10 DEF SkipElse, GatherSignatures, Finish, vars, semVars
  <2> QED BY <2>1, SameFramesRefl
<1> HIDE DEF Pushes, Pops, Keeps
<1>11. ASSUME NEW n, Leaf(n) PROVE Keeps
  BY <1>1, <1>2, <1>11
  DEF Leaf, AnalyzeSimple, AnalyzeReturn, AnalyzeJump, AnalyzeNull
<1>12. ASSUME NEW n, Down(n) PROVE Pushes
  BY <1>3, <1>4, <1>12 DEF Down, EnterBlock, EnterIf, EnterWhile, EnterFor
<1>13. ASSUME Up \/ LeaveFunction PROVE Pops
  BY <1>7, <1>8, <1>13
  DEF Up, LeaveBlock, LeaveIf, LeaveWhile, LeaveFor, LeaveFunction
<1>14. Keeps \/ Pops \/ Pushes
  BY <1>5, <1>9, <1>10, <1>11, <1>12, <1>13 DEF Next, Terminating
<1> QED BY <1>14 DEF Keeps, Pops, Pushes

\* What is inside a statement that is not analysed is not analysed.  In the code
\* this is so because analyzeBlock does not go there; here the walk does, and
\* carries a mark.
SkipInherited ==
  \A i, j \in DOMAIN frames : i < j /\ frames[i].skip => frames[j].skip

\* Every step keeps skipped what is inside a skipped statement.
LEMMA SkipStep ==
  ASSUME IInv, SkipInherited, [Next]_vars
  PROVE  SkipInherited'
<1>1. frames \in Seq(Frames) /\ Len(frames) \in Nat
  BY InvParts DEF Aligned
<1>2. CASE SameFrames(frames', frames)
  BY <1>1, <1>2 DEF SkipInherited, SameFrames
<1>3. CASE frames # <<>> /\ SameFrames(frames', Front(frames))
  <2>1. /\ Len(Front(frames)) = Len(frames) - 1
        /\ \A i \in 1 .. Len(frames) - 1 : Front(frames)[i] = frames[i]
    <3>1. cursor # <<>>
      BY <1>1, <1>3, InvParts DEF Aligned
    <3> QED BY <3>1, PathEnd
  <2>2. /\ frames' \in Seq(Frames) /\ Len(frames') = Len(frames) - 1
        /\ \A i \in 1 .. Len(frames) - 1 : frames'[i].skip = frames[i].skip
    BY <1>3, <2>1 DEF SameFrames
  <2> QED BY <1>1, <2>2 DEF SkipInherited
<1>4. ASSUME NEW gs, NEW r, SameFrames(gs, frames), frames' = Append(gs, r),
             r.skip \/ ~CutOff
      PROVE  SkipInherited'
  <2>1. /\ gs \in Seq(Frames) /\ Len(gs) = Len(frames)
        /\ \A i \in 1 .. Len(gs) : gs[i].skip = frames[i].skip
    BY <1>1, <1>4 DEF SameFrames
  <2>2. /\ DOMAIN frames' = 1 .. Len(gs) + 1
        /\ frames'[Len(gs) + 1] = r
        /\ \A i \in 1 .. Len(gs) : frames'[i].skip = frames[i].skip
    BY <1>4, <2>1
  <2>3. ~CutOff => \A i \in 1 .. Len(frames) : ~frames[i].skip
    BY <1>1 DEF CutOff, Local, Last, SkipInherited
  <2>4. \A i \in 1 .. Len(gs) : frames'[i].skip => r.skip
    BY <1>4, <2>1, <2>2, <2>3
  <2>5. ASSUME NEW i \in DOMAIN frames', NEW j \in DOMAIN frames', i < j, frames'[i].skip
        PROVE  frames'[j].skip
    <3>1. i \in 1 .. Len(gs)
      BY <1>1, <2>1, <2>2, <2>5
    <3>2. CASE j = Len(gs) + 1
      BY <2>2, <2>4, <2>5, <3>1, <3>2
    <3>3. CASE j \in 1 .. Len(gs)
      BY <1>1, <2>1, <2>2, <2>5, <3>1, <3>3 DEF SkipInherited
    <3> QED BY <1>1, <2>1, <2>2, <3>2, <3>3
  <2> QED BY <2>5 DEF SkipInherited
<1> QED BY <1>2, <1>3, <1>4, FramesStep

\* What follows a terminator is skipped at every depth.
LEMMA SkippedBelow == Spec => []SkipInherited
<1>1. Init => SkipInherited
  BY DEF Init, SemInit, SkipInherited
<1>2. IInv /\ SkipInherited /\ [Next]_vars => SkipInherited'
  BY SkipStep
<1> QED BY <1>1, <1>2, Balance, PTL DEF Spec

\* Where statements are analysed, loopDepth is zero exactly when no loop is
\* open.
LEMMA NoLoopCounted ==
  ASSUME IInv, SkipInherited, ~CutOff
  PROVE  loopDepth <= 0 <=> ~InLoop
<1> DEFINE loops == Counted(frames, cursor, LoopKinds)
<1>1. Aligned(frames, cursor) /\ loopDepth = Cardinality(loops) /\ loopDepth \in Nat
  BY InvParts
<1>2. frames \in Seq(Frames) /\ Len(frames) \in Nat /\ Len(frames) = Len(cursor)
      /\ cursor \in Seq(Entries)
  BY <1>1 DEF Aligned
<1>3. \A i \in 1 .. Len(frames) : ~frames[i].skip
  BY <1>2 DEF CutOff, Local, Last, SkipInherited
<1>4. loops = {i \in 1 .. Len(frames) : cursor[i].node.kind \in LoopKinds}
  BY <1>3 DEF Counted
<1>5. loops # {} <=> InLoop
  BY <1>2, <1>4 DEF InLoop
<1>6. IsFiniteSet(loops)
  BY <1>1, CountType
<1>7. Cardinality(loops) = 0 <=> loops = {}
  BY <1>6, FS_EmptySet
<1> HIDE DEF loops
<1> QED BY <1>1, <1>5, <1>7

\* The analyzer reports a break or continue it visits exactly when no loop
\* encloses it, although loopDepth is one counter that function definitions
\* do not save and skipped loops do not count in.
THEOREM JumpsReported == Spec => MisplacedJumpsReported
<1> DEFINE Reported == \A n \in Statements :
                         AnalyzeJump(n) => (<<"jump", "">> \in diags' <=> ~InLoop)
<1>1. ASSUME IInv, SkipInherited, NEW n \in Statements, AnalyzeJump(n)
      PROVE  <<"jump", "">> \in diags' <=> ~InLoop
  <2>1. ~CutOff /\ diags' = report(Env, "jump", "", loopDepth <= 0).diags
    BY <1>1 DEF AnalyzeJump, AnalyzeLeaf, Analyzing, Become
  <2>2. <<"jump", "">> \in diags' <=> loopDepth <= 0
    BY <2>1 DEF report, Env
  <2> QED BY <1>1, <2>1, <2>2, NoLoopCounted
<1>2. IInv /\ SkipInherited => Reported
  BY <1>1
<1>3. Spec => [][Reported]_vars
  BY <1>2, Balance, SkippedBelow, PTL
<1> QED BY <1>3 DEF MisplacedJumpsReported
--------------------------------------------------------------------------------
(***************************************************************************)
(* Which function the analyzer takes a statement to be in, and what it     *)
(* takes for definitely assigned.                                          *)
(***************************************************************************)
\* The statements whose analysis restores definitelyAssigned.
Branching == {"if", "while", "for"}

\* An inner statement starts from at least what an outer one started from.
BeforeGrows ==
  \A i, j \in Analysed(Branching) : i < j => frames[i].before \subseteq frames[j].before

PathInv == /\ Walk(cursor) /\ InsideFunctionMatchesPath
           /\ BeforeGrows /\ BeforeStaysAssigned

--------------------------------------------------------------------------------
(***************************************************************************)
(* The same of any path fs, path with the names as assigned.               *)
(***************************************************************************)
InFunction(path, inside, ret) ==
  /\ inside <=> \E i \in 1 .. Len(path) : path[i].node.kind = "func"
  /\ inside => ret = path[1].node.ret

Branches(fs, path, i) == ~fs[i].skip /\ path[i].node.kind \in Branching

Kept(fs, path, as) ==
  \A i \in 1 .. Len(fs) : Branches(fs, path, i) =>
    /\ fs[i].before \subseteq as
    /\ path[i].node.kind = "if" /\ path[i].slot \in {"else", "done"}
         => fs[i].before \subseteq fs[i].afterThen
    /\ \A j \in 1 .. Len(fs) : i < j /\ Branches(fs, path, j)
         => fs[i].before \subseteq fs[j].before

LEMMA PathInvIs ==
  IInv => (PathInv <=> /\ Walk(cursor)
                       /\ InFunction(cursor, insideFunction, currentFunctionReturnType)
                       /\ Kept(frames, cursor, assigned))
<1> SUFFICES ASSUME IInv
             PROVE  PathInv <=> /\ Walk(cursor)
                                /\ InFunction(cursor, insideFunction, currentFunctionReturnType)
                                /\ Kept(frames, cursor, assigned)
  OBVIOUS
<1>1. /\ frames \in Seq(Frames) /\ cursor \in Seq(Entries) /\ Len(frames) = Len(cursor)
      /\ DOMAIN cursor = 1 .. Len(cursor) /\ DOMAIN frames = 1 .. Len(frames)
  BY InvParts DEF Aligned
<1>2. InsideFunctionMatchesPath
        <=> InFunction(cursor, insideFunction, currentFunctionReturnType)
  BY <1>1 DEF InsideFunctionMatchesPath, InFunction
<1>3. BeforeGrows /\ BeforeStaysAssigned <=> Kept(frames, cursor, assigned)
  BY <1>1 DEF BeforeGrows, BeforeStaysAssigned, Kept, Branches, Analysed, Branching
<1> QED BY <1>2, <1>3 DEF PathInv

\* Records that differ in what the walk notes about children alone.
SameRecords(gs, fs) ==
  /\ gs \in Seq(Frames)
  /\ Len(gs) = Len(fs)
  /\ \A i \in 1 .. Len(fs) : /\ gs[i].skip = fs[i].skip
                             /\ gs[i].before = fs[i].before
                             /\ gs[i].afterThen = fs[i].afterThen

LEMMA LastRecord ==
  ASSUME NEW fs \in Seq(Frames), fs # <<>>, NEW r \in Frames,
         r.skip = fs[Len(fs)].skip, r.before = fs[Len(fs)].before,
         r.afterThen = fs[Len(fs)].afterThen
  PROVE  SameRecords([fs EXCEPT ![Len(fs)] = r], fs)
BY DEF SameRecords

\* Noting that a child is done changes no set of names.
LEMMA ChildDoneRecords ==
  ASSUME NEW fs \in Seq(Frames), NEW path, NEW returns \in BOOLEAN
  PROVE  SameRecords(childDone(fs, path, returns), fs)
<1>1. CASE fs = <<>>
  BY <1>1 DEF childDone, SameRecords
<1>2. CASE fs # <<>>
  <2> DEFINE top == fs[Len(fs)]
             ret == returnsWith(path[Len(fs)], top.ret, returns)
             new == [top EXCEPT !.ret = ret]
  <2>1. top \in Frames
    BY <1>2
  <2>2. top.ret \in BOOLEAN
    BY <2>1 DEF Frames
  <2>3. ret \in BOOLEAN
    BY <2>2 DEF returnsWith
  <2>4. childDone(fs, path, returns) = [fs EXCEPT ![Len(fs)] = new]
    BY <1>2 DEF childDone
  <2> HIDE DEF ret
  <2>5. /\ new \in Frames /\ new.skip = top.skip /\ new.before = top.before
        /\ new.afterThen = top.afterThen
    BY <2>1, <2>3 DEF Frames
  <2> HIDE DEF new
  <2> QED BY <1>2, <2>4, <2>5, LastRecord
<1> QED BY <1>1, <1>2

\* Nor does noting how a list of statements went on.
LEMMA ListRecords ==
  ASSUME NEW fs \in Seq(Frames), fs # <<>>, NEW l \in {"open", "terminated", "cut"}
  PROVE  SameRecords([fs EXCEPT ![Len(fs)].list = l], fs)
<1> DEFINE top == fs[Len(fs)]
           new == [top EXCEPT !.list = l]
<1>1. top \in Frames
  OBVIOUS
<1>2. /\ new \in Frames /\ new.skip = top.skip /\ new.before = top.before
      /\ new.afterThen = top.afterThen
  BY <1>1 DEF Frames
<1>3. [fs EXCEPT ![Len(fs)].list = l] = [fs EXCEPT ![Len(fs)] = new]
  OBVIOUS
<1> HIDE DEF new
<1> QED BY <1>2, <1>3, LastRecord

LEMMA SameRecordsTrans ==
  ASSUME NEW fs \in Seq(Frames), NEW gs, NEW hs, SameRecords(gs, fs), SameRecords(hs, gs)
  PROVE  SameRecords(hs, fs)
BY DEF SameRecords

LEMMA TerminatedRecords ==
  ASSUME NEW fs \in Seq(Frames), NEW n
  PROVE  SameRecords(terminated(fs, n), fs)
<1>1. SameRecords(fs, fs)
  BY DEF SameRecords
<1>2. fs # <<>> => SameRecords([fs EXCEPT ![Len(fs)].list = "terminated"], fs)
  BY ListRecords
<1> QED BY <1>1, <1>2 DEF terminated

LEMMA CutRecords ==
  ASSUME IInv, CutOff
  PROVE  SameRecords(cutFrames, frames)
<1>1. frames \in Seq(Frames) /\ frames # <<>>
  BY InvParts DEF Aligned, CutOff
<1>2. SameRecords(frames, frames)
  BY <1>1 DEF SameRecords
<1>3. SameRecords([frames EXCEPT ![Len(frames)].list = "cut"], frames)
  BY <1>1, ListRecords
<1> QED BY <1>2, <1>3 DEF cutFrames

--------------------------------------------------------------------------------
(***************************************************************************)
(* What the ways a step can change the path do to these facts.             *)
(***************************************************************************)
LEMMA KeptAdvanced ==
  ASSUME NEW fs \in Seq(Frames), NEW path, Walk(path), Len(fs) = Len(path),
         NEW as, Kept(fs, path, as),
         NEW gs, SameRecords(gs, fs), NEW path2, Advanced(path2, path),
         path # <<>> => path[Len(path)].slot \in Waiting,
         NEW as2, as \subseteq as2
  PROVE  Kept(gs, path2, as2)
<1>1. /\ Len(fs) \in Nat /\ Len(gs) = Len(fs)
      /\ \A i \in 1 .. Len(fs) : /\ gs[i].before = fs[i].before
                                 /\ gs[i].afterThen = fs[i].afterThen
      /\ \A i \in 1 .. Len(fs) : Branches(gs, path2, i) <=> Branches(fs, path, i)
      /\ \A i \in 1 .. Len(fs) : path2[i].node = path[i].node
  BY DEF SameRecords, Advanced, SameNodes, Branches
<1>2. ASSUME NEW i \in 1 .. Len(fs), path[i].node.kind = "if",
             path2[i].slot \in {"else", "done"}
      PROVE  path[i].slot \in {"else", "done"}
  <2>1. path[i].slot # "body"
    BY <1>2 DEF Walk
  <2>2. CASE i = Len(path)
    <3>1. path[i].slot \in Waiting /\ path2[i].slot = Filled(path[i].slot)
      BY <2>2 DEF Advanced
    <3> QED BY <1>2, <2>1, <3>1 DEF Waiting, Filled
  <2>3. CASE i # Len(path)
    BY <1>2, <2>3 DEF Advanced
  <2> QED BY <2>2, <2>3
<1>3. ASSUME NEW i \in 1 .. Len(gs), Branches(gs, path2, i)
      PROVE  /\ gs[i].before \subseteq as2
             /\ path2[i].node.kind = "if" /\ path2[i].slot \in {"else", "done"}
                  => gs[i].before \subseteq gs[i].afterThen
             /\ \A j \in 1 .. Len(gs) : i < j /\ Branches(gs, path2, j)
                  => gs[i].before \subseteq gs[j].before
  <2>1. i \in 1 .. Len(fs) /\ Branches(fs, path, i)
    BY <1>1, <1>3
  <2>2. fs[i].before \subseteq as
    BY <2>1 DEF Kept
  <2>3. path[i].node.kind = "if" /\ path[i].slot \in {"else", "done"}
          => fs[i].before \subseteq fs[i].afterThen
    BY <2>1 DEF Kept
  <2>4. \A j \in 1 .. Len(fs) : i < j /\ Branches(fs, path, j)
          => fs[i].before \subseteq fs[j].before
    BY <2>1 DEF Kept
  <2> QED BY <1>1, <1>2, <2>1, <2>2, <2>3, <2>4
<1> QED BY <1>3 DEF Kept

LEMMA KeptFront ==
  ASSUME NEW fs \in Seq(Frames), NEW path, Len(fs) = Len(path), fs # <<>>,
         NEW as, Kept(fs, path, as), NEW as2,
         \/ as \subseteq as2
         \/ Branches(fs, path, Len(fs)) /\ fs[Len(fs)].before \subseteq as2
         \/ Len(fs) = 1,
         NEW gs \in Seq(Frames), Len(gs) = Len(fs) - 1, NEW front,
         \A i \in 1 .. Len(fs) - 1 : gs[i] = fs[i] /\ front[i] = path[i]
  PROVE  Kept(gs, front, as2)
<1>1. Len(fs) \in Nat \ {0}
  OBVIOUS
<1>2. \A i \in 1 .. Len(gs) : Branches(gs, front, i) <=> Branches(fs, path, i)
  BY <1>1 DEF Branches
<1>3. ASSUME NEW i \in 1 .. Len(gs), Branches(fs, path, i)
      PROVE  fs[i].before \subseteq as2
  <2>1. i \in 1 .. Len(fs) /\ Len(fs) \in 1 .. Len(fs) /\ i < Len(fs)
    BY <1>1
  <2>2. fs[i].before \subseteq as
    BY <1>3, <2>1 DEF Kept
  <2>3. Branches(fs, path, Len(fs)) => fs[i].before \subseteq fs[Len(fs)].before
    BY <1>3, <2>1 DEF Kept
  <2>4. Len(fs) # 1
    BY <1>1
  <2>5. as \subseteq as2 => fs[i].before \subseteq as2
    BY <2>2
  <2>6. Branches(fs, path, Len(fs)) /\ fs[Len(fs)].before \subseteq as2
          => fs[i].before \subseteq as2
    BY <2>3
  <2> QED BY <2>4, <2>5, <2>6
<1>4. ASSUME NEW i \in 1 .. Len(gs), Branches(gs, front, i)
      PROVE  /\ gs[i].before \subseteq as2
             /\ front[i].node.kind = "if" /\ front[i].slot \in {"else", "done"}
                  => gs[i].before \subseteq gs[i].afterThen
             /\ \A j \in 1 .. Len(gs) : i < j /\ Branches(gs, front, j)
                  => gs[i].before \subseteq gs[j].before
  <2>1. i \in 1 .. Len(fs) /\ Branches(fs, path, i) /\ gs[i] = fs[i] /\ front[i] = path[i]
    BY <1>1, <1>2, <1>4
  <2>2. path[i].node.kind = "if" /\ path[i].slot \in {"else", "done"}
          => fs[i].before \subseteq fs[i].afterThen
    BY <2>1 DEF Kept
  <2>3. \A j \in 1 .. Len(fs) : i < j /\ Branches(fs, path, j)
          => fs[i].before \subseteq fs[j].before
    BY <2>1 DEF Kept
  <2>4. \A j \in 1 .. Len(gs) : j \in 1 .. Len(fs) /\ gs[j] = fs[j]
    BY <1>1
  <2> QED BY <1>2, <1>3, <2>1, <2>2, <2>3, <2>4
<1> QED BY <1>4 DEF Kept

LEMMA KeptAppend ==
  ASSUME NEW fs \in Seq(Frames), NEW path \in Seq(Entries), Len(fs) = Len(path),
         NEW as, Kept(fs, path, as), NEW gs, SameRecords(gs, fs),
         NEW r \in Frames, NEW e \in Entries, NEW as2,
         fs # <<>> => as \subseteq as2,
         ~r.skip /\ e.node.kind \in Branching
           => /\ as \subseteq r.before /\ r.before \subseteq as2
              /\ e.slot \notin {"else", "done"}
  PROVE  Kept(Append(gs, r), Append(path, e), as2)
<1> DEFINE hs == Append(gs, r)
           path2 == Append(path, e)
           m == Len(fs) + 1
<1>1. /\ Len(fs) \in Nat /\ Len(hs) = m /\ hs[m] = r /\ path2[m] = e
      /\ \A i \in 1 .. Len(fs) : hs[i] = gs[i] /\ path2[i] = path[i]
  BY DEF SameRecords
<1> HIDE DEF hs, path2
<1>2. /\ \A i \in 1 .. Len(fs) : Branches(hs, path2, i) <=> Branches(fs, path, i)
      /\ \A i \in 1 .. Len(fs) : /\ hs[i].before = fs[i].before
                                 /\ hs[i].afterThen = fs[i].afterThen
      /\ Branches(hs, path2, m) <=> ~r.skip /\ e.node.kind \in Branching
  BY <1>1 DEF SameRecords, Branches
<1>3. ASSUME NEW i \in 1 .. Len(fs), Branches(fs, path, i)
      PROVE  /\ fs[i].before \subseteq as /\ fs[i].before \subseteq as2
             /\ path2[i].node.kind = "if" /\ path2[i].slot \in {"else", "done"}
                  => hs[i].before \subseteq hs[i].afterThen
             /\ \A j \in 1 .. Len(fs) : i < j /\ Branches(fs, path, j)
                  => fs[i].before \subseteq fs[j].before
  <2>1. fs # <<>>
    OBVIOUS
  <2>2. fs[i].before \subseteq as
    BY <1>3 DEF Kept
  <2>3. path[i].node.kind = "if" /\ path[i].slot \in {"else", "done"}
          => fs[i].before \subseteq fs[i].afterThen
    BY <1>3 DEF Kept
  <2>4. \A j \in 1 .. Len(fs) : i < j /\ Branches(fs, path, j)
          => fs[i].before \subseteq fs[j].before
    BY <1>3 DEF Kept
  <2> QED BY <1>1, <1>2, <2>1, <2>2, <2>3, <2>4
<1>4. ASSUME NEW i \in 1 .. Len(hs), Branches(hs, path2, i)
      PROVE  /\ hs[i].before \subseteq as2
             /\ path2[i].node.kind = "if" /\ path2[i].slot \in {"else", "done"}
                  => hs[i].before \subseteq hs[i].afterThen
             /\ \A j \in 1 .. Len(hs) : i < j /\ Branches(hs, path2, j)
                  => hs[i].before \subseteq hs[j].before
  <2>1. CASE i = m
    <3>1. \A j \in 1 .. Len(hs) : ~(i < j)
      BY <1>1, <2>1
    <3>2. ~r.skip /\ e.node.kind \in Branching /\ hs[i] = r /\ path2[i] = e
      BY <1>1, <1>2, <1>4, <2>1
    <3>3. r.before \subseteq as2 /\ e.slot \notin {"else", "done"}
      BY <3>2
    <3> QED BY <3>1, <3>2, <3>3
  <2>2. CASE i # m
    <3>1. i \in 1 .. Len(fs)
      BY <1>1, <2>2
    <3>2. Branches(fs, path, i)
      BY <1>2, <1>4, <3>1
    <3>3. ASSUME NEW j \in 1 .. Len(hs), i < j, Branches(hs, path2, j)
          PROVE  hs[i].before \subseteq hs[j].before
      <4>1. CASE j = m
        BY <1>1, <1>2, <1>3, <3>1, <3>2, <3>3, <4>1
      <4>2. CASE j # m
        <5>1. j \in 1 .. Len(fs)
          BY <1>1, <4>2
        <5> QED BY <1>2, <1>3, <3>1, <3>2, <3>3, <5>1
      <4> QED BY <4>1, <4>2
    <3> QED BY <1>2, <1>3, <3>1, <3>2, <3>3
  <2> QED BY <2>1, <2>2
<1> QED BY <1>4 DEF Kept, hs, path2

--------------------------------------------------------------------------------
(***************************************************************************)
(* Every action keeps the invariant.                                       *)
(***************************************************************************)
LEMMA PathInvParts ==
  ASSUME IInv, PathInv
  PROVE  /\ Walk(cursor) /\ Kept(frames, cursor, assigned)
         /\ InFunction(cursor, insideFunction, currentFunctionReturnType)
         /\ frames \in Seq(Frames) /\ cursor \in Seq(Entries) /\ Len(frames) = Len(cursor)
BY PathInvIs, InvParts DEF Aligned

LEMMA PathInvOfParts ==
  ASSUME IInv', Walk(cursor'), Kept(frames', cursor', assigned'),
         InFunction(cursor', insideFunction', currentFunctionReturnType')
  PROVE  PathInv'
<1>1. (IInv => (PathInv <=> /\ Walk(cursor)
                            /\ InFunction(cursor, insideFunction, currentFunctionReturnType)
                            /\ Kept(frames, cursor, assigned)))'
  BY PathInvIs, PTL
<1> QED BY <1>1

SameFunction == /\ insideFunction' = insideFunction
                /\ currentFunctionReturnType' = currentFunctionReturnType

\* A step at a leaf.
LEMMA LeafKeeps ==
  ASSUME IInv, IInv', PathInv, SameFunction, SameRecords(frames', frames),
         NEW n, VisitLeaf(n), assigned \subseteq assigned'
  PROVE  PathInv'
<1>1. cursor # <<>> => cursor[Len(cursor)].slot \in Waiting
  BY RoomWaits DEF VisitLeaf
<1>2. Advanced(cursor', cursor)
  BY PathInvParts, AdvanceAdvances DEF VisitLeaf
<1>3. Walk(cursor')
  BY <1>1, <1>2, PathInvParts, WalkAdvanced
<1>4. Kept(frames', cursor', assigned')
  BY <1>1, <1>2, PathInvParts, KeptAdvanced
<1>5. InFunction(cursor', insideFunction', currentFunctionReturnType')
  <2>1. /\ Len(cursor') = Len(cursor) /\ Len(cursor) \in Nat
        /\ \A i \in 1 .. Len(cursor) : cursor'[i].node = cursor[i].node
    BY <1>2, PathInvParts DEF Advanced, SameNodes
  <2> QED BY <2>1, PathInvParts DEF InFunction, SameFunction
<1> QED BY <1>3, <1>4, <1>5, PathInvOfParts

\* A step into a statement other than a function.
LEMMA OpenKeeps ==
  ASSUME IInv, IInv', PathInv, SameFunction, NEW n \in Statements, Open(n),
         NEW gs, SameRecords(gs, frames), NEW r \in Frames, frames' = Append(gs, r),
         assigned \subseteq assigned',
         ~r.skip /\ n.kind \in Branching
           => assigned \subseteq r.before /\ r.before \subseteq assigned'
  PROVE  PathInv'
<1> DEFINE e == [node |-> n, slot |-> FirstSlot(n)]
<1>1. /\ e \in Entries /\ e.node = n /\ cursor' = Append(cursor, e)
      /\ (n.kind = "if" => e.slot # "body") /\ e.slot \notin {"else", "done"}
      /\ (e.slot \in {"then", "thenDone"} => n.kind = "if")
      /\ (e.slot = "list" => n.kind = "block")
  BY DEF Entries, FirstSlot, Slots, Open
<1>2. n.kind # "func" /\ (cursor # <<>> => cursor[Len(cursor)].slot \in Waiting)
  BY RoomWaits DEF Open, CompoundKinds, LoopKinds
<1> HIDE DEF e
<1>3. Walk(cursor')
  BY <1>1, <1>2, PathInvParts, WalkAppend
<1>4. Kept(frames', cursor', assigned')
  BY <1>1, PathInvParts, KeptAppend
<1>5. InFunction(cursor', insideFunction', currentFunctionReturnType')
  <2>1. /\ Len(cursor') = Len(cursor) + 1 /\ Len(cursor) \in Nat
        /\ cursor'[Len(cursor) + 1] = e
        /\ \A i \in 1 .. Len(cursor) : cursor'[i] = cursor[i]
    BY <1>1, PathInvParts
  <2>2. (\E i \in 1 .. Len(cursor') : cursor'[i].node.kind = "func")
          <=> \E i \in 1 .. Len(cursor) : cursor[i].node.kind = "func"
    BY <1>1, <1>2, <2>1
  <2>3. insideFunction => cursor'[1] = cursor[1]
    BY <2>1, PathInvParts DEF InFunction
  <2> QED BY <2>2, <2>3, PathInvParts DEF InFunction, SameFunction
<1> QED BY <1>3, <1>4, <1>5, PathInvOfParts

\* A step out of a statement.
LEMMA CloseKeeps ==
  ASSUME IInv, IInv', PathInv, NEW kind, Close(kind),
         frames' = childDone(Front(frames), cursor, Returns),
         currentFunctionReturnType' = currentFunctionReturnType,
         insideFunction' = IF kind = "func" THEN FALSE ELSE insideFunction,
         \/ assigned \subseteq assigned'
         \/ ~Local.skip /\ kind \in Branching /\ Local.before \subseteq assigned'
         \/ kind = "func"
  PROVE  PathInv'
<1> DEFINE fs == Front(frames)
           front == Front(cursor)
<1>1. /\ cursor # <<>> /\ cursor' = Advance(front) /\ Parent.node.kind = kind
  BY DEF Close, Parent
<1>2. /\ frames # <<>> /\ Len(frames) \in Nat \ {0}
      /\ Local = frames[Len(frames)] /\ Parent = cursor[Len(cursor)]
      /\ fs \in Seq(Frames) /\ front \in Seq(Entries)
      /\ Len(fs) = Len(frames) - 1 /\ Len(front) = Len(frames) - 1
      /\ \A i \in 1 .. Len(frames) - 1 : fs[i] = frames[i] /\ front[i] = cursor[i]
      /\ Len(frames) = Len(cursor)
  BY <1>1, PathEnd
<1>3. SameRecords(frames', fs) /\ Advanced(cursor', front)
  BY <1>1, <1>2, ReturnsType, ChildDoneRecords, AdvanceAdvances
<1> HIDE DEF fs, front
<1>4. Walk(front) /\ (front # <<>> => front[Len(front)].slot \in Waiting)
  BY <1>1, <1>2, PathInvParts, WalkFront
<1>5. kind = "func" => Len(frames) = 1
  BY <1>1, <1>2, PathInvParts DEF Walk
<1>6. Kept(fs, front, assigned')
  <2>1. \/ assigned \subseteq assigned'
        \/ Branches(frames, cursor, Len(frames)) /\ frames[Len(frames)].before \subseteq assigned'
        \/ Len(frames) = 1
    BY <1>1, <1>2, <1>5 DEF Branches
  <2> QED BY <1>2, <2>1, PathInvParts, KeptFront
<1>7. Walk(cursor')
  BY <1>3, <1>4, WalkAdvanced
<1>8. Kept(frames', cursor', assigned')
  BY <1>2, <1>3, <1>4, <1>6, KeptAdvanced
<1>9. InFunction(cursor', insideFunction', currentFunctionReturnType')
  <2>1. /\ Len(cursor') = Len(cursor) - 1 /\ Len(cursor) \in Nat \ {0}
        /\ \A i \in 1 .. Len(cursor) - 1 : cursor'[i].node = cursor[i].node
    BY <1>2, <1>3 DEF Advanced, SameNodes
  <2>2. /\ insideFunction <=> \E i \in 1 .. Len(cursor) : cursor[i].node.kind = "func"
        /\ insideFunction => currentFunctionReturnType = cursor[1].node.ret
        /\ \A i \in 1 .. Len(cursor) : cursor[i].node.kind = "func" => i = 1
    BY PathInvParts DEF InFunction, Walk
  <2>3. CASE kind = "func"
    <3>1. Len(cursor') = 0 /\ ~insideFunction'
      BY <1>2, <1>5, <2>1, <2>3
    <3>2. ~\E i \in 1 .. Len(cursor') : cursor'[i].node.kind = "func"
      BY <3>1
    <3> QED BY <3>1, <3>2 DEF InFunction
  <2>4. CASE kind # "func"
    <3>0. cursor[Len(cursor)].node.kind # "func" /\ Len(cursor') = Len(cursor) - 1
      BY <1>1, <1>2, <2>1, <2>4
    <3>1. (\E i \in 1 .. Len(cursor') : cursor'[i].node.kind = "func")
            <=> \E i \in 1 .. Len(cursor) : cursor[i].node.kind = "func"
      <4> HIDE <1>1, <1>2
      <4> QED BY <2>1, <3>0
    <3>2. insideFunction => cursor'[1].node = cursor[1].node
      BY <1>1, <1>2, <2>1, <2>2, <2>4
    <3> QED BY <2>2, <2>4, <3>1, <3>2 DEF InFunction
  <2> QED BY <2>3, <2>4
<1> QED BY <1>7, <1>8, <1>9, PathInvOfParts

LEMMA SameRecordsRefl ==
  ASSUME IInv
  PROVE  SameRecords(frames, frames) /\ frames \in Seq(Frames)
BY InvParts DEF Aligned, SameRecords

LEMMA PathLeaf ==
  ASSUME IInv, IInv', PathInv, NEW n \in Statements, Leaf(n)
  PROVE  PathInv'
<1>1. ASSUME NEW a, AnalyzeLeaf(n, a), Follows(a, Env)
      PROVE  PathInv'
  <2> DEFINE done == childDone(frames, cursor, n.kind = "ret")
  <2>1. SameRecords(done, frames) /\ done \in Seq(Frames)
    <3>1. (n.kind = "ret") \in BOOLEAN /\ frames \in Seq(Frames)
      BY SameRecordsRefl
    <3>2. SameRecords(done, frames)
      BY <3>1, ChildDoneRecords
    <3> QED BY <3>2 DEF SameRecords
  <2>2. frames' = terminated(done, n) /\ VisitLeaf(n) /\ SameFunction
        /\ assigned' = a.assigned
    BY <1>1 DEF AnalyzeLeaf, InFunctionUnchanged, SameFunction, Become
  <2> HIDE DEF done
  <2>3. SameRecords(frames', frames)
    BY <2>1, <2>2, SameRecordsRefl, TerminatedRecords, SameRecordsTrans
  <2>4. assigned \subseteq assigned'
    BY <1>1, <2>2, EnvHere DEF Follows
  <2> QED BY <2>2, <2>3, <2>4, LeafKeeps
<1>2. CASE AnalyzeSimple(n)
  <2>1. IsSimple(n)
    BY <1>2, AstAssumption DEF IsStatement, AnalyzeSimple
  <2>2. Follows(analyzeSimple(Env, n), Env)
    BY <2>1, EnvHere, SimpleType
  <2> QED BY <1>1, <1>2, <2>2 DEF AnalyzeSimple
<1>3. CASE AnalyzeReturn(n)
  <2>1. Follows(analyzeReturnValue(Env, n), Env)
    BY EnvHere, ReturnType
  <2> QED BY <1>1, <1>3, <2>1 DEF AnalyzeReturn
<1>4. CASE AnalyzeJump(n)
  <2>1. Follows(report(Env, "jump", "", loopDepth <= 0), Env)
    BY EnvHere, FollowsReport, Kinds
  <2> QED BY <1>1, <1>4, <2>1 DEF AnalyzeJump
<1>5. CASE AnalyzeNull(n)
  <2>1. Follows(Env, Env)
    BY EnvHere DEF Follows
  <2> QED BY <1>1, <1>5, <2>1 DEF AnalyzeNull
<1>6. CASE SkipLeaf(n)
  <2>1. SameRecords(cutFrames, frames) /\ cutFrames \in Seq(Frames)
    BY <1>6, CutRecords DEF SkipLeaf, SameRecords
  <2>2. SameRecords(frames', cutFrames)
    BY <1>6, <2>1, ChildDoneRecords DEF SkipLeaf
  <2>3. SameRecords(frames', frames)
    BY <2>1, <2>2, SameRecordsRefl, SameRecordsTrans
  <2>4. VisitLeaf(n) /\ SameFunction /\ assigned' = assigned
    BY <1>6 DEF SkipLeaf, Skipped, InFunctionUnchanged, SameFunction
  <2> QED BY <2>3, <2>4, LeafKeeps
<1> QED BY <1>2, <1>3, <1>4, <1>5, <1>6 DEF Leaf

LEMMA PathDown ==
  ASSUME IInv, IInv', PathInv, NEW n \in Statements, Down(n)
  PROVE  PathInv'
<1>1. ASSUME NEW a, NEW before \in SUBSET Name, Enter(n, a, before),
             assigned \subseteq a.assigned,
             n.kind \in Branching => assigned \subseteq before /\ before \subseteq a.assigned
      PROVE  PathInv'
  <2> DEFINE r == frame(FALSE, before)
  <2>1. r \in Frames /\ r.before = before
    BY DEF frame, Frames
  <2>2. /\ Open(n) /\ frames' = Append(frames, r) /\ SameFunction
        /\ assigned' = a.assigned
    BY <1>1 DEF Enter, InFunctionUnchanged, SameFunction, Become
  <2> HIDE DEF r
  <2> QED BY <1>1, <2>1, <2>2, SameRecordsRefl, OpenKeeps
<1>2. CASE EnterBlock(n)
  <2> DEFINE a == [Env EXCEPT !.scopes = Append(@, EmptyScope)]
  <2>1. a.assigned = assigned
    BY EnvHere, PushScopeType
  <2>2. n.kind = "block" /\ Enter(n, a, {})
    BY <1>2 DEF EnterBlock
  <2> HIDE DEF a
  <2> QED BY <1>1, <2>1, <2>2 DEF Branching
<1>3. CASE EnterIf(n) \/ EnterWhile(n)
  <2> DEFINE a == analyzeCondition(Env, <<n.cond>>)
  <2>1. a.assigned = assigned
    BY EnvHere, ConditionType
  <2>2. Enter(n, a, assigned)
    BY <1>3 DEF EnterIf, EnterWhile
  <2> HIDE DEF a
  <2> QED BY <1>1, <2>1, <2>2, EnvHere
<1>4. CASE EnterFor(n)
  <2> DEFINE a == analyzeForHeader(Env, n)
  <2>1. n.kind = "for" /\ Enter(n, a, a.assigned)
    BY <1>4 DEF EnterFor
  <2>2. IsStatement(n)
    BY AstAssumption
  <2>3. a \in Envs /\ assigned \subseteq a.assigned
    BY <2>1, <2>2, EnvHere, HeaderType
  <2> HIDE DEF a
  <2>4. a.assigned \in SUBSET Name
    BY <2>3 DEF Envs
  <2> QED BY <1>1, <2>1, <2>3, <2>4
<1>5. CASE SkipEnter(n)
  <2> DEFINE r == frame(TRUE, {})
  <2>1. r \in Frames /\ r.skip = TRUE
    BY FrameType
  <2>2. /\ Open(n) /\ frames' = Append(cutFrames, r) /\ SameFunction
        /\ assigned' = assigned
    BY <1>5 DEF SkipEnter, Skipped, InFunctionUnchanged, SameFunction
  <2>3. SameRecords(cutFrames, frames)
    BY <1>5, CutRecords DEF SkipEnter
  <2> HIDE DEF r
  <2> QED BY <2>1, <2>2, <2>3, OpenKeeps
<1> QED BY <1>2, <1>3, <1>4, <1>5 DEF Down

LEMMA PathUp ==
  ASSUME IInv, IInv', PathInv, Up \/ LeaveFunction
  PROVE  PathInv'
<1>1. ASSUME NEW kind, NEW a, Leave(kind, a),
             insideFunction' = IF kind = "func" THEN FALSE ELSE insideFunction,
             \/ assigned \subseteq a.assigned
             \/ kind \in Branching /\ Local.before \subseteq a.assigned
             \/ kind = "func"
      PROVE  PathInv'
  <2>1. /\ Close(kind) /\ frames' = childDone(Front(frames), cursor, Returns)
        /\ currentFunctionReturnType' = currentFunctionReturnType
        /\ ~Local.skip /\ assigned' = a.assigned
    BY <1>1 DEF Leave, Become
  <2> QED BY <1>1, <2>1, CloseKeeps
<1>2. CASE LeaveBlock
  <2>1. leaveScope(Env).assigned = assigned
    BY EnvHere, LeaveScopeType
  <2> QED BY <1>1, <1>2, <2>1 DEF LeaveBlock
<1>3. CASE LeaveIf
  <2> DEFINE s == Local.before \cup IF Parent.slot = "done"
                                     THEN Local.afterThen \cap assigned ELSE {}
             a == [Env EXCEPT !.assigned = s]
  <2>1. a.assigned = s
    BY DEF Env
  <2>2. Leave("if", a) /\ insideFunction' = insideFunction
    BY <1>3, EnvHere DEF LeaveIf
  <2> HIDE DEF a
  <2> QED BY <1>1, <2>1, <2>2 DEF Branching
<1>4. CASE LeaveWhile
  <2> DEFINE a == [Env EXCEPT !.assigned = Local.before]
  <2>1. a.assigned = Local.before
    BY DEF Env
  <2>2. Leave("while", a) /\ insideFunction' = insideFunction
    BY <1>4 DEF LeaveWhile
  <2> HIDE DEF a
  <2> QED BY <1>1, <2>1, <2>2 DEF Branching
<1>5. CASE LeaveFor
  <2> DEFINE a == [leaveScope(Env) EXCEPT !.assigned = Local.before]
  <2>1. a.assigned = Local.before
    BY EnvHere, LeaveScopeType DEF Envs
  <2>2. Leave("for", a) /\ insideFunction' = insideFunction
    BY <1>5 DEF LeaveFor
  <2> HIDE DEF a
  <2> QED BY <1>1, <2>1, <2>2 DEF Branching
<1>6. CASE SkipLeave
  <2>1. PICK kind \in CompoundKinds : Close(kind)
    BY <1>6 DEF SkipLeave
  <2>2. /\ frames' = childDone(Front(frames), cursor, Returns)
        /\ SameFunction /\ assigned' = assigned
    BY <1>6 DEF SkipLeave, Skipped, InFunctionUnchanged, SameFunction
  <2>3. kind # "func"
    BY DEF CompoundKinds, LoopKinds
  <2> QED BY <2>1, <2>2, <2>3, CloseKeeps DEF SameFunction
<1>7. CASE LeaveFunction
  <2> DEFINE a == [leaveScope(report(Env, "missing return", "",
                                     missingReturn(Parent.node)))
                   EXCEPT !.assigned = Local.before]
  <2>1. Leave("func", a) /\ insideFunction' = FALSE
    BY <1>7 DEF LeaveFunction
  <2> HIDE DEF a
  <2> QED BY <1>1, <2>1
<1> QED BY <1>2, <1>3, <1>4, <1>5, <1>6, <1>7 DEF Up

\* A function is entered from outside all statements.
LEMMA PathEnterFunction ==
  ASSUME IInv, IInv', PathInv, pending # <<>>, EnterFunction(Head(pending))
  PROVE  PathInv'
<1> DEFINE f == Head(pending)
           r == frame(FALSE, assigned)
           e == [node |-> f, slot |-> FirstSlot(f)]
<1>1. f \in Functions
  BY InvParts DEF OthersOK
<1>2. /\ f.kind = "func" /\ Room(f) /\ cursor' = Append(cursor, e)
      /\ frames' = Append(frames, r)
      /\ insideFunction' = TRUE /\ currentFunctionReturnType' = f.ret
  BY DEF EnterFunction, OpenFunction
<1>3. e \in Entries /\ e.node = f /\ e.slot \notin {"list", "then", "thenDone"}
  BY <1>1, <1>2 DEF Entries, FirstSlot, Slots
<1>4. r \in Frames
  BY EnvHere, FrameType
<1> HIDE DEF f, e, r
<1>5. cursor = <<>> /\ frames = <<>>
  BY <1>2, RoomWaits, PathInvParts
<1>6. Walk(cursor')
  BY <1>2, <1>3, <1>5, PathInvParts, WalkAppend
<1>7. Kept(frames', cursor', assigned')
  BY <1>2, <1>3, <1>4, <1>5, PathInvParts, SameRecordsRefl, KeptAppend DEF Branching
<1>8. InFunction(cursor', insideFunction', currentFunctionReturnType')
  <2>1. Len(cursor') = 1 /\ cursor'[1] = e
    BY <1>2, <1>5
  <2> QED BY <1>2, <1>3, <2>1 DEF InFunction
<1> QED BY <1>6, <1>7, <1>8, PathInvOfParts

LEMMA PathElse ==
  ASSUME IInv, IInv', PathInv, ElseBranch \/ SkipElse
  PROVE  PathInv'
<1> DEFINE m == Len(cursor)
           e == [cursor[m] EXCEPT !.slot = "else"]
<1>1. OpenElse /\ SameFunction
  BY DEF ElseBranch, SkipElse, Skipped, InFunctionUnchanged, SameFunction
<1>2. /\ cursor # <<>> /\ cursor[m].slot = "thenDone"
      /\ cursor' = [cursor EXCEPT ![m] = e]
  BY <1>1 DEF OpenElse, Last
<1>3. /\ m \in 1 .. m /\ m = Len(frames) /\ frames # <<>>
      /\ Local = frames[m] /\ Local \in Frames /\ cursor[m] \in Entries
  BY <1>2, PathEnd
<1>4. e \in Entries /\ e.node = cursor[m].node /\ e.slot = "else"
  BY <1>3 DEF Entries, Slots
<1> HIDE DEF e
<1>5. /\ cursor' \in Seq(Entries) /\ Len(cursor') = m
      /\ \A i \in 1 .. m : cursor'[i].node = cursor[i].node
      /\ \A i \in 1 .. m : i # m => cursor'[i] = cursor[i]
      /\ cursor'[m] = e
  BY <1>2, <1>3, <1>4, PathInvParts
<1>6. Walk(cursor')
  <2>1. \A i \in 1 .. m : i < m => cursor'[i].slot = cursor[i].slot
    BY <1>5
  <2>2. \A i \in 1 .. m : cursor[i].slot # "body" => cursor'[i].slot # "body"
    BY <1>4, <1>5
  <2>3. \A i \in 1 .. m : cursor'[i].slot \in {"then", "thenDone"}
                             => cursor[i].slot \in {"then", "thenDone"}
    BY <1>4, <1>5
  <2>4. \A i \in 1 .. m : cursor'[i].slot = "list" => cursor[i].slot = "list"
    BY <1>4, <1>5
  <2> QED BY <1>5, <2>1, <2>2, <2>3, <2>4, PathInvParts DEF Walk
<1>7. InFunction(cursor', insideFunction', currentFunctionReturnType')
  <2>1. \A i \in 1 .. m : cursor'[i].node = cursor[i].node
    BY <1>5
  <2> QED BY <1>1, <1>3, <1>5, <2>1, PathInvParts DEF InFunction, SameFunction
<1>8. Kept(frames', cursor', assigned')
  <2>1. CASE SkipElse
    <3>1. frames' = frames /\ assigned' = assigned /\ Local.skip
      BY <2>1 DEF SkipElse, Skipped
    <3>2. \A i \in 1 .. m : Branches(frames, cursor', i) <=> Branches(frames, cursor, i)
      BY <1>5 DEF Branches
    <3>3. \A i \in 1 .. m : Branches(frames, cursor, i) => i # m
      BY <1>3, <3>1 DEF Branches
    <3>4. \A i \in 1 .. m : Branches(frames, cursor, i) => cursor'[i] = cursor[i]
      BY <1>5, <3>3
    <3> QED BY <1>3, <3>1, <3>2, <3>4, PathInvParts DEF Kept
  <2>2. CASE ElseBranch
    <3> DEFINE r == [Local EXCEPT !.afterThen = assigned]
    <3>1. /\ frames' = [frames EXCEPT ![m] = r] /\ ~Local.skip
          /\ assigned' = Local.before
      BY <1>3, <2>2 DEF ElseBranch, Become
    <3>2. /\ r \in Frames /\ r.skip = Local.skip /\ r.before = Local.before
          /\ r.afterThen = assigned
      BY <1>3, EnvHere DEF Frames
    <3> HIDE DEF r
    <3>3. /\ Len(frames') = m /\ frames'[m] = r
          /\ \A i \in 1 .. m : i # m => frames'[i] = frames[i]
          /\ \A i \in 1 .. m : /\ frames'[i].skip = frames[i].skip
                               /\ frames'[i].before = frames[i].before
      BY <1>3, <3>1, <3>2, PathInvParts
    <3>4. \A i \in 1 .. m : Branches(frames', cursor', i) <=> Branches(frames, cursor, i)
      BY <1>5, <3>3 DEF Branches
    <3>5. ASSUME NEW i \in 1 .. m, Branches(frames, cursor, i)
          PROVE  /\ frames[i].before \subseteq assigned'
                 /\ cursor'[i].node.kind = "if" /\ cursor'[i].slot \in {"else", "done"}
                      => frames'[i].before \subseteq frames'[i].afterThen
                 /\ \A j \in 1 .. m : i < j /\ Branches(frames, cursor, j)
                      => frames[i].before \subseteq frames[j].before
      <4>1. /\ frames[i].before \subseteq assigned
            /\ cursor[i].node.kind = "if" /\ cursor[i].slot \in {"else", "done"}
                 => frames[i].before \subseteq frames[i].afterThen
            /\ \A j \in 1 .. m : i < j /\ Branches(frames, cursor, j)
                 => frames[i].before \subseteq frames[j].before
        BY <1>3, <3>5, PathInvParts DEF Kept
      <4>2. CASE i = m
        BY <1>3, <3>1, <3>2, <3>3, <4>1, <4>2
      <4>3. CASE i # m
        <5>1. cursor'[i] = cursor[i] /\ frames'[i] = frames[i] /\ i < m
          BY <1>3, <1>5, <3>3, <4>3
        <5>2. Branches(frames, cursor, m) => frames[i].before \subseteq Local.before
          BY <1>3, <4>1, <5>1
        <5>3. Branches(frames, cursor, m)
          <6>1. cursor[m].node.kind = "if"
            BY <1>2, <1>3, PathInvParts DEF Walk
          <6> QED BY <1>3, <3>1, <6>1 DEF Branches, Branching
        <5> QED BY <3>1, <4>1, <5>1, <5>2, <5>3
      <4> QED BY <4>2, <4>3
    <3> QED BY <3>3, <3>4, <3>5 DEF Kept
  <2> QED BY <2>1, <2>2
<1> QED BY <1>6, <1>7, <1>8, PathInvOfParts

\* The first pass assigns nothing.
LEMMA GatherAssigns ==
  ASSUME IInv, GatherSignatures
  PROVE  assigned' = assigned
<1> DEFINE names == {pending[i].name : i \in DOMAIN pending}
           again == Builtin \in names \/ Cardinality(names) < Len(pending)
           a == report(Env, "function", "", again)
<1>1. Become(a)
  BY DEF GatherSignatures
<1> HIDE DEF again
<1>2. a.assigned = assigned
  BY DEF report, Env
<1> HIDE DEF a
<1> QED BY <1>1, <1>2 DEF Become

\* The rest of the actions touch neither the path nor the records.
LEMMA PathStill ==
  ASSUME IInv, IInv', PathInv, GatherSignatures \/ Finish \/ UNCHANGED vars
  PROVE  PathInv'
<1>1. /\ cursor' = cursor /\ frames' = frames
      /\ insideFunction' = insideFunction
      /\ currentFunctionReturnType' = currentFunctionReturnType
  BY DEF GatherSignatures, Finish, vars, semVars, treeVars
<1>2. assigned' = assigned
  <2>1. CASE GatherSignatures
    BY <2>1, GatherAssigns
  <2>2. CASE Finish
    BY <2>2 DEF Finish, Become, Env
  <2>3. CASE UNCHANGED vars
    BY <2>3 DEF vars, semVars
  <2> QED BY <2>1, <2>2, <2>3
<1> QED BY <1>1, <1>2, PathInvParts, PathInvOfParts

LEMMA PathInit == Init => PathInv
<1> SUFFICES ASSUME Init PROVE PathInv
  OBVIOUS
<1>1. cursor = <<>> /\ frames = <<>> /\ insideFunction = FALSE
  BY DEF Init, TreeInit, SemInit
<1> QED BY <1>1 DEF PathInv, Walk, InsideFunctionMatchesPath, BeforeGrows,
                    BeforeStaysAssigned, Analysed

LEMMA PathNext ==
  ASSUME IInv, PathInv, [Next]_vars
  PROVE  PathInv'
<1>1. IInv'
  BY InvNext
<1> QED BY <1>1, PathLeaf, PathDown, PathUp, PathEnterFunction, PathElse, PathStill
        DEF Next, Terminating

--------------------------------------------------------------------------------
(***************************************************************************)
(* What it shows.                                                          *)
(***************************************************************************)
\* The path, the function it is in and the sets to be restored along it.
THEOREM PathInvariant == Spec => []PathInv
<1>1. IInv /\ PathInv /\ [Next]_vars => PathInv'
  BY PathNext
<1> QED BY <1>1, PathInit, Balance, PTL DEF Spec

\* A return is checked against the function that encloses it, and code outside
\* functions against none, however deep either is.
THEOREM FunctionIsPaths == Spec => []InsideFunctionMatchesPath
<1>1. PathInv => InsideFunctionMatchesPath
  BY DEF PathInv
<1> QED BY <1>1, PathInvariant, PTL

\* Restoring definitelyAssigned after a branch or a loop never loses a variable
\* assigned before it, through any nesting of branches, loops and skipped code.
THEOREM RestoringIsSound == Spec => []BeforeStaysAssigned
<1>1. PathInv => BeforeStaysAssigned
  BY DEF PathInv
<1> QED BY <1>1, PathInvariant, PTL
================================================================================
