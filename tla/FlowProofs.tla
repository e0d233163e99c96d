------------------------------- MODULE FlowProofs ------------------------------
(***************************************************************************)
(* Proofs about the analyzer next to a run of the program: what it says of *)
(* the flow of control, for every program and every run.                   *)
(***************************************************************************)
EXTENDS FlowSoundness, SemanticProofs, SequenceLemmas

(***************************************************************************)
(* The operators of the run are those of the walk, by other names.         *)
(***************************************************************************)
LEMMA RunEnds ==
  ASSUME NEW T, NEW s \in Seq(T), s # <<>>
  PROVE  /\ Run!Last(s) = s[Len(s)] /\ Run!Last(s) \in T
         /\ Run!Front(s) \in Seq(T) /\ Len(Run!Front(s)) = Len(s) - 1
         /\ Len(s) \in Nat \ {0}
         /\ \A i \in 1 .. Len(s) - 1 : Run!Front(s)[i] = s[i]
<1>1. Run!Last(s) = Last(s) /\ Run!Front(s) = Front(s)
  BY DEF Run!Last, Last, Run!Front, Front
<1> QED BY <1>1, FrontShape

--------------------------------------------------------------------------------
(***************************************************************************)
(* The variables of the run.                                               *)
(***************************************************************************)
Cells == [init : BOOLEAN, read : BOOLEAN]

\* A state of the variables with k scopes.
MemoryOK(m, k) ==
  /\ m \in [store : Seq(Run!Variables), uninit : SUBSET Name]
  /\ Len(m.store) = k

\* Changing what is recorded of variables.
LEMMA ScopeChanged ==
  ASSUME NEW s \in Run!Variables, NEW t, DOMAIN t = DOMAIN s,
         t = [n \in DOMAIN s |-> t[n]], \A n \in DOMAIN s : t[n] \in Cells
  PROVE  t \in Run!Variables
<1>1. PICK D \in SUBSET Name : s \in [D -> Cells]
  BY DEF Run!Variables, Cells
<1>2. t \in [D -> Cells]
  BY <1>1
<1> QED BY <1>2 DEF Run!Variables, Cells

LEMMA ScopeShape ==
  ASSUME NEW s \in Run!Variables
  PROVE  DOMAIN s \subseteq Name /\ \A n \in DOMAIN s : s[n] \in Cells
<1>1. PICK D \in SUBSET Name : s \in [D -> Cells]
  BY DEF Run!Variables, Cells
<1> QED BY <1>1

LEMMA CellChanged ==
  ASSUME NEW c \in Cells, NEW b \in BOOLEAN
  PROVE  /\ [c EXCEPT !.read = b] \in Cells /\ [c EXCEPT !.init = b] \in Cells
BY DEF Cells

\* Reading variables.
LEMMA ReadType ==
  ASSUME NEW k \in Nat, NEW m, MemoryOK(m, k), NEW xs
  PROVE  MemoryOK(Run!Read(m, xs), k)
<1> DEFINE names == {n \in Run!VarsOf(xs) : Run!Bound(m.store, n)}
           Cell(i, n) == [m.store[i][n] EXCEPT
                            !.read = @ \/ (n \in names /\ i = Run!Innermost(m.store, n))]
           Scope(i) == [n \in DOMAIN m.store[i] |-> Cell(i, n)]
           st == [i \in DOMAIN m.store |-> Scope(i)]
           un == m.uninit \cup {n \in names : ~Run!Find(m.store, n).init}
<1>1. m.store \in Seq(Run!Variables) /\ Len(m.store) = k /\ m.uninit \in SUBSET Name
  BY DEF MemoryOK
<1>2. names \subseteq Name
  BY <1>1, ScopeShape DEF Run!Bound
<1>3. Run!Read(m, xs) = [store |-> st, uninit |-> un]
  BY DEF Run!Read
<1> HIDE DEF names
<1>4. un \in SUBSET Name
  BY <1>1, <1>2
<1>5. ASSUME NEW i \in DOMAIN m.store, NEW n \in DOMAIN m.store[i]
      PROVE  Cell(i, n) \in Cells
  <2>1. m.store[i][n] \in Cells
    BY <1>1, ScopeShape
  <2>2. (m.store[i][n].read \/ (n \in names /\ i = Run!Innermost(m.store, n))) \in BOOLEAN
    OBVIOUS
  <2> QED BY <2>1, <2>2, CellChanged
<1> HIDE DEF Cell, un
<1>6. \A i \in DOMAIN m.store : Scope(i) \in Run!Variables
  BY <1>1, <1>5, ScopeChanged
<1> HIDE DEF Scope
<1>7. st \in Seq(Run!Variables) /\ Len(st) = k
  BY <1>1, <1>6
<1> HIDE DEF st
<1> QED BY <1>3, <1>4, <1>7 DEF MemoryOK

\* Assigning a variable.
LEMMA WriteType ==
  ASSUME NEW k \in Nat, NEW m, MemoryOK(m, k), NEW v
  PROVE  MemoryOK(Run!Write(m, v), k)
<1> DEFINE Cell(i, n) == IF n = v /\ i = Run!Innermost(m.store, v)
                         THEN [m.store[i][n] EXCEPT !.init = TRUE] ELSE m.store[i][n]
           Scope(i) == [n \in DOMAIN m.store[i] |-> Cell(i, n)]
           st == [i \in DOMAIN m.store |-> Scope(i)]
<1>1. /\ m \in [store : Seq(Run!Variables), uninit : SUBSET Name]
      /\ m.store \in Seq(Run!Variables) /\ Len(m.store) = k
  BY DEF MemoryOK
<1>2. Run!Write(m, v) = [m EXCEPT !.store = st]
  BY DEF Run!Write
<1>3. ASSUME NEW i \in DOMAIN m.store, NEW n \in DOMAIN m.store[i]
      PROVE  Cell(i, n) \in Cells
  <2>1. m.store[i][n] \in Cells
    BY <1>1, ScopeShape
  <2>2. [m.store[i][n] EXCEPT !.init = TRUE] \in Cells
    BY <2>1, CellChanged
  <2> QED BY <2>1, <2>2
<1> HIDE DEF Cell
<1>4. \A i \in DOMAIN m.store : Scope(i) \in Run!Variables
  BY <1>1, <1>3, ScopeChanged
<1> HIDE DEF Scope
<1>5. st \in Seq(Run!Variables) /\ Len(st) = k
  BY <1>1, <1>4
<1> HIDE DEF st
<1>6. /\ [m EXCEPT !.store = st] \in [store : Seq(Run!Variables), uninit : SUBSET Name]
      /\ [m EXCEPT !.store = st].store = st
  BY <1>1, <1>5
<1> QED BY <1>2, <1>5, <1>6 DEF MemoryOK

\* The store alone changes, and keeps its type.
LEMMA StoreChanged ==
  ASSUME NEW m, NEW k \in Nat, MemoryOK(m, k), NEW st \in Seq(Run!Variables)
  PROVE  MemoryOK([m EXCEPT !.store = st], Len(st))
<1>1. m \in [store : Seq(Run!Variables), uninit : SUBSET Name]
  BY DEF MemoryOK
<1>2. /\ [m EXCEPT !.store = st] \in [store : Seq(Run!Variables), uninit : SUBSET Name]
      /\ [m EXCEPT !.store = st].store = st
  BY <1>1
<1> QED BY <1>2 DEF MemoryOK

\* A scope with one more variable.
LEMMA RecordedType ==
  ASSUME NEW s \in Run!Variables, NEW n \in Name, NEW c \in Cells
  PROVE  Run!Recorded(s, n, c) \in Run!Variables
<1> DEFINE D == DOMAIN s \cup {n}
           t == [x \in D |-> IF x = n THEN c ELSE s[x]]
<1>1. DOMAIN s \subseteq Name /\ \A x \in DOMAIN s : s[x] \in Cells
  BY ScopeShape
<1>2. D \in SUBSET Name /\ t \in [D -> Cells]
  BY <1>1
<1>3. Run!Recorded(s, n, c) = t
  BY DEF Run!Recorded
<1> HIDE DEF D, t
<1> QED BY <1>2, <1>3 DEF Run!Variables, Cells

\* Declaring a variable, in a scope that is there.
LEMMA DeclareInType ==
  ASSUME NEW k \in Nat \ {0}, NEW m, MemoryOK(m, k), NEW n, n.kind = "decl" => n.name \in Name
  PROVE  MemoryOK(Run!DeclareIn(m, n), k)
<1> DEFINE c == [init |-> FALSE, read |-> FALSE]
           new == Run!Recorded(m.store[k], n.name, c)
           st == [m.store EXCEPT ![k] = new]
<1>1. m.store \in Seq(Run!Variables) /\ Len(m.store) = k /\ k \in 1 .. Len(m.store)
  BY DEF MemoryOK
<1>2. CASE Run!DeclareIn(m, n) = m
  BY <1>2
<1>3. CASE Run!DeclareIn(m, n) # m
  <2>1. n.kind = "decl" /\ Run!DeclareIn(m, n) = [m EXCEPT !.store = Run!Bind(@, n.name, c)]
    BY <1>3 DEF Run!DeclareIn
  <2>2. Run!DeclareIn(m, n) = [m EXCEPT !.store = st]
    BY <1>1, <2>1 DEF Run!Bind
  <2>3. m.store[k] \in Run!Variables /\ c \in Cells
    BY <1>1 DEF Cells
  <2> HIDE DEF c
  <2>4. new \in Run!Variables
    BY <2>1, <2>3, RecordedType
  <2> HIDE DEF new
  <2>5. st \in Seq(Run!Variables) /\ Len(st) = k
    BY <1>1, <2>4
  <2> HIDE DEF st
  <2> QED BY <2>2, <2>5, StoreChanged
<1> QED BY <1>2, <1>3

\* A new scope around the next statements.
LEMMA NewScopeType ==
  ASSUME NEW k \in Nat, NEW m, MemoryOK(m, k), NEW s \in Run!Variables
  PROVE  MemoryOK([m EXCEPT !.store = Append(@, s)], k + 1)
<1> DEFINE st == Append(m.store, s)
<1>1. m.store \in Seq(Run!Variables) /\ Len(m.store) = k
  BY DEF MemoryOK
<1>2. st \in Seq(Run!Variables) /\ Len(st) = k + 1
  BY <1>1
<1>3. [m EXCEPT !.store = Append(@, s)] = [m EXCEPT !.store = st]
  OBVIOUS
<1> HIDE DEF st
<1> QED BY <1>2, <1>3, StoreChanged

\* The scope that ends is dropped.
LEMMA EndScopeType ==
  ASSUME NEW k \in Nat \ {0}, NEW m, MemoryOK(m, k)
  PROVE  MemoryOK([m EXCEPT !.store = Run!Front(@)], k - 1)
<1> DEFINE st == Run!Front(m.store)
<1>1. m.store \in Seq(Run!Variables) /\ Len(m.store) = k /\ m.store # <<>>
  BY DEF MemoryOK
<1>2. st \in Seq(Run!Variables) /\ Len(st) = k - 1
  BY <1>1, RunEnds
<1>3. [m EXCEPT !.store = Run!Front(@)] = [m EXCEPT !.store = st]
  OBVIOUS
<1> HIDE DEF st
<1> QED BY <1>2, <1>3, StoreChanged

LEMMA NoVariables == Run!EmptyScope \in Run!Variables
<1> DEFINE D == {}
<1>1. D \in SUBSET Name /\ <<>> \in [D -> Cells]
  OBVIOUS
<1> HIDE DEF D
<1> QED BY <1>1 DEF Run!Variables, Cells, Run!EmptyScope

\* A statement without control flow keeps the number of scopes.
LEMMA ExecuteType ==
  ASSUME NEW k \in Nat \ {0}, NEW m, MemoryOK(m, k), NEW n, IsSimple(n)
  PROVE  MemoryOK(Run!Execute(m, n), k)
<1> DEFINE d == Run!Read(Run!DeclareIn(m, n), n.expr)
           r == Run!Read(m, <<n.expr>>)
<1>1. n.kind = "decl" => n.name \in Name
  BY DEF IsSimple
<1>2. MemoryOK(Run!DeclareIn(m, n), k)
  BY <1>1, DeclareInType
<1>3. MemoryOK(d, k)
  BY <1>2, ReadType
<1>4. MemoryOK(r, k)
  BY ReadType
<1>5. MemoryOK(Run!Write(d, n.name), k) /\ MemoryOK(Run!Write(r, n.name), k)
  BY <1>3, <1>4, WriteType
<1>6. CASE n.kind = "decl"
  <2>1. Run!Execute(m, n) = IF n.expr = <<>> THEN d ELSE Run!Write(d, n.name)
    BY <1>6 DEF Run!Execute
  <2> HIDE DEF d
  <2> QED BY <1>3, <1>5, <2>1
<1>7. CASE n.kind = "assign"
  <2>1. Run!Execute(m, n) = Run!Write(r, n.name)
    BY <1>7 DEF Run!Execute
  <2> QED BY <1>5, <2>1
<1>8. CASE n.kind = "expr"
  <2>1. Run!Execute(m, n) = r
    BY <1>8 DEF Run!Execute
  <2> QED BY <1>4, <2>1
<1> QED BY <1>6, <1>7, <1>8 DEF IsSimple, SimpleKinds

LEMMA RunSimpleType ==
  ASSUME NEW k \in Nat \ {0}, NEW m, MemoryOK(m, k), NEW n, IsSimple(n)
  PROVE  MemoryOK(Run!Simple(m, n), k)
<1>1. n.kind = "decl" => n.name \in Name
  BY DEF IsSimple
<1> QED BY <1>1, ExecuteType, DeclareInType DEF Run!Simple

\* The header of a for-statement opens one scope.
LEMMA RunHeaderType ==
  ASSUME NEW k \in Nat, NEW m, MemoryOK(m, k), NEW n, IsStatement(n), n.kind = "for"
  PROVE  MemoryOK(Run!Header(m, n), k + 1)
<1> DEFINE opened == [m EXCEPT !.store = Append(@, Run!EmptyScope)]
           init == IF n.init = <<>> THEN opened ELSE Run!Simple(opened, n.init[1])
           inc == IF n.inc = <<>> THEN <<>> ELSE <<n.inc[1].expr>>
<1>0. k + 1 \in Nat \ {0}
  OBVIOUS
<1>1. MemoryOK(opened, k + 1)
  BY NewScopeType, NoVariables
<1>2. n.init # <<>> => IsSimple(n.init[1])
  BY DEF IsStatement
<1>3. Run!Header(m, n) = IF status = "live" THEN Run!Read(init, n.cond \o inc) ELSE init
  BY DEF Run!Header, Run!OnOptional
<1> HIDE DEF opened, inc
<1>4. n.init # <<>> => MemoryOK(Run!Simple(opened, n.init[1]), k + 1)
  BY <1>0, <1>1, <1>2, RunSimpleType
<1>5. MemoryOK(init, k + 1)
  BY <1>1, <1>4
<1> HIDE DEF init
<1>6. MemoryOK(Run!Read(init, n.cond \o inc), k + 1)
  BY <1>0, <1>5, ReadType
<1> QED BY <1>3, <1>5, <1>6

LEMMA IncrementType ==
  ASSUME NEW k \in Nat, NEW m, MemoryOK(m, k), NEW n
  PROVE  MemoryOK(Run!Increment(m, n), k)
BY WriteType DEF Run!Increment

\* The variables a scope that ends has read.
LEMMA ReadInType ==
  ASSUME NEW s \in Run!Variables
  PROVE  Run!ReadIn(s) \subseteq Name
BY ScopeShape DEF Run!ReadIn

--------------------------------------------------------------------------------
(***************************************************************************)
(* The types of the run: its records are those of the statements on the    *)
(* path, and it has one scope more than these open.                        *)
(***************************************************************************)
Scoped == {e \in Entries : e.node.kind \in ScopeKinds}

ScopeCount(path) == Cardinality(Positions(path, Scoped))

Observations == [uninit : SUBSET Name, closed : SUBSET Name,
                 end : BOOLEAN, stray : BOOLEAN]

\* A function is entered wherever the run is, and left as that.
FunctionsParked(path, rs) ==
  \A i \in 1 .. Len(path) :
    path[i].node.kind = "func" => rs[i].parked \in Run!Statuses

RunInv == /\ status \in Run!Statuses /\ obs \in Observations
          /\ FunctionsParked(cursor, runs)
          /\ runs \in Seq(Run!Runs) /\ Len(runs) = Len(cursor)
          /\ store \in Seq(Run!Variables) /\ Len(store) = 1 + ScopeCount(cursor)

LEMMA CountIsNatural ==
  ASSUME NEW path \in Seq(Entries)
  PROVE  ScopeCount(path) \in Nat
BY PositionsFinite DEF ScopeCount

LEMMA SameNodesCount ==
  ASSUME NEW path \in Seq(Entries), NEW path2, SameNodes(path2, path)
  PROVE  ScopeCount(path2) = ScopeCount(path)
<1>1. /\ path2 \in Seq(Entries) /\ DOMAIN path2 = 1 .. Len(path) /\ DOMAIN path = 1 .. Len(path)
      /\ \A i \in 1 .. Len(path) : path2[i].node = path[i].node
      /\ \A i \in 1 .. Len(path) : path2[i] \in Entries /\ path[i] \in Entries
  BY DEF SameNodes
<1>2. Positions(path2, Scoped) = Positions(path, Scoped)
  BY <1>1 DEF Positions, Scoped
<1> QED BY <1>2 DEF ScopeCount

LEMMA OpenCount ==
  ASSUME NEW path \in Seq(Entries), NEW e \in Entries
  PROVE  ScopeCount(Append(path, e))
           = ScopeCount(path) + IF e.node.kind \in ScopeKinds THEN 1 ELSE 0
<1>1. ScopeCount(path) \in Nat
  BY CountIsNatural
<1>2. e \in Scoped <=> e.node.kind \in ScopeKinds
  BY DEF Scoped
<1>3. /\ e \in Scoped => ScopeCount(Append(path, e)) = ScopeCount(path) + 1
      /\ e \notin Scoped => ScopeCount(Append(path, e)) = ScopeCount(path)
  BY PositionsAppend DEF ScopeCount
<1> QED BY <1>1, <1>2, <1>3

LEMMA CloseCount ==
  ASSUME NEW path \in Seq(Entries), path # <<>>
  PROVE  ScopeCount(path) = ScopeCount(Front(path))
           + IF path[Len(path)].node.kind \in ScopeKinds THEN 1 ELSE 0
<1>1. /\ Front(path) \in Seq(Entries) /\ Last(path) = path[Len(path)]
      /\ path[Len(path)] \in Entries
  BY FrontShape
<1>2. ScopeCount(Front(path)) \in Nat
  BY <1>1, CountIsNatural
<1>3. Last(path) \in Scoped <=> path[Len(path)].node.kind \in ScopeKinds
  BY <1>1 DEF Scoped
<1>4. /\ Last(path) \in Scoped => ScopeCount(path) = ScopeCount(Front(path)) + 1
      /\ Last(path) \notin Scoped => ScopeCount(Front(path)) = ScopeCount(path)
  BY PositionsFront DEF ScopeCount
<1> QED BY <1>2, <1>3, <1>4

\* What a step that remembers m, and ends with k scopes, does to the types.
LEMMA RememberType ==
  ASSUME NEW k \in Nat, NEW m, MemoryOK(m, k), NEW closed \in SUBSET Name,
         NEW end \in BOOLEAN, NEW stray \in BOOLEAN, Run!Remember(m, closed, end, stray)
  PROVE  store' \in Seq(Run!Variables) /\ Len(store') = k /\ obs' \in Observations
BY DEF MemoryOK, Run!Remember, Observations

LEMMA QuietType == Run!Quiet \in Observations
BY DEF Run!Quiet, Observations

LEMMA MemoryType ==
  ASSUME IInv, RunInv
  PROVE  /\ MemoryOK(Run!Memory, Len(store)) /\ Len(store) \in Nat \ {0}
         /\ Len(store) \in Nat /\ store # <<>> /\ Run!Memory.store = store
<1>1. store \in Seq(Run!Variables) /\ Len(store) = 1 + ScopeCount(cursor)
  BY DEF RunInv
<1>2. Run!Memory = [store |-> store, uninit |-> {}]
  BY DEF Run!Memory
<1>3. MemoryOK(Run!Memory, Len(store))
  BY <1>1, <1>2 DEF MemoryOK
<1>4. ScopeCount(cursor) \in Nat
  BY CountIsNatural, InvParts DEF Aligned
<1>5. Len(store) \in Nat \ {0}
  BY <1>1, <1>4
<1> QED BY <1>2, <1>3, <1>5

\* Which visit of the walk a step of the analyzer is.
LEMMA LeafVisits ==
  ASSUME NEW n, Leaf(n) PROVE VisitLeaf(n)
BY DEF Leaf, AnalyzeSimple, AnalyzeReturn, AnalyzeJump, AnalyzeNull, AnalyzeLeaf, SkipLeaf

LEMMA DownOpens ==
  ASSUME NEW n, Down(n) PROVE Open(n)
BY DEF Down, EnterBlock, EnterIf, EnterWhile, EnterFor, Enter, SkipEnter

LEMMA UpCloses ==
  ASSUME Up PROVE \E kind \in CompoundKinds : Close(kind)
BY DEF Up, LeaveBlock, LeaveIf, LeaveWhile, LeaveFor, Leave, SkipLeave,
       CompoundKinds, LoopKinds

LEMMA PathTyped ==
  ASSUME IInv
  PROVE  /\ cursor \in Seq(Entries) /\ frames \in Seq(Frames)
         /\ Len(frames) = Len(cursor) /\ Len(cursor) \in Nat
BY InvParts DEF Aligned

LEMMA RunStays ==
  ASSUME IInv, RunInv, SameNodes(cursor', cursor), status' \in Run!Statuses,
         runs' \in Seq(Run!Runs), Len(runs') = Len(runs), obs' \in Observations,
         \A i \in 1 .. Len(cursor) : cursor[i].node.kind = "func" => runs'[i] = runs[i],
         store' \in Seq(Run!Variables), Len(store') = Len(store)
  PROVE  RunInv'
<1>1. Len(cursor') = Len(cursor) /\ ScopeCount(cursor') = ScopeCount(cursor)
  BY PathTyped, SameNodesCount DEF SameNodes
<1>2. Len(runs) = Len(cursor) /\ Len(store) = 1 + ScopeCount(cursor)
  BY DEF RunInv
<1>3. FunctionsParked(cursor', runs')
  BY <1>1 DEF RunInv, FunctionsParked, SameNodes
<1> QED BY <1>1, <1>2, <1>3 DEF RunInv

LEMMA RunLeaf ==
  ASSUME IInv, RunInv, NEW n \in Statements, FlowLeaf(n)
  PROVE  RunInv'
<1>1. SameNodes(cursor', cursor)
  BY LeafVisits, VisitLeafShape DEF FlowLeaf
<1>2. /\ MemoryOK(Run!Memory, Len(store)) /\ Len(store) \in Nat \ {0} /\ Len(store) \in Nat
      /\ status \in Run!Statuses /\ runs \in Seq(Run!Runs) /\ store \in Seq(Run!Variables)
  BY MemoryType DEF RunInv
<1>3. {} \in SUBSET Name /\ FALSE \in BOOLEAN
  OBVIOUS
<1>4. CASE Run!RunSimple(n)
  <2> DEFINE m == Run!Simple(Run!Memory, n)
  <2>1. IsSimple(n)
    BY <1>4, AstAssumption DEF Run!RunSimple, IsStatement, Run!SimpleKinds, SimpleKinds
  <2>2. MemoryOK(m, Len(store))
    BY <1>2, <2>1, RunSimpleType
  <2>3. Run!Remember(m, {}, FALSE, FALSE) /\ status' = status /\ runs' = runs
    BY <1>4 DEF Run!RunSimple
  <2> HIDE DEF m
  <2>4. store' \in Seq(Run!Variables) /\ Len(store') = Len(store) /\ obs' \in Observations
    BY <1>2, <1>3, <2>2, <2>3, RememberType
  <2> QED BY <1>1, <1>2, <2>3, <2>4, RunStays
<1>5. CASE Run!RunJump(n)
  <2> DEFINE m == IF n.kind = "ret" /\ status = "live" THEN Run!Read(Run!Memory, n.expr)
                  ELSE Run!Memory
             stray == status = "live" /\ n.kind # "ret" /\ ~Run!InLoop
  <2>1. MemoryOK(m, Len(store)) /\ stray \in BOOLEAN
    BY <1>2, ReadType
  <2>2. /\ Run!Remember(m, {}, FALSE, stray) /\ runs' = runs
        /\ status' = IF status = "live" THEN Run!JumpStatus[n.kind] ELSE status
        /\ n.kind \in {"ret", "break", "continue"}
    BY <1>5 DEF Run!RunJump, Run!JumpKinds
  <2> HIDE DEF m, stray
  <2>3. store' \in Seq(Run!Variables) /\ Len(store') = Len(store) /\ obs' \in Observations
    BY <1>2, <1>3, <2>1, <2>2, RememberType
  <2>4. status' \in Run!Statuses
    BY <1>2, <2>2 DEF Run!Statuses, Run!JumpStatus
  <2> QED BY <1>1, <1>2, <2>2, <2>3, <2>4, RunStays
<1>6. CASE Run!RunNull(n)
  <2>1. obs' = Run!Quiet /\ status' = status /\ runs' = runs /\ store' = store
    BY <1>6 DEF Run!RunNull
  <2> QED BY <1>1, <1>2, <2>1, QuietType, RunStays
<1> QED BY <1>4, <1>5, <1>6 DEF FlowLeaf

\* A step down the walk, into statement n.
LEMMA RunGoesDown ==
  ASSUME IInv, RunInv, NEW e \in Entries, cursor' = Append(cursor, e),
         status' \in Run!Statuses, NEW r \in Run!Runs, runs' = Append(runs, r),
         e.node.kind = "func" => r.parked \in Run!Statuses,
         obs' \in Observations, store' \in Seq(Run!Variables),
         Len(store') = Len(store) + IF e.node.kind \in ScopeKinds THEN 1 ELSE 0
  PROVE  RunInv'
<1>1. /\ Len(runs) = Len(cursor) /\ Len(store) = 1 + ScopeCount(cursor)
      /\ runs \in Seq(Run!Runs) /\ cursor \in Seq(Entries)
  BY PathTyped DEF RunInv
<1>2. runs' \in Seq(Run!Runs) /\ Len(runs') = Len(cursor')
  BY <1>1
<1>3. ScopeCount(cursor') = ScopeCount(cursor) + IF e.node.kind \in ScopeKinds THEN 1 ELSE 0
  BY <1>1, OpenCount
<1>4. ScopeCount(cursor) \in Nat
  BY <1>1, CountIsNatural
<1>5. Len(store') = 1 + ScopeCount(cursor')
  <2>1. CASE e.node.kind \in ScopeKinds
    BY <1>1, <1>3, <1>4, <2>1
  <2>2. CASE e.node.kind \notin ScopeKinds
    BY <1>1, <1>3, <1>4, <2>2
  <2> QED BY <2>1, <2>2
<1>6. FunctionsParked(cursor', runs')
  <2>1. /\ \A i \in 1 .. Len(cursor) : cursor'[i] = cursor[i] /\ runs'[i] = runs[i]
        /\ cursor'[Len(cursor) + 1] = e /\ runs'[Len(cursor) + 1] = r
        /\ Len(cursor') = Len(cursor) + 1 /\ Len(cursor) \in Nat
    BY <1>1
  <2>2. \A i \in 1 .. Len(cursor) :
          cursor[i].node.kind = "func" => runs[i].parked \in Run!Statuses
    BY DEF RunInv, FunctionsParked
  <2>3. ASSUME NEW i \in 1 .. Len(cursor'), cursor'[i].node.kind = "func"
        PROVE  runs'[i].parked \in Run!Statuses
    <3>1. CASE i = Len(cursor) + 1
      BY <2>1, <2>3, <3>1
    <3>2. CASE i # Len(cursor) + 1
      <4>1. i \in 1 .. Len(cursor)
        BY <2>1, <3>2
      <4> QED BY <2>1, <2>2, <2>3, <4>1
    <3> QED BY <3>1, <3>2
  <2> QED BY <2>3 DEF FunctionsParked
<1> QED BY <1>2, <1>5, <1>6 DEF RunInv

\* A condition parks the run or lets it go on.
LEMMA BranchType ==
  ASSUME IInv, RunInv, NEW n \in Statements, Open(n), NEW m, NEW k \in Nat, MemoryOK(m, k),
         k = Len(store) + (IF n.kind \in ScopeKinds THEN 1 ELSE 0),
         Run!Branch(n, m)
  PROVE  RunInv'
<1>1. PICK e \in Entries : e.node = n /\ cursor' = Append(cursor, e)
  BY OpenShape
<1>2. PICK taken \in BOOLEAN :
        /\ status' = IF taken THEN "live" ELSE "skipped"
        /\ runs' = Append(runs, [parked |-> IF taken THEN "none" ELSE status,
                                 globals |-> {}])
        /\ Run!Remember(m, {}, FALSE, FALSE)
  BY DEF Run!Branch
<1> DEFINE r == [parked |-> IF taken THEN "none" ELSE status, globals |-> {}]
<1>3. r \in Run!Runs /\ runs' = Append(runs, r)
  BY <1>2 DEF Run!Runs, RunInv
<1> HIDE DEF r
<1>4. status' \in Run!Statuses
  BY <1>2 DEF Run!Statuses
<1>5. {} \in SUBSET Name /\ FALSE \in BOOLEAN
  OBVIOUS
<1>6. store' \in Seq(Run!Variables) /\ Len(store') = k /\ obs' \in Observations
  BY <1>2, <1>5, RememberType
<1>7. e.node.kind # "func"
  BY <1>1 DEF Open, CompoundKinds, LoopKinds
<1> QED BY <1>1, <1>3, <1>4, <1>6, <1>7, RunGoesDown

LEMMA RunDown ==
  ASSUME IInv, RunInv, NEW n \in Statements, FlowDown(n)
  PROVE  RunInv'
<1>1. Open(n)
  BY DownOpens DEF FlowDown
<1>2. /\ MemoryOK(Run!Memory, Len(store)) /\ Len(store) \in Nat
  BY MemoryType
<1>3. CASE Run!RunBlock(n)
  <2> DEFINE m == [Run!Memory EXCEPT !.store = Append(@, Run!EmptyScope)]
             r == [parked |-> "none", globals |-> {}]
  <2>1. PICK e \in Entries : e.node = n /\ cursor' = Append(cursor, e)
    BY <1>1, OpenShape
  <2>2. /\ n.kind = "block" /\ runs' = Append(runs, r) /\ status' = status
        /\ Run!Remember(m, {}, FALSE, FALSE)
    BY <1>3 DEF Run!RunBlock
  <2>3. MemoryOK(m, Len(store) + 1)
    BY <1>2, NewScopeType, NoVariables
  <2>4. r \in Run!Runs /\ status' \in Run!Statuses
    BY <2>2 DEF Run!Runs, RunInv
  <2> HIDE DEF m, r
  <2>5. {} \in SUBSET Name /\ FALSE \in BOOLEAN /\ Len(store) + 1 \in Nat
    BY <1>2
  <2>6. store' \in Seq(Run!Variables) /\ Len(store') = Len(store) + 1 /\ obs' \in Observations
    BY <2>2, <2>3, <2>5, RememberType
  <2>7. Len(store') = Len(store) + IF e.node.kind \in ScopeKinds THEN 1 ELSE 0
    BY <2>1, <2>2, <2>6 DEF ScopeKinds
  <2> QED BY <2>1, <2>2, <2>4, <2>6, <2>7, RunGoesDown
<1>4. CASE Run!RunCondition(n)
  <2> DEFINE m == IF status = "live" THEN Run!Read(Run!Memory, <<n.cond>>) ELSE Run!Memory
  <2>1. Run!Branch(n, m) /\ n.kind \in {"if", "while"}
    BY <1>4 DEF Run!RunCondition
  <2>2. MemoryOK(m, Len(store))
    BY <1>2, ReadType
  <2> HIDE DEF m
  <2>3. Len(store) = Len(store) + (IF n.kind \in ScopeKinds THEN 1 ELSE 0)
    BY <1>2, <2>1 DEF ScopeKinds
  <2> QED BY <1>1, <1>2, <2>1, <2>2, <2>3, BranchType
<1>5. CASE Run!RunFor(n)
  <2> DEFINE m == Run!Header(Run!Memory, n)
  <2>1. Run!Branch(n, m) /\ n.kind = "for" /\ IsStatement(n)
    BY <1>5, AstAssumption DEF Run!RunFor
  <2>2. MemoryOK(m, Len(store) + 1)
    BY <1>2, <2>1, RunHeaderType
  <2> HIDE DEF m
  <2>3. /\ Len(store) + 1 = Len(store) + (IF n.kind \in ScopeKinds THEN 1 ELSE 0)
        /\ Len(store) + 1 \in Nat
    BY <1>2, <2>1 DEF ScopeKinds
  <2> QED BY <1>1, <2>1, <2>2, <2>3, BranchType
<1> QED BY <1>3, <1>4, <1>5 DEF FlowDown

\* A step up the walk, out of a statement.
LEMMA RunGoesUp ==
  ASSUME IInv, RunInv, NEW kind, Close(kind), status' \in Run!Statuses,
         runs' = Run!Front(runs), obs' \in Observations, store' \in Seq(Run!Variables),
         Len(store') = Len(store) - IF kind \in ScopeKinds THEN 1 ELSE 0
  PROVE  RunInv'
<1>1. /\ cursor # <<>> /\ Parent.node.kind = kind /\ SameNodes(cursor', Front(cursor))
      /\ cursor \in Seq(Entries) /\ Parent = cursor[Len(cursor)]
      /\ Front(cursor) \in Seq(Entries)
  BY CloseShape, PathTyped, PathEnd
<1>2. /\ runs \in Seq(Run!Runs) /\ Len(runs) = Len(cursor)
      /\ Len(store) = 1 + ScopeCount(cursor)
  BY DEF RunInv
<1>3. runs # <<>>
  BY <1>1, <1>2
<1>4. runs' \in Seq(Run!Runs) /\ Len(runs') = Len(cursor) - 1
  BY <1>2, <1>3, RunEnds
<1>5. /\ Len(cursor') = Len(cursor) - 1
      /\ ScopeCount(cursor') = ScopeCount(Front(cursor)) /\ ScopeCount(Front(cursor)) \in Nat
  BY <1>1, SameNodesCount, FrontShape, CountIsNatural DEF SameNodes
<1>6. ScopeCount(cursor) = ScopeCount(Front(cursor)) + IF kind \in ScopeKinds THEN 1 ELSE 0
  BY <1>1, CloseCount
<1>7. Len(store') = 1 + ScopeCount(cursor')
  <2>1. CASE kind \in ScopeKinds
    BY <1>2, <1>5, <1>6, <2>1
  <2>2. CASE kind \notin ScopeKinds
    BY <1>2, <1>5, <1>6, <2>2
  <2> QED BY <2>1, <2>2
<1>8. FunctionsParked(cursor', runs')
  <2>1. /\ \A i \in 1 .. Len(cursor) - 1 : runs'[i] = runs[i]
        /\ \A i \in 1 .. Len(cursor) - 1 : cursor'[i].node = cursor[i].node
    BY <1>1, <1>2, <1>3, RunEnds, FrontShape DEF SameNodes
  <2>2. FunctionsParked(cursor, runs) /\ Len(cursor) \in Nat
    BY <1>1 DEF RunInv
  <2> QED BY <1>5, <2>1, <2>2 DEF FunctionsParked
<1> QED BY <1>4, <1>5, <1>7, <1>8 DEF RunInv

\* What the run was parked as is a status, or none.
LEMMA ParkedType ==
  ASSUME IInv, RunInv, cursor # <<>>
  PROVE  Run!Parked = runs[Len(runs)].parked /\ Run!Parked \in Run!Statuses \cup {"none"}
         /\ runs[Len(runs)].globals \in SUBSET Name
         /\ runs # <<>> /\ Run!Last(runs) = runs[Len(runs)]
<1>1. runs \in Seq(Run!Runs) /\ Len(runs) = Len(cursor) /\ runs # <<>>
  BY PathTyped DEF RunInv
<1>2. Run!Last(runs) = runs[Len(runs)] /\ Run!Last(runs) \in Run!Runs
  BY <1>1, RunEnds
<1> QED BY <1>1, <1>2 DEF Run!Parked, Run!Runs

\* The kind of statement the analyzer and the run leave.
LEMMA ClosedKind ==
  ASSUME NEW kind, Run!Close(kind) PROVE Parent.node.kind = kind /\ cursor # <<>>
BY DEF Run!Close, Run!Last, Parent, Last

\* The scope that ends.
LEMMA LastScope ==
  ASSUME IInv, RunInv
  PROVE  Run!ReadIn(Run!Last(store)) \in SUBSET Name
<1>1. store \in Seq(Run!Variables) /\ store # <<>>
  BY MemoryType DEF RunInv
<1> QED BY <1>1, RunEnds, ReadInType

LEMMA RunUp ==
  ASSUME IInv, RunInv, FlowUp
  PROVE  RunInv'
<1>1. PICK kind \in CompoundKinds : Close(kind)
  BY UpCloses DEF FlowUp
<1>2. cursor # <<>> /\ Parent.node.kind = kind
  BY <1>1, CloseShape
<1>3. /\ MemoryOK(Run!Memory, Len(store)) /\ Len(store) \in Nat \ {0} /\ Len(store) \in Nat
      /\ store \in Seq(Run!Variables) /\ status \in Run!Statuses
      /\ Len(store) - 1 \in Nat
  BY MemoryType DEF RunInv
<1>4. ASSUME NEW k2, NEW after \in Run!Statuses, Run!Resume(k2, after)
      PROVE  k2 = kind /\ runs' = Run!Front(runs) /\ status' \in Run!Statuses
  BY <1>2, <1>4, ClosedKind, ParkedType DEF Run!Resume
<1>5. Run!AfterLoop \in Run!Statuses
  BY <1>3 DEF Run!AfterLoop, Run!Statuses
<1>6. ASSUME NEW m, MemoryOK(m, Len(store)),
             Run!Remember([m EXCEPT !.store = Run!Front(@)],
                          Run!ReadIn(Run!Last(store)), FALSE, FALSE)
      PROVE  /\ store' \in Seq(Run!Variables) /\ Len(store') = Len(store) - 1
             /\ obs' \in Observations
  <2> DEFINE closed == Run!ReadIn(Run!Last(store))
             m2 == [m EXCEPT !.store = Run!Front(@)]
  <2>1. closed \in SUBSET Name /\ FALSE \in BOOLEAN
    BY LastScope
  <2>2. MemoryOK(m2, Len(store) - 1)
    BY <1>3, <1>6, EndScopeType
  <2>3. Run!Remember(m2, closed, FALSE, FALSE)
    BY <1>6
  <2> HIDE DEF closed, m2
  <2> QED BY <1>3, <2>1, <2>2, <2>3, RememberType
<1>7. CASE Run!RunEndBlock
  <2>1. Run!Resume("block", status) /\ kind = "block"
    BY <1>3, <1>4, <1>7 DEF Run!RunEndBlock
  <2>2. /\ store' \in Seq(Run!Variables) /\ Len(store') = Len(store) - 1
        /\ obs' \in Observations
    BY <1>3, <1>6, <1>7 DEF Run!RunEndBlock
  <2>3. Len(store') = Len(store) - IF kind \in ScopeKinds THEN 1 ELSE 0
    BY <2>1, <2>2 DEF ScopeKinds
  <2> QED BY <1>1, <1>3, <1>4, <2>1, <2>2, <2>3, RunGoesUp
<1>8. CASE Run!RunEndIf \/ Run!RunEndWhile
  <2>1. /\ kind \in {"if", "while"} /\ runs' = Run!Front(runs) /\ status' \in Run!Statuses
        /\ obs' = Run!Quiet /\ store' = store
    BY <1>3, <1>4, <1>5, <1>8 DEF Run!RunEndIf, Run!RunEndWhile
  <2>2. Len(store') = Len(store) - IF kind \in ScopeKinds THEN 1 ELSE 0
    BY <1>3, <2>1 DEF ScopeKinds
  <2> QED BY <1>1, <1>3, <2>1, <2>2, QuietType, RunGoesUp
<1>9. CASE Run!RunEndFor
  <2> DEFINE m == IF Run!Parked = "none" /\ status \in {"live", "continued"}
                  THEN Run!Increment(Run!Memory, Run!Last(cursor).node) ELSE Run!Memory
  <2>1. /\ Run!Resume("for", Run!AfterLoop)
        /\ Run!Remember([m EXCEPT !.store = Run!Front(@)],
                        Run!ReadIn(Run!Last(store)), FALSE, FALSE)
    BY <1>9 DEF Run!RunEndFor
  <2>2. MemoryOK(m, Len(store))
    BY <1>3, IncrementType
  <2> HIDE DEF m
  <2>3. kind = "for" /\ runs' = Run!Front(runs) /\ status' \in Run!Statuses
    BY <1>4, <1>5, <2>1
  <2>4. /\ store' \in Seq(Run!Variables) /\ Len(store') = Len(store) - 1
        /\ obs' \in Observations
    BY <1>6, <2>1, <2>2
  <2>5. Len(store') = Len(store) - IF kind \in ScopeKinds THEN 1 ELSE 0
    BY <2>3, <2>4 DEF ScopeKinds
  <2> QED BY <1>1, <2>3, <2>4, <2>5, RunGoesUp
<1> QED BY <1>7, <1>8, <1>9 DEF FlowUp

\* The names of parameters are names of variables.
LEMMA ParameterNames ==
  ASSUME NEW f \in Functions
  PROVE  {f.params[i].name : i \in DOMAIN f.params} \in SUBSET Name
<1>1. f.params \in Seq(Parameters)
  BY AstAssumption DEF IsFunction
<1>2. \A i \in DOMAIN f.params : f.params[i] \in Parameters
  BY <1>1
<1> QED BY <1>2 DEF Parameters

\* The walk enters a function between the statements of the program.
LEMMA FunctionAtTop ==
  ASSUME IInv, pending # <<>>, NEW f, f = Head(pending), EnterFunction(f)
  PROVE  /\ cursor = <<>> /\ f \in Functions /\ f.kind = "func"
         /\ \E e \in Entries : e.node = f /\ e.slot = "body" /\ cursor' = Append(cursor, e)
<1>1. f \in Functions /\ OpenFunction(f)
  BY InvParts DEF OthersOK, EnterFunction
<1>2. f.kind = "func" /\ Room(f)
  BY <1>1 DEF OpenFunction
<1>3. cursor = <<>>
  BY <1>2, RoomWaits
<1> DEFINE e == [node |-> f, slot |-> FirstSlot(f)]
<1>4. cursor' = Append(cursor, e) /\ e \in Entries /\ e.node = f /\ e.slot = "body"
  BY <1>1, <1>2 DEF OpenFunction, Entries, Slots, FirstSlot
<1> HIDE DEF e
<1> QED BY <1>1, <1>2, <1>3, <1>4

LEMMA RunEnter ==
  ASSUME IInv, RunInv, pending # <<>>, FlowFunction(Head(pending))
  PROVE  RunInv'
<1> DEFINE f == Head(pending)
           initialized == {n \in Name : n \in DOMAIN store[1] /\ store[1][n].init}
           reset(i) == [n \in DOMAIN store[i] |-> [store[i][n] EXCEPT !.init = FALSE]]
           called == [i \in DOMAIN store |-> reset(i)]
           ps == {f.params[i].name : i \in DOMAIN f.params}
           params == [n \in ps |-> [init |-> TRUE, read |-> FALSE]]
           r == [parked |-> status, globals |-> initialized]
           m == [Run!Memory EXCEPT !.store = Append(called, params)]
<1>1. EnterFunction(f)
  BY DEF FlowFunction
<1>2. /\ status' = "live" /\ runs' = Append(runs, r)
      /\ Run!Remember(m, {}, FALSE, FALSE)
  BY DEF FlowFunction, Run!RunFunction
<1>3. f \in Functions /\ f.kind = "func"
  BY <1>1, FunctionAtTop
<1>4. PICK e \in Entries : e.node = f /\ cursor' = Append(cursor, e)
  BY <1>1, FunctionAtTop
<1>5. /\ MemoryOK(Run!Memory, Len(store)) /\ Len(store) \in Nat \ {0} /\ Len(store) \in Nat
      /\ status \in Run!Statuses /\ store \in Seq(Run!Variables)
  BY MemoryType DEF RunInv
<1>6. r \in Run!Runs
  <2>1. initialized \in SUBSET Name
    OBVIOUS
  <2> HIDE DEF initialized
  <2> QED BY <1>5, <2>1 DEF Run!Runs
<1>7. ps \in SUBSET Name
  BY <1>3, ParameterNames
<1>17. r.parked \in Run!Statuses
  BY <1>5
<1> HIDE DEF f, ps, r
<1>8. params \in Run!Variables
  <2>1. params \in [ps -> Cells]
    BY DEF Cells
  <2> HIDE DEF params
  <2> QED BY <1>7, <2>1 DEF Run!Variables, Cells
<1> HIDE DEF params
<1>9. \A i \in DOMAIN store : reset(i) \in Run!Variables
  <2> SUFFICES ASSUME NEW i \in DOMAIN store PROVE reset(i) \in Run!Variables
    OBVIOUS
  <2> DEFINE t == reset(i)
  <2>1. store[i] \in Run!Variables
    BY <1>5
  <2>2. \A n \in DOMAIN store[i] : t[n] \in Cells
    BY <2>1, ScopeShape, CellChanged
  <2>3. DOMAIN t = DOMAIN store[i] /\ t = [n \in DOMAIN store[i] |-> t[n]]
    OBVIOUS
  <2> HIDE DEF t
  <2>4. t \in Run!Variables
    BY <2>1, <2>2, <2>3, ScopeChanged
  <2> QED BY <2>4 DEF t
<1> HIDE DEF reset
<1>10. called \in Seq(Run!Variables) /\ Len(called) = Len(store)
  BY <1>5, <1>9
<1> HIDE DEF called
<1> DEFINE st == Append(called, params)
<1>11. st \in Seq(Run!Variables) /\ Len(st) = Len(store) + 1
  BY <1>5, <1>8, <1>10
<1>12. MemoryOK(m, Len(store) + 1)
  <2>1. m = [Run!Memory EXCEPT !.store = st]
    OBVIOUS
  <2> HIDE DEF st, m
  <2> QED BY <1>5, <1>11, <2>1, StoreChanged
<1> HIDE DEF m
<1>13. {} \in SUBSET Name /\ FALSE \in BOOLEAN /\ Len(store) + 1 \in Nat
  BY <1>5
<1>14. store' \in Seq(Run!Variables) /\ Len(store') = Len(store) + 1 /\ obs' \in Observations
  BY <1>2, <1>12, <1>13, RememberType
<1>15. Len(store') = Len(store) + IF e.node.kind \in ScopeKinds THEN 1 ELSE 0
  BY <1>3, <1>4, <1>14 DEF ScopeKinds
<1>16. status' \in Run!Statuses
  BY <1>2 DEF Run!Statuses
<1> QED BY <1>2, <1>4, <1>6, <1>14, <1>15, <1>16, <1>17, RunGoesDown

\* A function is the one open statement when it ends, and has its own scope.
LEMMA FunctionScope ==
  ASSUME IInv, RunInv, Walk(cursor), Close("func")
  PROVE  /\ Len(cursor) = 1 /\ Len(store) = 2 /\ cursor # <<>>
         /\ Parent = cursor[1] /\ Parent.node \in Functions
<1>1. /\ cursor # <<>> /\ Parent.node.kind = "func" /\ Parent = cursor[Len(cursor)]
      /\ cursor \in Seq(Entries) /\ Front(cursor) \in Seq(Entries)
      /\ Len(Front(cursor)) = Len(cursor) - 1
  BY CloseShape, PathEnd, PathTyped, FrontShape
<1>2. Len(cursor) \in Nat \ {0}
  BY <1>1
<1>3. Len(cursor) = 1
  BY <1>1, <1>2 DEF Walk
<1>4. Front(cursor) = <<>>
  BY <1>1, <1>3
<1>5. Positions(Front(cursor), Scoped) = {}
  BY <1>4 DEF Positions
<1>6. ScopeCount(Front(cursor)) = 0
  BY <1>5, FS_EmptySet DEF ScopeCount
<1>7. ScopeCount(cursor) = ScopeCount(Front(cursor)) + 1
  <2>1. cursor[Len(cursor)].node.kind \in ScopeKinds
    BY <1>1 DEF ScopeKinds
  <2> QED BY <1>1, <2>1, CloseCount
<1>8. Parent.node \in Functions
  <2>1. Parent.node \in Statements \cup Functions
    BY <1>1, PathEnd DEF Entries
  <2>2. \A n \in Statements : n.kind # "func"
    BY AstAssumption DEF IsStatement, LeafKinds, CompoundKinds, SimpleKinds, JumpKinds, LoopKinds
  <2> QED BY <1>1, <2>1, <2>2
<1> QED BY <1>1, <1>3, <1>6, <1>7, <1>8 DEF RunInv

LEMMA RunLeave ==
  ASSUME IInv, RunInv, Walk(cursor), FlowEndFunction
  PROVE  RunInv'
<1> DEFINE restored(n) == n \in Run!Last(runs).globals
           globals == [n \in DOMAIN store[1] |->
                         [store[1][n] EXCEPT !.init = restored(n)]]
           st == <<globals>>
           m == [Run!Memory EXCEPT !.store = st]
           closed == Run!ReadIn(Run!Last(store))
           end == status = "live" /\ Run!OwesValue(Run!Last(cursor).node)
<1>1. Close("func")
  BY DEF FlowEndFunction, LeaveFunction, Leave
<1>2. /\ runs' = Run!Front(runs) /\ status' = Run!Parked
      /\ Run!Remember(m, closed, end, FALSE)
  BY DEF FlowEndFunction, Run!RunEndFunction
<1>3. Len(store) = 2 /\ cursor # <<>> /\ Len(cursor) = 1
  BY <1>1, FunctionScope
<1>4. /\ MemoryOK(Run!Memory, Len(store)) /\ Len(store) \in Nat
      /\ store \in Seq(Run!Variables)
  BY MemoryType DEF RunInv
<1>5. globals \in Run!Variables
  <2>1. store[1] \in Run!Variables
    BY <1>3, <1>4
  <2>2. \A n \in DOMAIN store[1] : restored(n) \in BOOLEAN
    OBVIOUS
  <2> HIDE DEF restored
  <2>3. \A n \in DOMAIN store[1] : globals[n] \in Cells
    BY <2>1, <2>2, ScopeShape, CellChanged
  <2>4. DOMAIN globals = DOMAIN store[1] /\ globals = [n \in DOMAIN store[1] |-> globals[n]]
    OBVIOUS
  <2> HIDE DEF globals
  <2> QED BY <2>1, <2>3, <2>4, ScopeChanged
<1> HIDE DEF globals
<1>6. st \in Seq(Run!Variables) /\ Len(st) = 1
  BY <1>5
<1> HIDE DEF st
<1>7. MemoryOK(m, 1)
  BY <1>4, <1>6, StoreChanged
<1> HIDE DEF m
<1>8. closed \in SUBSET Name /\ end \in BOOLEAN /\ FALSE \in BOOLEAN /\ 1 \in Nat
  BY LastScope DEF Run!OwesValue
<1> HIDE DEF closed, end
<1>9. store' \in Seq(Run!Variables) /\ Len(store') = 1 /\ obs' \in Observations
  BY <1>2, <1>7, <1>8, RememberType
<1>10. Len(store') = Len(store) - IF "func" \in ScopeKinds THEN 1 ELSE 0
  BY <1>3, <1>9 DEF ScopeKinds
<1>11. runs # <<>> /\ Run!Parked \in Run!Statuses
  <2>1. runs # <<>> /\ Run!Parked = runs[Len(runs)].parked /\ Len(runs) = Len(cursor)
    BY <1>3, ParkedType DEF RunInv
  <2>2. cursor[1].node.kind = "func"
    BY <1>1, FunctionScope, CloseShape
  <2>3. FunctionsParked(cursor, runs)
    BY DEF RunInv
  <2> QED BY <1>3, <2>1, <2>2, <2>3 DEF FunctionsParked
<1> QED BY <1>1, <1>2, <1>9, <1>10, <1>11, RunGoesUp

LEMMA RunOther ==
  ASSUME IInv, RunInv, Walk(cursor), (ElseBranch \/ SkipElse) /\ Run!RunElse
  PROVE  RunInv'
<1> DEFINE m == Len(runs)
           p == IF Run!Parked = "none" THEN status ELSE "none"
           new == [runs[m] EXCEPT !.parked = p]
<1>1. OpenElse
  BY DEF ElseBranch, SkipElse
<1>2. /\ cursor # <<>> /\ SameNodes(cursor', cursor)
      /\ Parent = cursor[Len(cursor)] /\ Parent.slot = "thenDone"
  BY <1>1, OpenElseShape, PathEnd DEF OpenElse, Parent
<1>3. /\ runs \in Seq(Run!Runs) /\ Len(runs) = Len(cursor) /\ status \in Run!Statuses
      /\ store \in Seq(Run!Variables)
  BY DEF RunInv
<1>4. /\ Run!Parked \in Run!Statuses \cup {"none"} /\ runs # <<>>
      /\ m \in 1 .. Len(runs) /\ runs[m] \in Run!Runs
  BY <1>2, <1>3, ParkedType
<1>5. /\ status' = IF Run!Parked = "none" THEN "skipped" ELSE Run!Parked
      /\ runs' = [runs EXCEPT ![m] = new]
      /\ obs' = Run!Quiet /\ store' = store
  BY DEF Run!RunElse
<1>6. p \in Run!Statuses \cup {"none"}
  BY <1>3
<1> HIDE DEF p
<1>7. new \in Run!Runs
  BY <1>4, <1>6 DEF Run!Runs
<1> HIDE DEF new, m
<1>8. runs' \in Seq(Run!Runs) /\ Len(runs') = Len(runs)
  BY <1>3, <1>4, <1>5, <1>7
<1>9. status' \in Run!Statuses
  BY <1>4, <1>5 DEF Run!Statuses
<1>10. \A i \in 1 .. Len(cursor) : cursor[i].node.kind = "func" => runs'[i] = runs[i]
  <2>1. cursor[m].node.kind # "func"
    BY <1>2, <1>3 DEF Walk, m
  <2>2. \A i \in 1 .. Len(cursor) : i # m => runs'[i] = runs[i]
    BY <1>3, <1>5
  <2> QED BY <2>1, <2>2
<1> QED BY <1>2, <1>3, <1>5, <1>8, <1>9, <1>10, QuietType, RunStays

LEMMA RunStill ==
  ASSUME IInv, RunInv, cursor' = cursor, status' = status, runs' = runs, store' = store,
         obs' = obs
  PROVE  RunInv'
BY DEF RunInv

LEMMA RunEnd ==
  ASSUME IInv, RunInv, Run!RunEndProgram
  PROVE  RunInv'
<1> DEFINE closed == Run!ReadIn(store[1])
<1>1. /\ Run!Remember(Run!Memory, closed, FALSE, FALSE)
      /\ cursor' = cursor /\ status' = status /\ runs' = runs
  BY DEF Run!RunEndProgram, Run!treeVars
<1>2. /\ MemoryOK(Run!Memory, Len(store)) /\ Len(store) \in Nat \ {0} /\ Len(store) \in Nat
      /\ store \in Seq(Run!Variables)
  BY MemoryType DEF RunInv
<1>3. closed \in SUBSET Name /\ FALSE \in BOOLEAN
  BY <1>2, ReadInType
<1> HIDE DEF closed
<1>4. store' \in Seq(Run!Variables) /\ Len(store') = Len(store) /\ obs' \in Observations
  BY <1>1, <1>2, <1>3, RememberType
<1> QED BY <1>1, <1>4 DEF RunInv

LEMMA RunStarts ==
  ASSUME FlowInit
  PROVE  RunInv
<1>1. /\ status = "live" /\ runs = <<>> /\ store = <<Run!EmptyScope>> /\ obs = Run!Quiet
      /\ cursor = <<>>
  BY DEF FlowInit, Run!RunInit, Init, TreeInit
<1>2. store \in Seq(Run!Variables) /\ Len(store) = 1 /\ Len(runs) = 0 /\ Len(cursor) = 0
  BY <1>1, NoVariables
<1>3. Positions(cursor, Scoped) = {}
  BY <1>1 DEF Positions
<1>4. ScopeCount(cursor) = 0
  BY <1>3, FS_EmptySet DEF ScopeCount
<1>5. FunctionsParked(cursor, runs)
  BY <1>2 DEF FunctionsParked
<1>6. runs \in Seq(Run!Runs) /\ status \in Run!Statuses /\ obs \in Observations
  BY <1>1, QuietType DEF Run!Statuses
<1> QED BY <1>2, <1>4, <1>5, <1>6 DEF RunInv

LEMMA RunNext ==
  ASSUME IInv, RunInv, Walk(cursor), [FlowNext]_flowVars
  PROVE  RunInv'
<1>1. CASE UNCHANGED flowVars
  BY <1>1, RunStill DEF flowVars, vars, treeVars
<1>2. CASE GatherSignatures /\ UNCHANGED <<status, runs, store, obs, class, seen>>
  BY <1>2, RunStill DEF GatherSignatures, treeVars
<1>3. CASE Finish /\ Run!RunEndProgram
  BY <1>3, RunEnd
<1> QED BY <1>1, <1>2, <1>3, RunLeaf, RunDown, RunUp, RunEnter, RunLeave, RunOther
        DEF FlowNext, FlowWalk

\* What the walk does is a step of the analyzer.
LEMMA FlowAnalyses ==
  ASSUME [FlowNext]_flowVars
  PROVE  [Next]_vars
<1>1. CASE UNCHANGED flowVars
  BY <1>1 DEF flowVars
<1>2. CASE FlowWalk
  BY <1>2 DEF FlowWalk, FlowLeaf, FlowDown, FlowUp, FlowFunction, FlowEndFunction, Next
<1> QED BY <1>1, <1>2 DEF FlowNext

\* Set next to a run of the program, the analyzer takes only steps of its own:
\* what is proved of every analysis holds of these.
THEOREM FlowIsAnalysis == FlowSpec => Spec
<1>1. FlowInit => Init
  BY DEF FlowInit
<1>2. [FlowNext]_flowVars => [Next]_vars
  BY FlowAnalyses
<1> QED BY <1>1, <1>2, PTL DEF FlowSpec, Spec

\* The run keeps one scope for the globals and one for each block, for-statement
\* and function open on the walk, as the symbol table does, and resumes each
\* open statement once.
THEOREM RunBalance == FlowSpec => []RunInv
<1>1. FlowInit => RunInv
  BY RunStarts
<1>2. IInv /\ PathInv /\ RunInv /\ [FlowNext]_flowVars => RunInv'
  BY RunNext DEF PathInv
<1> QED BY <1>1, <1>2, FlowIsAnalysis, Balance, PathInvariant, PTL DEF FlowSpec

\* What a statement or a function declares are names of variables.
LEMMA DeclaredNames ==
  ASSUME NEW n \in Statements
  PROVE  DeclaredBy(n) \in SUBSET Name
<1>1. IsStatement(n)
  BY AstAssumption
<1>2. n.kind = "decl" => n.name \in Name
  BY <1>1 DEF IsStatement, IsSimple, SimpleKinds
<1>3. n.kind = "for" /\ n.init # <<>> /\ n.init[1].kind = "decl" => n.init[1].name \in Name
  BY <1>1 DEF IsStatement, IsSimple
<1> QED BY <1>2, <1>3 DEF DeclaredBy

LEMMA SeenStep ==
  ASSUME IInv, class \in Classes, seen \subseteq Name, [FlowNext]_flowVars
  PROVE  class' \in Classes /\ seen' \subseteq Name
<1>1. ASSUME class' = class, seen' = seen
      PROVE  class' \in Classes /\ seen' \subseteq Name
  BY <1>1
<1>2. ASSUME NEW n \in Statements, FlowLeaf(n) \/ FlowDown(n)
      PROVE  class' \in Classes /\ seen' \subseteq Name
  <2>1. class' = class /\ Fresh(DeclaredBy(n))
    BY <1>2 DEF FlowLeaf, FlowDown, InClass
  <2> QED BY <2>1, DeclaredNames DEF Fresh
<1>3. ASSUME pending # <<>>, FlowFunction(Head(pending))
      PROVE  class' \in Classes /\ seen' \subseteq Name
  <2>1. Head(pending) \in Functions
    BY <1>3, FunctionAtTop DEF FlowFunction
  <2>2. class' = class /\ FreshFunction(Head(pending))
    BY <1>3 DEF FlowFunction
  <2> QED BY <2>1, <2>2, ParameterNames DEF FreshFunction
<1> QED BY <1>1, <1>2, <1>3
        DEF FlowNext, FlowWalk, FlowUp, FlowEndFunction, flowVars

\* Every variable of the analyzer and of the run next to it keeps its type.
THEOREM FlowTypes == FlowSpec => []FlowTypeOK
<1> DEFINE ClassOK == class \in Classes /\ seen \subseteq Name
<1>1. FlowInit => ClassOK
  BY DEF FlowInit
<1>2. IInv /\ ClassOK /\ [FlowNext]_flowVars => ClassOK'
  BY SeenStep
<1>3. TypeOK /\ RunInv /\ ClassOK => FlowTypeOK
  BY DEF RunInv, FlowTypeOK, Run!RunTypeOK, Observations
<1> HIDE DEF ClassOK
<1> QED BY <1>1, <1>2, <1>3, FlowIsAnalysis, Balance, TypeCorrect, RunBalance, PTL
        DEF FlowSpec

--------------------------------------------------------------------------------
(***************************************************************************)
(* The invariant: how the analyzer's records fs of the statements on path, *)
(* the run's records rs of them, and the status st of the run agree.       *)
(***************************************************************************)
\* Block i holds no code of the run from where the walk is to its end.
Dead(fs, path, i) ==
  path[i].node.kind = "block" /\ (fs[i].list # "open" \/ fs[i].ret)

\* Blocks alone are left off, and park no run; what is skipped is in a block
\* that was left off.
Static(fs, path, rs) ==
  \A i \in 1 .. Len(fs) :
    /\ fs[i].list # "open" => path[i].node.kind = "block"
    /\ path[i].node.kind = "block" => rs[i].parked = "none"
    /\ fs[i].skip => \E k \in 1 .. Len(fs) : k < i /\ fs[k].list # "open"

\* Where the analyzer has seen that a branch, or all of a statement, returns,
\* no run comes out of it alive.
Returned(fs, path, rs, st) ==
  \A i \in 1 .. Len(fs) : fs[i].ret =>
    /\ path[i].node.kind = "if" /\ path[i].slot \in {"else", "done"}
         => rs[i].parked # "live"
    /\ path[i].slot \in {"thenDone", "done"} => st # "live"

\* In a dead block the run is not alive, nor will it be after a statement in it.
Stopped(fs, path, rs, st) ==
  \A i \in 1 .. Len(fs) : Dead(fs, path, i) =>
    /\ st # "live"
    /\ \A j \in 1 .. Len(fs) : i < j =>
         /\ rs[j].parked # "live"
         /\ path[j].node.kind \in LoopKinds => rs[j].parked # "none"

Shape(fs, path, rs) ==
  /\ Walk(path)
  /\ fs \in Seq(Frames) /\ rs \in Seq(Run!Runs)
  /\ Len(fs) = Len(path) /\ Len(rs) = Len(path)

Agree(fs, path, rs, st) == /\ Shape(fs, path, rs) /\ Static(fs, path, rs)
                           /\ Returned(fs, path, rs, st) /\ Stopped(fs, path, rs, st)

FlowInv == Agree(frames, cursor, runs, status)

\* The records below the last one are the same, and the last one as skipped.
Above(gs, fs) ==
  /\ gs \in Seq(Frames) /\ Len(gs) = Len(fs)
  /\ \A i \in 1 .. Len(fs) : i < Len(fs) => gs[i] = fs[i]
  /\ \A i \in 1 .. Len(fs) : gs[i].skip = fs[i].skip
  /\ \A i \in 1 .. Len(fs) : fs[i].list # "open" => gs[i].list # "open"

\* A child of the last statement is complete, and leaves the run at st2.
LEMMA AgreeStays ==
  ASSUME NEW fs, NEW path, NEW rs, NEW st, Agree(fs, path, rs, st),
         NEW gs, Above(gs, fs), NEW path2, Advanced(path2, path), NEW st2,
         NEW returns \in BOOLEAN, NEW m, m = Len(fs),
         fs # <<>> => /\ path[m].slot \in Waiting
                      /\ st # "live" \/ returns => st2 # "live"
                      /\ gs[m].ret = returnsWith(path[m], fs[m].ret, returns)
                      /\ gs[m].list # "open" => /\ path[m].node.kind = "block"
                                                /\ st2 # "live"
  PROVE  Agree(gs, path2, rs, st2)
<1>1. /\ Walk(path) /\ fs \in Seq(Frames) /\ rs \in Seq(Run!Runs)
      /\ Len(fs) = Len(path) /\ Len(rs) = Len(path) /\ path \in Seq(Entries)
  BY DEF Agree, Shape, Walk
<1>2. path # <<>> => fs # <<>>
  BY <1>1
<1>3. Walk(path2)
  BY <1>1, <1>2, WalkAdvanced
<1>4. /\ m \in Nat /\ Len(path2) = m /\ Len(gs) = m /\ gs \in Seq(Frames) /\ Len(path) = m
      /\ \A i \in 1 .. m : path2[i].node = path[i].node
      /\ \A i \in 1 .. m : i < m => gs[i] = fs[i] /\ path2[i].slot = path[i].slot
      /\ \A i \in 1 .. m : gs[i].skip = fs[i].skip
      /\ \A i \in 1 .. m : fs[i].list # "open" => gs[i].list # "open"
      /\ \A i \in 1 .. m : i = m => path2[i].slot = Filled(path[m].slot)
      /\ \A i \in 1 .. m : fs # <<>>
  BY <1>1 DEF Above, Advanced, SameNodes
<1>5. Shape(gs, path2, rs)
  BY <1>1, <1>3, <1>4 DEF Shape
<1>6. ASSUME NEW i \in 1 .. m
      PROVE  /\ gs[i].list # "open" => path2[i].node.kind = "block"
             /\ path2[i].node.kind = "block" => rs[i].parked = "none"
             /\ gs[i].skip => \E k \in 1 .. m : k < i /\ gs[k].list # "open"
  <2>1. /\ fs[i].list # "open" => path[i].node.kind = "block"
        /\ path[i].node.kind = "block" => rs[i].parked = "none"
        /\ fs[i].skip => \E k \in 1 .. m : k < i /\ fs[k].list # "open"
    BY DEF Agree, Static
  <2> QED BY <1>4, <2>1
<1>7. Static(gs, path2, rs)
  BY <1>4, <1>6 DEF Static
<1>8. ASSUME NEW i \in 1 .. m, Dead(gs, path2, i)
      PROVE  /\ st2 # "live"
             /\ \A j \in 1 .. m : i < j =>
                  /\ rs[j].parked # "live"
                  /\ path2[j].node.kind \in LoopKinds => rs[j].parked # "none"
  <2>1. CASE i < m
    <3>1. Dead(fs, path, i)
      BY <1>4, <1>8, <2>1 DEF Dead
    <3>2. /\ st # "live"
          /\ \A j \in 1 .. m : i < j =>
               /\ rs[j].parked # "live"
               /\ path[j].node.kind \in LoopKinds => rs[j].parked # "none"
      BY <3>1 DEF Agree, Stopped
    <3> QED BY <1>4, <3>2
  <2>2. CASE i = m
    <3>1. st2 # "live"
      <4>1. path[m].node.kind = "block" /\ (gs[m].list # "open" \/ gs[m].ret)
        BY <1>4, <1>8, <2>2 DEF Dead
      <4>2. CASE gs[m].list # "open"
        BY <1>4, <4>2
      <4>3. CASE gs[m].ret
        <5>1. fs[m].ret \/ returns
          BY <1>4, <4>1, <4>3 DEF returnsWith
        <5>2. fs[m].ret => st # "live"
          BY <2>2, <4>1 DEF Agree, Stopped, Dead
        <5> QED BY <1>4, <5>1, <5>2
      <4> QED BY <4>1, <4>2, <4>3
    <3> QED BY <1>4, <2>2, <3>1
  <2> QED BY <1>4, <2>1, <2>2
<1>9. Stopped(gs, path2, rs, st2)
  BY <1>4, <1>8 DEF Stopped
<1>10. ASSUME NEW i \in 1 .. m, gs[i].ret
       PROVE  /\ path2[i].node.kind = "if" /\ path2[i].slot \in {"else", "done"}
                   => rs[i].parked # "live"
              /\ path2[i].slot \in {"thenDone", "done"} => st2 # "live"
  <2>1. CASE i < m
    BY <1>4, <1>10, <2>1 DEF Agree, Returned
  <2>2. CASE i = m
    <3>1. /\ fs # <<>> /\ path[m].slot \in Waiting
          /\ gs[m].ret = returnsWith(path[m], fs[m].ret, returns) /\ gs[m].ret
          /\ path2[m].slot = Filled(path[m].slot) /\ path2[m].node = path[m].node
      BY <1>4, <1>10, <2>2
    <3>2. CASE path[m].node.kind = "block"
      <4>1. fs[m].ret \/ returns
        BY <3>1, <3>2 DEF returnsWith
      <4>2. fs[m].ret => st # "live"
        BY <2>2, <3>2 DEF Agree, Stopped, Dead
      <4> QED BY <2>2, <3>1, <3>2, <4>1, <4>2
    <3>3. CASE path[m].node.kind = "if"
      <4>1. returns /\ (path[m].slot = "else" => fs[m].ret)
        BY <3>1, <3>3 DEF returnsWith
      <4>2. path[m].slot # "body" /\ path[m].slot # "list"
        BY <1>1, <1>4, <2>2, <3>3 DEF Walk
      <4>3. /\ path[m].slot \in {"then", "else"}
            /\ path2[m].slot \in {"else", "done"} => path[m].slot = "else"
        BY <3>1, <4>2 DEF Waiting, Filled
      <4>4. fs[m].ret /\ path[m].slot = "else" => rs[m].parked # "live"
        BY <2>2, <3>3 DEF Agree, Returned
      <4> QED BY <2>2, <3>1, <4>1, <4>3, <4>4
    <3>4. CASE path[m].node.kind = "func"
      <4>1. returns
        BY <3>1, <3>4 DEF returnsWith
      <4> QED BY <2>2, <3>1, <3>4, <4>1
    <3> QED BY <3>1, <3>2, <3>3, <3>4 DEF returnsWith
  <2> QED BY <1>4, <2>1, <2>2
<1>11. Returned(gs, path2, rs, st2)
  BY <1>4, <1>10 DEF Returned
<1> QED BY <1>5, <1>7, <1>9, <1>11 DEF Agree

\* A statement is entered: its record is r, and q says where the run resumes.
LEMMA AgreePushes ==
  ASSUME NEW fs, NEW path, NEW rs, NEW st, Agree(fs, path, rs, st),
         NEW gs, Above(gs, fs), NEW m, m = Len(fs),
         fs # <<>> => gs[m].ret = fs[m].ret /\ (gs[m].list = fs[m].list \/ fs[m].list # "open"),
         NEW e \in Entries, Walk(Append(path, e)),
         NEW r \in Frames, r.list = "open", r.ret = FALSE,
         r.skip => \E k \in 1 .. m : gs[k].list # "open",
         NEW q \in Run!Runs, e.node.kind = "block" => q.parked = "none",
         NEW st2,
         fs # <<>> /\ st # "live"
           => /\ st2 # "live" /\ q.parked # "live"
              /\ e.node.kind \in LoopKinds => q.parked # "none"
  PROVE  Agree(Append(gs, r), Append(path, e), Append(rs, q), st2)
<1> DEFINE hs == Append(gs, r)
           path2 == Append(path, e)
           rs2 == Append(rs, q)
<1>1. /\ fs \in Seq(Frames) /\ rs \in Seq(Run!Runs) /\ path \in Seq(Entries)
      /\ Len(path) = m /\ Len(rs) = m /\ m \in Nat /\ gs \in Seq(Frames) /\ Len(gs) = m
  BY DEF Agree, Shape, Walk, Above
<1>2. /\ hs \in Seq(Frames) /\ rs2 \in Seq(Run!Runs)
      /\ Len(hs) = m + 1 /\ Len(path2) = m + 1 /\ Len(rs2) = m + 1
      /\ hs[m + 1] = r /\ path2[m + 1] = e /\ rs2[m + 1] = q
      /\ \A i \in 1 .. m : hs[i] = gs[i] /\ path2[i] = path[i] /\ rs2[i] = rs[i]
  BY <1>1
<1> HIDE DEF hs, path2, rs2
<1>3. Shape(hs, path2, rs2)
  BY <1>2 DEF Shape, path2
<1>4. /\ \A i \in 1 .. m : fs # <<>> /\ gs[i].skip = fs[i].skip /\ gs[i].ret = fs[i].ret
      /\ \A i \in 1 .. m : gs[i].list # "open" <=> fs[i].list # "open"
  BY <1>1 DEF Above
<1>5. \A i \in 1 .. m + 1 : i \in 1 .. m \/ i = m + 1
  BY <1>1
<1>6. ASSUME NEW i \in 1 .. m + 1
      PROVE  /\ hs[i].list # "open" => path2[i].node.kind = "block"
             /\ path2[i].node.kind = "block" => rs2[i].parked = "none"
             /\ hs[i].skip => \E k \in 1 .. m + 1 : k < i /\ hs[k].list # "open"
  <2>1. CASE i \in 1 .. m
    <3>1. /\ fs[i].list # "open" => path[i].node.kind = "block"
          /\ path[i].node.kind = "block" => rs[i].parked = "none"
          /\ fs[i].skip => \E k \in 1 .. m : k < i /\ fs[k].list # "open"
      BY <2>1 DEF Agree, Static
    <3>2. fs[i].skip => \E k \in 1 .. m + 1 : k < i /\ hs[k].list # "open"
      BY <1>1, <1>2, <1>4, <3>1
    <3> QED BY <1>2, <1>4, <2>1, <3>1, <3>2
  <2>2. CASE i = m + 1
    <3>1. r.skip => \E k \in 1 .. m + 1 : k < i /\ hs[k].list # "open"
      BY <1>1, <1>2, <2>2
    <3> QED BY <1>2, <2>2, <3>1
  <2> QED BY <1>5, <2>1, <2>2
<1>7. Static(hs, path2, rs2)
  BY <1>2, <1>6 DEF Static
<1>8. ASSUME NEW i \in 1 .. m + 1, Dead(hs, path2, i)
      PROVE  /\ st2 # "live"
             /\ \A j \in 1 .. m + 1 : i < j =>
                  /\ rs2[j].parked # "live"
                  /\ path2[j].node.kind \in LoopKinds => rs2[j].parked # "none"
  <2>1. i \in 1 .. m
    <3>1. i # m + 1
      BY <1>2, <1>8 DEF Dead
    <3> QED BY <1>5, <3>1
  <2>2. Dead(fs, path, i)
    BY <1>2, <1>4, <1>8, <2>1 DEF Dead
  <2>3. /\ st # "live"
        /\ \A j \in 1 .. m : i < j =>
             /\ rs[j].parked # "live"
             /\ path[j].node.kind \in LoopKinds => rs[j].parked # "none"
    BY <2>1, <2>2 DEF Agree, Stopped
  <2>4. /\ st2 # "live" /\ q.parked # "live"
        /\ e.node.kind \in LoopKinds => q.parked # "none"
    BY <1>4, <2>1, <2>3
  <2> QED BY <1>2, <1>5, <2>3, <2>4
<1>9. Stopped(hs, path2, rs2, st2)
  BY <1>2, <1>8 DEF Stopped
<1>10. ASSUME NEW i \in 1 .. m + 1, hs[i].ret
       PROVE  /\ path2[i].node.kind = "if" /\ path2[i].slot \in {"else", "done"}
                   => rs2[i].parked # "live"
              /\ path2[i].slot \in {"thenDone", "done"} => st2 # "live"
  <2>1. i \in 1 .. m
    BY <1>2, <1>5, <1>10
  <2>2. /\ path[i].node.kind = "if" /\ path[i].slot \in {"else", "done"}
             => rs[i].parked # "live"
        /\ path[i].slot \in {"thenDone", "done"} => st # "live"
    BY <1>2, <1>4, <1>10, <2>1 DEF Agree, Returned
  <2> QED BY <1>2, <1>4, <2>1, <2>2
<1>11. Returned(hs, path2, rs2, st2)
  BY <1>2, <1>10 DEF Returned
<1> QED BY <1>3, <1>7, <1>9, <1>11 DEF Agree, hs, path2, rs2

\* The last statement is left; the run is at st2 after it.
LEMMA AgreePops ==
  ASSUME NEW fs, NEW path, NEW rs, NEW st, Agree(fs, path, rs, st), fs # <<>>,
         NEW m, m = Len(fs), NEW st2,
         rs[m].parked # "none" => st2 = rs[m].parked,
         rs[m].parked = "none" /\ path[m].node.kind \notin LoopKinds => st2 = st
  PROVE  Agree(Front(fs), Front(path), Front(rs), st2)
<1>1. /\ Walk(path) /\ fs \in Seq(Frames) /\ rs \in Seq(Run!Runs) /\ path \in Seq(Entries)
      /\ Len(path) = m /\ Len(rs) = m /\ m \in Nat \ {0} /\ path # <<>> /\ rs # <<>>
  BY DEF Agree, Shape, Walk
<1> DEFINE gs == Front(fs)
           front == Front(path)
           qs == Front(rs)
<1>2. /\ gs \in Seq(Frames) /\ front \in Seq(Entries) /\ qs \in Seq(Run!Runs)
      /\ Len(gs) = m - 1 /\ Len(front) = m - 1 /\ Len(qs) = m - 1
      /\ \A i \in 1 .. m - 1 : gs[i] = fs[i] /\ front[i] = path[i] /\ qs[i] = rs[i]
  BY <1>1, FrontShape
<1> HIDE DEF gs, front, qs
<1>3. Shape(gs, front, qs)
  BY <1>1, <1>2, WalkFront DEF Shape
<1>4. \A i \in 1 .. m - 1 : i \in 1 .. m /\ i < m
  BY <1>1
<1>5. ASSUME NEW i \in 1 .. m - 1
      PROVE  /\ gs[i].list # "open" => front[i].node.kind = "block"
             /\ front[i].node.kind = "block" => qs[i].parked = "none"
             /\ gs[i].skip => \E k \in 1 .. m - 1 : k < i /\ gs[k].list # "open"
  <2>1. /\ fs[i].list # "open" => path[i].node.kind = "block"
        /\ path[i].node.kind = "block" => rs[i].parked = "none"
        /\ fs[i].skip => \E k \in 1 .. m : k < i /\ fs[k].list # "open"
    BY <1>4 DEF Agree, Static
  <2>2. \A k \in 1 .. m : k < i => k \in 1 .. m - 1
    BY <1>1
  <2> QED BY <1>2, <2>1, <2>2
<1>6. Static(gs, front, qs)
  BY <1>2, <1>5 DEF Static
<1>7. ASSUME NEW i \in 1 .. m - 1, Dead(gs, front, i)
      PROVE  /\ st2 # "live"
             /\ \A j \in 1 .. m - 1 : i < j =>
                  /\ qs[j].parked # "live"
                  /\ front[j].node.kind \in LoopKinds => qs[j].parked # "none"
  <2>1. Dead(fs, path, i)
    BY <1>2, <1>7 DEF Dead
  <2>2. /\ st # "live"
        /\ \A j \in 1 .. m : i < j =>
             /\ rs[j].parked # "live"
             /\ path[j].node.kind \in LoopKinds => rs[j].parked # "none"
    BY <1>4, <2>1 DEF Agree, Stopped
  <2>3. m \in 1 .. m /\ i < m
    BY <1>1
  <2>4. st2 # "live"
    BY <2>2, <2>3
  <2> QED BY <1>2, <1>4, <2>2, <2>4
<1>8. Stopped(gs, front, qs, st2)
  BY <1>2, <1>7 DEF Stopped
<1>9. ASSUME NEW i \in 1 .. m - 1, gs[i].ret
      PROVE  /\ front[i].node.kind = "if" /\ front[i].slot \in {"else", "done"}
                  => qs[i].parked # "live"
             /\ front[i].slot \in {"thenDone", "done"} => st2 # "live"
  <2>1. front[i].slot \in Waiting
    BY <1>1, <1>2, <1>4 DEF Walk
  <2>2. path[i].node.kind = "if" /\ path[i].slot \in {"else", "done"}
          => rs[i].parked # "live"
    BY <1>2, <1>4, <1>9 DEF Agree, Returned
  <2> QED BY <1>2, <2>1, <2>2 DEF Waiting
<1>10. Returned(gs, front, qs, st2)
  BY <1>2, <1>9 DEF Returned
<1> QED BY <1>3, <1>6, <1>8, <1>10 DEF Agree, gs, front, qs

\* A statement that returns on all paths leaves no run alive.
LEMMA ReturnsLeavesNone ==
  ASSUME NEW fs, NEW path, NEW rs, NEW st, Agree(fs, path, rs, st), fs # <<>>,
         NEW m, m = Len(fs), NEW st2,
         rs[m].parked # "none" => st2 = rs[m].parked,
         rs[m].parked = "none" /\ path[m].node.kind \notin LoopKinds => st2 = st,
         path[m].node.kind \in {"block", "if"}, path[m].slot # "thenDone",
         path[m].slot \in {"list", "thenDone", "done"}, fs[m].ret
  PROVE  st2 # "live"
<1>1. Walk(path) /\ m \in Nat \ {0} /\ Len(path) = m /\ m \in 1 .. m
  BY DEF Agree, Shape
<1>2. CASE path[m].node.kind = "block"
  <2>1. rs[m].parked = "none" /\ st # "live"
    BY <1>1, <1>2 DEF Agree, Static, Stopped, Dead
  <2> QED BY <1>2, <2>1 DEF LoopKinds
<1>3. CASE path[m].node.kind = "if"
  <2>1. path[m].slot # "list"
    BY <1>1, <1>3 DEF Walk
  <2>2. path[m].slot = "done"
    BY <2>1
  <2>3. rs[m].parked # "live" /\ st # "live"
    BY <1>1, <1>3, <2>2 DEF Agree, Returned
  <2> QED BY <1>3, <2>3 DEF LoopKinds
<1> QED BY <1>2, <1>3

\* The walk goes on to the else branch, and the run changes places with what
\* it was parked as.
LEMMA AgreeSwaps ==
  ASSUME NEW fs, NEW path, NEW rs, NEW st \in Run!Statuses, Agree(fs, path, rs, st),
         NEW m, m = Len(fs), fs # <<>>, path[m].slot = "thenDone",
         NEW gs, gs \in Seq(Frames), Len(gs) = m,
         \A i \in 1 .. m : gs[i].skip = fs[i].skip /\ gs[i].list = fs[i].list
                           /\ gs[i].ret = fs[i].ret,
         NEW path2, Walk(path2), SameNodes(path2, path), path2[m].slot = "else",
         NEW rs2, rs2 \in Seq(Run!Runs), Len(rs2) = m,
         \A i \in 1 .. m : i < m => rs2[i] = rs[i] /\ path2[i].slot = path[i].slot,
         NEW st2,
         rs[m].parked = "none" => st2 = "skipped" /\ rs2[m].parked = st,
         rs[m].parked # "none" => st2 = rs[m].parked /\ rs2[m].parked = "none"
  PROVE  Agree(gs, path2, rs2, st2)
<1>1. /\ Walk(path) /\ fs \in Seq(Frames) /\ rs \in Seq(Run!Runs) /\ path \in Seq(Entries)
      /\ Len(path) = m /\ Len(rs) = m /\ m \in Nat \ {0} /\ m \in 1 .. m /\ path # <<>>
      /\ \A i \in 1 .. m : i < m \/ i = m
      /\ Len(path2) = m /\ \A i \in 1 .. m : path2[i].node = path[i].node
  BY DEF Agree, Shape, Walk, SameNodes
<1>2. path[m].node.kind = "if"
  BY <1>1 DEF Walk
<1>3. Shape(gs, path2, rs2)
  BY <1>1 DEF Shape
<1>4. ASSUME NEW i \in 1 .. m
      PROVE  /\ gs[i].list # "open" => path2[i].node.kind = "block"
             /\ path2[i].node.kind = "block" => rs2[i].parked = "none"
             /\ gs[i].skip => \E k \in 1 .. m : k < i /\ gs[k].list # "open"
  <2>1. /\ fs[i].list # "open" => path[i].node.kind = "block"
        /\ path[i].node.kind = "block" => rs[i].parked = "none"
        /\ fs[i].skip => \E k \in 1 .. m : k < i /\ fs[k].list # "open"
    BY DEF Agree, Static
  <2> QED BY <1>1, <1>2, <2>1
<1>5. Static(gs, path2, rs2)
  BY <1>4 DEF Static
<1>6. ASSUME NEW i \in 1 .. m, Dead(gs, path2, i)
      PROVE  /\ st2 # "live"
             /\ \A j \in 1 .. m : i < j =>
                  /\ rs2[j].parked # "live"
                  /\ path2[j].node.kind \in LoopKinds => rs2[j].parked # "none"
  <2>1. Dead(fs, path, i) /\ i < m
    BY <1>1, <1>2, <1>6 DEF Dead
  <2>2. /\ st # "live"
        /\ \A j \in 1 .. m : i < j =>
             /\ rs[j].parked # "live"
             /\ path[j].node.kind \in LoopKinds => rs[j].parked # "none"
    BY <2>1 DEF Agree, Stopped
  <2>3. st2 # "live" /\ rs2[m].parked # "live"
    BY <1>1, <2>1, <2>2
  <2> QED BY <1>1, <1>2, <2>2, <2>3 DEF LoopKinds
<1>7. Stopped(gs, path2, rs2, st2)
  BY <1>6 DEF Stopped
<1>8. ASSUME NEW i \in 1 .. m, gs[i].ret
      PROVE  /\ path2[i].node.kind = "if" /\ path2[i].slot \in {"else", "done"}
                  => rs2[i].parked # "live"
             /\ path2[i].slot \in {"thenDone", "done"} => st2 # "live"
  <2>1. CASE i < m
    <3>1. path[i].slot \in Waiting
      BY <1>1, <2>1 DEF Walk
    <3>2. path[i].node.kind = "if" /\ path[i].slot \in {"else", "done"}
            => rs[i].parked # "live"
      BY <1>8 DEF Agree, Returned
    <3> QED BY <1>1, <2>1, <3>1, <3>2 DEF Waiting
  <2>2. CASE i = m
    <3>1. st # "live"
      BY <1>8, <2>2 DEF Agree, Returned
    <3> QED BY <2>2, <3>1
  <2> QED BY <1>1, <2>1, <2>2
<1>9. Returned(gs, path2, rs2, st2)
  BY <1>8 DEF Returned
<1> QED BY <1>3, <1>5, <1>7, <1>9 DEF Agree

\* Noting that a child is done, that the list has ended or that it is cut off
\* leaves the records below the last one.
LEMMA AboveTrans ==
  ASSUME NEW fs, NEW gs, NEW hs, Above(gs, fs), Above(hs, gs)
  PROVE  Above(hs, fs)
BY DEF Above

LEMMA AboveRefl ==
  ASSUME NEW fs \in Seq(Frames)
  PROVE  Above(fs, fs)
BY DEF Above

LEMMA ChildDoneAbove ==
  ASSUME NEW fs \in Seq(Frames), NEW path, NEW returns \in BOOLEAN, NEW m, m = Len(fs)
  PROVE  /\ Above(childDone(fs, path, returns), fs)
         /\ fs # <<>> => /\ childDone(fs, path, returns)[m].ret
                              = returnsWith(path[m], fs[m].ret, returns)
                         /\ childDone(fs, path, returns)[m].list = fs[m].list
<1>1. CASE fs = <<>>
  BY <1>1, AboveRefl DEF childDone
<1>2. CASE fs # <<>>
  <2> DEFINE ret == returnsWith(path[m], fs[m].ret, returns)
             r == [fs[m] EXCEPT !.ret = ret]
  <2>1. childDone(fs, path, returns) = [fs EXCEPT ![m] = r]
    BY <1>2 DEF childDone
  <2>2. fs[m] \in Frames
    BY <1>2
  <2>3. ret \in BOOLEAN
    BY <2>2 DEF returnsWith, Frames
  <2> HIDE DEF ret
  <2>4. r \in Frames /\ r.skip = fs[m].skip /\ r.list = fs[m].list /\ r.ret = ret
    BY <2>2, <2>3 DEF Frames
  <2> HIDE DEF r
  <2>5. Above([fs EXCEPT ![m] = r], fs) /\ [fs EXCEPT ![m] = r][m] = r
    BY <1>2, <2>4 DEF Above
  <2> QED BY <2>1, <2>4, <2>5 DEF ret
<1> QED BY <1>1, <1>2

LEMMA ListAbove ==
  ASSUME NEW fs \in Seq(Frames), fs # <<>>, NEW m, m = Len(fs), NEW l \in {"terminated", "cut"}
  PROVE  /\ Above([fs EXCEPT ![m].list = l], fs)
         /\ [fs EXCEPT ![m].list = l][m].ret = fs[m].ret
         /\ [fs EXCEPT ![m].list = l][m].list = l
<1> DEFINE r == [fs[m] EXCEPT !.list = l]
<1>1. [fs EXCEPT ![m].list = l] = [fs EXCEPT ![m] = r]
  OBVIOUS
<1>2. fs[m] \in Frames
  OBVIOUS
<1>3. r \in Frames /\ r.skip = fs[m].skip /\ r.list = l /\ r.ret = fs[m].ret
  BY <1>2 DEF Frames
<1> HIDE DEF r
<1>4. Above([fs EXCEPT ![m] = r], fs) /\ [fs EXCEPT ![m] = r][m] = r
  BY <1>3 DEF Above
<1> QED BY <1>1, <1>3, <1>4

--------------------------------------------------------------------------------
(***************************************************************************)
(* Every step keeps the agreement.                                         *)
(***************************************************************************)
\* No run executes what the analyzer cuts off.
LEMMA CutOffIsDead ==
  ASSUME IInv, FlowInv, CutOff
  PROVE  status # "live"
<1> DEFINE m == Len(frames)
<1>1. /\ frames # <<>> /\ Local = frames[m] /\ m \in 1 .. m
      /\ Local.skip \/ Local.list # "open"
  BY PathTyped DEF CutOff, Local, Last
<1>2. ASSUME NEW i \in 1 .. m, frames[i].list # "open" PROVE status # "live"
  <2>1. Dead(frames, cursor, i)
    BY <1>2 DEF FlowInv, Agree, Static, Dead
  <2> QED BY <2>1 DEF FlowInv, Agree, Stopped
<1>3. Local.skip => \E k \in 1 .. m : frames[k].list # "open"
  BY <1>1 DEF FlowInv, Agree, Static
<1> QED BY <1>1, <1>2, <1>3

LEMMA CutAbove ==
  ASSUME IInv, FlowInv, CutOff
  PROVE  /\ Above(cutFrames, frames) /\ frames # <<>> /\ cutFrames # <<>>
         /\ cutFrames[Len(frames)].ret = frames[Len(frames)].ret
         /\ cutFrames[Len(frames)].list = frames[Len(frames)].list
              \/ frames[Len(frames)].list # "open"
         /\ \E k \in 1 .. Len(frames) : cutFrames[k].list # "open"
<1> DEFINE m == Len(frames)
<1>1. /\ frames # <<>> /\ Local = frames[m] /\ m \in 1 .. m /\ frames \in Seq(Frames)
      /\ Local.skip \/ Local.list # "open"
  BY PathTyped DEF CutOff, Local, Last
<1>2. CASE Local.skip
  <2>1. cutFrames = frames
    BY <1>2 DEF cutFrames
  <2>2. \E k \in 1 .. m : frames[k].list # "open"
    BY <1>1, <1>2 DEF FlowInv, Agree, Static
  <2> QED BY <1>1, <2>1, <2>2, AboveRefl
<1>3. CASE ~Local.skip
  <2> DEFINE gs == [frames EXCEPT ![m].list = "cut"]
  <2>1. cutFrames = gs /\ frames[m].list # "open"
    BY <1>1, <1>3 DEF cutFrames
  <2>2. "cut" \in {"terminated", "cut"}
    OBVIOUS
  <2>3. Above(gs, frames) /\ gs[m].ret = frames[m].ret /\ gs[m].list = "cut"
    BY <1>1, <2>2, ListAbove
  <2> HIDE DEF gs
  <2>4. gs # <<>>
    BY <1>1, <2>3 DEF Above
  <2> QED BY <1>1, <2>1, <2>3, <2>4
<1> QED BY <1>2, <1>3

\* What a leaf does to the status of the run.
LEMMA LeafStatus ==
  ASSUME RunInv, NEW n, FlowLeaf(n)
  PROVE  /\ runs' = runs
         /\ status # "live" \/ n.kind \in JumpKinds => status' # "live"
<1>1. CASE n.kind \in JumpKinds
  <2>1. Run!RunJump(n)
    BY <1>1 DEF FlowLeaf, JumpKinds, Run!RunSimple, Run!SimpleKinds, Run!RunNull
  <2>2. /\ n.kind \in {"ret", "break", "continue"} /\ runs' = runs
        /\ status' = IF status = "live" THEN Run!JumpStatus[n.kind] ELSE status
    BY <2>1 DEF Run!RunJump, Run!JumpKinds
  <2> QED BY <2>2 DEF Run!JumpStatus
<1>2. CASE n.kind \notin JumpKinds
  <2>1. Run!RunSimple(n) \/ Run!RunNull(n)
    BY <1>2 DEF FlowLeaf, JumpKinds, Run!RunJump, Run!JumpKinds
  <2> QED BY <1>2, <2>1 DEF Run!RunSimple, Run!RunNull
<1> QED BY <1>1, <1>2

LEMMA AgreeLeaf ==
  ASSUME IInv, RunInv, FlowInv, NEW n \in Statements, FlowLeaf(n)
  PROVE  FlowInv'
<1> DEFINE m == Len(frames)
           returns == n.kind = "ret"
<1>1. /\ frames \in Seq(Frames) /\ cursor \in Seq(Entries) /\ Len(frames) = Len(cursor)
      /\ returns \in BOOLEAN
  BY PathTyped
<1>2. VisitLeaf(n) /\ Leaf(n)
  BY LeafVisits DEF FlowLeaf
<1>3. Advanced(cursor', cursor)
  BY <1>1, <1>2, AdvanceAdvances DEF VisitLeaf
<1>4. frames # <<>> => cursor[m].slot \in Waiting /\ cursor # <<>>
  BY <1>1, <1>2, RoomWaits DEF VisitLeaf
<1>5. runs' = runs /\ (status # "live" \/ n.kind \in JumpKinds => status' # "live")
  BY LeafStatus
<1>6. returns => n.kind \in JumpKinds
  BY DEF JumpKinds
<1>7. ASSUME NEW gs, Above(gs, frames), frames' = gs,
             frames # <<>> =>
               /\ gs[m].ret = returnsWith(cursor[m], frames[m].ret, returns)
               /\ gs[m].list # "open" => /\ cursor[m].node.kind = "block"
                                         /\ status' # "live"
      PROVE  FlowInv'
  <2>1. Agree(frames, cursor, runs, status)
    BY DEF FlowInv
  <2> HIDE DEF returns
  <2>2. frames # <<>> =>
          /\ cursor[Len(frames)].slot \in Waiting
          /\ status # "live" \/ returns => status' # "live"
          /\ gs[Len(frames)].ret = returnsWith(cursor[Len(frames)], frames[Len(frames)].ret, returns)
          /\ gs[Len(frames)].list # "open"
               => cursor[Len(frames)].node.kind = "block" /\ status' # "live"
    BY <1>4, <1>5, <1>6, <1>7
  <2>3. Agree(gs, cursor', runs, status')
    BY <1>1, <1>3, <1>7, <2>1, <2>2, AgreeStays
  <2> QED BY <1>5, <1>7, <2>3 DEF FlowInv
<1>8. CASE SkipLeaf(n)
  <2> DEFINE gs == childDone(cutFrames, cursor, returns)
  <2>1. CutOff /\ frames' = gs
    BY <1>8 DEF SkipLeaf
  <2>2. status' # "live"
    BY <1>5, <2>1, CutOffIsDead
  <2>3. /\ Above(cutFrames, frames) /\ frames # <<>> /\ cutFrames # <<>>
        /\ cutFrames[m].ret = frames[m].ret
        /\ cutFrames[m].list = frames[m].list \/ frames[m].list # "open"
    BY <2>1, CutAbove
  <2>4. Len(cutFrames) = m /\ cutFrames \in Seq(Frames)
    BY <2>3 DEF Above
  <2> HIDE DEF returns
  <2>5. /\ Above(gs, cutFrames)
        /\ gs[Len(cutFrames)].ret
             = returnsWith(cursor[Len(cutFrames)], cutFrames[Len(cutFrames)].ret, returns)
        /\ gs[Len(cutFrames)].list = cutFrames[Len(cutFrames)].list
    BY <1>1, <2>3, <2>4, ChildDoneAbove
  <2> HIDE DEF gs
  <2>6. Above(gs, frames)
    BY <2>3, <2>5, AboveTrans
  <2>7. frames[m].list # "open" => cursor[m].node.kind = "block"
    <3>1. m \in 1 .. m
      BY <1>1, <2>3
    <3> QED BY <3>1 DEF FlowInv, Agree, Static
  <2> QED BY <1>7, <2>1, <2>2, <2>3, <2>4, <2>5, <2>6, <2>7
<1>9. CASE \E a : AnalyzeLeaf(n, a)
  <2> DEFINE fs == childDone(frames, cursor, returns)
             gs == terminated(fs, n)
  <2>1. Analyzing /\ frames' = gs
    BY <1>9 DEF AnalyzeLeaf
  <2> HIDE DEF returns
  <2>2. /\ Above(fs, frames)
        /\ frames # <<>> => /\ fs[Len(frames)].ret
                                 = returnsWith(cursor[Len(frames)], frames[Len(frames)].ret, returns)
                            /\ fs[Len(frames)].list = frames[Len(frames)].list
    BY <1>1, ChildDoneAbove
  <2> HIDE DEF fs
  <2>3. fs \in Seq(Frames) /\ Len(fs) = m /\ (frames # <<>> <=> fs # <<>>)
    BY <1>1, <2>2 DEF Above
  <2>4. frames # <<>> => frames[m].list = "open"
    BY <2>1 DEF Analyzing, CutOff, Local, Last
  <2>5. CASE gs = fs
    BY <1>7, <2>1, <2>2, <2>4, <2>5
  <2>6. CASE gs # fs
    <3>1. /\ fs # <<>> /\ Parent.node.kind = "block" /\ n.kind \in JumpKinds
          /\ gs = [fs EXCEPT ![Len(fs)].list = "terminated"]
      BY <2>6 DEF terminated
    <3>2. "terminated" \in {"terminated", "cut"}
      OBVIOUS
    <3> DEFINE hs == [fs EXCEPT ![Len(fs)].list = "terminated"]
    <3>3. Above(hs, fs) /\ hs[Len(fs)].ret = fs[Len(fs)].ret
      BY <2>3, <3>1, <3>2, ListAbove
    <3> HIDE DEF hs, gs
    <3>4. Above(gs, frames) /\ gs[m].ret = fs[m].ret
      BY <2>2, <2>3, <3>1, <3>3, AboveTrans DEF hs
    <3>5. cursor[m].node.kind = "block"
      BY <1>1, <3>1 DEF Parent, Last
    <3> QED BY <1>5, <1>7, <2>1, <2>2, <2>3, <3>1, <3>4, <3>5
  <2> QED BY <2>5, <2>6
<1> QED BY <1>2, <1>8, <1>9 DEF Leaf, AnalyzeSimple, AnalyzeReturn, AnalyzeJump, AnalyzeNull

\* Going into statement n: its entry, and where the run resumes after it.
LEMMA OpenedEntry ==
  ASSUME IInv, Walk(cursor), NEW n \in Statements, Open(n)
  PROVE  \E e \in Entries : /\ e.node = n /\ cursor' = Append(cursor, e)
                            /\ Walk(Append(cursor, e))
<1> DEFINE e == [node |-> n, slot |-> FirstSlot(n)]
<1>1. /\ e \in Entries /\ e.node = n /\ cursor' = Append(cursor, e)
      /\ (n.kind = "if" => e.slot # "body")
      /\ (e.slot \in {"then", "thenDone"} => n.kind = "if")
      /\ (e.slot = "list" => n.kind = "block")
  BY DEF Entries, FirstSlot, Slots, Open
<1>2. cursor # <<>> => cursor[Len(cursor)].slot \in Waiting /\ n.kind # "func"
  BY RoomWaits DEF Open
<1> HIDE DEF e
<1>3. Walk(Append(cursor, e))
  BY <1>1, <1>2, WalkAppend
<1> QED BY <1>1, <1>3

LEMMA DownStatus ==
  ASSUME RunInv, NEW n, FlowDown(n)
  PROVE  \E q \in Run!Runs :
           /\ runs' = Append(runs, q)
           /\ n.kind = "block" => q.parked = "none"
           /\ status # "live" => /\ status' # "live" /\ q.parked # "live"
                                 /\ n.kind \in LoopKinds => q.parked # "none"
<1>0. status \in Run!Statuses
  BY DEF RunInv
<1>1. CASE Run!RunBlock(n)
  <2> DEFINE q == [parked |-> "none", globals |-> {}]
  <2>1. n.kind = "block" /\ runs' = Append(runs, q) /\ status' = status
    BY <1>1 DEF Run!RunBlock
  <2>2. q \in Run!Runs /\ q.parked = "none"
    BY DEF Run!Runs
  <2> HIDE DEF q
  <2> QED BY <2>1, <2>2 DEF LoopKinds
<1>2. CASE Run!RunCondition(n) \/ Run!RunFor(n)
  <2>1. n.kind # "block" /\ \E m : Run!Branch(n, m)
    BY <1>2 DEF Run!RunCondition, Run!RunFor
  <2>2. PICK taken \in {b \in BOOLEAN : b => status = "live"} :
          /\ status' = IF taken THEN "live" ELSE "skipped"
          /\ runs' = Append(runs, [parked |-> IF taken THEN "none" ELSE status,
                                   globals |-> {}])
    BY <2>1 DEF Run!Branch
  <2> DEFINE q == [parked |-> IF taken THEN "none" ELSE status, globals |-> {}]
  <2>3. q \in Run!Runs /\ q.parked = IF taken THEN "none" ELSE status
    BY <1>0 DEF Run!Runs
  <2>4. runs' = Append(runs, q)
    BY <2>2
  <2> HIDE DEF q
  <2>5. status # "live" => ~taken /\ status # "none"
    BY <1>0, <2>2 DEF Run!Statuses
  <2> QED BY <2>1, <2>2, <2>3, <2>4, <2>5
<1> QED BY <1>1, <1>2 DEF FlowDown

LEMMA AgreeDown ==
  ASSUME IInv, RunInv, FlowInv, NEW n \in Statements, FlowDown(n)
  PROVE  FlowInv'
<1> DEFINE m == Len(frames)
<1>1. Open(n) /\ Down(n)
  BY DownOpens DEF FlowDown
<1>2. Agree(frames, cursor, runs, status) /\ Walk(cursor) /\ frames \in Seq(Frames)
  BY DEF FlowInv, Agree, Shape
<1>3. PICK e \in Entries : /\ e.node = n /\ cursor' = Append(cursor, e)
                           /\ Walk(Append(cursor, e))
  BY <1>1, <1>2, OpenedEntry
<1>4. PICK q \in Run!Runs :
        /\ runs' = Append(runs, q)
        /\ n.kind = "block" => q.parked = "none"
        /\ status # "live" => /\ status' # "live" /\ q.parked # "live"
                              /\ n.kind \in LoopKinds => q.parked # "none"
  BY DownStatus
<1>5. ASSUME NEW gs, Above(gs, frames), NEW r \in Frames, frames' = Append(gs, r),
             frames # <<>> => /\ gs[m].ret = frames[m].ret
                              /\ gs[m].list = frames[m].list \/ frames[m].list # "open",
             r.list = "open", r.ret = FALSE,
             r.skip => \E k \in 1 .. m : gs[k].list # "open"
      PROVE  FlowInv'
  <2>1. frames # <<>> =>
          gs[Len(frames)].ret = frames[Len(frames)].ret
            /\ (gs[Len(frames)].list = frames[Len(frames)].list
                 \/ frames[Len(frames)].list # "open")
    BY <1>5
  <2>2. frames # <<>> /\ status # "live"
          => /\ status' # "live" /\ q.parked # "live"
             /\ e.node.kind \in LoopKinds => q.parked # "none"
    BY <1>3, <1>4
  <2>3. e.node.kind = "block" => q.parked = "none"
    BY <1>3, <1>4
  <2>4. r.skip => \E k \in 1 .. Len(frames) : gs[k].list # "open"
    BY <1>5
  <2>5. Agree(Append(gs, r), Append(cursor, e), Append(runs, q), status')
    BY <1>2, <1>3, <1>5, <2>1, <2>2, <2>3, <2>4, AgreePushes
  <2> QED BY <1>3, <1>4, <1>5, <2>5 DEF FlowInv
<1>6. CASE SkipEnter(n)
  <2> DEFINE r == frame(TRUE, {})
  <2>1. CutOff /\ frames' = Append(cutFrames, r)
    BY <1>6 DEF SkipEnter
  <2>2. r \in Frames /\ r.list = "open" /\ r.ret = FALSE
    BY DEF frame, Frames
  <2> HIDE DEF r
  <2> QED BY <1>5, <2>1, <2>2, CutAbove
<1>7. CASE \E a, before : before \in SUBSET Name /\ Enter(n, a, before)
  <2>1. PICK a, before : before \in SUBSET Name /\ Enter(n, a, before)
    BY <1>7
  <2> DEFINE r == frame(FALSE, before)
  <2>2. frames' = Append(frames, r)
    BY <2>1 DEF Enter
  <2>3. r \in Frames /\ r.list = "open" /\ r.ret = FALSE /\ ~r.skip
    BY <2>1 DEF frame, Frames
  <2> HIDE DEF r
  <2> QED BY <1>2, <1>5, <2>2, <2>3, AboveRefl
<1>8. CASE EnterBlock(n)
  <2>1. {} \in SUBSET Name
    OBVIOUS
  <2> QED BY <1>7, <1>8, <2>1 DEF EnterBlock
<1>9. CASE EnterIf(n) \/ EnterWhile(n)
  <2>1. assigned \in SUBSET Name
    BY EnvHere
  <2> QED BY <1>7, <1>9, <2>1 DEF EnterIf, EnterWhile
<1>10. CASE EnterFor(n)
  <2> DEFINE a == analyzeForHeader(Env, n)
  <2>1. Enter(n, a, a.assigned) /\ n.kind = "for" /\ IsStatement(n)
    BY <1>10, AstAssumption DEF EnterFor
  <2>2. a \in Envs
    BY <2>1, EnvHere, HeaderType
  <2> HIDE DEF a
  <2>3. a.assigned \in SUBSET Name
    BY <2>2 DEF Envs
  <2> QED BY <1>7, <2>1, <2>3
<1> QED BY <1>1, <1>6, <1>8, <1>9, <1>10 DEF Down

\* Where the run is after the statement the walk leaves.
LEMMA UpStatus ==
  ASSUME IInv, RunInv, FlowUp
  PROVE  /\ cursor # <<>> /\ runs' = Front(runs)
         /\ runs[Len(runs)].parked # "none" => status' = runs[Len(runs)].parked
         /\ runs[Len(runs)].parked = "none" /\ cursor[Len(cursor)].node.kind \notin LoopKinds
              => status' = status
         /\ cursor[Len(cursor)].node.kind \in CompoundKinds
         /\ cursor[Len(cursor)].slot \in {"list", "thenDone", "done"}
         /\ cursor' = Advance(Front(cursor))
         /\ frames' = childDone(Front(frames), cursor, Returns)
<1>1. PICK kind \in CompoundKinds : Close(kind)
  BY UpCloses DEF FlowUp
<1>2. /\ cursor # <<>> /\ Parent = cursor[Len(cursor)] /\ Parent.node.kind = kind
      /\ Parent.slot \in {"list", "thenDone", "done"} /\ cursor' = Advance(Front(cursor))
  BY <1>1, PathEnd DEF Close, Parent
<1>3. frames' = childDone(Front(frames), cursor, Returns)
  BY DEF FlowUp, Up, LeaveBlock, LeaveIf, LeaveWhile, LeaveFor, Leave, SkipLeave
<1>4. Run!Parked = runs[Len(runs)].parked
  BY <1>2, ParkedType
<1>5. ASSUME NEW k2, NEW after, Run!Resume(k2, after)
      PROVE  /\ k2 = kind /\ runs' = Front(runs)
             /\ status' = IF runs[Len(runs)].parked # "none" THEN runs[Len(runs)].parked
                          ELSE after
  <2>1. k2 = kind
    BY <1>2, <1>5, ClosedKind DEF Run!Resume
  <2> QED BY <1>4, <1>5, <2>1 DEF Run!Resume, Run!Front, Front
<1>6. CASE Run!RunEndBlock
  <2>1. Run!Resume("block", status)
    BY <1>6 DEF Run!RunEndBlock
  <2> QED BY <1>2, <1>3, <1>5, <2>1
<1>7. CASE Run!RunEndIf
  <2>1. Run!Resume("if", status)
    BY <1>7 DEF Run!RunEndIf
  <2> QED BY <1>2, <1>3, <1>5, <2>1
<1>8. CASE Run!RunEndWhile \/ Run!RunEndFor
  <2>1. \E k2 \in LoopKinds : Run!Resume(k2, Run!AfterLoop)
    BY <1>8 DEF Run!RunEndWhile, Run!RunEndFor, LoopKinds
  <2>2. kind \in LoopKinds /\ Run!Resume(kind, Run!AfterLoop)
    BY <1>5, <2>1
  <2> QED BY <1>2, <1>3, <1>5, <2>2
<1> QED BY <1>6, <1>7, <1>8 DEF FlowUp

LEMMA AgreeUp ==
  ASSUME IInv, RunInv, FlowInv, FlowUp
  PROVE  FlowInv'
<1> DEFINE m == Len(frames)
           fs == Front(frames)
           path == Front(cursor)
           rs == Front(runs)
           gs == childDone(fs, cursor, Returns)
<1>1. Agree(frames, cursor, runs, status)
  BY DEF FlowInv
<1>2. /\ frames \in Seq(Frames) /\ cursor \in Seq(Entries) /\ Walk(cursor)
      /\ Len(cursor) = m /\ Len(runs) = m
  BY <1>1 DEF Agree, Shape, Walk
<1>3. /\ cursor # <<>> /\ runs' = rs
      /\ runs[m].parked # "none" => status' = runs[m].parked
      /\ runs[m].parked = "none" /\ cursor[m].node.kind \notin LoopKinds => status' = status
      /\ cursor[m].node.kind \in CompoundKinds
      /\ cursor[m].slot \in {"list", "thenDone", "done"}
      /\ cursor' = Advance(path) /\ frames' = gs
  BY <1>2, UpStatus
<1>4. frames # <<>>
  BY <1>2, <1>3
<1>5. /\ fs \in Seq(Frames) /\ path \in Seq(Entries) /\ Len(fs) = m - 1 /\ Len(path) = m - 1
      /\ \A i \in 1 .. m - 1 : path[i] = cursor[i]
      /\ Local = frames[m] /\ Parent = cursor[m]
  BY <1>2, <1>3, <1>4, FrontShape DEF Local, Parent
<1>6. Walk(path) /\ (path # <<>> => path[Len(path)].slot \in Waiting)
  BY <1>2, <1>3, <1>5, WalkFront
<1>7. Returns \in BOOLEAN /\ (Returns => status' # "live")
  <2>1. Returns => /\ cursor[m].node.kind \in {"block", "if"}
                   /\ cursor[m].slot # "thenDone" /\ frames[m].ret
    BY <1>3, <1>5 DEF Returns, CompoundKinds, LoopKinds
  <2>2. Returns \in BOOLEAN
    BY <1>3, ReturnsType
  <2>3. ASSUME Returns PROVE status' # "live"
    BY <1>1, <1>3, <1>4, <2>1, <2>3, ReturnsLeavesNone
  <2> QED BY <2>2, <2>3
<1>8. Agree(fs, path, rs, status')
  BY <1>1, <1>3, <1>4, AgreePops
<1> HIDE DEF fs, path, rs
<1>9. Advanced(cursor', path)
  BY <1>3, <1>5, AdvanceAdvances
<1>10. /\ Above(gs, fs)
       /\ fs # <<>> => /\ gs[Len(fs)].ret
                            = returnsWith(cursor[Len(fs)], fs[Len(fs)].ret, Returns)
                       /\ gs[Len(fs)].list = fs[Len(fs)].list
  BY <1>5, <1>7, ChildDoneAbove
<1> HIDE DEF gs
<1>11. ASSUME fs # <<>>
       PROVE  /\ path[Len(fs)].slot \in Waiting
              /\ status' # "live" \/ Returns => status' # "live"
              /\ gs[Len(fs)].ret = returnsWith(path[Len(fs)], fs[Len(fs)].ret, Returns)
              /\ gs[Len(fs)].list # "open" => /\ path[Len(fs)].node.kind = "block"
                                              /\ status' # "live"
  <2>1. Len(fs) \in 1 .. m - 1 /\ Len(fs) = Len(path) /\ Len(fs) \in 1 .. Len(fs) /\ path # <<>>
    BY <1>5, <1>11
  <2>2. path[Len(fs)] = cursor[Len(fs)]
    BY <1>5, <2>1
  <2>3. fs[Len(fs)].list # "open" => /\ path[Len(fs)].node.kind = "block"
                                     /\ status' # "live"
    <3>1. fs[Len(fs)].list # "open" => path[Len(fs)].node.kind = "block"
      BY <1>8, <2>1 DEF Agree, Static
    <3>2. fs[Len(fs)].list # "open" => Dead(fs, path, Len(fs))
      BY <3>1 DEF Dead
    <3> QED BY <1>8, <2>1, <3>1, <3>2 DEF Agree, Stopped
  <2> QED BY <1>6, <1>7, <1>10, <1>11, <2>1, <2>2, <2>3
<1>12. Agree(gs, cursor', rs, status')
  BY <1>7, <1>8, <1>9, <1>10, <1>11, AgreeStays
<1> QED BY <1>3, <1>12 DEF FlowInv

\* Between the statements of the program no record is left to disagree.
LEMMA AgreeEmpty ==
  ASSUME NEW path, Walk(path), Len(path) = 0, NEW fs \in Seq(Frames), Len(fs) = 0,
         NEW rs \in Seq(Run!Runs), Len(rs) = 0, NEW st
  PROVE  Agree(fs, path, rs, st)
<1>1. 1 .. Len(fs) = {}
  OBVIOUS
<1> QED BY <1>1 DEF Agree, Shape, Static, Returned, Stopped

LEMMA AgreeFunction ==
  ASSUME IInv, RunInv, RunInv', FlowInv, pending # <<>>, FlowFunction(Head(pending))
  PROVE  FlowInv'
<1> DEFINE f == Head(pending)
           r == frame(FALSE, assigned)
<1>1. EnterFunction(f)
  BY DEF FlowFunction
<1>2. cursor = <<>> /\ f.kind = "func"
  BY <1>1, FunctionAtTop
<1>3. PICK e \in Entries : e.node = f /\ e.slot = "body" /\ cursor' = Append(cursor, e)
  BY <1>1, FunctionAtTop
<1>4. frames' = Append(frames, r)
  BY <1>1 DEF EnterFunction
<1>5. r \in Frames /\ r.list = "open" /\ r.ret = FALSE /\ r.skip = FALSE
  <2>1. assigned \in SUBSET Name
    BY EnvHere
  <2> QED BY <2>1 DEF frame, Frames
<1>6. PICK q : runs' = Append(runs, q)
  BY DEF FlowFunction, Run!RunFunction
<1>7. Agree(frames, cursor, runs, status)
  BY DEF FlowInv
<1>8. /\ frames \in Seq(Frames) /\ runs \in Seq(Run!Runs) /\ Len(runs) = 0 /\ Len(frames) = 0
      /\ Walk(cursor)
  BY <1>2, <1>7 DEF Agree, Shape
<1>9. q \in Run!Runs
  <2>1. runs' \in Seq(Run!Runs)
    BY DEF RunInv
  <2>2. Len(runs') = 1 /\ runs'[1] = q
    BY <1>6, <1>8
  <2>3. \A i \in 1 .. Len(runs') : runs'[i] \in Run!Runs
    BY <2>1
  <2>4. 1 \in 1 .. Len(runs')
    BY <2>2
  <2> QED BY <2>2, <2>3, <2>4
<1>10. Walk(Append(cursor, e))
  BY <1>2, <1>3, <1>8, WalkAppend
<1>11. frames = <<>>
  BY <1>8
<1> HIDE DEF r, f
<1>12. /\ Above(frames, frames) /\ (r.skip => \E k \in 1 .. Len(frames) : frames[k].list # "open")
       /\ (e.node.kind = "block" => q.parked = "none")
  BY <1>2, <1>3, <1>5, <1>8, AboveRefl
<1>13. Agree(Append(frames, r), Append(cursor, e), Append(runs, q), status')
  BY <1>5, <1>7, <1>9, <1>10, <1>11, <1>12, AgreePushes
<1> QED BY <1>3, <1>4, <1>6, <1>13 DEF FlowInv

LEMMA AgreeEndFunction ==
  ASSUME IInv, RunInv, IInv', RunInv', FlowInv, FlowEndFunction
  PROVE  FlowInv'
<1>1. Walk(cursor)
  BY DEF FlowInv, Agree, Shape
<1>2. Close("func")
  BY DEF FlowEndFunction, LeaveFunction, Leave
<1>3. Len(cursor) = 1 /\ SameNodes(cursor', Front(cursor))
  BY <1>1, <1>2, FunctionScope, CloseShape
<1>4. Len(cursor') = 0
  <2>1. cursor \in Seq(Entries) /\ cursor # <<>>
    BY <1>3, PathTyped
  <2>2. Len(Front(cursor)) = 0
    BY <1>3, <2>1, FrontShape
  <2> QED BY <1>3, <2>2 DEF SameNodes
<1>5. /\ cursor' \in Seq(Entries) /\ frames' \in Seq(Frames) /\ Len(frames') = Len(cursor')
  <2>1. (/\ cursor \in Seq(Entries) /\ frames \in Seq(Frames)
         /\ Len(frames) = Len(cursor) /\ Len(cursor) \in Nat)'
    BY PathTyped, PTL
  <2> QED BY <2>1
<1>6. runs' \in Seq(Run!Runs) /\ Len(runs') = 0
  BY <1>4 DEF RunInv
<1>7. 1 .. Len(cursor') = {}
  BY <1>4
<1>8. Walk(cursor')
  BY <1>5, <1>7 DEF Walk
<1> QED BY <1>4, <1>5, <1>6, <1>8, AgreeEmpty DEF FlowInv

LEMMA AgreeOther ==
  ASSUME IInv, RunInv, RunInv', FlowInv, (ElseBranch \/ SkipElse) /\ Run!RunElse
  PROVE  FlowInv'
<1> DEFINE m == Len(frames)
           e == [cursor[m] EXCEPT !.slot = "else"]
<1>1. OpenElse
  BY DEF ElseBranch, SkipElse
<1>2. /\ Agree(frames, cursor, runs, status) /\ Walk(cursor) /\ status \in Run!Statuses
      /\ frames \in Seq(Frames) /\ cursor \in Seq(Entries) /\ runs \in Seq(Run!Runs)
      /\ Len(cursor) = m /\ Len(runs) = m /\ m \in Nat
  BY DEF FlowInv, Agree, Shape, Walk, RunInv
<1>3. /\ cursor # <<>> /\ cursor[m].slot = "thenDone"
      /\ cursor' = [cursor EXCEPT ![m] = e]
  BY <1>1, <1>2 DEF OpenElse, Last
<1>4. m \in 1 .. m /\ frames # <<>> /\ cursor[m] \in Entries
  BY <1>2, <1>3
<1>5. e \in Entries /\ e.node = cursor[m].node /\ e.slot = "else"
  BY <1>4 DEF Entries, Slots
<1> HIDE DEF e
<1>6. /\ cursor' \in Seq(Entries) /\ Len(cursor') = m
      /\ \A i \in 1 .. m : cursor'[i].node = cursor[i].node
      /\ \A i \in 1 .. m : i # m => cursor'[i] = cursor[i]
      /\ cursor'[m] = e
  BY <1>2, <1>3, <1>4, <1>5
<1>7. Walk(cursor')
  <2>1. \A i \in 1 .. m : i < m => cursor'[i].slot = cursor[i].slot
    BY <1>6
  <2>2. \A i \in 1 .. m : cursor[i].slot # "body" => cursor'[i].slot # "body"
    BY <1>5, <1>6
  <2>3. \A i \in 1 .. m : cursor'[i].slot \in {"then", "thenDone"}
                             => cursor[i].slot \in {"then", "thenDone"}
    BY <1>5, <1>6
  <2>4. \A i \in 1 .. m : cursor'[i].slot = "list" => cursor[i].slot = "list"
    BY <1>5, <1>6
  <2> QED BY <1>2, <1>6, <2>1, <2>2, <2>3, <2>4 DEF Walk
<1>8. /\ frames' \in Seq(Frames) /\ Len(frames') = m
      /\ \A i \in 1 .. m : /\ frames'[i].skip = frames[i].skip
                           /\ frames'[i].list = frames[i].list
                           /\ frames'[i].ret = frames[i].ret
  <2>1. CASE SkipElse
    BY <1>2, <2>1 DEF SkipElse
  <2>2. CASE ElseBranch
    <3> DEFINE r == [frames[m] EXCEPT !.afterThen = assigned]
    <3>1. frames' = [frames EXCEPT ![m] = r]
      BY <2>2 DEF ElseBranch
    <3>2. frames[m] \in Frames /\ assigned \in SUBSET Name
      BY <1>2, <1>4, EnvHere
    <3>3. r \in Frames /\ r.skip = frames[m].skip /\ r.list = frames[m].list
          /\ r.ret = frames[m].ret
      BY <3>2 DEF Frames
    <3> HIDE DEF r
    <3> QED BY <1>2, <1>4, <3>1, <3>3
  <2> QED BY <2>1, <2>2
<1> DEFINE p == IF runs[m].parked = "none" THEN status ELSE "none"
           q == [runs[m] EXCEPT !.parked = p]
<1>9. /\ status' = IF runs[m].parked = "none" THEN "skipped" ELSE runs[m].parked
      /\ runs' = [runs EXCEPT ![m] = q]
  <2>1. Run!Parked = runs[m].parked
    BY <1>2, <1>3, ParkedType
  <2> QED BY <1>2, <2>1 DEF Run!RunElse
<1>10. runs[m] \in Run!Runs /\ p \in Run!Statuses \cup {"none"}
  BY <1>2, <1>4
<1>11. q \in Run!Runs /\ q.parked = p
  BY <1>10 DEF Run!Runs
<1> HIDE DEF q
<1>12. /\ runs' \in Seq(Run!Runs) /\ Len(runs') = m /\ runs'[m].parked = p
       /\ \A i \in 1 .. m : i < m => runs'[i] = runs[i]
  BY <1>2, <1>4, <1>9, <1>11
<1>13. /\ SameNodes(cursor', cursor) /\ cursor'[m].slot = "else"
       /\ \A i \in 1 .. m : i < m => runs'[i] = runs[i] /\ cursor'[i].slot = cursor[i].slot
  BY <1>2, <1>5, <1>6, <1>12 DEF SameNodes
<1>14. Agree(frames', cursor', runs', status')
  <2>1. Agree(frames, cursor, runs, status) /\ status \in Run!Statuses
    BY <1>2
  <2>2. m = Len(frames) /\ frames # <<>> /\ cursor[m].slot = "thenDone"
    BY <1>3, <1>4
  <2>3. /\ frames' \in Seq(Frames) /\ Len(frames') = m
        /\ \A i \in 1 .. m : /\ frames'[i].skip = frames[i].skip
                             /\ frames'[i].list = frames[i].list
                             /\ frames'[i].ret = frames[i].ret
    BY <1>8
  <2>4. runs' \in Seq(Run!Runs) /\ Len(runs') = m
    BY <1>12
  <2>5. runs[m].parked = "none" => status' = "skipped" /\ runs'[m].parked = status
    BY <1>9, <1>12
  <2>6. runs[m].parked # "none" => status' = runs[m].parked /\ runs'[m].parked = "none"
    BY <1>9, <1>12
  <2>7. Walk(cursor') /\ SameNodes(cursor', cursor) /\ cursor'[m].slot = "else"
    BY <1>7, <1>13
  <2>8. \A i \in 1 .. m : i < m => runs'[i] = runs[i] /\ cursor'[i].slot = cursor[i].slot
    BY <1>13
  <2> HIDE DEF m, p
  <2> QED BY <2>1, <2>2, <2>3, <2>4, <2>5, <2>6, <2>7, <2>8, AgreeSwaps
<1> QED BY <1>14 DEF FlowInv

LEMMA AgreeStill ==
  ASSUME FlowInv, cursor' = cursor, frames' = frames, runs' = runs, status' = status
  PROVE  FlowInv'
BY DEF FlowInv, Agree, Shape, Static, Returned, Stopped, Dead

LEMMA AgreeStarts ==
  ASSUME FlowInit
  PROVE  FlowInv
<1>1. cursor = <<>> /\ frames = <<>> /\ runs = <<>>
  BY DEF FlowInit, Init, TreeInit, SemInit, Run!RunInit
<1>2. /\ cursor \in Seq(Entries) /\ Len(cursor) = 0 /\ frames \in Seq(Frames) /\ Len(frames) = 0
      /\ runs \in Seq(Run!Runs) /\ Len(runs) = 0 /\ 1 .. Len(cursor) = {}
  BY <1>1
<1>3. Walk(cursor)
  BY <1>2 DEF Walk
<1> QED BY <1>2, <1>3, AgreeEmpty DEF FlowInv

LEMMA AgreeNext ==
  ASSUME IInv, IInv', RunInv, RunInv', FlowInv, [FlowNext]_flowVars
  PROVE  FlowInv'
<1>1. CASE UNCHANGED flowVars
  BY <1>1, AgreeStill DEF flowVars, vars, treeVars, semVars
<1>2. CASE GatherSignatures /\ UNCHANGED <<status, runs, store, obs, class, seen>>
  BY <1>2, AgreeStill DEF GatherSignatures, treeVars
<1>3. CASE Finish /\ Run!RunEndProgram
  BY <1>3, AgreeStill DEF Finish, Run!RunEndProgram, treeVars
<1> QED BY <1>1, <1>2, <1>3, AgreeLeaf, AgreeDown, AgreeUp, AgreeFunction, AgreeEndFunction,
           AgreeOther
        DEF FlowNext, FlowWalk

\* The analyzer's records and the run agree at every step of every analysis.
THEOREM FlowAgreement == FlowSpec => []FlowInv
<1>1. FlowInit => FlowInv
  BY AgreeStarts
<1>2. IInv /\ IInv' /\ RunInv /\ RunInv' /\ FlowInv /\ [FlowNext]_flowVars => FlowInv'
  BY AgreeNext
<1> QED BY <1>1, <1>2, FlowIsAnalysis, Balance, RunBalance, PTL DEF FlowSpec

--------------------------------------------------------------------------------
(***************************************************************************)
(* What it shows.                                                          *)
(***************************************************************************)
\* A statement analyzeBlock warns of as unreachable, or does not analyse since
\* it is behind one, is executed by no run.
THEOREM UnreachableIsDead == FlowSpec => []UnreachableIsNotRun
<1>1. IInv /\ FlowInv => UnreachableIsNotRun
  BY CutOffIsDead DEF UnreachableIsNotRun
<1> QED BY <1>1, FlowIsAnalysis, Balance, FlowAgreement, PTL

\* A diagnostic of an error makes the analysis fail.
LEMMA ReportFails ==
  ASSUME NEW kind \in ErrorKinds, NEW a, <<kind, "">> \in a.diags, Become(a)
  PROVE  failed'
<1>1. <<kind, "">>[1] = kind
  OBVIOUS
<1> QED BY <1>1 DEF Become

\* The steps at which the run jumps astray or falls off the end of a function.
LEMMA QuietSteps ==
  ASSUME [FlowNext]_flowVars
  PROVE  \/ obs' = obs /\ (failed => failed')
         \/ ~obs'.stray /\ ~obs'.end
         \/ /\ ~obs'.end
            /\ \E n \in Statements :
                 /\ FlowLeaf(n) /\ n.kind \in {"break", "continue"}
                 /\ status = "live" /\ ~InLoop
         \/ /\ ~obs'.stray /\ LeaveFunction
            /\ status = "live" /\ Run!OwesValue(Parent.node)
<1>1. CASE UNCHANGED flowVars
  BY <1>1 DEF flowVars, vars, semVars
<1>2. ASSUME NEW m, NEW closed, Run!Remember(m, closed, FALSE, FALSE)
      PROVE  ~obs'.stray /\ ~obs'.end
  BY <1>2 DEF Run!Remember
<1>3. obs' = Run!Quiet => ~obs'.stray /\ ~obs'.end
  BY DEF Run!Quiet
<1>4. CASE GatherSignatures /\ UNCHANGED <<status, runs, store, obs, class, seen>>
  BY <1>4 DEF GatherSignatures, Become
<1>5. ASSUME NEW n \in Statements, FlowLeaf(n), Run!RunJump(n)
      PROVE  \/ ~obs'.stray /\ ~obs'.end
             \/ /\ ~obs'.end /\ n.kind \in {"break", "continue"}
                /\ status = "live" /\ ~InLoop
  <2> DEFINE stray == status = "live" /\ n.kind # "ret" /\ ~Run!InLoop
  <2>1. n.kind \in {"ret", "break", "continue"}
    BY <1>5 DEF Run!RunJump, Run!JumpKinds
  <2>2. \E m : Run!Remember(m, {}, FALSE, stray)
    BY <1>5 DEF Run!RunJump
  <2>3. Run!InLoop <=> InLoop
    BY DEF Run!InLoop, InLoop, Run!LoopKinds, LoopKinds
  <2> HIDE DEF stray
  <2>4. obs'.stray = stray /\ ~obs'.end
    BY <2>2 DEF Run!Remember
  <2> QED BY <2>1, <2>3, <2>4 DEF stray
<1>6. ASSUME NEW n \in Statements, FlowLeaf(n), ~Run!RunJump(n)
      PROVE  ~obs'.stray /\ ~obs'.end
  BY <1>2, <1>3, <1>6 DEF FlowLeaf, Run!RunSimple, Run!RunNull
<1>7. ASSUME NEW n \in Statements, FlowDown(n)
      PROVE  ~obs'.stray /\ ~obs'.end
  BY <1>2, <1>7 DEF FlowDown, Run!RunBlock, Run!RunCondition, Run!RunFor, Run!Branch
<1>8. CASE FlowUp
  BY <1>2, <1>3, <1>8
     DEF FlowUp, Run!RunEndBlock, Run!RunEndIf, Run!RunEndWhile, Run!RunEndFor
<1>9. CASE FlowFunction(Head(pending))
  BY <1>2, <1>9 DEF FlowFunction, Run!RunFunction
<1>10. CASE FlowEndFunction
  <2> DEFINE end == status = "live" /\ Run!OwesValue(Run!Last(cursor).node)
  <2>1. LeaveFunction /\ \E m, closed : Run!Remember(m, closed, end, FALSE)
    BY <1>10 DEF FlowEndFunction, Run!RunEndFunction
  <2>2. Run!Last(cursor) = Parent
    BY DEF Run!Last, Parent, Last
  <2> HIDE DEF end
  <2>3. ~obs'.stray /\ obs'.end = end
    BY <2>1 DEF Run!Remember
  <2> QED BY <2>1, <2>2, <2>3 DEF end
<1>11. CASE Run!RunElse
  BY <1>3, <1>11 DEF Run!RunElse
<1>12. CASE Run!RunEndProgram
  BY <1>2, <1>12 DEF Run!RunEndProgram
<1> QED BY <1>1, <1>4, <1>5, <1>6, <1>7, <1>8, <1>9, <1>10, <1>11, <1>12
        DEF FlowNext, FlowWalk

\* A jump out of no loop that some run makes is an error.
LEMMA StrayFails ==
  ASSUME IInv, SkipInherited, FlowInv, NEW n \in Statements, FlowLeaf(n),
         n.kind \in {"break", "continue"}, status = "live", ~InLoop
  PROVE  failed'
<1>1. ~CutOff
  BY CutOffIsDead
<1>2. Leaf(n)
  BY DEF FlowLeaf
<1>3. AnalyzeJump(n)
  BY <1>1, <1>2 DEF Leaf, AnalyzeSimple, AnalyzeReturn, AnalyzeNull, SkipLeaf, SimpleKinds
<1> DEFINE a == report(Env, "jump", "", loopDepth <= 0)
<1>4. Become(a)
  BY <1>3 DEF AnalyzeJump, AnalyzeLeaf
<1>5. loopDepth <= 0
  BY <1>1, NoLoopCounted
<1>6. <<"jump", "">> \in a.diags
  BY <1>5 DEF report, Env
<1> HIDE DEF a
<1>7. "jump" \in ErrorKinds
  BY Kinds
<1> QED BY <1>4, <1>6, <1>7, ReportFails

\* A function that owes a value and whose end some run reaches is an error.
LEMMA EndFails ==
  ASSUME IInv, FlowInv, LeaveFunction, status = "live", Run!OwesValue(Parent.node)
  PROVE  failed'
<1> DEFINE m == Len(frames)
           reported == report(Env, "missing return", "", missingReturn(Parent.node))
           a == [leaveScope(reported) EXCEPT !.assigned = Local.before]
<1>1. Close("func") /\ Become(a)
  BY DEF LeaveFunction, Leave
<1>2. /\ Walk(cursor) /\ Len(frames) = Len(cursor) /\ frames \in Seq(Frames)
      /\ cursor # <<>> /\ Parent = cursor[m] /\ Local = frames[m] /\ m \in 1 .. m
      /\ Parent.node.kind = "func" /\ Parent.slot \in {"list", "thenDone", "done"}
  <2> HIDE DEF a
  <2>1. cursor # <<>> /\ Parent.node.kind = "func"
    BY <1>1, CloseShape
  <2>2. Walk(cursor) /\ Len(frames) = Len(cursor) /\ frames \in Seq(Frames)
    BY DEF FlowInv, Agree, Shape
  <2>3. Parent.slot \in {"list", "thenDone", "done"}
    BY <1>1 DEF Close, Parent
  <2>4. Parent = cursor[Len(cursor)] /\ Local = frames[m] /\ m \in Nat \ {0}
    BY <2>1, PathEnd
  <2> QED BY <2>1, <2>2, <2>3, <2>4
<1>3. Parent.slot = "done"
  BY <1>2 DEF Walk
<1>4. ~Local.ret
  BY <1>2, <1>3 DEF FlowInv, Agree, Returned
<1>5. missingReturn(Parent.node)
  BY <1>4 DEF missingReturn, Run!OwesValue
<1>6. <<"missing return", "">> \in reported.diags
  BY <1>5 DEF report, Env
<1>7. reported \in Envs /\ reported.scopes # <<>>
  <2>1. Env \in Envs /\ Env.scopes # <<>>
    BY EnvHere
  <2>2. "missing return" \in ErrorKinds \cup WarningKinds /\ "" \in Subjects
    BY Kinds
  <2> QED BY <2>1, <2>2, ReportType
<1> HIDE DEF reported
<1>8. <<"missing return", "">> \in leaveScope(reported).diags
        /\ leaveScope(reported) \in Envs
  BY <1>6, <1>7, LeaveScopeType DEF leaveScope, Envs
<1>9. a.diags = leaveScope(reported).diags
  BY <1>8 DEF Envs
<1> HIDE DEF a
<1>10. "missing return" \in ErrorKinds
  BY Kinds
<1> QED BY <1>1, <1>8, <1>9, <1>10, ReportFails

\* A break or continue some run reaches outside a loop makes the analysis fail,
\* although code behind a terminator is not checked and loopDepth is one counter.
THEOREM StrayJumpsFail == FlowSpec => []StrayJumpsAreErrors
<1>1. FlowInit => StrayJumpsAreErrors
  BY DEF FlowInit, Run!RunInit, Run!Quiet, StrayJumpsAreErrors
<1>2. IInv /\ SkipInherited /\ FlowInv /\ StrayJumpsAreErrors /\ [FlowNext]_flowVars
        => StrayJumpsAreErrors'
  BY QuietSteps, StrayFails DEF StrayJumpsAreErrors
<1> QED BY <1>1, <1>2, FlowIsAnalysis, Balance, SkippedBelow, FlowAgreement, PTL DEF FlowSpec

\* A non-void function some run leaves without a return makes the analysis fail:
\* returnsOnAllPaths holds of no body that can be fallen off, although it counts
\* returns in code that is not analysed.
THEOREM MissingReturnsFail == FlowSpec => []MissingReturnsAreErrors
<1>1. FlowInit => MissingReturnsAreErrors
  BY DEF FlowInit, Run!RunInit, Run!Quiet, MissingReturnsAreErrors
<1>2. IInv /\ FlowInv /\ MissingReturnsAreErrors /\ [FlowNext]_flowVars
        => MissingReturnsAreErrors'
  BY QuietSteps, EndFails DEF MissingReturnsAreErrors
<1> QED BY <1>1, <1>2, FlowIsAnalysis, Balance, FlowAgreement, PTL DEF FlowSpec
================================================================================
