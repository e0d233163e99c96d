------------------------------ MODULE VariableProofs ---------------------------
(***************************************************************************)
(* Proofs about the variables of the analyzer next to those of a run: no   *)
(* variable a run reads too early is passed over, and none that is         *)
(* reported as unused is read, for every program and every run.            *)
(***************************************************************************)
EXTENDS FlowProofs, SequenceTheorems

--------------------------------------------------------------------------------
(***************************************************************************)
(* Expressions.                                                            *)
(***************************************************************************)

\* The nodes analyzeExpr reaches are those of the operands and the expression.
LEMMA ReachedIs ==
  \A e \in Exprs :
    Reached[e] = {e} \cup IF e.op = "call" /\ ~Declared(e.id) THEN {}
                          ELSE UNION {Reached[x] : x \in Operands(e)}
<1> DEFINE Parts == SUBSET Exprs
           Of(e, r) == {e} \cup IF e.op = "call" /\ ~Declared(e.id) THEN {}
                                ELSE UNION {r[e.args[i]] : i \in DOMAIN e.args}
           G == [p \in Exprs \X [Exprs -> Parts] |-> Of(p[1], p[2])]
<1>2. \A e \in Exprs : \A r \in [Exprs -> Parts] : Of(e, r) \in Parts /\ G[<<e, r>>] = Of(e, r)
  <2> TAKE e \in Exprs
  <2> TAKE r \in [Exprs -> Parts]
  <2>1. \A i \in DOMAIN e.args : r[e.args[i]] \in Parts
    BY ExprAssumption
  <2> QED BY <2>1
<1>3. \A e \in Exprs : \A g, h \in [Exprs -> Parts] :
           (\A x \in Operands(e) : g[x] = h[x]) => Of(e, g) = Of(e, h)
  <2> TAKE e \in Exprs
  <2> TAKE g, h \in [Exprs -> Parts]
  <2> HAVE \A x \in Operands(e) : g[x] = h[x]
  <2>1. \A i \in DOMAIN e.args : g[e.args[i]] = h[e.args[i]]
    BY DEF Operands
  <2>2. {g[e.args[i]] : i \in DOMAIN e.args} = {h[e.args[i]] : i \in DOMAIN e.args}
    BY <2>1
  <2> QED BY <2>2
<1>4. {} \in Parts
  OBVIOUS
<1>5. PICK f \in [Exprs -> Parts] : \A e \in Exprs : f[e] = Of(e, f)
  <2> HIDE DEF Parts, Of
  <2>1. G \in [Exprs \X [Exprs -> Parts] -> Parts]
    BY <1>2
  <2>2. IsLocal(G, Parts)
    BY <1>2, <1>3 DEF IsLocal
  <2>3. \E f \in [Exprs -> Parts] : \A e \in Exprs : f[e] = G[<<e, f>>]
    <3> HIDE DEF G
    <3> QED BY <1>4, <2>1, <2>2, Recursion
  <2> QED BY <1>2, <2>3
<1>6. f = [e \in Exprs |-> Of(e, f)]
  <2> HIDE DEF Parts, Of
  <2> QED BY <1>5
<1>7. Reached = [e \in Exprs |-> Of(e, Reached)]
  <2>1. Reached = CHOOSE v : v = [e \in Exprs |-> Of(e, v)]
    BY DEF Reached
  <2> HIDE DEF Of
  <2> QED BY <1>6, <2>1
<1>8. \A e \in Exprs : Of(e, Reached) = {e} \cup IF e.op = "call" /\ ~Declared(e.id) THEN {}
                                       ELSE UNION {Reached[x] : x \in Operands(e)}
  BY DEF Operands
<1> HIDE DEF Of
<1>9. \A e \in Exprs : Reached[e] = Of(e, Reached)
  BY <1>7
<1> QED BY <1>8, <1>9, Zenon

LEMMA RunVars == \A xs : Run!VarsOf(xs) = VarsOf(xs)
BY DEF Run!VarsOf, VarsOf

\* Every variable of an expression is reached, unless a call of an undeclared function is.
LEMMA VarsAreReached ==
  ASSUME NEW e \in Exprs, \A d \in Reached[e] : d.op = "call" => Declared(d.id)
  PROVE  VarsIn[e] \subseteq {d.id : d \in {c \in Reached[e] : c.op = "var"}}
<1> DEFINE Names(x) == {d.id : d \in {c \in Reached[x] : c.op = "var"}}
           Calls(x) == \A d \in Reached[x] : d.op = "call" => Declared(d.id)
           S == {x \in Exprs : Calls(x) /\ ~(VarsIn[x] \subseteq Names(x))}
<1> SUFFICES ASSUME S # {} PROVE FALSE
  OBVIOUS
<1>1. PICK x \in S : Operands(x) \cap S = {}
  <2>1. S \in SUBSET Exprs
    OBVIOUS
  <2> HIDE DEF S
  <2> QED BY <2>1, SmallestExpr
<1>2. x \in Exprs /\ Calls(x) /\ ~(VarsIn[x] \subseteq Names(x))
  BY <1>1
<1>3. /\ x \in Reached[x]
      /\ x.op = "call" => Declared(x.id)
  BY <1>2, ReachedIs
<1>4. \A y \in Operands(x) : Reached[y] \subseteq Reached[x]
  BY <1>2, <1>3, ReachedIs
<1>5. \A y \in Operands(x) : VarsIn[y] \subseteq Names(x)
  <2> TAKE y \in Operands(x)
  <2>1. y \in Exprs /\ Calls(y)
    BY <1>2, <1>4, OperandsAreExprs
  <2>2. VarsIn[y] \subseteq Names(y)
    BY <1>1, <2>1
  <2> QED BY <1>4, <2>2
<1>6. VarsIn[x] = IF x.op = "var" THEN {x.id} ELSE UNION {VarsIn[y] : y \in Operands(x)}
  BY <1>2, VarsInIs
<1>7. VarsIn[x] \subseteq Names(x)
  BY <1>3, <1>5, <1>6
<1> QED BY <1>2, <1>7

--------------------------------------------------------------------------------
(***************************************************************************)
(* Stacks of scopes: the analyzer's and the run's look a name up alike.    *)
(***************************************************************************)

\* Scope i is the innermost that holds n.
Holds(sc, n, i) ==
  /\ i \in 1 .. Len(sc) /\ n \in DOMAIN sc[i]
  /\ \A j \in 1 .. Len(sc) : n \in DOMAIN sc[j] => j <= i

\* What a lookup finds.
LEMMA Found ==
  ASSUME NEW T, NEW sc \in Seq(T), NEW n
  PROVE  /\ Bound(sc, n) <=> \E i \in 1 .. Len(sc) : n \in DOMAIN sc[i]
         /\ Bound(sc, n) => Holds(sc, n, Innermost(sc, n))
         /\ Find(sc, n) = sc[Innermost(sc, n)][n]
<1> DEFINE S == {i \in 1 .. Len(sc) : n \in DOMAIN sc[i]}
<1>1. DOMAIN sc = 1 .. Len(sc) /\ Len(sc) \in Nat
  OBVIOUS
<1>2. Bound(sc, n) <=> \E i \in 1 .. Len(sc) : n \in DOMAIN sc[i]
  BY <1>1 DEF Bound
<1>3. ASSUME Bound(sc, n) PROVE Holds(sc, n, Innermost(sc, n))
  <2>1. S # {} /\ S \in SUBSET (1 .. Len(sc))
    BY <1>2, <1>3
  <2> HIDE DEF S
  <2>2. Max(S) \in S /\ \A i \in S : i <= Max(S)
    BY <1>1, <2>1, MaxOfPositions
  <2> USE DEF S
  <2>3. Holds(sc, n, Max(S))
    BY <2>2 DEF Holds
  <2> HIDE DEF S
  <2> QED BY <1>1, <2>3 DEF Innermost, Holds
<1> QED BY <1>2, <1>3 DEF Find

LEMMA InnermostIs ==
  ASSUME NEW T, NEW sc \in Seq(T), NEW n, NEW i, Holds(sc, n, i)
  PROVE  Bound(sc, n) /\ Innermost(sc, n) = i /\ Find(sc, n) = sc[i][n]
<1>1. Bound(sc, n) /\ i \in 1 .. Len(sc) /\ Len(sc) \in Nat
  BY Found DEF Holds
<1>2. Holds(sc, n, Innermost(sc, n))
  BY <1>1, Found
<1>3. Innermost(sc, n) \in 1 .. Len(sc)
  BY <1>2 DEF Holds
<1>4. i <= Innermost(sc, n) /\ Innermost(sc, n) <= i
  BY <1>1, <1>2, <1>3 DEF Holds
<1>5. Innermost(sc, n) = i
  BY <1>1, <1>3, <1>4
<1> QED BY <1>1, <1>5, Found

LEMMA RunLooksUp ==
  \A sc, n : /\ Run!Bound(sc, n) = Bound(sc, n)
             /\ Run!Innermost(sc, n) = Innermost(sc, n)
             /\ Run!Find(sc, n) = Find(sc, n)
             /\ Run!EmptyScope = EmptyScope
BY DEF Run!Bound, Bound, Run!Innermost, Innermost, Run!Find, Find, Run!EmptyScope, EmptyScope

\* Two stacks that hold the same names.
SameNames(s2, s1) == /\ Len(s2) = Len(s1)
                     /\ \A i \in 1 .. Len(s1) : DOMAIN s2[i] = DOMAIN s1[i]

LEMMA SameLookup ==
  ASSUME NEW T, NEW s1 \in Seq(T), NEW U, NEW s2 \in Seq(U), SameNames(s2, s1), NEW n
  PROVE  /\ Bound(s2, n) <=> Bound(s1, n)
         /\ Bound(s1, n) => Innermost(s2, n) = Innermost(s1, n)
<1>1. \A i : Holds(s2, n, i) <=> Holds(s1, n, i)
  BY DEF SameNames, Holds
<1>2. Bound(s2, n) <=> Bound(s1, n)
  BY <1>1, Found DEF SameNames
<1> QED BY <1>1, <1>2, Found, InnermostIs

--------------------------------------------------------------------------------
(***************************************************************************)
(* What a step of the run does to its variables: names in X may be new in  *)
(* the innermost scope, and what holds a value keeps one.                  *)
(***************************************************************************)
Moves(s2, s1, X) ==
  /\ Len(s2) = Len(s1)
  /\ \A i \in 1 .. Len(s1) : DOMAIN s1[i] \subseteq DOMAIN s2[i]
  /\ \A i \in 1 .. Len(s1) : \A n \in DOMAIN s2[i] :
       n \in DOMAIN s1[i] \/ (i = Len(s1) /\ n \in X)
  /\ \A i \in 1 .. Len(s1) : \A n \in DOMAIN s1[i] : s1[i][n].init => s2[i][n].init

LEMMA MovesTrans ==
  ASSUME NEW s1, NEW s2, NEW s3, NEW X, NEW Y, Moves(s2, s1, X), Moves(s3, s2, Y)
  PROVE  Moves(s3, s1, X \cup Y)
BY DEF Moves

LEMMA MovesBound ==
  ASSUME NEW s1 \in Seq(Run!Variables), NEW s2 \in Seq(Run!Variables), NEW X, Moves(s2, s1, X),
         NEW n, Bound(s1, n)
  PROVE  Bound(s2, n)
BY Found DEF Moves

LEMMA MovesNot ==
  ASSUME NEW s1 PROVE Moves(s1, s1, {})
BY DEF Moves

LEMMA StoreTyped ==
  ASSUME NEW k \in Nat, NEW m, MemoryOK(m, k)
  PROVE  /\ m.store \in Seq(Run!Variables) /\ Len(m.store) = k
         /\ DOMAIN m.store = 1 .. k /\ m.uninit \in SUBSET Name
         /\ \A i \in 1 .. k : /\ DOMAIN m.store[i] \subseteq Name
                              /\ \A n \in DOMAIN m.store[i] : m.store[i][n] \in Cells
         /\ k # 0 => m.store # <<>> /\ Run!Last(m.store) = m.store[k]
<1>1. /\ m.store \in Seq(Run!Variables) /\ Len(m.store) = k /\ m.uninit \in SUBSET Name
  BY DEF MemoryOK
<1>2. DOMAIN m.store = 1 .. k /\ \A i \in 1 .. k : m.store[i] \in Run!Variables
  BY <1>1
<1>3. k # 0 => m.store # <<>>
  BY <1>1
<1> QED BY <1>1, <1>2, <1>3, ScopeShape, RunEnds

\* Reading marks the variables the names refer to, and reports those that hold
\* no value.
LEMMA ReadMoves ==
  ASSUME NEW k \in Nat, NEW m, MemoryOK(m, k), NEW xs, NEW r, r = Run!Read(m, xs)
  PROVE  /\ SameNames(r.store, m.store) /\ Moves(r.store, m.store, {})
         /\ \A i \in 1 .. k : \A n \in DOMAIN m.store[i] :
              /\ r.store[i][n].init = m.store[i][n].init
              /\ r.store[i][n].read =>
                   \/ m.store[i][n].read
                   \/ n \in VarsOf(xs) /\ i = Innermost(m.store, n)
         /\ \A n \in r.uninit :
              \/ n \in m.uninit
              \/ n \in VarsOf(xs) /\ Bound(m.store, n) /\ ~Find(m.store, n).init
<1> DEFINE names == {n \in Run!VarsOf(xs) : Run!Bound(m.store, n)}
           Cell(i, n) == [m.store[i][n] EXCEPT
                            !.read = @ \/ (n \in names /\ i = Run!Innermost(m.store, n))]
           st == [i \in DOMAIN m.store |-> [n \in DOMAIN m.store[i] |-> Cell(i, n)]]
           un == m.uninit \cup {n \in names : ~Run!Find(m.store, n).init}
<1>1. r = [store |-> st, uninit |-> un]
  BY DEF Run!Read
<1>2. r.store = st /\ r.uninit = un
  BY <1>1
<1>3. \A n \in names : n \in VarsOf(xs) /\ Bound(m.store, n)
  BY RunVars, RunLooksUp
<1>4. ASSUME NEW i \in 1 .. k, NEW n \in DOMAIN m.store[i]
      PROVE  /\ Cell(i, n).init = m.store[i][n].init
             /\ Cell(i, n).read => \/ m.store[i][n].read
                                   \/ n \in VarsOf(xs) /\ i = Innermost(m.store, n)
  <2>1. m.store[i][n] \in [init : BOOLEAN, read : BOOLEAN]
    BY StoreTyped DEF Cells
  <2>2. Run!Innermost(m.store, n) = Innermost(m.store, n)
    BY RunLooksUp
  <2> HIDE DEF names
  <2> QED BY <1>3, <2>1, <2>2
<1>5. /\ Len(m.store) = k /\ Len(st) = k /\ DOMAIN m.store = 1 .. k
      /\ \A i \in 1 .. k : DOMAIN st[i] = DOMAIN m.store[i]
      /\ \A i \in 1 .. k : \A n \in DOMAIN m.store[i] : st[i][n] = Cell(i, n)
  BY StoreTyped
<1>6. \A n \in un : \/ n \in m.uninit
                    \/ n \in VarsOf(xs) /\ Bound(m.store, n) /\ ~Find(m.store, n).init
  BY <1>3, RunLooksUp
<1> HIDE DEF names, Cell, st, un
<1>7. SameNames(st, m.store)
  BY <1>5 DEF SameNames
<1>8. Moves(st, m.store, {})
  BY <1>4, <1>5 DEF Moves
<1> QED BY <1>2, <1>4, <1>5, <1>6, <1>7, <1>8

\* An assignment gives the variable the name refers to a value.
LEMMA WriteMoves ==
  ASSUME NEW k \in Nat, NEW m, MemoryOK(m, k), NEW v, NEW w, w = Run!Write(m, v)
  PROVE  /\ SameNames(w.store, m.store) /\ Moves(w.store, m.store, {})
         /\ \A i \in 1 .. k : \A n \in DOMAIN m.store[i] :
              w.store[i][n].read = m.store[i][n].read
         /\ Bound(m.store, v) => Find(w.store, v).init
         /\ w.uninit = m.uninit
<1> DEFINE Cell(i, n) == IF n = v /\ i = Run!Innermost(m.store, v)
                         THEN [m.store[i][n] EXCEPT !.init = TRUE] ELSE m.store[i][n]
           st == [i \in DOMAIN m.store |-> [n \in DOMAIN m.store[i] |-> Cell(i, n)]]
<1>0. m \in [store : Seq(Run!Variables), uninit : SUBSET Name]
  BY DEF MemoryOK
<1>1. w = [m EXCEPT !.store = st]
  BY DEF Run!Write
<1>2. w.store = st /\ w.uninit = m.uninit
  BY <1>0, <1>1
<1>3. Run!Innermost(m.store, v) = Innermost(m.store, v)
  BY RunLooksUp
<1>4. ASSUME NEW i \in 1 .. k, NEW n \in DOMAIN m.store[i]
      PROVE  /\ Cell(i, n).read = m.store[i][n].read
             /\ m.store[i][n].init => Cell(i, n).init
             /\ n = v /\ i = Innermost(m.store, v) => Cell(i, n).init
  <2>1. m.store[i][n] \in [init : BOOLEAN, read : BOOLEAN]
    BY StoreTyped DEF Cells
  <2> QED BY <1>3, <2>1
<1>5. /\ Len(m.store) = k /\ Len(st) = k /\ DOMAIN m.store = 1 .. k
      /\ \A i \in 1 .. k : DOMAIN st[i] = DOMAIN m.store[i]
      /\ \A i \in 1 .. k : \A n \in DOMAIN m.store[i] : st[i][n] = Cell(i, n)
  BY StoreTyped
<1>6. st \in Seq(Run!Variables)
  BY WriteType, <1>2 DEF MemoryOK
<1> HIDE DEF Cell, st
<1>7. SameNames(st, m.store)
  BY <1>5 DEF SameNames
<1>8. Moves(st, m.store, {})
  BY <1>4, <1>5 DEF Moves
<1>9. ASSUME Bound(m.store, v) PROVE Find(st, v).init
  <2>1. m.store \in Seq(Run!Variables)
    BY StoreTyped
  <2>2. Holds(m.store, v, Innermost(m.store, v))
    BY <1>9, <2>1, Found
  <2>3. Find(st, v) = st[Innermost(m.store, v)][v]
    BY <1>6, <1>7, <1>9, <2>1, SameLookup, Found
  <2>4. Innermost(m.store, v) \in 1 .. k /\ v \in DOMAIN m.store[Innermost(m.store, v)]
    BY <1>5, <2>2 DEF Holds
  <2> QED BY <1>4, <1>5, <2>3, <2>4
<1> QED BY <1>2, <1>4, <1>5, <1>7, <1>8, <1>9

\* The names a statement without control flow declares.
Declares(n) == IF n.kind = "decl" THEN {n.name} ELSE {}

LEMMA DeclareMoves ==
  ASSUME NEW k \in Nat \ {0}, NEW m, MemoryOK(m, k), NEW n,
         n.kind = "decl" => n.name \in Name, NEW d, d = Run!DeclareIn(m, n)
  PROVE  /\ Moves(d.store, m.store, Declares(n)) /\ d.uninit = m.uninit
         /\ n.kind # "decl" => d = m
         /\ \A i \in 1 .. k : /\ i < k => DOMAIN d.store[i] = DOMAIN m.store[i]
                              /\ \A x \in DOMAIN m.store[i] : d.store[i][x] = m.store[i][x]
         /\ n.kind = "decl" => DOMAIN d.store[k] = DOMAIN m.store[k] \cup {n.name}
         /\ n.kind = "decl" /\ n.name \notin DOMAIN m.store[k] => ~d.store[k][n.name].read
<1> DEFINE c == [init |-> FALSE, read |-> FALSE]
           new == [x \in DOMAIN m.store[k] \cup {n.name} |->
                     IF x = n.name THEN c ELSE m.store[k][x]]
           st == [m.store EXCEPT ![k] = new]
<1>0. m \in [store : Seq(Run!Variables), uninit : SUBSET Name]
  BY DEF MemoryOK
<1>1. /\ m.store \in Seq(Run!Variables) /\ Len(m.store) = k /\ DOMAIN m.store = 1 .. k
      /\ m.store # <<>> /\ Run!Last(m.store) = m.store[k]
  <2>1. k \in Nat /\ k # 0
    OBVIOUS
  <2> QED BY <2>1, StoreTyped
<1>2. CASE n.kind # "decl" \/ n.name \in DOMAIN m.store[k]
  <2>1. d = m
    BY <1>1, <1>2 DEF Run!DeclareIn
  <2> QED BY <1>1, <1>2, <2>1 DEF Moves
<1>3. CASE n.kind = "decl" /\ n.name \notin DOMAIN m.store[k]
  <2>1. d = [m EXCEPT !.store = st]
    BY <1>1, <1>3 DEF Run!DeclareIn, Run!Bind, Run!Recorded
  <2>2. d.store = st /\ d.uninit = m.uninit
    BY <1>0, <2>1
  <2>3. /\ Len(st) = k /\ st[k] = new
        /\ \A i \in 1 .. k : i # k => st[i] = m.store[i]
    BY <1>1
  <2>4. /\ DOMAIN new = DOMAIN m.store[k] \cup {n.name}
        /\ ~new[n.name].read
        /\ \A x \in DOMAIN m.store[k] : new[x] = m.store[k][x]
    BY <1>3
  <2> HIDE DEF new, st
  <2>5. /\ \A i \in 1 .. k : /\ i < k => DOMAIN st[i] = DOMAIN m.store[i]
                             /\ \A x \in DOMAIN m.store[i] : st[i][x] = m.store[i][x]
    BY <2>3, <2>4
  <2>6. Moves(st, m.store, Declares(n))
    BY <1>1, <1>3, <2>3, <2>4, <2>5 DEF Moves, Declares
  <2> QED BY <1>3, <2>2, <2>3, <2>4, <2>5, <2>6
<1> QED BY <1>2, <1>3

--------------------------------------------------------------------------------
(***************************************************************************)
(* The scopes of the analyzer hold the names the run's do, and a variable  *)
(* the run has read is marked as used.                                     *)
(***************************************************************************)
ReadIsUsed(sc, st) ==
  \A i \in 1 .. Len(sc) : \A n \in DOMAIN sc[i] :
    n \in DOMAIN st[i] /\ st[i][n].read => sc[i][n].used

Tied(sc, st) == SameNames(st, sc) /\ ReadIsUsed(sc, st)

LEMMA MarkMoves ==
  ASSUME NEW sc \in Seq(Scopes), NEW names, NEW s2, s2 = markUsed(sc, names)
  PROVE  /\ SameNames(s2, sc)
         /\ \A i \in 1 .. Len(sc) : \A n \in DOMAIN sc[i] :
              /\ sc[i][n].used => s2[i][n].used
              /\ n \in names /\ i = Innermost(sc, n) => s2[i][n].used
<1> DEFINE Cell(i, n) == [sc[i][n] EXCEPT
                            !.used = @ \/ (n \in names /\ i = Innermost(sc, n))]
<1>1. s2 = [i \in DOMAIN sc |-> [n \in DOMAIN sc[i] |-> Cell(i, n)]]
  BY DEF markUsed
<1>2. ASSUME NEW i \in 1 .. Len(sc), NEW n \in DOMAIN sc[i]
      PROVE  /\ sc[i][n].used => Cell(i, n).used
             /\ n \in names /\ i = Innermost(sc, n) => Cell(i, n).used
  <2>1. sc[i] \in Scopes
    OBVIOUS
  <2>2. sc[i][n] \in [type : DataTypes, used : BOOLEAN]
    BY <2>1, ScopeElim
  <2> QED BY <2>2
<1> HIDE DEF Cell
<1>3. /\ Len(s2) = Len(sc)
      /\ \A i \in 1 .. Len(sc) : DOMAIN s2[i] = DOMAIN sc[i]
      /\ \A i \in 1 .. Len(sc) : \A n \in DOMAIN sc[i] : s2[i][n] = Cell(i, n)
  BY <1>1
<1> QED BY <1>2, <1>3 DEF SameNames

LEMMA DeclaredScope ==
  ASSUME NEW k \in Nat \ {0}, NEW sc \in Seq(Scopes), Len(sc) = k, NEW n \in Name, NEW type,
         n \notin DOMAIN sc[k]
  PROVE  /\ Len(declareVariable(sc, n, type)) = k
         /\ \A i \in 1 .. k :
              /\ i < k => DOMAIN declareVariable(sc, n, type)[i] = DOMAIN sc[i]
              /\ \A x \in DOMAIN sc[i] : declareVariable(sc, n, type)[i][x] = sc[i][x]
         /\ DOMAIN declareVariable(sc, n, type)[k] = DOMAIN sc[k] \cup {n}
<1> DEFINE d == declareVariable(sc, n, type)
           new == [x \in DOMAIN sc[k] \cup {n} |->
                     IF x = n THEN [type |-> type, used |-> FALSE] ELSE sc[k][x]]
<1>1. d = [sc EXCEPT ![k] = new]
  BY DEF declareVariable, Bind, Recorded
<1>2. /\ DOMAIN new = DOMAIN sc[k] \cup {n}
      /\ \A x \in DOMAIN sc[k] : new[x] = sc[k][x]
  OBVIOUS
<1> HIDE DEF new, d
<1>3. Len(d) = k /\ d[k] = new /\ \A i \in 1 .. k : i # k => d[i] = sc[i]
  BY <1>1
<1>4. /\ Len(d) = k
      /\ \A i \in 1 .. k : /\ i < k => DOMAIN d[i] = DOMAIN sc[i]
                           /\ \A x \in DOMAIN sc[i] : d[i][x] = sc[i][x]
      /\ DOMAIN d[k] = DOMAIN sc[k] \cup {n}
  BY <1>2, <1>3
<1> QED BY <1>4 DEF d

\* The declaration of a new name keeps the scopes tied.
LEMMA TiedDeclare ==
  ASSUME NEW k \in Nat \ {0}, NEW m, MemoryOK(m, k), NEW sc \in Seq(Scopes),
         Tied(sc, m.store), NEW n, n.kind = "decl", n.name \in Name,
         n.name \notin DOMAIN Last(sc), NEW type
  PROVE  Tied(declareVariable(sc, n.name, type), Run!DeclareIn(m, n).store)
<1> DEFINE d == declareVariable(sc, n.name, type)
           st == Run!DeclareIn(m, n).store
<1>1. Len(sc) = k /\ Len(m.store) = k /\ sc # <<>> /\ Last(sc) = sc[k]
  <2>1. k \in Nat /\ k # 0
    OBVIOUS
  <2>2. Len(m.store) = k /\ Len(sc) = k
    BY <2>1, StoreTyped DEF Tied, SameNames
  <2>3. sc # <<>>
    BY <2>1, <2>2
  <2> QED BY <2>2, <2>3, FrontShape
<1>2. \A i \in 1 .. k : DOMAIN m.store[i] = DOMAIN sc[i]
  BY <1>1 DEF Tied, SameNames
<1>3. /\ Len(d) = k
      /\ \A i \in 1 .. k : /\ i < k => DOMAIN d[i] = DOMAIN sc[i]
                           /\ \A x \in DOMAIN sc[i] : d[i][x] = sc[i][x]
      /\ DOMAIN d[k] = DOMAIN sc[k] \cup {n.name}
  <2>1. n.name \notin DOMAIN sc[k]
    BY <1>1
  <2> QED BY <1>1, <2>1, DeclaredScope
<1>4. /\ Len(st) = k
      /\ \A i \in 1 .. k : /\ i < k => DOMAIN st[i] = DOMAIN m.store[i]
                           /\ \A x \in DOMAIN m.store[i] : st[i][x] = m.store[i][x]
      /\ DOMAIN st[k] = DOMAIN m.store[k] \cup {n.name}
      /\ ~st[k][n.name].read
  BY <1>1, <1>2, DeclareMoves DEF Moves
<1> HIDE DEF d, st
<1>5. SameNames(st, d)
  <2>1. \A i \in 1 .. k : i < k \/ i = k
    OBVIOUS
  <2>2. \A i \in 1 .. k : DOMAIN st[i] = DOMAIN d[i]
    BY <1>2, <1>3, <1>4, <2>1
  <2> QED BY <1>3, <1>4, <2>2 DEF SameNames
<1>6. ASSUME NEW i \in 1 .. k, NEW x \in DOMAIN d[i], st[i][x].read PROVE d[i][x].used
  <2>1. x \in DOMAIN sc[i]
    BY <1>3, <1>4, <1>6
  <2>2. m.store[i][x].read /\ sc[i][x].used
    BY <1>1, <1>2, <1>4, <1>6, <2>1 DEF Tied, ReadIsUsed
  <2> QED BY <1>3, <2>1, <2>2
<1>7. ReadIsUsed(d, st)
  BY <1>3, <1>6 DEF ReadIsUsed
<1> QED BY <1>5, <1>7 DEF Tied, d, st

\* s2 marks more variables of s1 as used, those the names in V refer to included.
Uses(s2, s1, V) ==
  /\ SameNames(s2, s1)
  /\ \A i \in 1 .. Len(s1) : \A n \in DOMAIN s1[i] :
       /\ s1[i][n].used => s2[i][n].used
       /\ n \in V /\ i = Innermost(s1, n) => s2[i][n].used

LEMMA MarkUses ==
  ASSUME NEW sc \in Seq(Scopes), NEW names, NEW V, V \subseteq names
  PROVE  Uses(markUsed(sc, names), sc, V)
BY MarkMoves DEF Uses

LEMMA UsesTrans ==
  ASSUME NEW s1 \in Seq(Scopes), NEW s2 \in Seq(Scopes), NEW s3 \in Seq(Scopes),
         NEW V, NEW W, Uses(s2, s1, V), Uses(s3, s2, W)
  PROVE  Uses(s3, s1, V \cup W)
<1>1. SameNames(s3, s1)
  BY DEF Uses, SameNames
<1>2. ASSUME NEW i \in 1 .. Len(s1), NEW n \in DOMAIN s1[i]
      PROVE  Innermost(s2, n) = Innermost(s1, n) /\ i \in 1 .. Len(s2) /\ n \in DOMAIN s2[i]
  <2>1. Bound(s1, n)
    BY Found
  <2> QED BY <2>1, SameLookup DEF Uses, SameNames
<1> QED BY <1>1, <1>2 DEF Uses

LEMMA TiedReads ==
  ASSUME NEW k \in Nat, NEW m, MemoryOK(m, k), NEW sc \in Seq(Scopes),
         Tied(sc, m.store), NEW xs, NEW s2, Uses(s2, sc, VarsOf(xs))
  PROVE  Tied(s2, Run!Read(m, xs).store)
<1> DEFINE r == Run!Read(m, xs)
<1>1. /\ SameNames(r.store, m.store)
      /\ \A i \in 1 .. k : \A n \in DOMAIN m.store[i] :
           r.store[i][n].read => \/ m.store[i][n].read
                                 \/ n \in VarsOf(xs) /\ i = Innermost(m.store, n)
  BY ReadMoves
<1>2. /\ SameNames(s2, sc)
      /\ \A i \in 1 .. Len(sc) : \A n \in DOMAIN sc[i] :
              /\ sc[i][n].used => s2[i][n].used
              /\ n \in VarsOf(xs) /\ i = Innermost(sc, n) => s2[i][n].used
  BY DEF Uses
<1>3. /\ Len(m.store) = k /\ Len(sc) = k /\ m.store \in Seq(Run!Variables)
      /\ SameNames(m.store, sc) /\ ReadIsUsed(sc, m.store)
  BY StoreTyped DEF Tied, SameNames
<1> HIDE DEF r
<1>4. SameNames(r.store, s2)
  BY <1>1, <1>2, <1>3 DEF SameNames
<1>5. ASSUME NEW i \in 1 .. k, NEW n \in DOMAIN s2[i], r.store[i][n].read
      PROVE  s2[i][n].used
  <2>1. n \in DOMAIN sc[i] /\ n \in DOMAIN m.store[i]
    BY <1>2, <1>3 DEF SameNames
  <2>2. Bound(sc, n)
    BY <1>3, <2>1, Found
  <2>3. Innermost(m.store, n) = Innermost(sc, n)
    BY <1>3, <2>2, SameLookup
  <2>4. m.store[i][n].read => sc[i][n].used
    BY <1>3, <2>1 DEF ReadIsUsed
  <2> QED BY <1>1, <1>2, <1>3, <1>5, <2>1, <2>3, <2>4
<1>6. ReadIsUsed(s2, r.store)
  BY <1>2, <1>3, <1>5 DEF ReadIsUsed, SameNames
<1> QED BY <1>4, <1>6 DEF Tied, r

LEMMA TiedUses ==
  ASSUME NEW sc, NEW st, Tied(sc, st), NEW s2, NEW V, Uses(s2, sc, V)
  PROVE  Tied(s2, st)
BY DEF Tied, SameNames, ReadIsUsed, Uses

LEMMA TiedWrites ==
  ASSUME NEW k \in Nat, NEW m, MemoryOK(m, k), NEW sc \in Seq(Scopes),
         Tied(sc, m.store), NEW v
  PROVE  Tied(sc, Run!Write(m, v).store)
<1>1. /\ SameNames(Run!Write(m, v).store, m.store)
      /\ \A i \in 1 .. k : \A n \in DOMAIN m.store[i] :
              Run!Write(m, v).store[i][n].read = m.store[i][n].read
  BY WriteMoves
<1>2. Len(m.store) = k /\ Len(sc) = k
  BY StoreTyped DEF Tied, SameNames
<1> QED BY <1>1, <1>2 DEF Tied, SameNames, ReadIsUsed

--------------------------------------------------------------------------------
(***************************************************************************)
(* Variables that hold a value.                                            *)
(***************************************************************************)

\* The variables the names in X refer to hold a value.
Initialized(st, X) == \A n \in X : Bound(st, n) => Find(st, n).init

\* What the names in X refer to stays, and keeps its value.
Persists(s2, s1, X) ==
  /\ \A n \in X : Bound(s2, n) => Bound(s1, n) /\ (Find(s1, n).init => Find(s2, n).init)
  /\ \A n \in X : n \in DOMAIN s2[1] => n \in DOMAIN s1[1]

LEMMA InitializedPersists ==
  ASSUME NEW s1, NEW s2, NEW X, NEW Y, Persists(s2, s1, Y), X \subseteq Y,
         Initialized(s1, X)
  PROVE  Initialized(s2, X)
BY DEF Persists, Initialized

LEMMA PersistsTrans ==
  ASSUME NEW s1, NEW s2, NEW s3, NEW X, Persists(s2, s1, X), Persists(s3, s2, X)
  PROVE  Persists(s3, s1, X)
BY DEF Persists

LEMMA MovesPersist ==
  ASSUME NEW s1 \in Seq(Run!Variables), NEW s2 \in Seq(Run!Variables), s1 # <<>>,
         NEW X, Moves(s2, s1, X), NEW Y, X \cap Y = {}
  PROVE  Persists(s2, s1, Y)
<1>0. Len(s1) \in Nat \ {0} /\ 1 \in 1 .. Len(s1)
  OBVIOUS
<1>1. ASSUME NEW n \in Y, Bound(s2, n)
      PROVE  Bound(s1, n) /\ (Find(s1, n).init => Find(s2, n).init)
  <2> DEFINE i == Innermost(s2, n)
  <2>1. Holds(s2, n, i) /\ Find(s2, n) = s2[i][n]
    BY <1>1, Found
  <2> HIDE DEF i
  <2>2. Holds(s1, n, i)
    BY <1>1, <2>1 DEF Holds, Moves
  <2>3. Bound(s1, n) /\ Find(s1, n) = s1[i][n]
    BY <2>2, InnermostIs
  <2> QED BY <2>1, <2>2, <2>3 DEF Holds, Moves
<1>2. \A n \in Y : n \in DOMAIN s2[1] => n \in DOMAIN s1[1]
  BY <1>0 DEF Moves
<1> QED BY <1>1, <1>2 DEF Persists

--------------------------------------------------------------------------------
(***************************************************************************)
(* What analysing an expression does, unless it reports an error.          *)
(***************************************************************************)
Clean(a) == \A d \in a.diags : d[1] \notin ErrorKinds

\* An analysis that reads the variables V and assigns none.
Analyses(a2, a, V) ==
  /\ a2 \in Envs /\ a2.assigned = a.assigned /\ a.diags \subseteq a2.diags
  /\ Uses(a2.scopes, a.scopes, V)
  /\ \A n \in V : Bound(a.scopes, n) /\ n \notin a.assigned
                    => <<"uninitialized", n>> \in a2.diags

LEMMA EnvTyped ==
  ASSUME NEW a \in Envs
  PROVE  a.scopes \in Seq(Scopes) /\ a.assigned \in SUBSET Name /\ a.diags \in SUBSET Diagnostic
BY DEF Envs

LEMMA CleanBefore ==
  ASSUME NEW a, NEW a2, a.diags \subseteq a2.diags, Clean(a2)
  PROVE  Clean(a)
BY DEF Clean

LEMMA AnalysesTrans ==
  ASSUME NEW a \in Envs, NEW b, NEW c, NEW V, NEW W, Analyses(b, a, V), Analyses(c, b, W)
  PROVE  Analyses(c, a, V \cup W)
<1>1. /\ a.scopes \in Seq(Scopes) /\ b.scopes \in Seq(Scopes) /\ c.scopes \in Seq(Scopes)
      /\ Uses(b.scopes, a.scopes, V) /\ Uses(c.scopes, b.scopes, W)
  BY EnvTyped DEF Analyses
<1>2. Uses(c.scopes, a.scopes, V \cup W)
  BY <1>1, UsesTrans
<1>3. \A n : Bound(b.scopes, n) <=> Bound(a.scopes, n)
  BY <1>1, SameLookup DEF Uses
<1> QED BY <1>2, <1>3 DEF Analyses

LEMMA UsesNone ==
  ASSUME NEW sc PROVE Uses(sc, sc, {})
BY DEF Uses, SameNames

LEMMA AnalysesNone ==
  ASSUME NEW a \in Envs PROVE Analyses(a, a, {})
BY UsesNone DEF Analyses

LEMMA ReportAnalyses ==
  ASSUME NEW a \in Envs, NEW kind \in ErrorKinds \cup WarningKinds,
         NEW n \in Subjects, NEW wrong
  PROVE  /\ Analyses(report(a, kind, n, wrong), a, {})
         /\ kind \in ErrorKinds /\ Clean(report(a, kind, n, wrong)) => ~wrong
         /\ a.diags \subseteq report(a, kind, n, wrong).diags
<1> DEFINE b == report(a, kind, n, wrong)
<1>1. b \in Envs /\ b.scopes = a.scopes /\ b.assigned = a.assigned
  BY ReportType
<1>2. a.diags \subseteq b.diags /\ (wrong => <<kind, n>> \in b.diags)
  BY DEF report, Envs
<1>3. Uses(b.scopes, a.scopes, {})
  BY <1>1, UsesNone
<1>4. Analyses(b, a, {})
  BY <1>1, <1>2, <1>3 DEF Analyses
<1>5. kind \in ErrorKinds /\ Clean(b) => ~wrong
  BY <1>2 DEF Clean
<1> QED BY <1>2, <1>4, <1>5

LEMMA VarsOfOne ==
  /\ VarsOf(<<>>) = {}
  /\ \A e : VarsOf(<<e>>) = VarsIn[e]
  /\ \A xs, ys \in {<<>>} \cup {<<e>> : e \in Exprs} :
       VarsOf(xs \o ys) = VarsOf(xs) \cup VarsOf(ys)
<1>1. \A xs : VarsOf(xs) = UNION {VarsIn[xs[i]] : i \in DOMAIN xs}
  BY VarsInIs
<1>2. VarsOf(<<>>) = {}
  BY <1>1
<1>3. \A e : VarsOf(<<e>>) = VarsIn[e]
  <2> TAKE e
  <2>1. DOMAIN <<e>> = {1} /\ <<e>>[1] = e
    OBVIOUS
  <2> QED BY <1>1, <2>1
<1>4. ASSUME NEW xs \in {<<>>} \cup {<<e>> : e \in Exprs},
             NEW ys \in {<<>>} \cup {<<e>> : e \in Exprs}
      PROVE  VarsOf(xs \o ys) = VarsOf(xs) \cup VarsOf(ys)
  <2>1. CASE xs = <<>>
    <3>1. xs \o ys = ys
      BY <2>1
    <3> QED BY <1>2, <2>1, <3>1
  <2>2. CASE ys = <<>>
    <3>1. xs \o ys = xs
      BY <2>2
    <3> QED BY <1>2, <2>2, <3>1
  <2>3. CASE xs # <<>> /\ ys # <<>>
    <3>1. PICK e \in Exprs : xs = <<e>>
      BY <2>3
    <3>2. PICK f \in Exprs : ys = <<f>>
      BY <2>3
    <3> DEFINE zs == xs \o ys
    <3>3. xs \in Seq(Exprs) /\ ys \in Seq(Exprs) /\ Len(xs) = 1 /\ Len(ys) = 1
      BY <3>1, <3>2
    <3>4. zs \in Seq(Exprs) /\ Len(zs) = 2 /\ zs[1] = xs[1] /\ zs[2] = ys[1]
      <4>1. /\ zs \in Seq(Exprs) /\ Len(zs) = Len(xs) + Len(ys)
            /\ \A i \in 1 .. Len(xs) + Len(ys) :
                 zs[i] = IF i <= Len(xs) THEN xs[i] ELSE ys[i - Len(xs)]
        BY <3>3, ConcatProperties
      <4> HIDE DEF zs
      <4> QED BY <3>3, <4>1
    <3>5. DOMAIN zs = {1, 2} /\ zs[1] = e /\ zs[2] = f
      BY <3>1, <3>2, <3>4
    <3> HIDE DEF zs
    <3>6. VarsOf(zs) = VarsIn[e] \cup VarsIn[f]
      BY <1>1, <3>5
    <3> QED BY <1>3, <3>1, <3>2, <3>6 DEF zs
  <2> QED BY <2>1, <2>2, <2>3
<1> QED BY <1>2, <1>3, <1>4

\* analyzeExpr marks the variables of the expression, and warns of those that
\* may hold no value.
LEMMA ExprAnalyses ==
  ASSUME NEW a \in Envs, NEW xs, IsOptional(xs), Clean(analyzeExpr(a, xs))
  PROVE  Analyses(analyzeExpr(a, xs), a, VarsOf(xs))
<1>1. CASE xs = <<>>
  <2>1. analyzeExpr(a, xs) = a /\ VarsOf(xs) = {}
    BY <1>1, VarsOfOne DEF analyzeExpr
  <2> QED BY <2>1, AnalysesNone
<1>2. ASSUME xs # <<>> PROVE Analyses(analyzeExpr(a, xs), a, VarsOf(xs))
  <2>1. PICK e \in Exprs : xs = <<e>>
    BY <1>2 DEF IsOptional
  <2> DEFINE ts(c) == [i \in DOMAIN c.args |-> TypesIn(a.scopes)[c.args[i]]]
             own(c) == OwnDiags(a.scopes, a.assigned, c, ts(c))
             reached == Reached[e]
             names == {c.id : c \in {d \in reached : d.op = "var"}}
             says == Diagnostic \cap UNION {own(c) : c \in reached}
             b == [a EXCEPT !.scopes = markUsed(@, names), !.diags = @ \cup says]
  <2>2. xs # <<>> /\ xs[1] = e
    BY <2>1
  <2>3. analyzeExpr(a, xs) = b
    BY <2>2 DEF analyzeExpr
  <2>4. /\ b.scopes = markUsed(a.scopes, names) /\ b.assigned = a.assigned
        /\ b.diags = a.diags \cup says
    BY DEF Envs
  <2>5. \A c \in reached : own(c) \cap Diagnostic \subseteq b.diags
    BY <2>4
  <2> HIDE DEF says, b
  <2>6. Clean(b) /\ b \in Envs
    BY <2>3, ExprType
  <2>7. \A c \in reached : c.op = "call" => Declared(c.id)
    <3> SUFFICES ASSUME NEW c \in reached, c.op = "call", ~Declared(c.id) PROVE FALSE
      OBVIOUS
    <3>1. <<"function", "">> \in own(c)
      BY DEF OwnDiags, callIsWrong
    <3>2. <<"function", "">> \in Diagnostic /\ "function" \in ErrorKinds
      BY DEF Diagnostic, ErrorKinds, Subjects
    <3>3. <<"function", "">> \in b.diags
      BY <2>5, <3>1, <3>2
    <3> HIDE DEF own, reached
    <3> QED BY <2>6, <3>2, <3>3 DEF Clean
  <2>8. VarsIn[e] \subseteq names /\ VarsOf(xs) = VarsIn[e]
    BY <2>1, <2>7, VarsAreReached, VarsOfOne
  <2>9. ASSUME NEW n \in VarsIn[e], Bound(a.scopes, n), n \notin a.assigned
        PROVE  <<"uninitialized", n>> \in b.diags
    <3>1. PICK c \in reached : c.op = "var" /\ c.id = n
      BY <2>8, <2>9
    <3>2. own(c) = {<<"uninitialized", n>>}
      BY <2>9, <3>1 DEF OwnDiags, isVariableDeclared
    <3>3. a.scopes \in Seq(Scopes)
      BY EnvTyped
    <3>4. PICK i \in 1 .. Len(a.scopes) : n \in DOMAIN a.scopes[i]
      BY <2>9, <3>3, Found
    <3>5. a.scopes[i] \in Scopes
      BY <3>3, <3>4
    <3>6. n \in Name
      BY <3>4, <3>5, ScopeElim
    <3>7. <<"uninitialized", n>> \in Diagnostic
      BY <3>6 DEF Diagnostic, WarningKinds, Subjects
    <3> HIDE DEF own, reached
    <3> QED BY <2>5, <3>1, <3>2, <3>7
  <2>10. Uses(b.scopes, a.scopes, VarsOf(xs))
    <3> HIDE DEF names
    <3> QED BY <2>4, <2>8, MarkUses, EnvTyped
  <2> HIDE DEF names, reached, own
  <2>11. Analyses(b, a, VarsOf(xs))
    BY <2>4, <2>6, <2>8, <2>9, <2>10 DEF Analyses
  <2> QED BY <2>3, <2>11
<1> QED BY <1>1, <1>2

LEMMA ReportedAnalyses ==
  ASSUME NEW a \in Envs, NEW xs, IsOptional(xs), NEW kind \in ErrorKinds \cup WarningKinds,
         NEW wrong, Clean(report(analyzeExpr(a, xs), kind, "", wrong))
  PROVE  Analyses(report(analyzeExpr(a, xs), kind, "", wrong), a, VarsOf(xs))
<1> DEFINE b == analyzeExpr(a, xs)
           c == report(b, kind, "", wrong)
<1>1. b \in Envs
  BY ExprType
<1>2. "" \in Subjects
  BY DEF Subjects
<1> HIDE DEF b
<1>3. Analyses(c, b, {}) /\ b.diags \subseteq c.diags
  BY <1>1, <1>2, ReportAnalyses
<1> HIDE DEF c
<1>4. Clean(c)
  BY DEF b, c
<1>5. Clean(b)
  BY <1>3, <1>4, CleanBefore
<1>6. Analyses(b, a, VarsOf(xs))
  BY <1>5, ExprAnalyses DEF b
<1>7. Analyses(c, a, VarsOf(xs) \cup {})
  BY <1>3, <1>6, AnalysesTrans
<1>8. VarsOf(xs) \cup {} = VarsOf(xs)
  OBVIOUS
<1> QED BY <1>7, <1>8 DEF b, c

LEMMA ConditionAnalyses ==
  ASSUME NEW a \in Envs, NEW xs, IsOptional(xs), Clean(analyzeCondition(a, xs))
  PROVE  Analyses(analyzeCondition(a, xs), a, VarsOf(xs))
<1> DEFINE wrong == xs # <<>> /\ exprType(a, xs) \notin {"int", "bool", "unknown"}
<1>1. analyzeCondition(a, xs) = report(analyzeExpr(a, xs), "type", "", wrong)
  BY DEF analyzeCondition
<1>2. "type" \in ErrorKinds \cup WarningKinds
  BY DEF ErrorKinds
<1> HIDE DEF wrong
<1> QED BY <1>1, <1>2, ReportedAnalyses

LEMMA ReturnAnalyses ==
  ASSUME NEW a \in Envs, NEW n, IsOptional(n.expr), Clean(analyzeReturnValue(a, n))
  PROVE  Analyses(analyzeReturnValue(a, n), a, VarsOf(n.expr))
<1> DEFINE type == exprType(a, n.expr)
           ret == currentFunctionReturnType
           wrong == /\ insideFunction
                    /\ IF n.expr = <<>> THEN ret # "void"
                       ELSE ret = "void" \/ type \notin {ret, "unknown"}
<1>1. analyzeReturnValue(a, n) = report(analyzeExpr(a, n.expr), "return", "", wrong)
  BY DEF analyzeReturnValue
<1>2. "return" \in ErrorKinds \cup WarningKinds
  BY DEF ErrorKinds
<1> HIDE DEF wrong
<1> QED BY <1>1, <1>2, ReportedAnalyses

--------------------------------------------------------------------------------
(***************************************************************************)
(* An environment of the analyzer next to the variables of the run.  The   *)
(* warnings matter in programs that neither reuse a name nor assign one    *)
(* first in a for-increment.                                               *)
(***************************************************************************)
Strict == ~class.reuse /\ ~class.incAssigns

Warned(m, a) == \A n \in m.uninit : <<"uninitialized", n>> \in a.diags

Joint(a, m, k) ==
  /\ a \in Envs /\ MemoryOK(m, k) /\ Tied(a.scopes, m.store)
  /\ Strict => Warned(m, a)
  /\ Strict /\ status = "live" => Initialized(m.store, a.assigned)

\* The expressions xs are analysed, and read if the run is there.
Reads(m, xs) == IF status = "live" THEN Run!Read(m, xs) ELSE m

LEMMA JointAnalyses ==
  ASSUME NEW k \in Nat \ {0}, NEW a, NEW m, Joint(a, m, k), NEW xs, NEW a2,
         Analyses(a2, a, VarsOf(xs))
  PROVE  Joint(a2, Reads(m, xs), k) /\ Moves(Reads(m, xs).store, m.store, {})
<1>0. k \in Nat
  OBVIOUS
<1>1. /\ a \in Envs /\ a2 \in Envs /\ MemoryOK(m, k) /\ Tied(a.scopes, m.store)
      /\ a.scopes \in Seq(Scopes) /\ a2.assigned = a.assigned /\ a.diags \subseteq a2.diags
      /\ Uses(a2.scopes, a.scopes, VarsOf(xs))
      /\ m.store \in Seq(Run!Variables) /\ m.store # <<>>
  BY <1>0, EnvTyped, StoreTyped DEF Joint, Analyses
<1>2. CASE status # "live"
  <2>1. Reads(m, xs) = m
    BY <1>2 DEF Reads
  <2>2. Tied(a2.scopes, m.store)
    BY <1>1, TiedUses
  <2>3. Moves(m.store, m.store, {})
    BY MovesNot
  <2> QED BY <1>1, <1>2, <2>1, <2>2, <2>3 DEF Joint, Warned
<1>3. CASE status = "live"
  <2> DEFINE r == Run!Read(m, xs)
  <2>1. Reads(m, xs) = r
    BY <1>3 DEF Reads
  <2>2. MemoryOK(r, k) /\ Tied(a2.scopes, r.store)
    BY <1>0, <1>1, ReadType, TiedReads
  <2>3. /\ Moves(r.store, m.store, {})
        /\ \A n \in r.uninit :
              \/ n \in m.uninit
              \/ n \in VarsOf(xs) /\ Bound(m.store, n) /\ ~Find(m.store, n).init
    BY <1>0, <1>1, ReadMoves
  <2>4. r.store \in Seq(Run!Variables)
    BY <1>0, <2>2, StoreTyped
  <2> HIDE DEF r
  <2>5. Persists(r.store, m.store, a.assigned)
    BY <1>1, <2>3, <2>4, MovesPersist
  <2>6. Strict => Initialized(m.store, a.assigned) /\ Initialized(r.store, a.assigned)
    BY <1>3, <2>5, InitializedPersists DEF Joint
  <2>7. ASSUME Strict, NEW n \in r.uninit PROVE <<"uninitialized", n>> \in a2.diags
    <3>1. CASE n \in m.uninit
      BY <1>1, <2>7, <3>1 DEF Joint, Warned
    <3>2. CASE n \in VarsOf(xs) /\ Bound(m.store, n) /\ ~Find(m.store, n).init
      <4>1. n \notin a.assigned
        BY <2>6, <2>7, <3>2 DEF Initialized
      <4>2. Bound(a.scopes, n)
        BY <1>1, <3>2, SameLookup DEF Tied
      <4> QED BY <3>2, <4>1, <4>2 DEF Analyses
    <3> QED BY <2>3, <3>1, <3>2
  <2>8. Joint(a2, r, k)
    BY <1>1, <1>3, <2>2, <2>6, <2>7 DEF Joint, Warned
  <2> QED BY <2>1, <2>3, <2>8
<1> QED BY <1>2, <1>3

\* A variable is assigned.
Writes(m, v) == IF status = "live" THEN Run!Write(m, v) ELSE m

LEMMA JointAssigns ==
  ASSUME NEW k \in Nat \ {0}, NEW a, NEW m, Joint(a, m, k), NEW v \in Name
  PROVE  /\ Joint([a EXCEPT !.assigned = @ \cup {v}], Writes(m, v), k)
         /\ Moves(Writes(m, v).store, m.store, {})
<1> DEFINE b == [a EXCEPT !.assigned = @ \cup {v}]
<1>0. k \in Nat
  OBVIOUS
<1>1. /\ a \in Envs /\ MemoryOK(m, k) /\ Tied(a.scopes, m.store)
      /\ a.scopes \in Seq(Scopes) /\ m.store \in Seq(Run!Variables) /\ m.store # <<>>
  BY <1>0, EnvTyped, StoreTyped DEF Joint
<1>2. /\ b \in Envs /\ b.scopes = a.scopes /\ b.diags = a.diags
      /\ b.assigned = a.assigned \cup {v}
  BY <1>1 DEF Envs
<1> HIDE DEF b
<1>3. CASE status # "live"
  <2>1. Writes(m, v) = m
    BY <1>3 DEF Writes
  <2>2. Moves(m.store, m.store, {})
    BY MovesNot
  <2>3. Joint(b, m, k)
    BY <1>1, <1>2, <1>3 DEF Joint, Warned
  <2> QED BY <2>1, <2>2, <2>3 DEF b
<1>4. CASE status = "live"
  <2> DEFINE w == Run!Write(m, v)
  <2>1. Writes(m, v) = w
    BY <1>4 DEF Writes
  <2>2. MemoryOK(w, k) /\ Tied(a.scopes, w.store)
    BY <1>0, <1>1, WriteType, TiedWrites
  <2>3. /\ SameNames(w.store, m.store) /\ Moves(w.store, m.store, {})
        /\ Bound(m.store, v) => Find(w.store, v).init
        /\ w.uninit = m.uninit
    BY <1>0, <1>1, WriteMoves
  <2>4. w.store \in Seq(Run!Variables)
    BY <1>0, <2>2, StoreTyped
  <2> HIDE DEF w
  <2>5. Persists(w.store, m.store, a.assigned)
    BY <1>1, <2>3, <2>4, MovesPersist
  <2>6. Bound(w.store, v) => Find(w.store, v).init
    BY <1>1, <2>3, <2>4, SameLookup
  <2>7. Strict => Initialized(w.store, a.assigned)
    BY <1>4, <2>5, InitializedPersists DEF Joint
  <2>8. Strict => Initialized(w.store, b.assigned)
    BY <1>2, <2>6, <2>7 DEF Initialized
  <2>9. Joint(b, w, k)
    BY <1>1, <1>2, <2>2, <2>3, <2>8 DEF Joint, Warned
  <2> QED BY <2>1, <2>3, <2>9 DEF b
<1> QED BY <1>3, <1>4

\* A variable is declared.
LEMMA JointDeclares ==
  ASSUME NEW k \in Nat \ {0}, NEW a, NEW m, Joint(a, m, k), NEW n, n.kind = "decl",
         n.name \in Name, n.name \notin DOMAIN Last(a.scopes),
         Strict => n.name \notin a.assigned
  PROVE  Joint([a EXCEPT !.scopes = declareVariable(@, n.name, "int")],
               Run!DeclareIn(m, n), k)
<1> DEFINE d == Run!DeclareIn(m, n)
           b == [a EXCEPT !.scopes = declareVariable(@, n.name, "int")]
<1>0. k \in Nat
  OBVIOUS
<1>1. /\ a \in Envs /\ MemoryOK(m, k) /\ Tied(a.scopes, m.store)
      /\ a.scopes \in Seq(Scopes) /\ m.store \in Seq(Run!Variables) /\ m.store # <<>>
      /\ Len(a.scopes) = k
  BY <1>0, EnvTyped, StoreTyped DEF Joint, Tied, SameNames
<1>2. a.scopes # <<>> /\ "int" \in DataTypes
  BY <1>1 DEF DataTypes
<1>3. declareVariable(a.scopes, n.name, "int") \in Seq(Scopes)
  BY <1>1, <1>2, DeclareType
<1>4. /\ b \in Envs /\ b.assigned = a.assigned /\ b.diags = a.diags
      /\ b.scopes = declareVariable(a.scopes, n.name, "int")
  BY <1>1, <1>3 DEF Envs
<1>5. MemoryOK(d, k) /\ d.uninit = m.uninit /\ Moves(d.store, m.store, Declares(n))
  BY <1>1, DeclareInType, DeclareMoves
<1>6. Tied(b.scopes, d.store)
  BY <1>1, <1>4, TiedDeclare
<1>7. d.store \in Seq(Run!Variables)
  BY <1>0, <1>5, StoreTyped
<1> HIDE DEF d, b
<1>8. Strict => Persists(d.store, m.store, a.assigned)
  <2>1. Strict => Declares(n) \cap a.assigned = {}
    BY DEF Declares
  <2> QED BY <1>1, <1>5, <1>7, <2>1, MovesPersist
<1>9. Strict /\ status = "live" => Initialized(d.store, a.assigned)
  BY <1>8, InitializedPersists DEF Joint
<1>10. Joint(b, d, k)
  BY <1>1, <1>4, <1>5, <1>6, <1>9 DEF Joint, Warned
<1> QED BY <1>10 DEF b, d

LEMMA ExprGrows ==
  ASSUME NEW a \in Envs, NEW xs
  PROVE  a.diags \subseteq analyzeExpr(a, xs).diags
BY DEF analyzeExpr, Envs

LEMMA AssignedType ==
  ASSUME NEW a \in Envs, NEW v \in Name
  PROVE  /\ [a EXCEPT !.assigned = @ \cup {v}] \in Envs
         /\ [a EXCEPT !.assigned = @ \cup {v}].diags = a.diags
         /\ [a EXCEPT !.assigned = @ \cup {v}].scopes = a.scopes
         /\ [a EXCEPT !.assigned = @ \cup {v}].assigned = a.assigned \cup {v}
BY DEF Envs

LEMMA DeclaredType ==
  ASSUME NEW a \in Envs, a.scopes # <<>>, NEW v \in Name
  PROVE  /\ [a EXCEPT !.scopes = declareVariable(@, v, "int")] \in Envs
         /\ [a EXCEPT !.scopes = declareVariable(@, v, "int")].diags = a.diags
         /\ [a EXCEPT !.scopes = declareVariable(@, v, "int")].assigned = a.assigned
         /\ [a EXCEPT !.scopes = declareVariable(@, v, "int")].scopes
              = declareVariable(a.scopes, v, "int")
<1>1. declareVariable(a.scopes, v, "int") \in Seq(Scopes)
  BY EnvTyped, DeclareType DEF DataTypes
<1> QED BY <1>1 DEF Envs

\* The parts of a declaration that is no redeclaration.
LEMMA DeclarationParts ==
  ASSUME NEW a \in Envs, a.scopes # <<>>, NEW n, n.name \in Name, IsOptional(n.expr),
         Clean(analyzeVarDecl(a, n)), NEW d, d = [a EXCEPT !.scopes = declareVariable(@, n.name, "int")]
  PROVE  /\ n.name \notin DOMAIN Last(a.scopes)
         /\ a.diags \subseteq analyzeVarDecl(a, n).diags
         /\ n.expr = <<>> => analyzeVarDecl(a, n) = d
         /\ n.expr # <<>> => \E b : /\ Analyses(b, d, VarsOf(n.expr))
                                   /\ analyzeVarDecl(a, n)
                                        = [b EXCEPT !.assigned = @ \cup {n.name}]
<1> DEFINE c == analyzeVarDecl(a, n)
           type == exprType(d, n.expr)
           b == report(analyzeExpr(d, n.expr), "type", "", type \notin {"int", "unknown"})
<1>0. /\ "type" \in ErrorKinds \cup WarningKinds /\ "redeclared" \in ErrorKinds
      /\ "redeclared" \in ErrorKinds \cup WarningKinds /\ n.name \in Subjects
      /\ "" \in Subjects
  BY DEF ErrorKinds, Subjects
<1>1. d \in Envs /\ d.diags = a.diags
  BY DeclaredType
<1>2. n.name \notin DOMAIN Last(a.scopes)
  <2> SUFFICES ASSUME n.name \in DOMAIN Last(a.scopes) PROVE FALSE
    OBVIOUS
  <2>1. c = report(a, "redeclared", n.name, TRUE)
    BY DEF analyzeVarDecl
  <2>2. Clean(report(a, "redeclared", n.name, TRUE))
    BY <2>1
  <2> QED BY <1>0, <2>2, ReportAnalyses
<1>3. c = IF n.expr = <<>> THEN d ELSE [b EXCEPT !.assigned = @ \cup {n.name}]
  BY <1>2 DEF analyzeVarDecl
<1>4. analyzeExpr(d, n.expr) \in Envs /\ d.diags \subseteq analyzeExpr(d, n.expr).diags
  BY <1>1, ExprType, ExprGrows
<1> HIDE DEF type, c
<1>5. b \in Envs /\ analyzeExpr(d, n.expr).diags \subseteq b.diags
  BY <1>0, <1>4, ReportType, ReportAnalyses
<1>6. [b EXCEPT !.assigned = @ \cup {n.name}].diags = b.diags
  BY <1>5, AssignedType
<1>7. ASSUME n.expr # <<>> PROVE Analyses(b, d, VarsOf(n.expr))
  <2>1. c.diags = b.diags
    BY <1>3, <1>6, <1>7
  <2>2. Clean(b)
    BY <2>1 DEF Clean, c
  <2> QED BY <1>0, <1>1, <2>2, ReportedAnalyses
<1> HIDE DEF b
<1>8. a.diags \subseteq c.diags
  BY <1>1, <1>3, <1>4, <1>5, <1>6
<1> QED BY <1>2, <1>3, <1>7, <1>8 DEF c

\* The parts of an assignment to a declared variable.
LEMMA AssignmentParts ==
  ASSUME NEW a \in Envs, NEW n, n.name \in Name, n.expr \in Exprs,
         Clean(analyzeAssignment(a, n))
  PROVE  /\ Bound(a.scopes, n.name)
         /\ a.diags \subseteq analyzeAssignment(a, n).diags
         /\ \E b : /\ Analyses(b, a, VarsOf(<<n.expr>>))
                   /\ analyzeAssignment(a, n) = [b EXCEPT !.assigned = @ \cup {n.name}]
<1> DEFINE c == analyzeAssignment(a, n)
           declared == isVariableDeclared(a.scopes, n.name)
           r == report(a, "undeclared", n.name, ~declared)
           wrong == exprType(a, <<n.expr>>)
                      \notin {lookupVariable(a.scopes, n.name).type, "unknown"}
           b == report(analyzeExpr(r, <<n.expr>>), "type", "", wrong)
<1>0. /\ "type" \in ErrorKinds \cup WarningKinds /\ "undeclared" \in ErrorKinds
      /\ "undeclared" \in ErrorKinds \cup WarningKinds /\ n.name \in Subjects
      /\ "" \in Subjects
  BY DEF ErrorKinds, Subjects
<1>1. c = IF declared THEN [b EXCEPT !.assigned = @ \cup {n.name}]
          ELSE analyzeExpr(r, <<n.expr>>)
  BY DEF analyzeAssignment
<1>2. declared
  <2> SUFFICES ASSUME ~declared PROVE FALSE
    OBVIOUS
  <2>1. r \in Envs
    BY <1>0, ReportType
  <2>2. r.diags \subseteq c.diags
    BY <1>1, <2>1, ExprGrows
  <2>3. Clean(r)
    BY <2>2, CleanBefore
  <2> HIDE DEF declared, c
  <2> QED BY <1>0, <2>3, ReportAnalyses
<1>3. r = a
  BY <1>2 DEF report
<1>4. c = [b EXCEPT !.assigned = @ \cup {n.name}]
  BY <1>1, <1>2
<1> HIDE DEF r, wrong, c
<1>5. analyzeExpr(r, <<n.expr>>) \in Envs /\ a.diags \subseteq analyzeExpr(r, <<n.expr>>).diags
  BY <1>3, ExprType, ExprGrows
<1>6. b \in Envs /\ analyzeExpr(r, <<n.expr>>).diags \subseteq b.diags
  BY <1>0, <1>5, ReportType, ReportAnalyses
<1>7. [b EXCEPT !.assigned = @ \cup {n.name}].diags = b.diags
  BY <1>6, AssignedType
<1>8. Clean(b)
  BY <1>4, <1>7 DEF Clean, c
<1>9. IsOptional(<<n.expr>>)
  BY DEF IsOptional
<1>10. Analyses(b, a, VarsOf(<<n.expr>>))
  BY <1>0, <1>3, <1>8, <1>9, ReportedAnalyses
<1> HIDE DEF b
<1>11. a.diags \subseteq c.diags
  BY <1>4, <1>5, <1>6, <1>7
<1> QED BY <1>2, <1>4, <1>10, <1>11 DEF c, isVariableDeclared

\* A statement without control flow: its analysis next to its execution.
LEMMA JointSimple ==
  ASSUME NEW k \in Nat \ {0}, NEW a, NEW m, Joint(a, m, k), NEW n, IsSimple(n),
         Clean(analyzeSimple(a, n)), Strict => Declares(n) \cap a.assigned = {}
  PROVE  /\ Joint(analyzeSimple(a, n), Run!Simple(m, n), k)
         /\ Moves(Run!Simple(m, n).store, m.store, Declares(n))
         /\ a.diags \subseteq analyzeSimple(a, n).diags
         /\ \A x \in analyzeSimple(a, n).assigned :
              x \in a.assigned \/ Bound(Run!Simple(m, n).store, x)
         /\ n.kind = "decl" /\ n.expr # <<>> => n.name \in analyzeSimple(a, n).assigned
<1> DEFINE c == analyzeSimple(a, n)
           s == Run!Simple(m, n)
<1>0. k \in Nat /\ k # 0
  OBVIOUS
<1>1. /\ a \in Envs /\ MemoryOK(m, k) /\ a.scopes \in Seq(Scopes) /\ a.assigned \in SUBSET Name
      /\ Len(a.scopes) = k
  BY <1>0, EnvTyped, StoreTyped DEF Joint, Tied, SameNames
<1>2. a.scopes # <<>>
  BY <1>0, <1>1
<1>3. CASE n.kind = "decl"
  <2> DEFINE d == [a EXCEPT !.scopes = declareVariable(@, n.name, "int")]
             e == Run!DeclareIn(m, n)
  <2>1. c = analyzeVarDecl(a, n)
    BY <1>3 DEF analyzeSimple
  <2>2. n.name \in Name /\ IsOptional(n.expr) /\ Declares(n) = {n.name}
    BY <1>3 DEF IsSimple, Declares
  <2>3. /\ n.name \notin DOMAIN Last(a.scopes) /\ a.diags \subseteq c.diags
        /\ n.expr = <<>> => c = d
        /\ n.expr # <<>> => \E b : /\ Analyses(b, d, VarsOf(n.expr))
                                   /\ c = [b EXCEPT !.assigned = @ \cup {n.name}]
    BY <1>1, <1>2, <2>1, <2>2, DeclarationParts
  <2>4. d \in Envs /\ d.assigned = a.assigned
    BY <1>1, <1>2, <2>2, DeclaredType
  <2>5. Joint(d, e, k)
    BY <1>3, <2>2, <2>3, JointDeclares
  <2>6. Moves(e.store, m.store, {n.name})
    <3>1. n.kind = "decl" => n.name \in Name
      BY <2>2
    <3>2. Moves(e.store, m.store, Declares(n))
      BY <1>1, <3>1, DeclareMoves
    <3> QED BY <2>2, <3>2
  <2>7. s = IF status = "live"
            THEN IF n.expr = <<>> THEN Run!Read(e, n.expr) ELSE Run!Write(Run!Read(e, n.expr), n.name)
            ELSE e
    BY <1>3 DEF Run!Simple, Run!Execute
  <2> HIDE DEF c, d, e, s
  <2>8. CASE n.expr = <<>>
    <3>1. Analyses(d, d, VarsOf(n.expr))
      BY <2>4, <2>8, AnalysesNone, VarsOfOne
    <3>2. Joint(d, Reads(e, n.expr), k) /\ Moves(Reads(e, n.expr).store, e.store, {})
      BY <2>5, <3>1, JointAnalyses
    <3>3. s = Reads(e, n.expr)
      BY <2>7, <2>8 DEF Reads
    <3>4. Moves(s.store, m.store, {n.name} \cup {})
      BY <2>6, <3>2, <3>3, MovesTrans
    <3>5. {n.name} \cup {} = {n.name}
      OBVIOUS
    <3>6. c.assigned = a.assigned
      BY <2>3, <2>4, <2>8
    <3>7. Joint(c, s, k) /\ Moves(s.store, m.store, Declares(n)) /\ a.diags \subseteq c.diags
      BY <2>2, <2>3, <2>8, <3>2, <3>3, <3>4, <3>5
    <3> QED BY <2>8, <3>6, <3>7 DEF c, s
  <2>9. CASE n.expr # <<>>
    <3>1. PICK b : /\ Analyses(b, d, VarsOf(n.expr))
                   /\ c = [b EXCEPT !.assigned = @ \cup {n.name}]
      BY <2>3, <2>9
    <3> DEFINE r == Reads(e, n.expr)
    <3>2. Joint(b, r, k) /\ Moves(r.store, e.store, {})
      BY <2>5, <3>1, JointAnalyses
    <3>3. s = Writes(r, n.name)
      BY <2>7, <2>9 DEF Reads, Writes
    <3> HIDE DEF r
    <3>4. Joint(c, s, k) /\ Moves(s.store, r.store, {})
      BY <2>2, <3>1, <3>2, <3>3, JointAssigns
    <3>5. Moves(r.store, m.store, {n.name} \cup {})
      BY <2>6, <3>2, MovesTrans
    <3>6. Moves(s.store, m.store, ({n.name} \cup {}) \cup {})
      BY <3>4, <3>5, MovesTrans
    <3>7. ({n.name} \cup {}) \cup {} = {n.name}
      OBVIOUS
    <3>8. b \in Envs /\ b.assigned = a.assigned
      BY <2>4, <3>1 DEF Analyses
    <3>9. c.assigned = a.assigned \cup {n.name}
      BY <2>2, <3>1, <3>8, AssignedType
    <3>10. Joint(c, s, k) /\ Moves(s.store, m.store, Declares(n)) /\ a.diags \subseteq c.diags
      BY <2>2, <2>3, <3>4, <3>6, <3>7
    <3>11. Moves(s.store, e.store, {} \cup {})
      BY <3>2, <3>4, MovesTrans
    <3>12. n.name \in DOMAIN e.store[k] /\ MemoryOK(e, k)
      BY <1>1, <1>3, <2>2, DeclareMoves, DeclareInType DEF e
    <3>13. Len(e.store) = k /\ Len(s.store) = k /\ s.store \in Seq(Run!Variables)
      BY <1>0, <3>4, <3>12, StoreTyped DEF Joint
    <3>14. n.name \in DOMAIN s.store[k] /\ k \in 1 .. Len(s.store)
      BY <1>0, <3>11, <3>12, <3>13 DEF Moves
    <3>15. Bound(s.store, n.name)
      BY <3>13, <3>14, Found
    <3> QED BY <3>9, <3>10, <3>15 DEF c, s
  <2> QED BY <2>8, <2>9
<1>4. CASE n.kind = "assign"
  <2> DEFINE xs == <<n.expr>>
             r == Reads(m, xs)
  <2>1. c = analyzeAssignment(a, n)
    BY <1>4 DEF analyzeSimple
  <2>2. n.name \in Name /\ n.expr \in Exprs /\ Declares(n) = {}
    BY <1>4 DEF IsSimple, Declares
  <2>3. /\ Bound(a.scopes, n.name) /\ a.diags \subseteq c.diags
        /\ \E b : /\ Analyses(b, a, VarsOf(xs))
                  /\ c = [b EXCEPT !.assigned = @ \cup {n.name}]
    BY <1>1, <2>1, <2>2, AssignmentParts
  <2>4. PICK b : /\ Analyses(b, a, VarsOf(xs))
                 /\ c = [b EXCEPT !.assigned = @ \cup {n.name}]
    BY <2>3
  <2>5. Run!DeclareIn(m, n) = m
    BY <1>1, <1>4 DEF Run!DeclareIn
  <2>6. s = Writes(r, n.name)
    BY <1>4, <2>5 DEF Run!Simple, Run!Execute, Reads, Writes
  <2> HIDE DEF xs
  <2>7. Joint(b, r, k) /\ Moves(r.store, m.store, {})
    BY <2>4, JointAnalyses
  <2> HIDE DEF r, c, s
  <2>8. Joint(c, s, k) /\ Moves(s.store, r.store, {})
    BY <2>2, <2>4, <2>6, <2>7, JointAssigns
  <2>9. Moves(s.store, m.store, {} \cup {})
    BY <2>7, <2>8, MovesTrans
  <2>10. {} \cup {} = {}
    OBVIOUS
  <2>11. b \in Envs /\ b.assigned = a.assigned
    BY <2>4 DEF Analyses
  <2>12. c.assigned = a.assigned \cup {n.name}
    BY <2>2, <2>4, <2>11, AssignedType
  <2>13. Joint(c, s, k) /\ Moves(s.store, m.store, Declares(n)) /\ a.diags \subseteq c.diags
    BY <2>2, <2>3, <2>8, <2>9, <2>10
  <2>14. Bound(s.store, n.name)
    BY <1>0, <1>1, <2>3, <2>13, MovesBound, SameLookup, StoreTyped DEF Joint, Tied
  <2> QED BY <1>4, <2>12, <2>13, <2>14 DEF c, s
<1>5. CASE n.kind = "expr"
  <2> DEFINE xs == <<n.expr>>
  <2>1. c = analyzeExpr(a, xs)
    BY <1>5 DEF analyzeSimple
  <2>2. IsOptional(xs) /\ Declares(n) = {}
    BY <1>5 DEF IsSimple, Declares, IsOptional
  <2>3. Run!DeclareIn(m, n) = m
    BY <1>1, <1>5 DEF Run!DeclareIn
  <2>4. s = Reads(m, xs)
    BY <1>5, <2>3 DEF Run!Simple, Run!Execute, Reads
  <2> HIDE DEF xs
  <2>5. Analyses(c, a, VarsOf(xs))
    BY <1>1, <2>1, <2>2, ExprAnalyses
  <2> HIDE DEF c, s
  <2>6. Joint(c, s, k) /\ Moves(s.store, m.store, {})
    BY <2>4, <2>5, JointAnalyses
  <2>7. a.diags \subseteq c.diags /\ c.assigned = a.assigned
    BY <2>5 DEF Analyses
  <2> QED BY <1>5, <2>2, <2>6, <2>7 DEF c, s
<1> HIDE DEF c, s
<1> QED BY <1>3, <1>4, <1>5 DEF IsSimple, SimpleKinds

--------------------------------------------------------------------------------
(***************************************************************************)
(* Scopes that open, and the header of a for-statement.                    *)
(***************************************************************************)
LEMMA OpenedPersists ==
  ASSUME NEW st \in Seq(Run!Variables), st # <<>>, NEW s2, s2 = Append(st, EmptyScope), NEW Y
  PROVE  /\ Persists(s2, st, Y) /\ s2 \in Seq(Run!Variables)
         /\ \A n : Bound(s2, n) <=> Bound(st, n)
<1>1. /\ s2 \in Seq(Run!Variables) /\ Len(st) \in Nat \ {0} /\ Len(s2) = Len(st) + 1
      /\ \A i \in 1 .. Len(st) : s2[i] = st[i]
      /\ s2[Len(st) + 1] = EmptyScope
  BY NoVariables, RunLooksUp
<1>2. DOMAIN EmptyScope = {}
  BY DEF EmptyScope
<1>3. \A i \in 1 .. Len(s2) : i \in 1 .. Len(st) \/ i = Len(st) + 1
  BY <1>1
<1>4. ASSUME NEW n, NEW i PROVE Holds(s2, n, i) <=> Holds(st, n, i)
  <2>1. 1 .. Len(st) \subseteq 1 .. Len(s2)
    BY <1>1
  <2> QED BY <1>1, <1>2, <1>3, <2>1 DEF Holds
<1>5. \A n : Bound(s2, n) <=> Bound(st, n)
  BY <1>1, <1>4, Found, InnermostIs
<1>6. ASSUME NEW n \in Y, Bound(s2, n) PROVE Find(s2, n) = Find(st, n)
  <2> DEFINE i == Innermost(s2, n)
  <2>1. Holds(s2, n, i) /\ Find(s2, n) = s2[i][n]
    BY <1>1, <1>6, Found
  <2> HIDE DEF i
  <2>2. Holds(st, n, i)
    BY <1>4, <2>1
  <2>3. Find(st, n) = st[i][n] /\ i \in 1 .. Len(st)
    BY <2>2, InnermostIs DEF Holds
  <2> QED BY <1>1, <2>1, <2>3
<1>7. s2[1] = st[1]
  BY <1>1
<1> QED BY <1>1, <1>5, <1>6, <1>7 DEF Persists

LEMMA JointOpens ==
  ASSUME NEW k \in Nat \ {0}, NEW a, NEW m, Joint(a, m, k)
  PROVE  Joint([a EXCEPT !.scopes = Append(@, EmptyScope)],
               [m EXCEPT !.store = Append(@, Run!EmptyScope)], k + 1)
<1> DEFINE b == [a EXCEPT !.scopes = Append(@, EmptyScope)]
           o == [m EXCEPT !.store = Append(@, Run!EmptyScope)]
<1>0. k \in Nat /\ k # 0 /\ Run!EmptyScope = EmptyScope
  BY RunLooksUp
<1>1. /\ a \in Envs /\ MemoryOK(m, k) /\ Tied(a.scopes, m.store)
      /\ a.scopes \in Seq(Scopes) /\ m.store \in Seq(Run!Variables) /\ m.store # <<>>
      /\ Len(a.scopes) = k /\ Len(m.store) = k
  BY <1>0, EnvTyped, StoreTyped DEF Joint, Tied, SameNames
<1>2. /\ b \in Envs /\ b.assigned = a.assigned /\ b.diags = a.diags
      /\ b.scopes = Append(a.scopes, EmptyScope)
  <2>1. Append(a.scopes, EmptyScope) \in Seq(Scopes)
    BY <1>1, EmptyScopeType
  <2> QED BY <1>1, <2>1 DEF Envs
<1>3. MemoryOK(o, k + 1)
  BY <1>0, <1>1, NewScopeType, NoVariables
<1>4. o.store = Append(m.store, EmptyScope) /\ o.uninit = m.uninit
  BY <1>0, <1>1 DEF MemoryOK
<1> HIDE DEF b, o
<1>5. Persists(o.store, m.store, a.assigned)
  BY <1>1, <1>4, OpenedPersists
<1>6. Tied(b.scopes, o.store)
  <2>1. /\ Len(b.scopes) = k + 1 /\ Len(o.store) = k + 1
        /\ \A i \in 1 .. k : b.scopes[i] = a.scopes[i] /\ o.store[i] = m.store[i]
        /\ b.scopes[k + 1] = EmptyScope /\ o.store[k + 1] = EmptyScope
    BY <1>1, <1>2, <1>4
  <2>2. \A i \in 1 .. k + 1 : i \in 1 .. k \/ i = k + 1
    OBVIOUS
  <2>3. DOMAIN EmptyScope = {}
    BY DEF EmptyScope
  <2> QED BY <1>1, <2>1, <2>2, <2>3 DEF Tied, SameNames, ReadIsUsed
<1>7. Strict /\ status = "live" => Initialized(o.store, a.assigned)
  BY <1>5, InitializedPersists DEF Joint
<1>8. Joint(b, o, k + 1)
  BY <1>2, <1>3, <1>4, <1>6, <1>7 DEF Joint, Warned
<1> QED BY <1>8 DEF b, o

\* What analysing an increment reads and assigns.
LEMMA IncrementParts ==
  ASSUME NEW a \in Envs, NEW inc, inc # <<>> => IsSimple(inc[1]) /\ inc[1].kind # "decl",
         Clean(analyzeOptional(a, inc)), NEW xs,
         xs = IF inc = <<>> THEN <<>> ELSE <<inc[1].expr>>
  PROVE  /\ IsOptional(xs) /\ a.diags \subseteq analyzeOptional(a, inc).diags
         /\ \E b : /\ Analyses(b, a, VarsOf(xs))
                   /\ \/ analyzeOptional(a, inc) = b
                      \/ /\ inc # <<>> /\ inc[1].kind = "assign" /\ Bound(a.scopes, inc[1].name)
                         /\ inc[1].name \in Name
                         /\ analyzeOptional(a, inc)
                              = [b EXCEPT !.assigned = @ \cup {inc[1].name}]
<1>1. CASE inc = <<>>
  <2>1. analyzeOptional(a, inc) = a /\ xs = <<>> /\ VarsOf(xs) = {}
    BY <1>1, VarsOfOne DEF analyzeOptional
  <2> QED BY <2>1, AnalysesNone DEF IsOptional
<1>2. ASSUME inc # <<>>, inc[1].kind = "expr"
      PROVE  /\ IsOptional(xs) /\ a.diags \subseteq analyzeOptional(a, inc).diags
             /\ Analyses(analyzeOptional(a, inc), a, VarsOf(xs))
  <2>1. analyzeOptional(a, inc) = analyzeExpr(a, xs)
    BY <1>2 DEF analyzeOptional, analyzeSimple
  <2>2. IsOptional(xs)
    BY <1>2 DEF IsOptional, IsSimple
  <2> QED BY <2>1, <2>2, ExprAnalyses, ExprGrows
<1>3. ASSUME inc # <<>>, inc[1].kind = "assign"
      PROVE  /\ IsOptional(xs) /\ a.diags \subseteq analyzeOptional(a, inc).diags
             /\ Bound(a.scopes, inc[1].name) /\ inc[1].name \in Name
             /\ \E b : /\ Analyses(b, a, VarsOf(xs))
                       /\ analyzeOptional(a, inc)
                              = [b EXCEPT !.assigned = @ \cup {inc[1].name}]
  <2>1. analyzeOptional(a, inc) = analyzeAssignment(a, inc[1])
    BY <1>3 DEF analyzeOptional, analyzeSimple
  <2>2. inc[1].name \in Name /\ inc[1].expr \in Exprs /\ xs = <<inc[1].expr>>
    BY <1>3 DEF IsSimple
  <2>3. IsOptional(xs)
    BY <2>2 DEF IsOptional
  <2>4. Clean(analyzeAssignment(a, inc[1]))
    BY <2>1
  <2>5. /\ Bound(a.scopes, inc[1].name)
        /\ a.diags \subseteq analyzeAssignment(a, inc[1]).diags
        /\ \E b : /\ Analyses(b, a, VarsOf(<<inc[1].expr>>))
                  /\ analyzeAssignment(a, inc[1]) = [b EXCEPT !.assigned = @ \cup {inc[1].name}]
    BY <2>2, <2>4, AssignmentParts
  <2> QED BY <2>1, <2>2, <2>3, <2>5
<1> QED BY <1>1, <1>2, <1>3 DEF IsSimple, SimpleKinds

LEMMA ConditionGrows ==
  ASSUME NEW a \in Envs, NEW xs
  PROVE  a.diags \subseteq analyzeCondition(a, xs).diags /\ analyzeCondition(a, xs) \in Envs
<1> DEFINE wrong == xs # <<>> /\ exprType(a, xs) \notin {"int", "bool", "unknown"}
           b == analyzeExpr(a, xs)
<1>1. analyzeCondition(a, xs) = report(b, "type", "", wrong)
  BY DEF analyzeCondition
<1>2. "type" \in ErrorKinds \cup WarningKinds /\ "" \in Subjects
  BY DEF ErrorKinds, Subjects
<1>3. b \in Envs /\ a.diags \subseteq b.diags
  BY ExprType, ExprGrows
<1> HIDE DEF wrong, b
<1>4. report(b, "type", "", wrong) \in Envs
  BY <1>2, <1>3, ReportType
<1>5. b.diags \subseteq report(b, "type", "", wrong).diags
  BY <1>2, <1>3, ReportAnalyses
<1> QED BY <1>1, <1>3, <1>4, <1>5

LEMMA SingleDeclaration ==
  ASSUME NEW n, n.kind = "for"
  PROVE  /\ n.init # <<>> => Declares(n.init[1]) = DeclaredBy(n)
         /\ n.init = <<>> => DeclaredBy(n) = {}
BY DEF Declares, DeclaredBy

\* The variable the header declares and its condition.
LEMMA JointInit ==
  ASSUME NEW k \in Nat \ {0}, NEW a, NEW m, Joint(a, m, k), NEW n, IsStatement(n),
         n.kind = "for", NEW c, c = analyzeOptional(a, n.init), Clean(c),
         Strict => DeclaredBy(n) \cap a.assigned = {},
         NEW s, s = IF n.init = <<>> THEN m ELSE Run!Simple(m, n.init[1])
  PROVE  /\ Joint(c, s, k) /\ Moves(s.store, m.store, DeclaredBy(n))
         /\ a.diags \subseteq c.diags
         /\ \A x \in c.assigned : x \in a.assigned \/ Bound(s.store, x)
         /\ a.assigned \cup DeclaredBy(n) \subseteq c.assigned
<1>1. CASE n.init = <<>>
  <2>1. c = a /\ s = m /\ DeclaredBy(n) = {}
    BY <1>1, SingleDeclaration DEF analyzeOptional
  <2> QED BY <2>1, MovesNot
<1>2. CASE n.init # <<>>
  <2> DEFINE d == n.init[1]
  <2>1. c = analyzeSimple(a, d) /\ s = Run!Simple(m, d)
    BY <1>2 DEF analyzeOptional
  <2>2. IsSimple(d) /\ Declares(d) = DeclaredBy(n) /\ (d.kind = "decl" => d.expr # <<>>)
    BY <1>2, SingleDeclaration DEF IsStatement
  <2> HIDE DEF d
  <2>3. /\ Joint(c, s, k) /\ Moves(s.store, m.store, DeclaredBy(n))
        /\ a.diags \subseteq c.diags
        /\ \A x \in c.assigned : x \in a.assigned \/ Bound(s.store, x)
        /\ d.kind = "decl" /\ d.expr # <<>> => d.name \in c.assigned
    BY <2>1, <2>2, JointSimple
  <2>4. DeclaredBy(n) \subseteq c.assigned
    BY <2>2, <2>3 DEF Declares
  <2>5. a.assigned \subseteq c.assigned
    <3>1. k \in Nat /\ k # 0 /\ a \in Envs /\ MemoryOK(m, k) /\ SameNames(m.store, a.scopes)
      BY DEF Joint, Tied
    <3>2. Len(a.scopes) = k
      BY <3>1, StoreTyped DEF SameNames
    <3>3. a.scopes # <<>>
      BY <3>1, <3>2
    <3> QED BY <2>1, <2>2, <3>1, <3>3, SimpleType DEF Follows
  <2> QED BY <2>3, <2>4, <2>5
<1> QED BY <1>1, <1>2

LEMMA JointHeader ==
  ASSUME NEW k \in Nat \ {0}, NEW a, NEW m, Joint(a, m, k), NEW n, IsStatement(n),
         n.kind = "for", Clean(analyzeForHeader(a, n)),
         Strict => DeclaredBy(n) \cap a.assigned = {},
         Strict => HeaderAssigns(n) \subseteq a.assigned \cup DeclaredBy(n)
  PROVE  /\ Joint(analyzeForHeader(a, n), Run!Header(m, n), k + 1)
         /\ Moves(Run!Header(m, n).store, Append(m.store, EmptyScope), DeclaredBy(n))
         /\ \A x \in analyzeForHeader(a, n).assigned :
              x \in a.assigned \/ Bound(Run!Header(m, n).store, x)
<1> DEFINE a0 == [a EXCEPT !.scopes = Append(@, EmptyScope)]
           m0 == [m EXCEPT !.store = Append(@, Run!EmptyScope)]
           c1 == analyzeOptional(a0, n.init)
           m1 == IF n.init = <<>> THEN m0 ELSE Run!Simple(m0, n.init[1])
           c2 == analyzeCondition(c1, n.cond)
           c3 == analyzeOptional(c2, n.inc)
           inc == IF n.inc = <<>> THEN <<>> ELSE <<n.inc[1].expr>>
           xs == n.cond \o inc
           h == Reads(m1, xs)
<1>0. k + 1 \in Nat \ {0}
  OBVIOUS
<1>1. analyzeForHeader(a, n) = c3
  BY DEF analyzeForHeader
<1>2. Run!Header(m, n) = h
  BY DEF Run!Header, Run!OnOptional, Reads
<1>3. Joint(a0, m0, k + 1)
  BY JointOpens
<1>4. a0.assigned = a.assigned /\ m0.store = Append(m.store, EmptyScope)
  <2>1. a \in Envs /\ m \in [store : Seq(Run!Variables), uninit : SUBSET Name]
    BY DEF Joint, MemoryOK
  <2>2. Run!EmptyScope = EmptyScope
    BY RunLooksUp
  <2> QED BY <2>1, <2>2 DEF Envs
<1>5. /\ n.init # <<>> => IsSimple(n.init[1])
      /\ n.inc # <<>> => IsSimple(n.inc[1]) /\ n.inc[1].kind # "decl"
      /\ IsOptional(n.cond)
  BY DEF IsStatement
<1>6. a0 \in Envs /\ a0.scopes # <<>>
  <2>1. a0 \in Envs /\ Len(a0.scopes) = Len(m0.store)
    BY <1>3 DEF Joint, Tied, SameNames
  <2>2. Len(m0.store) = k + 1 /\ k + 1 \in Nat
    BY <1>0, <1>3, StoreTyped DEF Joint
  <2> QED BY <1>0, <2>1, <2>2
<1> HIDE DEF a0, m0
<1>7. c1 \in Envs
  BY <1>5, <1>6, OptionalType DEF Follows
<1> HIDE DEF c1
<1>8. c2 \in Envs /\ c1.diags \subseteq c2.diags
  BY <1>7, ConditionGrows
<1> HIDE DEF c2
<1>9. Clean(c3)
  BY <1>1
<1>10. /\ IsOptional(inc) /\ c2.diags \subseteq c3.diags
       /\ \E b : /\ Analyses(b, c2, VarsOf(inc))
                 /\ \/ c3 = b
                    \/ /\ n.inc # <<>> /\ n.inc[1].kind = "assign"
                       /\ Bound(c2.scopes, n.inc[1].name)
                       /\ n.inc[1].name \in Name
                       /\ c3 = [b EXCEPT !.assigned = @ \cup {n.inc[1].name}]
  <2> DEFINE ns == n.inc
  <2>1. ns # <<>> => IsSimple(ns[1]) /\ ns[1].kind # "decl"
    BY <1>5
  <2>2. Clean(analyzeOptional(c2, ns))
    BY <1>9
  <2>3. inc = IF ns = <<>> THEN <<>> ELSE <<ns[1].expr>>
    OBVIOUS
  <2>4. c3 = analyzeOptional(c2, ns)
    OBVIOUS
  <2> HIDE DEF ns, inc, c3
  <2>5. /\ IsOptional(inc) /\ c2.diags \subseteq analyzeOptional(c2, ns).diags
        /\ \E b : /\ Analyses(b, c2, VarsOf(inc))
                  /\ \/ analyzeOptional(c2, ns) = b
                     \/ /\ ns # <<>> /\ ns[1].kind = "assign" /\ Bound(c2.scopes, ns[1].name)
                        /\ ns[1].name \in Name
                        /\ analyzeOptional(c2, ns) = [b EXCEPT !.assigned = @ \cup {ns[1].name}]
    BY <1>8, <2>1, <2>2, <2>3, IncrementParts
  <2> QED BY <2>4, <2>5 DEF ns
<1> HIDE DEF c3, inc
<1>11. Clean(c2) /\ Clean(c1)
  BY <1>8, <1>9, <1>10, CleanBefore
<1>12. /\ Joint(c1, m1, k + 1) /\ Moves(m1.store, m0.store, DeclaredBy(n))
       /\ \A x \in c1.assigned : x \in a0.assigned \/ Bound(m1.store, x)
       /\ a0.assigned \cup DeclaredBy(n) \subseteq c1.assigned
  <2>1. Strict => DeclaredBy(n) \cap a0.assigned = {}
    BY <1>4
  <2>2. Clean(analyzeOptional(a0, n.init))
    BY <1>11 DEF c1
  <2> HIDE DEF m1
  <2> QED BY <1>0, <1>3, <2>1, <2>2, JointInit DEF c1, m1
<1> HIDE DEF m1
<1>13. Analyses(c2, c1, VarsOf(n.cond))
  BY <1>5, <1>7, <1>11, ConditionAnalyses DEF c2
<1>14. PICK b : /\ Analyses(b, c2, VarsOf(inc))
                /\ \/ c3 = b
                   \/ /\ n.inc # <<>> /\ n.inc[1].kind = "assign"
                      /\ Bound(c2.scopes, n.inc[1].name)
                      /\ n.inc[1].name \in Name
                      /\ c3 = [b EXCEPT !.assigned = @ \cup {n.inc[1].name}]
  BY <1>10
<1>15. Analyses(b, c1, VarsOf(xs))
  <2>1. Analyses(b, c1, VarsOf(n.cond) \cup VarsOf(inc))
    BY <1>7, <1>13, <1>14, AnalysesTrans
  <2>2. VarsOf(xs) = VarsOf(n.cond) \cup VarsOf(inc)
    BY <1>5, <1>10, VarsOfOne DEF IsOptional
  <2> QED BY <2>1, <2>2
<1> HIDE DEF xs
<1>16. Joint(b, h, k + 1) /\ Moves(h.store, m1.store, {})
  BY <1>0, <1>12, <1>15, JointAnalyses
<1> HIDE DEF h
<1>17. Moves(h.store, m0.store, DeclaredBy(n))
  <2>1. Moves(h.store, m0.store, DeclaredBy(n) \cup {})
    BY <1>12, <1>16, MovesTrans
  <2>2. DeclaredBy(n) \cup {} = DeclaredBy(n)
    OBVIOUS
  <2> QED BY <2>1, <2>2
<1>18. b \in Envs /\ b.assigned = c1.assigned
  BY <1>13, <1>14 DEF Analyses
<1>19. /\ m1.store \in Seq(Run!Variables) /\ h.store \in Seq(Run!Variables)
       /\ c1.scopes \in Seq(Scopes) /\ SameNames(m1.store, c1.scopes)
  BY <1>0, <1>12, <1>16, StoreTyped, EnvTyped DEF Joint, Tied
<1>20. \A x \in c1.assigned : x \in a.assigned \/ Bound(h.store, x)
  BY <1>4, <1>12, <1>16, <1>19, MovesBound
<1>21. CASE c3 = b
  BY <1>1, <1>2, <1>4, <1>16, <1>17, <1>18, <1>20, <1>21
<1>22. CASE /\ n.inc # <<>> /\ n.inc[1].kind = "assign"
            /\ Bound(c2.scopes, n.inc[1].name)
            /\ n.inc[1].name \in Name
            /\ c3 = [b EXCEPT !.assigned = @ \cup {n.inc[1].name}]
  <2> DEFINE v == n.inc[1].name
  <2>1. HeaderAssigns(n) = {v}
    BY <1>22 DEF HeaderAssigns
  <2>2. /\ c3 \in Envs /\ c3.diags = b.diags /\ c3.scopes = b.scopes
        /\ c3.assigned = b.assigned \cup {v}
    BY <1>18, <1>22, AssignedType
  <2>3. Strict => c3.assigned = b.assigned
    BY <1>4, <1>12, <1>18, <2>1, <2>2
  <2>4. Joint(c3, h, k + 1)
    BY <1>16, <2>2, <2>3 DEF Joint, Warned
  <2>5. Bound(c1.scopes, v)
    BY <1>13, <1>19, <1>22, SameLookup, EnvTyped DEF Analyses, Uses
  <2>6. Bound(h.store, v)
    BY <1>16, <1>19, <2>5, SameLookup, MovesBound
  <2>7. \A x \in c3.assigned : x \in a.assigned \/ Bound(h.store, x)
    BY <1>18, <1>20, <2>2, <2>6
  <2> QED BY <1>1, <1>2, <1>4, <1>17, <2>4, <2>7
<1> QED BY <1>14, <1>21, <1>22

--------------------------------------------------------------------------------
(***************************************************************************)
(* Where each name is declared once, a name is in one scope only, but for  *)
(* the globals a function's parameters hide.                               *)
(***************************************************************************)
Apart(st, inside) ==
  \A i, j \in 1 .. Len(st) :
    i < j /\ ~(inside /\ i = 1 /\ j = 2) => DOMAIN st[i] \cap DOMAIN st[j] = {}

\* All names of the variables are among Y.
Sound(st, Y, inside) ==
  Apart(st, inside) /\ \A i \in 1 .. Len(st) : DOMAIN st[i] \subseteq Y

LEMMA SoundMoves ==
  ASSUME NEW s1 \in Seq(Run!Variables), NEW s2 \in Seq(Run!Variables), s1 # <<>>,
         NEW X, Moves(s2, s1, X), NEW Y, X \cap Y = {}, NEW inside, Sound(s1, Y, inside)
  PROVE  Sound(s2, Y \cup X, inside) /\ Persists(s2, s1, Y)
<1>1. Len(s2) = Len(s1) /\ Len(s1) \in Nat
  BY DEF Moves
<1>2. \A i \in 1 .. Len(s2) : DOMAIN s2[i] \subseteq Y \cup X
  BY <1>1 DEF Moves, Sound
<1>3. ASSUME NEW i \in 1 .. Len(s2), NEW j \in 1 .. Len(s2), i < j, ~(inside /\ i = 1 /\ j = 2),
             NEW n \in DOMAIN s2[i], n \in DOMAIN s2[j]
      PROVE  FALSE
  <2>1. i # Len(s1)
    BY <1>1, <1>3
  <2>2. n \in DOMAIN s1[i] /\ n \in Y
    BY <1>1, <1>3, <2>1 DEF Moves, Sound
  <2>3. n \in DOMAIN s1[j]
    BY <1>1, <1>3, <2>2 DEF Moves
  <2> QED BY <1>1, <1>3, <2>2, <2>3 DEF Sound, Apart
<1>4. Apart(s2, inside)
  BY <1>3 DEF Apart
<1> QED BY <1>2, <1>4, MovesPersist DEF Sound

LEMMA SoundOpens ==
  ASSUME NEW st \in Seq(Run!Variables), st # <<>>, NEW Y, NEW inside, Sound(st, Y, inside)
  PROVE  /\ Sound(Append(st, EmptyScope), Y, inside)
         /\ Persists(Append(st, EmptyScope), st, Y)
         /\ Append(st, EmptyScope) \in Seq(Run!Variables)
<1> DEFINE s2 == Append(st, EmptyScope)
<1>1. /\ Len(st) \in Nat \ {0} /\ Len(s2) = Len(st) + 1
      /\ \A i \in 1 .. Len(st) : s2[i] = st[i]
      /\ s2[Len(st) + 1] = EmptyScope
  OBVIOUS
<1>2. DOMAIN EmptyScope = {}
  BY DEF EmptyScope
<1>3. s2 \in Seq(Run!Variables) /\ Persists(s2, st, Y)
  BY OpenedPersists
<1> HIDE DEF s2
<1>4. \A i \in 1 .. Len(s2) : i \in 1 .. Len(st) \/ (DOMAIN s2[i] = {} /\ i = Len(st) + 1)
  BY <1>1, <1>2
<1>5. Apart(s2, inside)
  BY <1>1, <1>4 DEF Sound, Apart
<1>6. \A i \in 1 .. Len(s2) : DOMAIN s2[i] \subseteq Y
  BY <1>1, <1>4 DEF Sound
<1> QED BY <1>3, <1>5, <1>6 DEF Sound, s2

LEMMA SoundCloses ==
  ASSUME NEW st \in Seq(Run!Variables), NEW Y, NEW inside, Sound(st, Y, inside),
         Len(st) > 1, ~(inside /\ Len(st) = 2)
  PROVE  /\ Sound(Front(st), Y, inside) /\ Persists(Front(st), st, Y)
         /\ Front(st) \in Seq(Run!Variables)
<1> DEFINE s2 == Front(st)
<1>0. Len(st) \in Nat /\ st # <<>>
  OBVIOUS
<1>1. /\ s2 \in Seq(Run!Variables) /\ Len(s2) = Len(st) - 1
      /\ \A i \in 1 .. Len(s2) : s2[i] = st[i] /\ i \in 1 .. Len(st) /\ i < Len(st)
  BY <1>0, FrontShape
<1> HIDE DEF s2
<1>2. Apart(s2, inside)
  BY <1>1 DEF Sound, Apart
<1>3. \A i \in 1 .. Len(s2) : DOMAIN s2[i] \subseteq Y
  BY <1>1 DEF Sound
<1>4. ASSUME NEW n \in Y, Bound(s2, n)
      PROVE  Bound(st, n) /\ (Find(st, n).init => Find(s2, n).init)
  <2> DEFINE i == Innermost(s2, n)
  <2>1. Holds(s2, n, i) /\ Find(s2, n) = s2[i][n]
    BY <1>1, <1>4, Found
  <2> HIDE DEF i
  <2>2. i \in 1 .. Len(s2) /\ n \in DOMAIN st[i]
    BY <1>1, <2>1 DEF Holds
  <2>3. n \notin DOMAIN st[Len(st)]
    <3>1. ~(inside /\ i = 1 /\ Len(st) = 2)
      OBVIOUS
    <3>2. Len(st) \in 1 .. Len(st)
      BY <1>0
    <3> QED BY <1>1, <2>2, <3>1, <3>2 DEF Sound, Apart
  <2>4. Holds(st, n, i)
    <3>1. \A j \in 1 .. Len(st) : j \in 1 .. Len(s2) \/ j = Len(st)
      BY <1>0, <1>1
    <3> QED BY <1>1, <2>1, <2>2, <2>3, <3>1 DEF Holds
  <2> QED BY <1>1, <2>1, <2>2, <2>4, InnermostIs
<1>5. s2[1] = st[1]
  BY <1>0, <1>1
<1> QED BY <1>1, <1>2, <1>3, <1>4, <1>5 DEF Sound, Persists, s2

LEMMA PersistsLess ==
  ASSUME NEW s1, NEW s2, NEW X, NEW Y, X \subseteq Y, Persists(s2, s1, Y)
  PROVE  Persists(s2, s1, X)
BY DEF Persists

LEMMA PersistsSame ==
  ASSUME NEW s1, NEW X PROVE Persists(s1, s1, X)
BY DEF Persists

--------------------------------------------------------------------------------
(***************************************************************************)
(* What the analyzer restores when it leaves a statement holds in the run  *)
(* if the run gets there.                                                  *)
(***************************************************************************)
Safe(f, e, r, st) ==
  /\ e.node.kind \in LoopKinds /\ r.parked \in {"none", "live"} => Initialized(st, f.before)
  /\ e.node.kind = "if" /\ e.slot \in {"then", "thenDone"} /\ r.parked = "live"
       => Initialized(st, f.before)
  /\ e.node.kind = "if" /\ e.slot \in {"else", "done"} /\ r.parked = "live"
       => Initialized(st, f.afterThen)
  /\ e.node.kind = "func" /\ r.parked = "live"
       => \A n \in f.before : n \in DOMAIN st[1] => n \in r.globals

Saved(fs, path, rs, st) ==
  \A i \in 1 .. Len(fs) : ~fs[i].skip => Safe(fs[i], path[i], rs[i], st)

\* The names the analyzer keeps are among Y.
Among(fs, Y) ==
  \A i \in 1 .. Len(fs) : fs[i].before \subseteq Y /\ fs[i].afterThen \subseteq Y
\* It still does when variables keep their values, and when a child is complete.
LEMMA SafeStays ==
  ASSUME NEW f, NEW e, NEW r, NEW st, Safe(f, e, r, st),
         NEW f2, f2.before = f.before, f2.afterThen = f.afterThen,
         NEW e2, e2.node = e.node,
         e2.slot = e.slot \/ (e2.slot = Filled(e.slot) /\ e.slot \in Waiting
                              /\ (e.node.kind = "if" => e.slot # "body")),
         NEW Y, f.before \subseteq Y, f.afterThen \subseteq Y,
         NEW st2, Persists(st2, st, Y)
  PROVE  Safe(f2, e2, r, st2)
<1>1. \A X \in SUBSET Y : Initialized(st, X) => Initialized(st2, X)
  BY InitializedPersists
<1>2. Initialized(st, f.before) => Initialized(st2, f2.before)
  BY <1>1
<1>3. Initialized(st, f.afterThen) => Initialized(st2, f2.afterThen)
  BY <1>1
<1>4. e.node.kind = "if" =>
        /\ e2.slot \in {"then", "thenDone"} => e.slot \in {"then", "thenDone"}
        /\ e2.slot \in {"else", "done"} => e.slot \in {"else", "done"}
  BY DEF Filled, Waiting
<1>5. \A n \in f2.before : n \in DOMAIN st2[1] => n \in DOMAIN st[1]
  BY DEF Persists
<1> QED BY <1>2, <1>3, <1>4, <1>5 DEF Safe

LEMMA AmongLess ==
  ASSUME NEW fs, NEW Y, NEW Z, Y \subseteq Z, Among(fs, Y)
  PROVE  Among(fs, Z)
BY DEF Among

\* A step that stays on the path, or completes a child of its last statement.
LEMMA SavedStays ==
  ASSUME NEW fs \in Seq(Frames), NEW path, Walk(path), Len(path) = Len(fs),
         NEW rs, NEW st, Saved(fs, path, rs, st), NEW Y, Among(fs, Y),
         NEW gs, SameRecords(gs, fs), NEW path2,
         path2 = path \/ (Advanced(path2, path)
                          /\ (path # <<>> => path[Len(path)].slot \in Waiting)),
         NEW st2, Persists(st2, st, Y)
  PROVE  Saved(gs, path2, rs, st2) /\ Among(gs, Y)
<1>1. /\ Len(gs) = Len(fs) /\ Len(fs) \in Nat /\ path \in Seq(Entries)
      /\ \A i \in 1 .. Len(fs) : gs[i].skip = fs[i].skip /\ gs[i].before = fs[i].before
                                 /\ gs[i].afterThen = fs[i].afterThen
  BY DEF SameRecords, Walk
<1>2. Among(gs, Y)
  BY <1>1 DEF Among
<1>3. ASSUME NEW i \in 1 .. Len(fs), ~fs[i].skip
      PROVE  Safe(gs[i], path2[i], rs[i], st2)
  <2>1. Safe(fs[i], path[i], rs[i], st)
    BY <1>3 DEF Saved
  <2>2. /\ path2[i].node = path[i].node
        /\ \/ path2[i].slot = path[i].slot
           \/ path2[i].slot = Filled(path[i].slot) /\ path[i].slot \in Waiting
    <3>1. CASE path2 = path
      BY <3>1
    <3>2. CASE Advanced(path2, path) /\ (path # <<>> => path[Len(path)].slot \in Waiting)
      <4>1. path # <<>>
        BY <1>1
      <4> QED BY <3>2, <4>1 DEF Advanced, SameNodes
    <3> QED BY <3>1, <3>2
  <2>3. path[i].node.kind = "if" => path[i].slot # "body"
    BY DEF Walk
  <2>4. fs[i].before \subseteq Y /\ fs[i].afterThen \subseteq Y
    BY DEF Among
  <2>5. gs[i].before = fs[i].before /\ gs[i].afterThen = fs[i].afterThen
    BY <1>1
  <2> QED BY <2>1, <2>2, <2>3, <2>4, <2>5, SafeStays
<1>4. \A i \in 1 .. Len(gs) : gs[i].skip = fs[i].skip /\ i \in 1 .. Len(fs)
  BY <1>1
<1> QED BY <1>2, <1>3, <1>4 DEF Saved

\* A step into a statement.
LEMMA SavedPushes ==
  ASSUME NEW fs \in Seq(Frames), NEW path \in Seq(Entries), Len(path) = Len(fs),
         NEW rs \in Seq(Run!Runs), Len(rs) = Len(fs),
         NEW st, Saved(fs, path, rs, st), NEW Y, Among(fs, Y),
         NEW r \in Frames, NEW e \in Entries, NEW q \in Run!Runs,
         ~r.skip => Safe(r, e, q, st), r.before \subseteq Y, r.afterThen \subseteq Y
  PROVE  Saved(Append(fs, r), Append(path, e), Append(rs, q), st) /\ Among(Append(fs, r), Y)
<1> DEFINE gs == Append(fs, r)
           path2 == Append(path, e)
           rs2 == Append(rs, q)
           m == Len(fs) + 1
<1>1. /\ Len(gs) = m /\ gs[m] = r /\ path2[m] = e /\ rs2[m] = q /\ Len(fs) \in Nat
      /\ \A i \in 1 .. Len(fs) : gs[i] = fs[i] /\ path2[i] = path[i] /\ rs2[i] = rs[i]
  OBVIOUS
<1>2. \A i \in 1 .. m : i \in 1 .. Len(fs) \/ i = m
  BY <1>1
<1> HIDE DEF gs, path2, rs2, m
<1>3. Saved(gs, path2, rs2, st)
  BY <1>1, <1>2 DEF Saved
<1>4. Among(gs, Y)
  BY <1>1, <1>2 DEF Among
<1> QED BY <1>3, <1>4 DEF gs, path2, rs2

\* A step out of one.
LEMMA SavedPops ==
  ASSUME NEW fs, NEW path, NEW rs, NEW st, Saved(fs, path, rs, st), NEW Y, Among(fs, Y),
         NEW gs, NEW front, NEW rs2, Len(fs) \in Nat, Len(gs) = Len(fs) - 1,
         \A i \in 1 .. Len(fs) - 1 : gs[i] = fs[i] /\ front[i] = path[i] /\ rs2[i] = rs[i]
  PROVE  Saved(gs, front, rs2, st) /\ Among(gs, Y)
<1>1. \A i \in 1 .. Len(gs) : i \in 1 .. Len(fs) /\ gs[i] = fs[i] /\ front[i] = path[i]
                              /\ rs2[i] = rs[i]
  OBVIOUS
<1> QED BY <1>1 DEF Saved, Among

--------------------------------------------------------------------------------
(***************************************************************************)
(* Skipped statements: those whose block was left off, or is skipped, and  *)
(* no others.                                                              *)
(***************************************************************************)
Below(fs) ==
  \A i \in 1 .. Len(fs) :
    fs[i].skip <=> i > 1 /\ (fs[i - 1].skip \/ fs[i - 1].list # "open")

LEMMA BelowKeeps ==
  ASSUME NEW fs \in Seq(Frames), Below(fs), NEW gs, Above(gs, fs)
  PROVE  Below(gs)
<1>1. /\ Len(gs) = Len(fs) /\ Len(fs) \in Nat
      /\ \A i \in 1 .. Len(fs) : i < Len(fs) => gs[i] = fs[i]
      /\ \A i \in 1 .. Len(fs) : gs[i].skip = fs[i].skip
  BY DEF Above
<1>2. \A i \in 1 .. Len(fs) : i > 1 => i - 1 \in 1 .. Len(fs) /\ gs[i - 1] = fs[i - 1]
  BY <1>1
<1> QED BY <1>1, <1>2 DEF Below

LEMMA BelowPushes ==
  ASSUME NEW gs \in Seq(Frames), Below(gs), NEW r \in Frames,
         r.skip <=> gs # <<>> /\ (gs[Len(gs)].skip \/ gs[Len(gs)].list # "open")
  PROVE  Below(Append(gs, r))
<1> DEFINE hs == Append(gs, r)
<1>1. /\ Len(hs) = Len(gs) + 1 /\ hs[Len(gs) + 1] = r /\ Len(gs) \in Nat
      /\ \A i \in 1 .. Len(gs) : hs[i] = gs[i]
      /\ gs # <<>> <=> Len(gs) + 1 > 1
  OBVIOUS
<1>2. \A i \in 1 .. Len(hs) : i \in 1 .. Len(gs) \/ i = Len(gs) + 1
  BY <1>1
<1>3. \A i \in 1 .. Len(hs) : i > 1 => i - 1 \in 1 .. Len(gs) /\ hs[i - 1] = gs[i - 1]
  BY <1>1
<1>4. (Len(gs) + 1) - 1 = Len(gs)
  BY <1>1
<1> HIDE DEF hs
<1>5. Below(hs)
  BY <1>1, <1>2, <1>3, <1>4 DEF Below
<1> QED BY <1>5 DEF hs

LEMMA BelowPops ==
  ASSUME NEW fs \in Seq(Frames), Below(fs), fs # <<>>
  PROVE  Below(Front(fs))
<1>1. /\ Len(Front(fs)) = Len(fs) - 1 /\ Len(fs) \in Nat \ {0}
      /\ \A i \in 1 .. Len(fs) - 1 : Front(fs)[i] = fs[i]
  BY FrontShape
<1>2. \A i \in 1 .. Len(fs) - 1 : i > 1 => i - 1 \in 1 .. Len(fs) - 1
  BY <1>1
<1> QED BY <1>1, <1>2 DEF Below

LEMMA BelowStep ==
  ASSUME IInv, FlowInv, Below(frames), [Next]_vars
  PROVE  Below(frames')
<1> DEFINE m == Len(frames)
<1>0. frames \in Seq(Frames) /\ m \in Nat /\ cursor \in Seq(Entries) /\ Len(cursor) = m
  BY PathTyped
<1>1. ASSUME NEW n, NEW a, AnalyzeLeaf(n, a) PROVE Below(frames')
  <2> DEFINE returns == n.kind = "ret"
             fs == childDone(frames, cursor, returns)
  <2>1. frames' = terminated(fs, n) /\ returns \in BOOLEAN
    BY <1>1 DEF AnalyzeLeaf
  <2> HIDE DEF returns
  <2>2. Above(fs, frames)
    BY <1>0, <2>1, ChildDoneAbove
  <2> HIDE DEF fs
  <2>3. fs \in Seq(Frames)
    BY <2>2 DEF Above
  <2>4. "terminated" \in {"terminated", "cut"}
    OBVIOUS
  <2>5. Above(fs, fs) /\ (fs # <<>> => Above([fs EXCEPT ![Len(fs)].list = "terminated"], fs))
    BY <2>3, <2>4, AboveRefl, ListAbove
  <2>6. Above(frames', fs)
    BY <2>1, <2>5 DEF terminated
  <2> QED BY <1>0, <2>2, <2>3, <2>6, BelowKeeps
<1>2. ASSUME CutOff
      PROVE  /\ Above(cutFrames, frames) /\ cutFrames \in Seq(Frames) /\ cutFrames # <<>>
             /\ Below(cutFrames)
             /\ cutFrames[Len(cutFrames)].skip \/ cutFrames[Len(cutFrames)].list # "open"
  <2>1. Above(cutFrames, frames) /\ frames # <<>> /\ cutFrames # <<>>
    BY <1>2, CutAbove
  <2>2. cutFrames \in Seq(Frames) /\ Len(cutFrames) = m /\ m \in 1 .. m
    BY <1>0, <2>1 DEF Above
  <2>3. frames[m].skip \/ frames[m].list # "open"
    BY <1>2 DEF CutOff, Local, Last
  <2>4. cutFrames[m].skip \/ cutFrames[m].list # "open"
    BY <2>1, <2>2, <2>3 DEF Above
  <2> QED BY <1>0, <2>1, <2>2, <2>4, BelowKeeps
<1>3. ASSUME NEW n, SkipLeaf(n) PROVE Below(frames')
  <2> DEFINE returns == n.kind = "ret"
  <2>1. CutOff /\ frames' = childDone(cutFrames, cursor, returns) /\ returns \in BOOLEAN
    BY <1>3 DEF SkipLeaf
  <2> HIDE DEF returns
  <2>2. Above(frames', cutFrames)
    BY <1>2, <2>1, ChildDoneAbove
  <2> QED BY <1>2, <2>1, <2>2, BelowKeeps
<1>4. ASSUME NEW before \in SUBSET Name, ~CutOff, frames' = Append(frames, frame(FALSE, before))
      PROVE  Below(frames')
  <2>1. frame(FALSE, before) \in Frames /\ frame(FALSE, before).skip = FALSE
    BY DEF frame, Frames
  <2>2. ~(frames # <<>> /\ (frames[Len(frames)].skip \/ frames[Len(frames)].list # "open"))
    BY <1>4 DEF CutOff, Local, Last
  <2> QED BY <1>0, <1>4, <2>1, <2>2, BelowPushes
<1>5. ASSUME NEW n, SkipEnter(n) PROVE Below(frames')
  <2>1. frame(TRUE, {}) \in Frames /\ frame(TRUE, {}).skip = TRUE
    BY DEF frame, Frames
  <2> QED BY <1>2, <1>5, <2>1, BelowPushes DEF SkipEnter
<1>6. ASSUME NEW n, NEW a, NEW before \in SUBSET Name, Enter(n, a, before) PROVE Below(frames')
  BY <1>4, <1>6 DEF Enter, Analyzing
<1>7. assigned \in SUBSET Name /\ {} \in SUBSET Name
  BY EnvHere
<1>8. ASSUME NEW n \in Statements, EnterFor(n) PROVE Below(frames')
  <2> DEFINE a == analyzeForHeader(Env, n)
  <2>1. Enter(n, a, a.assigned) /\ n.kind = "for" /\ IsStatement(n)
    BY <1>8, AstAssumption DEF EnterFor
  <2>2. a \in Envs
    BY <2>1, EnvHere, HeaderType
  <2> HIDE DEF a
  <2>3. a.assigned \in SUBSET Name
    BY <2>2 DEF Envs
  <2> QED BY <1>6, <2>1, <2>3
<1>9. ASSUME NEW kind, Close(kind), frames' = childDone(Front(frames), cursor, Returns)
      PROVE  Below(frames')
  <2>1. cursor # <<>> /\ frames # <<>>
    BY <1>0, <1>9 DEF Close
  <2>2. Front(frames) \in Seq(Frames) /\ Returns \in BOOLEAN
    BY <1>0, <2>1, FrontShape, ReturnsType
  <2>3. Above(frames', Front(frames))
    BY <1>9, <2>2, ChildDoneAbove
  <2> QED BY <1>0, <2>1, <2>2, <2>3, BelowPops, BelowKeeps
<1>10. ASSUME ElseBranch PROVE Below(frames')
  <2> DEFINE r == [frames[m] EXCEPT !.afterThen = assigned]
  <2>1. frames' = [frames EXCEPT ![m] = r] /\ cursor # <<>>
    BY <1>10 DEF ElseBranch, OpenElse
  <2>2. m \in 1 .. m /\ frames[m] \in Frames
    BY <1>0, <2>1
  <2>3. r \in Frames /\ r.skip = frames[m].skip /\ r.list = frames[m].list
    BY <1>7, <2>2 DEF Frames
  <2> HIDE DEF r
  <2>4. Above(frames', frames)
    BY <1>0, <2>1, <2>2, <2>3 DEF Above
  <2> QED BY <1>0, <2>4, BelowKeeps
<1>11. ASSUME SkipElse \/ GatherSignatures \/ Finish \/ UNCHANGED vars PROVE Below(frames')
  <2>1. frames' = frames
    BY <1>11 DEF SkipElse, GatherSignatures, Finish, vars, semVars
  <2> QED BY <2>1
<1>12. ASSUME NEW n \in Statements, Leaf(n) \/ Down(n) PROVE Below(frames')
  BY <1>1, <1>3, <1>5, <1>6, <1>7, <1>8, <1>12
  DEF Leaf, AnalyzeSimple, AnalyzeReturn, AnalyzeJump, AnalyzeNull,
      Down, EnterBlock, EnterIf, EnterWhile
<1>13. ASSUME Up \/ LeaveFunction PROVE Below(frames')
  BY <1>9, <1>13
  DEF Up, LeaveBlock, LeaveIf, LeaveWhile, LeaveFor, LeaveFunction, Leave, SkipLeave
<1>14. ASSUME NEW f, EnterFunction(f) PROVE Below(frames')
  BY <1>4, <1>7, <1>14 DEF EnterFunction, Analyzing
<1> QED BY <1>10, <1>11, <1>12, <1>13, <1>14 DEF Next, Terminating

LEMMA BelowJumps == FlowSpec => []Below(frames)
<1>1. FlowInit => Below(frames)
  <2> SUFFICES ASSUME FlowInit PROVE Below(frames)
    OBVIOUS
  <2>1. frames = <<>>
    BY DEF FlowInit, Init, SemInit
  <2>2. 1 .. Len(frames) = {}
    BY <2>1
  <2> QED BY <2>2 DEF Below
<1>2. IInv /\ FlowInv /\ Below(frames) /\ [FlowNext]_flowVars => Below(frames)'
  <2> SUFFICES ASSUME IInv, FlowInv, Below(frames), [FlowNext]_flowVars PROVE Below(frames)'
    OBVIOUS
  <2>1. Below(frames')
    BY FlowAnalyses, BelowStep
  <2> QED BY <2>1 DEF Below
<1> QED BY <1>1, <1>2, FlowIsAnalysis, Balance, FlowAgreement, PTL DEF FlowSpec

--------------------------------------------------------------------------------
(***************************************************************************)
(* The scopes of the symbol table and those of the run.  The run opens     *)
(* scopes for skipped statements too, and declares what is cut off.        *)
(***************************************************************************)
Levels(sc, st, cut) ==
  /\ Len(sc) <= Len(st) /\ (~cut => Len(sc) = Len(st))
  /\ \A i \in 1 .. Len(sc) : DOMAIN sc[i] \subseteq DOMAIN st[i]
  /\ \A i \in 1 .. Len(sc) : i < Len(sc) \/ ~cut => DOMAIN sc[i] = DOMAIN st[i]
  /\ ReadIsUsed(sc, st)

LEMMA LevelsTied ==
  ASSUME NEW sc \in Seq(Scopes), NEW st \in Seq(Run!Variables), NEW cut
  PROVE  /\ Levels(sc, st, cut) /\ ~cut => Tied(sc, st)
         /\ Tied(sc, st) => Levels(sc, st, cut)
<1>1. Len(sc) \in Nat /\ Len(st) \in Nat
  OBVIOUS
<1> QED BY <1>1 DEF Levels, Tied, SameNames

\* Where statements are cut off only the run has more scopes and more variables.
LEMMA LevelsCut ==
  ASSUME NEW sc \in Seq(Scopes), NEW s1 \in Seq(Run!Variables), NEW s2 \in Seq(Run!Variables),
         NEW cut, Levels(sc, s1, cut), Len(sc) <= Len(s2),
         \A i \in 1 .. Len(sc) : /\ DOMAIN s1[i] \subseteq DOMAIN s2[i]
                                 /\ \A x \in DOMAIN s1[i] : s2[i][x] = s1[i][x]
                                 /\ i < Len(sc) => DOMAIN s2[i] = DOMAIN s1[i],
         NEW cut2, cut2
  PROVE  Levels(sc, s2, cut2)
<1>1. \A i \in 1 .. Len(sc) : DOMAIN sc[i] \subseteq DOMAIN s2[i]
  BY DEF Levels
<1>2. \A i \in 1 .. Len(sc) : i < Len(sc) \/ ~cut2 => DOMAIN sc[i] = DOMAIN s2[i]
  BY DEF Levels
<1>3. ReadIsUsed(sc, s2)
  <2>1. \A i \in 1 .. Len(sc) : \A x \in DOMAIN sc[i] : x \in DOMAIN s1[i] /\ s2[i][x] = s1[i][x]
    BY DEF Levels
  <2>2. ReadIsUsed(sc, s1)
    BY DEF Levels
  <2> QED BY <2>1, <2>2 DEF ReadIsUsed
<1> QED BY <1>1, <1>2, <1>3 DEF Levels

\* Both leave their innermost scope.
LEMMA TiedFront ==
  ASSUME NEW sc \in Seq(Scopes), sc # <<>>, NEW st \in Seq(Run!Variables), NEW cut,
         Levels(sc, st, cut), Len(st) = Len(sc)
  PROVE  Tied(Front(sc), Front(st))
<1>1. /\ Len(Front(sc)) = Len(sc) - 1 /\ Len(sc) \in Nat \ {0} /\ st # <<>>
      /\ \A i \in 1 .. Len(sc) - 1 : Front(sc)[i] = sc[i]
  BY FrontShape
<1>2. /\ Len(Front(st)) = Len(st) - 1
      /\ \A i \in 1 .. Len(st) - 1 : Front(st)[i] = st[i]
  BY <1>1, FrontShape
<1>3. \A i \in 1 .. Len(sc) - 1 : /\ i \in 1 .. Len(sc) /\ i < Len(sc)
                                  /\ Front(sc)[i] = sc[i] /\ Front(st)[i] = st[i]
  BY <1>1, <1>2
<1>4. \A i \in 1 .. Len(sc) - 1 : DOMAIN Front(st)[i] = DOMAIN Front(sc)[i]
  BY <1>3 DEF Levels
<1>5. \A i \in 1 .. Len(sc) - 1 : \A n \in DOMAIN Front(sc)[i] :
        n \in DOMAIN Front(st)[i] /\ Front(st)[i][n].read => Front(sc)[i][n].used
  BY <1>3 DEF Levels, ReadIsUsed
<1> QED BY <1>1, <1>2, <1>4, <1>5 DEF Tied, SameNames, ReadIsUsed

\* The run has one more scope for each skipped statement that has one.
LEMMA Depths ==
  ASSUME IInv, RunInv, SkipInherited
  PROVE  /\ Len(scopes) <= Len(store) /\ Len(scopes) \in Nat \ {0}
         /\ frames = <<>> \/ ~Local.skip => Len(scopes) = Len(store)
<1> DEFINE A == Counted(frames, cursor, ScopeKinds)
           P == Positions(cursor, Scoped)
<1>1. /\ Len(scopes) = 1 + Cardinality(A) /\ Len(store) = 1 + Cardinality(P)
      /\ Aligned(frames, cursor) /\ Len(scopes) \in Nat \ {0}
  BY InvParts DEF RunInv, ScopeCount
<1>2. /\ cursor \in Seq(Entries) /\ frames \in Seq(Frames) /\ Len(frames) = Len(cursor)
      /\ Len(cursor) \in Nat
  BY PathTyped
<1>3. IsFiniteSet(P) /\ Cardinality(P) \in Nat /\ Cardinality(A) \in Nat
  BY <1>1, <1>2, PositionsFinite, CountType
<1>4. \A i \in 1 .. Len(cursor) : i \in P <=> cursor[i].node.kind \in ScopeKinds
  BY <1>2 DEF Positions, Scoped
<1>5. \A i \in A : i \in 1 .. Len(cursor) /\ cursor[i].node.kind \in ScopeKinds
  BY <1>2 DEF Counted
<1>6. A \subseteq P
  BY <1>4, <1>5
<1>7. Cardinality(A) <= Cardinality(P)
  BY <1>3, <1>6, FS_Subset
<1>8. ASSUME frames = <<>> \/ ~Local.skip PROVE A = P
  <2>1. \A i \in 1 .. Len(frames) : ~frames[i].skip
    <3>1. ASSUME NEW i \in 1 .. Len(frames), frames[i].skip PROVE FALSE
      <4>1. frames # <<>> /\ Len(frames) \in 1 .. Len(frames) /\ ~frames[Len(frames)].skip
        BY <1>2, <1>8, <3>1 DEF Local, Last
      <4>2. i < Len(frames)
        BY <1>2, <3>1, <4>1
      <4> QED BY <3>1, <4>1, <4>2 DEF SkipInherited
    <3> QED BY <3>1
  <2>2. \A i \in P : i \in 1 .. Len(frames)
    BY <1>2, PositionsFinite
  <2> QED BY <1>2, <1>4, <1>6, <2>1, <2>2 DEF Counted
<1> HIDE DEF A, P
<1> QED BY <1>1, <1>3, <1>7, <1>8

\* A block or a for-statement has a scope of its own, inside a function's.
LEMMA InnerScopes ==
  ASSUME IInv, RunInv, PathInv, cursor # <<>>, Parent.node.kind \in {"block", "for"}
  PROVE  Len(store) > 1 /\ ~(insideFunction /\ Len(store) = 2)
<1> DEFINE m == Len(cursor)
           front == Front(cursor)
           P == Positions(front, Scoped)
<1>1. /\ cursor \in Seq(Entries) /\ m \in Nat \ {0} /\ Parent = cursor[m]
      /\ front \in Seq(Entries) /\ Len(front) = m - 1
      /\ \A i \in 1 .. m - 1 : front[i] = cursor[i]
  BY PathTyped, FrontShape DEF Parent
<1>2. Len(store) = 1 + ScopeCount(cursor) /\ ScopeCount(cursor) = ScopeCount(front) + 1
  BY <1>1, CloseCount DEF RunInv, ScopeKinds
<1>3. ScopeCount(front) = Cardinality(P) /\ Cardinality(P) \in Nat /\ IsFiniteSet(P)
  BY <1>1, PositionsFinite DEF ScopeCount
<1>4. ASSUME insideFunction PROVE Cardinality(P) # 0
  <2>1. PICK i \in 1 .. Len(cursor) : cursor[i].node.kind = "func"
    BY <1>4, PathInvParts DEF InFunction
  <2>2. i = 1 /\ m # 1
    BY <1>1, <2>1, PathInvParts DEF Walk
  <2>3. 1 \in 1 .. m - 1 /\ front[1] = cursor[1] /\ cursor[1] \in Entries
    BY <1>1, <2>2
  <2>4. 1 \in P
    BY <1>1, <2>1, <2>2, <2>3 DEF Positions, Scoped, ScopeKinds
  <2> QED BY <1>3, <2>4, FS_EmptySet
<1> HIDE DEF P, front, m
<1> QED BY <1>2, <1>3, <1>4

--------------------------------------------------------------------------------
(***************************************************************************)
(* The invariant: the names as the analyzer takes to be assigned, those Y  *)
(* declared so far, the variables st of the run and its status stat.       *)
(***************************************************************************)
Tracked(as, Y, st, inside, stat) ==
  /\ as \subseteq Y /\ Sound(st, Y, inside)
  /\ stat = "live" => Initialized(st, as)

\* Nothing is promised of programs that fail, and nothing of definitelyAssigned
\* where names stand for several variables.
VarInv ==
  ~failed =>
    /\ Levels(scopes, store, CutOff)
    /\ Strict => /\ Tracked(assigned, seen, store, insideFunction, status)
                 /\ Saved(frames, cursor, runs, store) /\ Among(frames, seen)

\* What the last step did and what it reported.
ReportInv ==
  ~failed =>
    /\ \A n \in obs.closed : <<"unused", n>> \notin diags
    /\ phase = "gather" => obs = Run!Quiet
    /\ Strict => \A n \in obs.uninit : <<"uninitialized", n>> \in diags

\* What is proved of every run elsewhere.
Base == /\ IInv /\ RunInv /\ FlowInv /\ PathInv
        /\ SkipInherited /\ Below(frames)

\* A step that ends as the invariant says, on its parts.
Reports == /\ \A n \in obs'.closed : <<"unused", n>> \notin diags'
           /\ Strict => \A n \in obs'.uninit : <<"uninitialized", n>> \in diags'

Follow == /\ Levels(scopes', store', CutOff')
          /\ Strict => /\ Tracked(assigned', seen', store', insideFunction', status')
                       /\ Saved(frames', cursor', runs', store') /\ Among(frames', seen')

LEMMA VarOfParts ==
  ASSUME class' = class, phase' # "gather", Reports, Follow
  PROVE  VarInv' /\ ReportInv'
<1>1. Strict' = Strict
  BY DEF Strict
<1>2. ReportInv'
  BY <1>1 DEF ReportInv, Reports
<1>3. VarInv'
  BY <1>1 DEF VarInv, Follow
<1> QED BY <1>2, <1>3

\* An analysis that goes on has reported no error.
LEMMA BecomeClean ==
  ASSUME NEW a, Become(a), ~failed'
  PROVE  Clean(a) /\ ~failed /\ scopes' = a.scopes /\ assigned' = a.assigned /\ diags' = a.diags
BY DEF Become, Clean

\* The analyzer and the run meet a statement that is analysed.
LEMMA JointHere ==
  ASSUME Base, VarInv, ~failed, ~CutOff
  PROVE  /\ Joint(Env, Run!Memory, Len(store)) /\ Tied(scopes, store)
         /\ Len(store) \in Nat \ {0} /\ Run!Memory.store = store
         /\ Env.scopes = scopes /\ Env.assigned = assigned /\ Env \in Envs /\ Env.diags = {}
         /\ scopes \in Seq(Scopes) /\ store \in Seq(Run!Variables) /\ store # <<>>
<1>1. /\ Env \in Envs /\ Env.scopes = scopes /\ Env.assigned = assigned
      /\ scopes \in Seq(Scopes) /\ Env.diags = {}
  BY EnvHere DEF Base, Env
<1>2. /\ MemoryOK(Run!Memory, Len(store)) /\ Len(store) \in Nat \ {0} /\ store # <<>>
      /\ Run!Memory.store = store
  BY MemoryType DEF Base
<1>3. store \in Seq(Run!Variables)
  BY DEF Base, RunInv
<1>4. Tied(scopes, store)
  BY <1>1, <1>3, LevelsTied DEF VarInv
<1>5. Run!Memory.uninit = {}
  BY DEF Run!Memory
<1>6. Warned(Run!Memory, Env)
  BY <1>5 DEF Warned
<1>7. Strict /\ status = "live" => Initialized(store, assigned)
  BY DEF VarInv, Tracked
<1> QED BY <1>1, <1>2, <1>3, <1>4, <1>6, <1>7 DEF Joint

\* A step that completes a child of the last statement and moves the variables.
LEMMA FollowStays ==
  ASSUME Base, VarInv, ~failed, Strict, class' = class,
         NEW X, X \cap seen = {}, seen' = seen \cup X, Moves(store', store, X),
         store' \in Seq(Run!Variables), store # <<>>,
         runs' = runs, SameRecords(frames', frames),
         cursor' = cursor \/ (Advanced(cursor', cursor)
                              /\ (cursor # <<>> => cursor[Len(cursor)].slot \in Waiting)),
         insideFunction' = insideFunction,
         \A x \in assigned' : x \in assigned \/ Bound(store', x),
         status' = "live" => Initialized(store', assigned')
  PROVE  /\ Tracked(assigned', seen', store', insideFunction', status')
         /\ Saved(frames', cursor', runs', store') /\ Among(frames', seen')
<1>1. /\ Tracked(assigned, seen, store, insideFunction, status)
      /\ Saved(frames, cursor, runs, store) /\ Among(frames, seen)
  BY DEF VarInv
<1>2. /\ store \in Seq(Run!Variables) /\ Walk(cursor) /\ frames \in Seq(Frames)
      /\ Len(cursor) = Len(frames)
  BY PathTyped, PathInvParts DEF Base, RunInv
<1>3. Sound(store', seen', insideFunction') /\ Persists(store', store, seen)
  BY <1>1, <1>2, SoundMoves DEF Tracked
<1>4. Saved(frames', cursor', runs, store') /\ Among(frames', seen)
  BY <1>1, <1>2, <1>3, SavedStays
<1>5. Among(frames', seen')
  BY <1>4, AmongLess
<1>6. assigned' \subseteq seen'
  <2>1. \A x \in assigned : x \in seen
    BY <1>1 DEF Tracked
  <2>2. \A x : Bound(store', x) => x \in seen'
    BY <1>3 DEF Bound, Sound
  <2> QED BY <2>1, <2>2
<1> QED BY <1>3, <1>4, <1>5, <1>6 DEF Tracked

--------------------------------------------------------------------------------
(***************************************************************************)
(* Steps at statements without children.                                   *)
(***************************************************************************)

\* The path and the records after a leaf.
LEMMA LeafPath ==
  ASSUME Base, NEW n, FlowLeaf(n)
  PROVE  /\ Advanced(cursor', cursor)
         /\ cursor # <<>> => cursor[Len(cursor)].slot \in Waiting
         /\ runs' = runs /\ (status' = "live" => status = "live") /\ class' = class
         /\ insideFunction' = insideFunction /\ phase' = "analyze"
         /\ SameRecords(frames', frames)
<1>1. VisitLeaf(n) /\ Leaf(n) /\ class' = class
  BY LeafVisits DEF FlowLeaf
<1>2. cursor \in Seq(Entries) /\ frames \in Seq(Frames)
  BY PathTyped DEF Base
<1>3. Advanced(cursor', cursor)
  BY <1>1, <1>2, AdvanceAdvances DEF VisitLeaf
<1>4. cursor # <<>> => cursor[Len(cursor)].slot \in Waiting
  BY <1>1, RoomWaits DEF VisitLeaf
<1>5. runs' = runs /\ (status' = "live" => status = "live")
  BY LeafStatus DEF Base
<1>6. CASE SkipLeaf(n)
  <2> DEFINE returns == n.kind = "ret"
  <2>1. CutOff /\ frames' = childDone(cutFrames, cursor, returns) /\ returns \in BOOLEAN
    BY <1>6 DEF SkipLeaf
  <2>2. insideFunction' = insideFunction /\ phase' = "analyze"
    BY <1>6 DEF SkipLeaf, Skipped, InFunctionUnchanged
  <2> HIDE DEF returns
  <2>3. SameRecords(cutFrames, frames)
    BY <2>1, CutRecords DEF Base
  <2>4. cutFrames \in Seq(Frames)
    BY <2>3 DEF SameRecords
  <2>5. SameRecords(frames', cutFrames)
    BY <2>1, <2>4, ChildDoneRecords
  <2>6. SameRecords(frames', frames)
    BY <1>2, <2>3, <2>5, SameRecordsTrans
  <2> QED BY <1>1, <1>3, <1>4, <1>5, <2>2, <2>6
<1>7. CASE \E a : AnalyzeLeaf(n, a)
  <2> DEFINE returns == n.kind = "ret"
             fs == childDone(frames, cursor, returns)
  <2>1. frames' = terminated(fs, n) /\ returns \in BOOLEAN
    BY <1>7 DEF AnalyzeLeaf
  <2>2. insideFunction' = insideFunction /\ phase' = "analyze"
    BY <1>7 DEF AnalyzeLeaf, Analyzing, InFunctionUnchanged
  <2> HIDE DEF returns
  <2>3. SameRecords(fs, frames)
    BY <1>2, <2>1, ChildDoneRecords
  <2> HIDE DEF fs
  <2>4. fs \in Seq(Frames)
    BY <2>3 DEF SameRecords
  <2>5. SameRecords(frames', fs)
    BY <2>1, <2>4, TerminatedRecords
  <2>6. SameRecords(frames', frames)
    BY <1>2, <2>3, <2>5, SameRecordsTrans
  <2> QED BY <1>1, <1>3, <1>4, <1>5, <2>2, <2>6
<1> QED BY <1>1, <1>6, <1>7 DEF Leaf, AnalyzeSimple, AnalyzeReturn, AnalyzeJump, AnalyzeNull

LEMMA NoneDeclared ==
  /\ Moves(store, store, {})
  /\ \A n : n.kind \in LeafKinds => DeclaredBy(n) = Declares(n)
BY MovesNot DEF DeclaredBy, Declares, LeafKinds, SimpleKinds, JumpKinds

\* What a class without reuse says of the names a statement declares.
LEMMA FreshNames ==
  ASSUME NEW n, InClass(n), Strict
  PROVE  /\ DeclaredBy(n) \cap seen = {} /\ seen' = seen \cup DeclaredBy(n)
         /\ HeaderAssigns(n) \subseteq assigned \cup DeclaredBy(n)
BY DEF InClass, Fresh, AssignedBefore, Strict

\* A leaf that is analysed.
LEMMA LeafTracked ==
  ASSUME Base, RunInv', VarInv, NEW n \in Statements, FlowLeaf(n), NEW a, AnalyzeLeaf(n, a),
         ~failed', NEW m, Joint(a, m, Len(store)), Moves(m.store, store, DeclaredBy(n)),
         \A x \in a.assigned : x \in assigned \/ Bound(m.store, x),
         store' = m.store, obs'.uninit = m.uninit, obs'.closed = {}
  PROVE  VarInv' /\ ReportInv'
<1>1. ~failed /\ scopes' = a.scopes /\ assigned' = a.assigned /\ diags' = a.diags
  BY BecomeClean DEF AnalyzeLeaf
<1>2. ~CutOff
  BY DEF AnalyzeLeaf, Analyzing
<1>3. /\ Joint(Env, Run!Memory, Len(store)) /\ store # <<>> /\ store \in Seq(Run!Variables)
  BY <1>1, <1>2, JointHere
<1>4. /\ class' = class /\ phase' = "analyze" /\ runs' = runs
      /\ Advanced(cursor', cursor) /\ (cursor # <<>> => cursor[Len(cursor)].slot \in Waiting)
      /\ SameRecords(frames', frames) /\ insideFunction' = insideFunction
      /\ status' = "live" => status = "live"
  BY LeafPath
<1>5. /\ a.scopes \in Seq(Scopes) /\ Tied(a.scopes, m.store)
      /\ Strict => Warned(m, a)
      /\ Strict /\ status = "live" => Initialized(m.store, a.assigned)
  BY EnvTyped DEF Joint
<1>6. store' \in Seq(Run!Variables)
  BY DEF RunInv
<1>7. Levels(scopes', store', CutOff')
  BY <1>1, <1>5, <1>6, LevelsTied
<1>8. Reports
  BY <1>1, <1>5 DEF Reports, Warned
<1>9. ASSUME Strict
      PROVE  /\ Tracked(assigned', seen', store', insideFunction', status')
             /\ Saved(frames', cursor', runs', store') /\ Among(frames', seen')
  <2>1. DeclaredBy(n) \cap seen = {} /\ seen' = seen \cup DeclaredBy(n)
    BY <1>9, FreshNames DEF FlowLeaf
  <2>2. status' = "live" => Initialized(store', assigned')
    BY <1>1, <1>4, <1>5, <1>9
  <2>3. \A x \in assigned' : x \in assigned \/ Bound(store', x)
    BY <1>1
  <2> QED BY <1>1, <1>3, <1>4, <1>6, <1>9, <2>1, <2>2, <2>3, FollowStays
<1> QED BY <1>4, <1>7, <1>8, <1>9, VarOfParts DEF Follow

LEMMA VarLeaf ==
  ASSUME Base, RunInv', VarInv, NEW n \in Statements, FlowLeaf(n), ~CutOff, ~failed'
  PROVE  VarInv' /\ ReportInv'
<1> DEFINE k == Len(store)
           M == Run!Memory
<1>1. \E a : AnalyzeLeaf(n, a) /\ Become(a)
  BY DEF FlowLeaf, Leaf, AnalyzeSimple, AnalyzeReturn, AnalyzeJump, AnalyzeNull, AnalyzeLeaf,
         SkipLeaf
<1>2. ~failed
  BY <1>1, BecomeClean
<1>3. /\ Joint(Env, M, k) /\ k \in Nat \ {0} /\ Env \in Envs /\ M.store = store
      /\ Env.assigned = assigned
  BY <1>2, JointHere
<1>4. IsStatement(n) /\ n.kind \in LeafKinds
  BY AstAssumption, LeafVisits DEF FlowLeaf, VisitLeaf
<1>5. DeclaredBy(n) = Declares(n) /\ Moves(store, store, {})
  BY <1>4, NoneDeclared
<1>6. n.kind \in SimpleKinds \/ n.kind = "ret" \/ n.kind \in {"break", "continue"} \/ n.kind = "null"
  BY <1>4 DEF LeafKinds, JumpKinds
<1>7. M.uninit = {}
  BY DEF Run!Memory
<1>8. CASE n.kind \in SimpleKinds
  <2> DEFINE a == analyzeSimple(Env, n)
             m == Run!Simple(M, n)
  <2>1. AnalyzeLeaf(n, a)
    BY <1>8 DEF FlowLeaf, Leaf, AnalyzeSimple, AnalyzeReturn, AnalyzeJump, AnalyzeNull,
                SkipLeaf, SimpleKinds
  <2>2. Run!RunSimple(n)
    BY <1>8 DEF FlowLeaf, Run!RunJump, Run!RunNull, SimpleKinds, Run!JumpKinds
  <2>3. store' = m.store /\ obs'.uninit = m.uninit /\ obs'.closed = {}
    BY <2>2 DEF Run!RunSimple, Run!Remember
  <2>4. Clean(a)
    BY <2>1, BecomeClean DEF AnalyzeLeaf
  <2>5. Strict => Declares(n) \cap Env.assigned = {}
    <3>1. Strict => DeclaredBy(n) \cap seen = {} /\ assigned \subseteq seen
      BY <1>2, FreshNames DEF FlowLeaf, VarInv, Tracked
    <3> QED BY <1>3, <1>5, <3>1
  <2>6. IsSimple(n)
    BY <1>4, <1>8 DEF IsStatement
  <2>7. /\ Joint(a, m, k) /\ Moves(m.store, M.store, Declares(n))
        /\ \A x \in a.assigned : x \in Env.assigned \/ Bound(m.store, x)
    BY <1>3, <2>4, <2>5, <2>6, JointSimple
  <2> HIDE DEF a, m, M
  <2> QED BY <1>3, <1>5, <2>1, <2>3, <2>7, LeafTracked
<1>9. CASE n.kind = "ret"
  <2> DEFINE a == analyzeReturnValue(Env, n)
             m == Reads(M, n.expr)
  <2>1. AnalyzeLeaf(n, a)
    BY <1>9 DEF FlowLeaf, Leaf, AnalyzeSimple, AnalyzeReturn, AnalyzeJump, AnalyzeNull,
                SkipLeaf, SimpleKinds
  <2>2. Run!RunJump(n)
    BY <1>9 DEF FlowLeaf, Run!RunSimple, Run!RunNull, Run!SimpleKinds
  <2>3. store' = m.store /\ obs'.uninit = m.uninit /\ obs'.closed = {}
    BY <1>9, <2>2 DEF Run!RunJump, Run!Remember, Reads
  <2>4. Clean(a)
    BY <2>1, BecomeClean DEF AnalyzeLeaf
  <2>5. IsOptional(n.expr)
    BY <1>4, <1>9 DEF IsStatement
  <2>6. Analyses(a, Env, VarsOf(n.expr))
    BY <1>3, <2>4, <2>5, ReturnAnalyses
  <2>7. Joint(a, m, k) /\ Moves(m.store, M.store, {})
    BY <1>3, <2>6, JointAnalyses
  <2>8. a.assigned = assigned
    BY <1>3, <2>6 DEF Analyses
  <2>9. Declares(n) = {}
    BY <1>9 DEF Declares
  <2> HIDE DEF a, m, M
  <2> QED BY <1>3, <1>5, <2>1, <2>3, <2>7, <2>8, <2>9, LeafTracked
<1>10. CASE n.kind \in {"break", "continue"}
  <2> DEFINE a == report(Env, "jump", "", loopDepth <= 0)
  <2>1. AnalyzeLeaf(n, a)
    BY <1>10 DEF FlowLeaf, Leaf, AnalyzeSimple, AnalyzeReturn, AnalyzeJump, AnalyzeNull,
                SkipLeaf, SimpleKinds
  <2>2. Run!RunJump(n)
    BY <1>10 DEF FlowLeaf, Run!RunSimple, Run!RunNull, Run!SimpleKinds
  <2>3. store' = M.store /\ obs'.uninit = M.uninit /\ obs'.closed = {}
    BY <1>10, <2>2 DEF Run!RunJump, Run!Remember
  <2>4. "jump" \in ErrorKinds \cup WarningKinds /\ "" \in Subjects
    BY Kinds
  <2>5. Analyses(a, Env, {})
    BY <1>3, <2>4, ReportAnalyses
  <2>6. Joint(a, M, k)
    <3>3. a \in Envs /\ Tied(a.scopes, M.store)
      <4>1. a.scopes = Env.scopes /\ a \in Envs
        BY <1>3, <2>4, ReportType
      <4> QED BY <1>3, <4>1 DEF Joint
    <3>4. Strict => Warned(M, a)
      BY <1>7 DEF Warned
    <3>5. a.assigned = Env.assigned
      BY <2>5 DEF Analyses
    <3> QED BY <1>3, <3>3, <3>4, <3>5 DEF Joint
  <2>7. a.assigned = assigned
    BY <1>3, <2>5 DEF Analyses
  <2>8. Declares(n) = {}
    BY <1>10 DEF Declares
  <2> HIDE DEF a, M
  <2> QED BY <1>3, <1>5, <2>1, <2>3, <2>6, <2>7, <2>8, LeafTracked
<1>11. CASE n.kind = "null"
  <2>1. AnalyzeLeaf(n, Env)
    BY <1>11 DEF FlowLeaf, Leaf, AnalyzeSimple, AnalyzeReturn, AnalyzeJump, AnalyzeNull,
                SkipLeaf, SimpleKinds
  <2>2. Run!RunNull(n)
    BY <1>11 DEF FlowLeaf, Run!RunSimple, Run!RunJump, Run!SimpleKinds, Run!JumpKinds
  <2>3. store' = M.store /\ obs'.uninit = M.uninit /\ obs'.closed = {}
    BY <1>3, <1>7, <2>2 DEF Run!RunNull, Run!Quiet
  <2>4. Declares(n) = {}
    BY <1>11 DEF Declares
  <2> HIDE DEF M
  <2> QED BY <1>3, <1>5, <2>1, <2>3, <2>4, LeafTracked
<1> QED BY <1>6, <1>8, <1>9, <1>10, <1>11

\* A statement that is cut off changes at most what the run has declared.
LEMMA SkippedStays ==
  ASSUME Base, Base', VarInv, ~failed, CutOff, CutOff',
         class' = class, phase' # "gather",
         scopes' = scopes, assigned' = assigned, obs'.uninit = {}, obs'.closed = {},
         Len(scopes) <= Len(store'),
         \A i \in 1 .. Len(scopes) : /\ DOMAIN store[i] \subseteq DOMAIN store'[i]
                                     /\ \A x \in DOMAIN store[i] : store'[i][x] = store[i][x]
                                     /\ i < Len(scopes) => DOMAIN store'[i] = DOMAIN store[i],
         Strict => /\ Sound(store', seen', insideFunction') /\ seen \subseteq seen'
                   /\ Saved(frames', cursor', runs', store') /\ Among(frames', seen')
  PROVE  VarInv' /\ ReportInv'
<1>1. scopes \in Seq(Scopes) /\ store \in Seq(Run!Variables) /\ store' \in Seq(Run!Variables)
  BY EnvHere DEF Base, RunInv
<1>2. status' # "live"
  <2>1. (IInv /\ FlowInv /\ CutOff => status # "live")'
    BY CutOffIsDead, PTL
  <2> QED BY <2>1 DEF Base
<1>3. Levels(scopes', store', CutOff')
  <2>1. Levels(scopes, store, CutOff)
    BY DEF VarInv
  <2> QED BY <1>1, <2>1, LevelsCut
<1>4. Strict => Tracked(assigned', seen', store', insideFunction', status')
  <2>1. Strict => assigned \subseteq seen
    BY DEF VarInv, Tracked
  <2> QED BY <1>2, <2>1 DEF Tracked
<1>5. Reports
  BY DEF Reports
<1> QED BY <1>3, <1>4, <1>5, VarOfParts DEF Follow

\* In a skipped leaf the run may declare a variable, and does nothing else.
LEMMA SkipLeafRuns ==
  ASSUME Base, NEW n \in Statements, FlowLeaf(n), status # "live"
  PROVE  /\ obs'.uninit = {} /\ obs'.closed = {}
         /\ store' = store \/ store' = Run!DeclareIn(Run!Memory, n).store
         /\ n.kind = "decl" => n.name \in Name
<1>1. MemoryOK(Run!Memory, Len(store)) /\ Len(store) \in Nat \ {0} /\ Run!Memory.store = store
  BY MemoryType DEF Base
<1>2. Run!Memory.uninit = {}
  BY DEF Run!Memory
<1>3. n.kind = "decl" => n.name \in Name
  BY AstAssumption DEF IsStatement, IsSimple, SimpleKinds
<1>4. CASE Run!RunSimple(n)
  <2> DEFINE d == Run!DeclareIn(Run!Memory, n)
  <2>1. store' = d.store /\ obs'.uninit = d.uninit /\ obs'.closed = {}
    BY <1>4 DEF Run!RunSimple, Run!Remember, Run!Simple
  <2>2. d.uninit = Run!Memory.uninit
    BY <1>1, <1>3, DeclareMoves
  <2> QED BY <1>2, <1>3, <2>1, <2>2
<1>5. CASE Run!RunJump(n)
  BY <1>1, <1>2, <1>3, <1>5 DEF Run!RunJump, Run!Remember
<1>6. CASE Run!RunNull(n)
  BY <1>3, <1>6 DEF Run!RunNull, Run!Quiet
<1> QED BY <1>4, <1>5, <1>6 DEF FlowLeaf

LEMMA VarSkipLeaf ==
  ASSUME Base, Base', VarInv, NEW n \in Statements, FlowLeaf(n), CutOff, ~failed'
  PROVE  VarInv' /\ ReportInv'
<1>1. SkipLeaf(n)
  BY DEF FlowLeaf, Leaf, AnalyzeSimple, AnalyzeReturn, AnalyzeJump, AnalyzeNull,
         AnalyzeLeaf, Analyzing
<1>2. scopes' = scopes /\ assigned' = assigned /\ failed' = failed
  BY <1>1 DEF SkipLeaf, Skipped
<1>3. status # "live"
  BY CutOffIsDead DEF Base
<1>4. /\ class' = class /\ phase' = "analyze" /\ runs' = runs
      /\ Advanced(cursor', cursor) /\ (cursor # <<>> => cursor[Len(cursor)].slot \in Waiting)
      /\ SameRecords(frames', frames) /\ insideFunction' = insideFunction
      /\ status' = "live" => status = "live"
  BY LeafPath
<1>5. CutOff'
  <2> DEFINE returns == n.kind = "ret"
             m == Len(frames)
  <2>1. /\ frames \in Seq(Frames) /\ frames # <<>> /\ m \in 1 .. m
        /\ frames[m].skip \/ frames[m].list # "open"
    BY PathTyped DEF Base, CutOff, Local, Last
  <2>2. frames' = childDone(cutFrames, cursor, returns) /\ returns \in BOOLEAN
    BY <1>1 DEF SkipLeaf
  <2> HIDE DEF returns
  <2>3. Above(cutFrames, frames)
    BY CutAbove DEF Base
  <2>4. Above(frames', cutFrames)
    BY <2>2, <2>3, ChildDoneAbove DEF Above
  <2>5. Above(frames', frames)
    BY <2>3, <2>4, AboveTrans
  <2>6. frames' # <<>> /\ Len(frames') = m /\ (frames'[m].skip \/ frames'[m].list # "open")
    BY <2>1, <2>5 DEF Above
  <2> QED BY <2>6 DEF CutOff, Local, Last
<1>6. /\ obs'.uninit = {} /\ obs'.closed = {}
      /\ store' = store \/ store' = Run!DeclareIn(Run!Memory, n).store
      /\ n.kind = "decl" => n.name \in Name
  BY <1>3, SkipLeafRuns
<1>7. MemoryOK(Run!Memory, Len(store)) /\ Len(store) \in Nat \ {0} /\ Run!Memory.store = store
  BY MemoryType DEF Base
<1>8. /\ Moves(store', store, Declares(n))
      /\ \A i \in 1 .. Len(store) : /\ i < Len(store) => DOMAIN store'[i] = DOMAIN store[i]
                                    /\ \A x \in DOMAIN store[i] : store'[i][x] = store[i][x]
  <2>1. CASE store' = store
    BY <2>1 DEF Moves
  <2>2. CASE store' = Run!DeclareIn(Run!Memory, n).store
    BY <1>6, <1>7, <2>2, DeclareMoves
  <2> QED BY <1>6, <2>1, <2>2
<1>9. Len(scopes) <= Len(store) /\ Len(scopes) \in Nat
  BY Depths DEF Base
<1>10. Len(store') = Len(store) /\ \A i \in 1 .. Len(store) : DOMAIN store[i] \subseteq DOMAIN store'[i]
  BY <1>8 DEF Moves
<1>11. \A i \in 1 .. Len(scopes) : /\ i \in 1 .. Len(store)
                                   /\ i < Len(scopes) => i < Len(store)
  BY <1>7, <1>9
<1>12. ASSUME Strict
       PROVE  /\ Sound(store', seen', insideFunction') /\ seen \subseteq seen'
              /\ Saved(frames', cursor', runs', store') /\ Among(frames', seen')
  <2>1. n.kind \in LeafKinds
    BY LeafVisits DEF FlowLeaf, VisitLeaf
  <2>2. DeclaredBy(n) \cap seen = {} /\ seen' = seen \cup DeclaredBy(n)
        /\ DeclaredBy(n) = Declares(n)
    BY <1>12, <2>1, FreshNames, NoneDeclared DEF FlowLeaf
  <2>3. store' \in Seq(Run!Variables) /\ store # <<>>
    BY <1>7 DEF Base, RunInv
  <2>4. /\ Tracked(assigned', seen', store', insideFunction', status')
        /\ Saved(frames', cursor', runs', store') /\ Among(frames', seen')
    BY <1>2, <1>3, <1>4, <1>8, <1>12, <2>2, <2>3, FollowStays
  <2> QED BY <2>2, <2>4 DEF Tracked
<1> QED BY <1>2, <1>4, <1>5, <1>6, <1>8, <1>9, <1>10, <1>11, <1>12, SkippedStays

--------------------------------------------------------------------------------
(***************************************************************************)
(* Steps into statements with children.                                    *)
(***************************************************************************)
LEMMA SavedOpens ==
  ASSUME Base, VarInv, ~failed, Strict, seen \subseteq seen', Persists(store', store, seen),
         NEW gs, SameRecords(gs, frames), NEW r \in Frames, frames' = Append(gs, r),
         NEW e \in Entries, cursor' = Append(cursor, e),
         NEW q \in Run!Runs, runs' = Append(runs, q),
         ~r.skip => Safe(r, e, q, store'), r.before \subseteq seen', r.afterThen \subseteq seen'
  PROVE  Saved(frames', cursor', runs', store') /\ Among(frames', seen')
<1>1. Saved(frames, cursor, runs, store) /\ Among(frames, seen)
  BY DEF VarInv
<1>2. /\ Walk(cursor) /\ frames \in Seq(Frames) /\ Len(cursor) = Len(frames)
      /\ cursor \in Seq(Entries) /\ runs \in Seq(Run!Runs) /\ Len(runs) = Len(cursor)
  BY PathTyped, PathInvParts DEF Base, RunInv
<1>3. Saved(gs, cursor, runs, store') /\ Among(gs, seen)
  BY <1>1, <1>2, SavedStays
<1>4. gs \in Seq(Frames) /\ Len(gs) = Len(frames)
  BY DEF SameRecords
<1>5. Among(gs, seen')
  BY <1>3, AmongLess
<1> QED BY <1>2, <1>3, <1>4, <1>5, SavedPushes

\* The variables after a step that may open a scope.
LEMMA StoreOpens ==
  ASSUME Base, VarInv, ~failed, Strict, NEW X, X \cap seen = {},
         store' \in Seq(Run!Variables),
         Moves(store', store, X) \/ Moves(store', Append(store, EmptyScope), X)
  PROVE  Sound(store', seen \cup X, insideFunction) /\ Persists(store', store, seen)
<1> DEFINE st == Append(store, EmptyScope)
<1>1. Sound(store, seen, insideFunction) /\ store \in Seq(Run!Variables) /\ store # <<>>
  BY MemoryType DEF VarInv, Tracked, Base, RunInv
<1>2. CASE Moves(store', store, X)
  BY <1>1, <1>2, SoundMoves
<1>3. CASE Moves(store', st, X)
  <2>1. Sound(st, seen, insideFunction) /\ Persists(st, store, seen) /\ st \in Seq(Run!Variables)
    BY <1>1, SoundOpens
  <2>2. st # <<>>
    BY <1>1
  <2> HIDE DEF st
  <2>3. Sound(store', seen \cup X, insideFunction) /\ Persists(store', st, seen)
    BY <1>3, <2>1, <2>2, SoundMoves
  <2> QED BY <2>1, <2>3, PersistsTrans
<1> QED BY <1>2, <1>3

LEMMA EntryOpens ==
  ASSUME IInv, NEW n \in Statements, Open(n)
  PROVE  \E e \in Entries : /\ e.node = n /\ e.slot \notin {"else", "done"}
                            /\ cursor' = Append(cursor, e)
<1> DEFINE e == [node |-> n, slot |-> FirstSlot(n)]
<1>1. FirstSlot(n) \in {"list", "then", "body"}
  BY DEF FirstSlot
<1>2. e \in Entries /\ e.node = n /\ e.slot \notin {"else", "done"}
  BY <1>1 DEF Entries, Slots
<1>3. cursor' = Append(cursor, e)
  BY DEF Open
<1> QED BY <1>2, <1>3

\* A statement that is analysed.
LEMMA DownTracked ==
  ASSUME Base, RunInv', VarInv, NEW n \in Statements, FlowDown(n), ~failed',
         NEW a, NEW before, Enter(n, a, before), before \in SUBSET Name,
         NEW k, NEW m, Joint(a, m, k),
         Moves(m.store, store, DeclaredBy(n))
           \/ Moves(m.store, Append(store, EmptyScope), DeclaredBy(n)),
         \A x \in a.assigned : x \in assigned \/ Bound(m.store, x),
         n.kind = "block" => before = {},
         n.kind # "block" => before = a.assigned,
         store' = m.store, obs'.uninit = m.uninit, obs'.closed = {}
  PROVE  VarInv' /\ ReportInv'
<1>1. ~failed /\ scopes' = a.scopes /\ assigned' = a.assigned /\ diags' = a.diags
  BY BecomeClean DEF Enter
<1>2. /\ a.scopes \in Seq(Scopes) /\ Tied(a.scopes, m.store)
      /\ Strict => Warned(m, a)
      /\ Strict /\ status = "live" => Initialized(m.store, a.assigned)
  BY EnvTyped DEF Joint
<1>3. store' \in Seq(Run!Variables)
  BY DEF RunInv
<1>4. Levels(scopes', store', CutOff')
  BY <1>1, <1>2, <1>3, LevelsTied
<1>5. Reports
  BY <1>1, <1>2 DEF Reports, Warned
<1>6. class' = class /\ Open(n) /\ n.kind \in CompoundKinds
  BY DownOpens DEF FlowDown, Open
<1>7. phase' # "gather" /\ insideFunction' = insideFunction
  BY DEF Enter, Analyzing, InFunctionUnchanged
<1>8. PICK e \in Entries : /\ e.node = n /\ e.slot \notin {"else", "done"}
                           /\ cursor' = Append(cursor, e)
  BY <1>6, EntryOpens DEF Base
<1>9. PICK q \in Run!Runs :
        /\ runs' = Append(runs, q)
        /\ status # "live" => /\ status' # "live" /\ q.parked # "live"
                              /\ n.kind \in LoopKinds => q.parked # "none"
  BY DownStatus DEF Base
<1> DEFINE r == frame(FALSE, before)
<1>10. /\ r \in Frames /\ r.before = before /\ r.afterThen = {}
       /\ frames' = Append(frames, r)
  BY DEF frame, Frames, Enter
<1> HIDE DEF r
<1>11. ASSUME Strict
       PROVE  /\ Tracked(assigned', seen', store', insideFunction', status')
              /\ Saved(frames', cursor', runs', store') /\ Among(frames', seen')
  <2>1. DeclaredBy(n) \cap seen = {} /\ seen' = seen \cup DeclaredBy(n)
    BY <1>11, FreshNames DEF FlowDown
  <2>2. Sound(store', seen', insideFunction') /\ Persists(store', store, seen)
    BY <1>1, <1>3, <1>7, <1>11, <2>1, StoreOpens
  <2>3. assigned' \subseteq seen'
    <3>1. assigned \subseteq seen
      BY <1>1, <1>11 DEF VarInv, Tracked
    <3>2. \A x : Bound(store', x) => x \in seen'
      BY <2>2 DEF Bound, Sound
    <3> QED BY <1>1, <2>1, <3>1, <3>2
  <2>4. status' = "live" => Initialized(store', assigned')
    BY <1>1, <1>2, <1>9, <1>11
  <2>5. Safe(r, e, q, store')
    <3>1. n.kind \in LoopKinds /\ q.parked \in {"none", "live"} => status = "live"
      BY <1>9
    <3>2. q.parked = "live" => status = "live"
      BY <1>9
    <3>3. n.kind # "block" /\ status = "live" => Initialized(store', before)
      BY <1>2, <1>11
    <3>4. "block" \notin LoopKinds /\ n.kind # "func"
      BY <1>6 DEF LoopKinds, CompoundKinds
    <3> QED BY <1>8, <1>10, <3>1, <3>2, <3>3, <3>4 DEF Safe
  <2>6. before \subseteq seen'
    BY <1>1, <2>3, <1>6
  <2>7. SameRecords(frames, frames) /\ seen \subseteq seen'
    BY <2>1, SameRecordsRefl DEF Base
  <2>8. Saved(frames', cursor', runs', store') /\ Among(frames', seen')
    BY <1>1, <1>8, <1>9, <1>10, <1>11, <2>2, <2>5, <2>6, <2>7, SavedOpens
  <2> QED BY <2>2, <2>3, <2>4, <2>8 DEF Tracked
<1> QED BY <1>4, <1>5, <1>6, <1>7, <1>11, VarOfParts DEF Follow

LEMMA VarDown ==
  ASSUME Base, RunInv', VarInv, NEW n \in Statements, FlowDown(n), ~CutOff, ~failed'
  PROVE  VarInv' /\ ReportInv'
<1> DEFINE k == Len(store)
           M == Run!Memory
<1>1. n.kind \in CompoundKinds /\ IsStatement(n) /\ ~failed
  <2>1. n.kind \in CompoundKinds
    BY DownOpens DEF FlowDown, Open
  <2>2. \E a : Become(a)
    BY DEF FlowDown, Down, EnterBlock, EnterIf, EnterWhile, EnterFor, Enter, SkipEnter
  <2> QED BY <2>1, <2>2, BecomeClean, AstAssumption
<1>2. /\ Joint(Env, M, k) /\ k \in Nat \ {0} /\ Env \in Envs /\ M.store = store
      /\ Env.assigned = assigned /\ assigned \in SUBSET Name
  BY <1>1, JointHere, EnvHere DEF Base
<1>3. n.kind = "block" \/ n.kind \in {"if", "while"} \/ n.kind = "for"
  BY <1>1 DEF CompoundKinds, LoopKinds
<1>4. n.kind # "for" => DeclaredBy(n) = {}
  BY <1>1 DEF DeclaredBy, CompoundKinds, LoopKinds
<1>5. CASE n.kind = "block"
  <2> DEFINE a == [Env EXCEPT !.scopes = Append(@, EmptyScope)]
             m == [M EXCEPT !.store = Append(@, Run!EmptyScope)]
  <2>1. Enter(n, a, {})
    BY <1>5 DEF FlowDown, Down, EnterBlock, EnterIf, EnterWhile, EnterFor, SkipEnter
  <2>2. Run!RunBlock(n)
    BY <1>5 DEF FlowDown, Run!RunCondition, Run!RunFor
  <2>3. store' = m.store /\ obs'.uninit = m.uninit /\ obs'.closed = {}
    BY <2>2 DEF Run!RunBlock, Run!Remember
  <2>4. Joint(a, m, k + 1)
    BY <1>2, JointOpens
  <2>5. m.store = Append(store, EmptyScope) /\ a.assigned = assigned
    <3>1. Run!EmptyScope = EmptyScope
      BY RunLooksUp
    <3>2. M = [store |-> store, uninit |-> {}]
      BY DEF Run!Memory
    <3>3. a.assigned = Env.assigned
      BY <1>2, PushScopeType
    <3> QED BY <1>2, <3>1, <3>2, <3>3
  <2>6. Moves(m.store, Append(store, EmptyScope), {})
    BY <2>5, MovesNot
  <2> HIDE DEF a, m, M
  <2> QED BY <1>1, <1>2, <1>4, <1>5, <2>1, <2>3, <2>4, <2>5, <2>6, DownTracked
<1>6. CASE n.kind \in {"if", "while"}
  <2> DEFINE a == analyzeCondition(Env, <<n.cond>>)
             m == Reads(M, <<n.cond>>)
  <2>1. Enter(n, a, assigned)
    BY <1>6 DEF FlowDown, Down, EnterBlock, EnterIf, EnterWhile, EnterFor, SkipEnter
  <2>2. Run!RunCondition(n)
    BY <1>6 DEF FlowDown, Run!RunBlock, Run!RunFor
  <2>3. store' = m.store /\ obs'.uninit = m.uninit /\ obs'.closed = {}
    BY <2>2 DEF Run!RunCondition, Run!Branch, Run!Remember, Reads
  <2>4. Clean(a)
    BY <2>1, BecomeClean DEF Enter
  <2>5. IsOptional(<<n.cond>>)
    BY <1>1, <1>6 DEF IsStatement, IsOptional
  <2>6. Analyses(a, Env, VarsOf(<<n.cond>>))
    BY <1>2, <2>4, <2>5, ConditionAnalyses
  <2>7. Joint(a, m, k) /\ Moves(m.store, M.store, {})
    BY <1>2, <2>6, JointAnalyses
  <2>8. a.assigned = assigned
    BY <1>2, <2>6 DEF Analyses
  <2> HIDE DEF a, m, M
  <2> QED BY <1>1, <1>2, <1>4, <1>6, <2>1, <2>3, <2>7, <2>8, DownTracked
<1>7. CASE n.kind = "for"
  <2> DEFINE a == analyzeForHeader(Env, n)
             m == Run!Header(M, n)
  <2>1. Enter(n, a, a.assigned)
    BY <1>7 DEF FlowDown, Down, EnterBlock, EnterIf, EnterWhile, EnterFor, SkipEnter
  <2>2. Run!RunFor(n)
    BY <1>7 DEF FlowDown, Run!RunCondition, Run!RunBlock
  <2>3. store' = m.store /\ obs'.uninit = m.uninit /\ obs'.closed = {}
    BY <2>2 DEF Run!RunFor, Run!Branch, Run!Remember
  <2>4. Clean(a)
    BY <2>1, BecomeClean DEF Enter
  <2>5. /\ Strict => DeclaredBy(n) \cap Env.assigned = {}
        /\ Strict => HeaderAssigns(n) \subseteq Env.assigned \cup DeclaredBy(n)
    <3>1. Strict => /\ DeclaredBy(n) \cap seen = {} /\ assigned \subseteq seen
                    /\ HeaderAssigns(n) \subseteq assigned \cup DeclaredBy(n)
      BY <1>1, FreshNames DEF FlowDown, VarInv, Tracked
    <3> QED BY <1>2, <3>1
  <2>6. /\ Joint(a, m, k + 1)
        /\ Moves(m.store, Append(M.store, EmptyScope), DeclaredBy(n))
        /\ \A x \in a.assigned : x \in Env.assigned \/ Bound(m.store, x)
    BY <1>1, <1>2, <1>7, <2>4, <2>5, JointHeader
  <2>7. a.assigned \in SUBSET Name
    BY <2>6, EnvTyped DEF Joint
  <2> HIDE DEF a, m, M
  <2> QED BY <1>1, <1>2, <1>7, <2>1, <2>3, <2>6, <2>7, DownTracked
<1> QED BY <1>3, <1>5, <1>6, <1>7

\* In the header of a skipped statement the run declares a variable at most.
LEMMA SkipEnterRuns ==
  ASSUME Base, NEW n \in Statements, FlowDown(n), status # "live"
  PROVE  /\ obs'.uninit = {} /\ obs'.closed = {}
         /\ Moves(store', store, DeclaredBy(n))
              \/ Moves(store', Append(store, EmptyScope), DeclaredBy(n))
         /\ Len(store) <= Len(store')
         /\ \A i \in 1 .. Len(store) : /\ DOMAIN store'[i] = DOMAIN store[i]
                                       /\ \A x \in DOMAIN store[i] : store'[i][x] = store[i][x]
<1> DEFINE M == Run!Memory
           k == Len(store)
           m0 == [M EXCEPT !.store = Append(@, Run!EmptyScope)]
           st == Append(store, EmptyScope)
<1>1. /\ MemoryOK(M, k) /\ k \in Nat \ {0} /\ M.store = store
      /\ store \in Seq(Run!Variables)
  BY MemoryType DEF Base, RunInv
<1>2. M.uninit = {} /\ M = [store |-> store, uninit |-> {}]
  BY DEF Run!Memory
<1>3. IsStatement(n) /\ n.kind \in CompoundKinds
  BY AstAssumption, DownOpens DEF FlowDown, Open
<1>4. /\ Len(st) = k + 1 /\ \A i \in 1 .. k : st[i] = store[i]
      /\ st \in Seq(Run!Variables)
  <2>1. EmptyScope \in Run!Variables
    BY NoVariables, RunLooksUp
  <2> QED BY <1>1, <2>1
<1>5. m0.store = st /\ m0.uninit = {} /\ MemoryOK(m0, k + 1)
  <2>1. Run!EmptyScope = EmptyScope
    BY RunLooksUp
  <2>2. m0.store = st /\ m0.uninit = {}
    BY <1>2, <2>1
  <2>3. MemoryOK(m0, k + 1)
    BY <1>1, NewScopeType, NoVariables
  <2> QED BY <2>2, <2>3
<1>6. n.kind # "for" => DeclaredBy(n) = {}
  BY <1>3 DEF DeclaredBy, CompoundKinds, LoopKinds
<1>10. /\ k <= Len(store) /\ k <= Len(st)
       /\ \A i \in 1 .. k : /\ DOMAIN st[i] = DOMAIN store[i]
                             /\ \A x \in DOMAIN store[i] : st[i][x] = store[i][x]
  BY <1>1, <1>4
<1>7. CASE Run!RunBlock(n)
  <2>1. store' = m0.store /\ obs'.uninit = m0.uninit /\ obs'.closed = {} /\ n.kind # "for"
    BY <1>7 DEF Run!RunBlock, Run!Remember
  <2>2. Moves(st, st, {})
    BY MovesNot
  <2> HIDE DEF m0
  <2>3. store' = st /\ obs'.uninit = {} /\ obs'.closed = {} /\ DeclaredBy(n) = {}
    BY <1>5, <1>6, <2>1
  <2> HIDE DEF st
  <2> QED BY <1>10, <2>2, <2>3 DEF st
<1>8. CASE Run!RunCondition(n)
  <2>1. store' = M.store /\ obs'.uninit = M.uninit /\ obs'.closed = {} /\ n.kind # "for"
    BY <1>8 DEF Run!RunCondition, Run!Branch, Run!Remember
  <2>2. Moves(store, store, {})
    BY MovesNot
  <2>3. store' = store /\ obs'.uninit = {} /\ DeclaredBy(n) = {}
    BY <1>1, <1>2, <1>6, <2>1
  <2> QED BY <1>10, <2>1, <2>2, <2>3
<1>9. CASE Run!RunFor(n)
  <2> DEFINE h == Run!Header(M, n)
  <2>1. store' = h.store /\ obs'.uninit = h.uninit /\ obs'.closed = {} /\ n.kind = "for"
    BY <1>9 DEF Run!RunFor, Run!Branch, Run!Remember
  <2>2. h = IF n.init = <<>> THEN m0 ELSE Run!DeclareIn(m0, n.init[1])
    BY DEF Run!Header, Run!OnOptional, Run!Simple
  <2> HIDE DEF h, m0
  <2>3. CASE n.init = <<>>
    <3>1. h = m0 /\ DeclaredBy(n) = {}
      BY <2>1, <2>2, <2>3, SingleDeclaration
    <3>2. Moves(st, st, {})
      BY MovesNot
    <3>3. store' = st /\ obs'.uninit = {}
      BY <1>5, <2>1, <3>1
    <3> HIDE DEF st, h
    <3> QED BY <1>10, <2>1, <3>1, <3>2, <3>3 DEF st
  <2>4. CASE n.init # <<>>
    <3> DEFINE d == n.init[1]
    <3>1. h = Run!DeclareIn(m0, d) /\ Declares(d) = DeclaredBy(n)
      BY <2>1, <2>2, <2>4, SingleDeclaration
    <3>2. d.kind = "decl" => d.name \in Name
      BY <1>3, <2>1, <2>4 DEF IsStatement, IsSimple
    <3>3. k + 1 \in Nat \ {0}
      BY <1>1
    <3> HIDE DEF d, st
    <3>9. k + 1 \in Nat \ {0} /\ MemoryOK(m0, k + 1)
      BY <1>5, <3>3
    <3>4. /\ Moves(h.store, m0.store, Declares(d)) /\ h.uninit = m0.uninit
          /\ \A i \in 1 .. k + 1 :
               /\ i < k + 1 => DOMAIN h.store[i] = DOMAIN m0.store[i]
               /\ \A x \in DOMAIN m0.store[i] : h.store[i][x] = m0.store[i][x]
      <4> DEFINE j == k + 1
      <4>1. j \in Nat \ {0} /\ MemoryOK(m0, j)
        BY <3>9
      <4> HIDE DEF j
      <4>2. /\ Moves(h.store, m0.store, Declares(d)) /\ h.uninit = m0.uninit
            /\ \A i \in 1 .. j :
               /\ i < j => DOMAIN h.store[i] = DOMAIN m0.store[i]
               /\ \A x \in DOMAIN m0.store[i] : h.store[i][x] = m0.store[i][x]
        BY <4>1, <3>1, <3>2, DeclareMoves
      <4> QED BY <4>2 DEF j
    <3>5. Len(h.store) = k + 1
      BY <1>4, <1>5, <3>4 DEF Moves
    <3>6. \A i \in 1 .. k : i \in 1 .. k + 1 /\ i < k + 1
      BY <1>1
    <3> HIDE DEF k
    <3>7. k <= k + 1
      BY <1>1
    <3>8. \A i \in 1 .. k : /\ DOMAIN h.store[i] = DOMAIN store[i]
                            /\ \A x \in DOMAIN store[i] : h.store[i][x] = store[i][x]
      BY <1>4, <1>5, <3>4, <3>6
    <3> HIDE DEF h
    <3> QED BY <1>1, <1>5, <2>1, <3>1, <3>4, <3>5, <3>7, <3>8 DEF k, st
  <2> QED BY <2>3, <2>4
<1> QED BY <1>7, <1>8, <1>9 DEF FlowDown

LEMMA VarSkipEnter ==
  ASSUME Base, Base', VarInv, NEW n \in Statements, FlowDown(n), CutOff, ~failed'
  PROVE  VarInv' /\ ReportInv'
<1>1. SkipEnter(n)
  BY DEF FlowDown, Down, EnterBlock, EnterIf, EnterWhile, EnterFor, Enter, Analyzing
<1>2. /\ scopes' = scopes /\ assigned' = assigned /\ failed' = failed
      /\ insideFunction' = insideFunction /\ phase' = "analyze" /\ class' = class
  BY <1>1 DEF SkipEnter, Skipped, InFunctionUnchanged, FlowDown
<1>3. status # "live"
  BY CutOffIsDead DEF Base
<1>4. /\ obs'.uninit = {} /\ obs'.closed = {}
      /\ Moves(store', store, DeclaredBy(n))
           \/ Moves(store', Append(store, EmptyScope), DeclaredBy(n))
      /\ Len(store) <= Len(store')
      /\ \A i \in 1 .. Len(store) : /\ DOMAIN store'[i] = DOMAIN store[i]
                                    /\ \A x \in DOMAIN store[i] : store'[i][x] = store[i][x]
  BY <1>3, SkipEnterRuns
<1> DEFINE r == frame(TRUE, {})
<1>5. r \in Frames /\ r.skip /\ r.before = {} /\ r.afterThen = {}
  BY DEF frame, Frames
<1>6. frames' = Append(cutFrames, r)
  BY <1>1 DEF SkipEnter
<1> HIDE DEF r
<1>7. SameRecords(cutFrames, frames)
  BY CutRecords DEF Base
<1>8. CutOff'
  <2>1. cutFrames \in Seq(Frames)
    BY <1>7 DEF SameRecords
  <2>2. frames' # <<>> /\ frames'[Len(frames')].skip
    BY <1>5, <1>6, <2>1
  <2> QED BY <2>2 DEF CutOff, Local, Last
<1>9. Len(scopes) <= Len(store) /\ Len(scopes) \in Nat /\ Len(store) \in Nat /\ Len(store') \in Nat
  <2>1. store \in Seq(Run!Variables) /\ store' \in Seq(Run!Variables)
    BY DEF Base, RunInv
  <2> QED BY <2>1, Depths DEF Base
<1>10. Len(scopes) <= Len(store') /\ \A i \in 1 .. Len(scopes) : i \in 1 .. Len(store)
  BY <1>4, <1>9
<1>11. ASSUME Strict
       PROVE  /\ Sound(store', seen', insideFunction') /\ seen \subseteq seen'
              /\ Saved(frames', cursor', runs', store') /\ Among(frames', seen')
  <2>1. DeclaredBy(n) \cap seen = {} /\ seen' = seen \cup DeclaredBy(n)
    BY <1>11, FreshNames DEF FlowDown
  <2>2. store' \in Seq(Run!Variables)
    BY DEF Base, RunInv
  <2>3. Sound(store', seen \cup DeclaredBy(n), insideFunction) /\ Persists(store', store, seen)
    BY <1>2, <1>4, <1>11, <2>1, <2>2, StoreOpens
  <2>4. PICK e \in Entries : cursor' = Append(cursor, e)
    BY DownOpens, EntryOpens DEF FlowDown, Base
  <2>5. PICK q \in Run!Runs : runs' = Append(runs, q)
    BY DownStatus DEF Base
  <2>6. r.before \subseteq seen' /\ r.afterThen \subseteq seen' /\ seen \subseteq seen'
    BY <1>5, <2>1
  <2>7. Saved(frames', cursor', runs', store') /\ Among(frames', seen')
    BY <1>2, <1>5, <1>6, <1>7, <1>11, <2>3, <2>4, <2>5, <2>6, SavedOpens
  <2> QED BY <1>2, <2>1, <2>3, <2>6, <2>7
<1> QED BY <1>2, <1>4, <1>8, <1>10, <1>11, SkippedStays

--------------------------------------------------------------------------------
(***************************************************************************)
(* Functions.                                                              *)
(***************************************************************************)

\* Between the statements of the program there are the global variables alone.
LEMMA GlobalsAlone ==
  ASSUME Base, cursor = <<>>
  PROVE  /\ Len(store) = 1 /\ Len(scopes) = 1 /\ frames = <<>> /\ Len(frames) = 0
         /\ ~CutOff /\ store[1] \in Run!Variables /\ scopes[1] \in Scopes
         /\ scopes \in Seq(Scopes) /\ store \in Seq(Run!Variables)
<1>1. frames = <<>> /\ Len(frames) = 0
  BY PathTyped DEF Base
<1>2. Positions(cursor, Scoped) = {}
  BY DEF Positions
<1>3. ScopeCount(cursor) = 0
  BY <1>2, FS_EmptySet DEF ScopeCount
<1>4. Len(store) = 1 /\ store \in Seq(Run!Variables)
  BY <1>3 DEF Base, RunInv
<1>5. Len(scopes) = 1 /\ scopes \in Seq(Scopes)
  BY <1>1, <1>4, Depths, EnvHere DEF Base
<1>6. ~CutOff
  BY <1>1 DEF CutOff
<1> QED BY <1>1, <1>4, <1>5, <1>6

\* The scope of the parameters.
NamesOf(ps) == {ps[i].name : i \in DOMAIN ps}

LEMMA ParametersScope ==
  ASSUME NEW a \in Envs, NEW ps \in Seq(Parameters)
  PROVE  /\ declareParameters(a, ps).assigned = NamesOf(ps)
         /\ \E s : /\ declareParameters(a, ps).scopes = Append(a.scopes, s)
                   /\ DOMAIN s = NamesOf(ps) /\ \A n \in NamesOf(ps) : ~s[n].used
<1> DEFINE names == {ps[i].name : i \in DOMAIN ps}
           First(n) == CHOOSE i \in DOMAIN ps :
                    /\ ps[i].name = n
                    /\ \A j \in DOMAIN ps : ps[j].name = n => i <= j
           entry(n) == [type |-> ps[First(n)].type, used |-> FALSE]
           scope == [n \in names |-> entry(n)]
           b == [a EXCEPT !.scopes = Append(@, scope), !.assigned = names]
           wrong == Cardinality(names) < Len(ps)
<1>1. declareParameters(a, ps) = report(b, "redeclared", "", wrong)
  BY DEF declareParameters
<1>2. \A n \in names : ~entry(n).used
  OBVIOUS
<1> HIDE DEF entry
<1>3. DOMAIN scope = names /\ \A n \in names : ~scope[n].used
  BY <1>2
<1> HIDE DEF scope, wrong
<1>4. b.scopes = Append(a.scopes, scope) /\ b.assigned = names
  BY DEF Envs
<1>5. /\ report(b, "redeclared", "", wrong).scopes = b.scopes
      /\ report(b, "redeclared", "", wrong).assigned = b.assigned
  <2>1. [b EXCEPT !.diags = @ \cup {<<"redeclared", "">>}].scopes = b.scopes
    BY DEF Envs
  <2>2. [b EXCEPT !.diags = @ \cup {<<"redeclared", "">>}].assigned = b.assigned
    BY DEF Envs
  <2> HIDE DEF b
  <2> QED BY <2>1, <2>2 DEF report
<1> HIDE DEF b
<1>6. NamesOf(ps) = names
  BY DEF NamesOf
<1> HIDE DEF names
<1> QED BY <1>1, <1>3, <1>4, <1>5, <1>6

LEMMA SecondScope ==
  ASSUME NEW T, NEW st \in Seq(T), Len(st) = 1, NEW x
  PROVE  Len(Append(st, x)) = 2 /\ Append(st, x)[1] = st[1] /\ Append(st, x)[2] = x
<1> DEFINE U == T \cup {x}
<1>1. st \in Seq(U) /\ x \in U
  OBVIOUS
<1> HIDE DEF U
<1>2. Len(Append(st, x)) = 2 /\ Append(st, x)[2] = x
  BY <1>1
<1>3. Append(st, x)[1] = st[1]
  BY <1>1
<1> QED BY <1>2, <1>3, Zenon

\* The variables when the run enters a function: no global has a value, each
\* parameter has.
LEMMA RunFunctionStore ==
  ASSUME Base, cursor = <<>>, NEW f \in Functions, Run!RunFunction(f), NEW names,
         names = {f.params[i].name : i \in DOMAIN f.params}
  PROVE  /\ Len(store') = 2 /\ DOMAIN store'[1] = DOMAIN store[1]
         /\ \A n \in DOMAIN store[1] : store'[1][n].read = store[1][n].read
         /\ DOMAIN store'[2] = names
         /\ \A n \in names : store'[2][n].init /\ ~store'[2][n].read
         /\ obs'.uninit = {} /\ obs'.closed = {}
         /\ \E q : /\ runs' = Append(runs, q) /\ q.parked = status
                   /\ q.globals = {n \in DOMAIN store[1] : store[1][n].init}
<1> DEFINE initialized == {n \in Name : n \in DOMAIN store[1] /\ store[1][n].init}
           reset(i) == [n \in DOMAIN store[i] |-> [store[i][n] EXCEPT !.init = FALSE]]
           called == [i \in DOMAIN store |-> reset(i)]
           params == [n \in names |-> [init |-> TRUE, read |-> FALSE]]
           m == [Run!Memory EXCEPT !.store = Append(called, params)]
           q == [parked |-> status, globals |-> initialized]
<1>1. runs' = Append(runs, q) /\ Run!Remember(m, {}, FALSE, FALSE)
  BY DEF Run!RunFunction
<1>2. /\ Len(store) = 1 /\ store[1] \in Run!Variables /\ store \in Seq(Run!Variables)
  BY GlobalsAlone
<1>3. q.parked = status /\ q.globals = initialized
  OBVIOUS
<1>4. m.store = Append(called, params) /\ m.uninit = {}
  BY DEF Run!Memory
<1> HIDE DEF m, q
<1>5. store' = Append(called, params) /\ obs'.uninit = {} /\ obs'.closed = {}
  BY <1>1, <1>4 DEF Run!Remember
<1>6. \A n \in DOMAIN store[1] : reset(1)[n].read = store[1][n].read
  <2>1. \A n \in DOMAIN store[1] : store[1][n] \in [init : BOOLEAN, read : BOOLEAN]
    BY <1>2, ScopeShape DEF Cells
  <2> QED BY <2>1
<1>7. DOMAIN reset(1) = DOMAIN store[1]
  OBVIOUS
<1>8. DOMAIN params = names /\ \A n \in names : params[n].init /\ ~params[n].read
  OBVIOUS
<1> HIDE DEF reset, params, initialized
<1>9. Len(called) = 1 /\ called \in Seq({reset(1)}) /\ called[1] = reset(1)
  <2>1. DOMAIN store = 1 .. 1
    BY <1>2
  <2>2. called = [i \in 1 .. 1 |-> reset(i)] /\ \A i \in 1 .. 1 : i = 1
    BY <2>1
  <2> QED BY <2>2
<1> HIDE DEF called
<1>10. Len(store') = 2 /\ store'[1] = reset(1) /\ store'[2] = params
  <2>1. /\ Len(Append(called, params)) = 2 /\ Append(called, params)[1] = called[1]
        /\ Append(called, params)[2] = params
    BY <1>9, SecondScope
  <2> QED BY <1>5, <1>9, <2>1
<1>11. initialized = {n \in DOMAIN store[1] : store[1][n].init}
  <2>1. DOMAIN store[1] \subseteq Name
    BY <1>2, ScopeShape
  <2> QED BY <2>1 DEF initialized
<1> QED BY <1>1, <1>3, <1>5, <1>6, <1>7, <1>8, <1>10, <1>11

LEMMA VarFunction ==
  ASSUME Base, VarInv, pending # <<>>, FlowFunction(Head(pending)), ~failed'
  PROVE  VarInv' /\ ReportInv'
<1> DEFINE f == Head(pending)
           names == {f.params[i].name : i \in DOMAIN f.params}
           a == declareParameters(Env, f.params)
           r == frame(FALSE, assigned)
<1>1. /\ EnterFunction(f) /\ Run!RunFunction(f) /\ FreshFunction(f) /\ class' = class
      /\ status' = "live"
  BY DEF FlowFunction, Run!RunFunction
<1>2. /\ Become(a) /\ insideFunction' = TRUE /\ phase' = "analyze"
      /\ frames' = Append(frames, r) /\ ~CutOff
  BY <1>1 DEF EnterFunction, Analyzing
<1>3. ~failed /\ scopes' = a.scopes /\ assigned' = a.assigned
  BY <1>2, BecomeClean
<1>4. cursor = <<>> /\ f \in Functions /\ f.kind = "func"
  BY <1>1, FunctionAtTop DEF Base
<1>5. PICK e : e.node = f /\ cursor' = Append(cursor, e)
  BY <1>1, FunctionAtTop DEF Base
<1>6. f.params \in Seq(Parameters) /\ names \in SUBSET Name
  BY <1>4, AstAssumption, ParameterNames DEF IsFunction
<1>7. /\ Len(store) = 1 /\ Len(scopes) = 1 /\ frames = <<>>
      /\ store \in Seq(Run!Variables) /\ scopes \in Seq(Scopes)
  BY <1>4, GlobalsAlone
<1>8. /\ Tied(scopes, store) /\ Env \in Envs /\ Env.scopes = scopes
      /\ assigned \in SUBSET Name
  BY <1>2, <1>3, JointHere, EnvHere DEF Base
<1>9. /\ a.assigned = names /\ a \in Envs
      /\ \E s : /\ a.scopes = Append(scopes, s) /\ DOMAIN s = names
                /\ \A n \in names : ~s[n].used
  <2> DEFINE ps == f.params
  <2>1. ps \in Seq(Parameters) /\ Env \in Envs
    BY <1>6, <1>8
  <2>2. a = declareParameters(Env, ps) /\ names = NamesOf(ps)
    BY DEF NamesOf
  <2> HIDE DEF ps, a, names
  <2>3. /\ declareParameters(Env, ps).assigned = names
        /\ \E s : /\ declareParameters(Env, ps).scopes = Append(Env.scopes, s)
                  /\ DOMAIN s = names /\ \A n \in names : ~s[n].used
    BY <2>1, <2>2, ParametersScope
  <2>4. declareParameters(Env, ps) \in Envs
    BY <2>1, ParametersType
  <2> QED BY <1>8, <2>2, <2>3, <2>4
<1>10. /\ Len(store') = 2 /\ DOMAIN store'[1] = DOMAIN store[1]
       /\ \A n \in DOMAIN store[1] : store'[1][n].read = store[1][n].read
       /\ DOMAIN store'[2] = names
       /\ \A n \in names : store'[2][n].init /\ ~store'[2][n].read
       /\ obs'.uninit = {} /\ obs'.closed = {}
       /\ \E q : /\ runs' = Append(runs, q) /\ q.parked = status
                 /\ q.globals = {n \in DOMAIN store[1] : store[1][n].init}
  BY <1>1, <1>4, RunFunctionStore
<1>11. r.before = assigned /\ r.afterThen = {} /\ ~r.skip
  BY DEF frame
<1> HIDE DEF f, names, a, r
<1>12. Len(scopes') = 2 /\ scopes'[1] = scopes[1] /\ DOMAIN scopes'[2] = names
  <2>1. PICK s : a.scopes = Append(scopes, s) /\ DOMAIN s = names
    BY <1>9
  <2>2. /\ Len(Append(scopes, s)) = 2 /\ Append(scopes, s)[1] = scopes[1]
        /\ Append(scopes, s)[2] = s
    BY <1>7, SecondScope
  <2> QED BY <1>3, <2>1, <2>2
<1>13. \A i : i \in 1 .. 2 <=> i = 1 \/ i = 2
  OBVIOUS
<1>14. Tied(scopes', store')
  <2>1. DOMAIN store[1] = DOMAIN scopes[1]
    BY <1>7, <1>8 DEF Tied, SameNames
  <2>2. \A n \in DOMAIN scopes[1] : store[1][n].read => scopes[1][n].used
    BY <1>7, <1>8, <2>1 DEF Tied, ReadIsUsed
  <2>3. SameNames(store', scopes')
    BY <1>10, <1>12, <1>13, <2>1 DEF SameNames
  <2>4. ReadIsUsed(scopes', store')
    BY <1>10, <1>12, <1>13, <2>1, <2>2 DEF ReadIsUsed
  <2> QED BY <2>3, <2>4 DEF Tied
<1>15. store' \in Seq(Run!Variables) /\ scopes' \in Seq(Scopes)
  <2>1. RunInv'
    BY RunEnter DEF Base
  <2>2. a.scopes \in Seq(Scopes)
    BY <1>9, EnvTyped
  <2> QED BY <1>3, <2>1, <2>2 DEF RunInv
<1>16. Levels(scopes', store', CutOff')
  BY <1>14, <1>15, LevelsTied
<1>17. Reports
  BY <1>10 DEF Reports
<1>18. ASSUME Strict
       PROVE  /\ Tracked(assigned', seen', store', insideFunction', status')
              /\ Saved(frames', cursor', runs', store') /\ Among(frames', seen')
  <2>1. seen' = seen \cup names
    BY <1>1, <1>18 DEF FreshFunction, Strict, names
  <2>2. /\ assigned \subseteq seen /\ Sound(store, seen, insideFunction)
        /\ status = "live" => Initialized(store, assigned)
    BY <1>3, <1>18 DEF VarInv, Tracked
  <2>3. Sound(store', seen', TRUE)
    <3>1. Apart(store', TRUE)
      BY <1>10, <1>13 DEF Apart
    <3>2. DOMAIN store[1] \subseteq seen
      BY <1>7, <2>2 DEF Sound
    <3>3. \A i \in 1 .. Len(store') : DOMAIN store'[i] \subseteq seen'
      BY <1>10, <1>13, <2>1, <3>2
    <3> QED BY <3>1, <3>3 DEF Sound
  <2>4. Initialized(store', names)
    <3>1. ASSUME NEW n \in names PROVE Find(store', n).init
      <4>1. Holds(store', n, 2)
        BY <1>10, <1>13 DEF Holds
      <4>2. Find(store', n) = store'[2][n]
        BY <1>15, <4>1, InnermostIs
      <4> QED BY <1>10, <4>2
    <3> QED BY <3>1 DEF Initialized
  <2>5. PICK q : /\ runs' = Append(runs, q) /\ q.parked = status
                 /\ q.globals = {n \in DOMAIN store[1] : store[1][n].init}
    BY <1>10
  <2>6. ASSUME status = "live", NEW n \in assigned, n \in DOMAIN store'[1] PROVE n \in q.globals
    <3>1. n \in DOMAIN store[1]
      BY <1>10, <2>6
    <3>2. Holds(store, n, 1)
      BY <1>7, <3>1 DEF Holds
    <3>3. Bound(store, n) /\ Find(store, n) = store[1][n]
      BY <1>7, <3>2, InnermostIs
    <3>4. store[1][n].init
      BY <2>2, <2>6, <3>3 DEF Initialized
    <3> QED BY <2>5, <3>1, <3>4
  <2>7. Safe(r, e, q, store')
    BY <1>4, <1>5, <1>11, <2>5, <2>6 DEF Safe, LoopKinds
  <2>8. Len(frames') = 1 /\ frames'[1] = r /\ cursor'[1] = e /\ runs'[1] = q
    <3>1. runs = <<>>
      BY <1>4 DEF Base, RunInv
    <3> QED BY <1>2, <1>4, <1>5, <1>7, <2>5, <3>1
  <2>9. \A i \in 1 .. Len(frames') : i = 1
    BY <2>8
  <2>10. Saved(frames', cursor', runs', store')
    BY <2>7, <2>8, <2>9 DEF Saved
  <2>11. Among(frames', seen')
    BY <1>11, <2>1, <2>2, <2>8, <2>9 DEF Among
  <2>12. assigned' \subseteq seen' /\ Initialized(store', assigned')
    BY <1>3, <1>9, <2>1, <2>4
  <2> QED BY <1>2, <2>3, <2>10, <2>11, <2>12 DEF Tracked
<1> QED BY <1>1, <1>2, <1>16, <1>17, <1>18, VarOfParts DEF Follow

\* What leaving a scope does to the environment.
LEMMA LeaveScopeParts ==
  ASSUME NEW a \in Envs, a.scopes # <<>>
  PROVE  /\ leaveScope(a).scopes = Front(a.scopes) /\ leaveScope(a).assigned = a.assigned
         /\ leaveScope(a).diags = a.diags \cup checkUnusedVariablesInCurrentScope(a.scopes)
         /\ leaveScope(a) \in Envs
<1>1. leaveScope(a) \in Envs
  BY LeaveScopeType
<1> DEFINE more == checkUnusedVariablesInCurrentScope(a.scopes)
           front == Front(a.scopes)
           b == [a EXCEPT !.scopes = front, !.diags = @ \cup more]
<1>2. leaveScope(a) = b
  BY DEF leaveScope
<1> HIDE DEF more, front
<1>3. b.scopes = front /\ b.assigned = a.assigned /\ b.diags = a.diags \cup more
  BY DEF Envs
<1> HIDE DEF b
<1> QED BY <1>1, <1>2, <1>3 DEF more, front

\* A variable the run has read is not among those checkUnused reports.
LEMMA ReadIsNotUnused ==
  ASSUME NEW sc \in Seq(Scopes), sc # <<>>, NEW st \in Seq(Run!Variables), NEW cut,
         Levels(sc, st, cut), Len(st) = Len(sc), NEW n \in Run!ReadIn(Run!Last(st))
  PROVE  <<"unused", n>> \notin checkUnusedVariablesInCurrentScope(sc)
<1>1. /\ Len(sc) \in 1 .. Len(sc) /\ st # <<>>
      /\ Last(sc) = sc[Len(sc)] /\ Run!Last(st) = st[Len(sc)]
  <2>1. Len(sc) \in 1 .. Len(sc) /\ st # <<>>
    OBVIOUS
  <2>2. Last(sc) = sc[Len(sc)]
    BY DEF Last
  <2> QED BY <2>1, <2>2, RunEnds
<1>2. n \in DOMAIN st[Len(sc)] /\ st[Len(sc)][n].read
  BY <1>1 DEF Run!ReadIn
<1>3. n \in DOMAIN sc[Len(sc)] => sc[Len(sc)][n].used
  BY <1>1, <1>2 DEF Levels, ReadIsUsed
<1>4. n \notin Unused(sc)
  BY <1>1, <1>3 DEF Unused
<1> QED BY <1>4 DEF checkUnusedVariablesInCurrentScope

\* The environment in which the analyzer leaves a function.
LEMMA FunctionLeft ==
  ASSUME Base, LeaveFunction, ~failed'
  PROVE  /\ ~failed /\ scopes' = Front(scopes) /\ assigned' = Local.before
         /\ \A n : <<"unused", n>> \in diags'
                     => <<"unused", n>> \in checkUnusedVariablesInCurrentScope(scopes)
         /\ scopes # <<>> /\ scopes \in Seq(Scopes) /\ ~Local.skip
<1> DEFINE wrong == missingReturn(Parent.node)
           a == report(Env, "missing return", "", wrong)
           b == [leaveScope(a) EXCEPT !.assigned = Local.before]
<1>1. Become(b) /\ ~Local.skip
  BY DEF LeaveFunction, Leave
<1>2. ~failed /\ scopes' = b.scopes /\ assigned' = b.assigned /\ diags' = b.diags
  BY <1>1, BecomeClean
<1> HIDE DEF wrong
<1>3. /\ Env \in Envs /\ Env.scopes = scopes /\ Env.diags = {} /\ scopes \in Seq(Scopes)
      /\ scopes # <<>>
  <2>1. Env \in Envs /\ Env.scopes = scopes /\ Env.diags = {} /\ scopes \in Seq(Scopes)
    BY EnvHere DEF Base, Env
  <2>2. Len(scopes) \in Nat \ {0}
    BY Depths DEF Base
  <2> QED BY <2>1, <2>2
<1>4. a \in Envs /\ a.scopes = scopes
  <2>1. "missing return" \in ErrorKinds \cup WarningKinds /\ "" \in Subjects
    BY Kinds
  <2> QED BY <1>3, <2>1, ReportType
<1>5. \A n : <<"unused", n>> \notin a.diags
  <2>1. a.diags \subseteq {<<"missing return", "">>}
    BY <1>3 DEF report, Envs
  <2>2. \A n : <<"unused", n>> # <<"missing return", "">>
    OBVIOUS
  <2> HIDE DEF a
  <2> QED BY <2>1, <2>2
<1> HIDE DEF a
<1> DEFINE l == leaveScope(a)
<1>6. /\ l.scopes = Front(scopes) /\ l \in Envs
      /\ l.diags = a.diags \cup checkUnusedVariablesInCurrentScope(scopes)
  BY <1>3, <1>4, LeaveScopeParts
<1> HIDE DEF l
<1>7. b.scopes = l.scopes /\ b.diags = l.diags /\ b.assigned = Local.before
  BY <1>6 DEF Envs, l
<1> HIDE DEF b
<1> QED BY <1>1, <1>2, <1>3, <1>5, <1>6, <1>7

LEMMA NotEmpty ==
  ASSUME NEW T, NEW s \in Seq(T), Len(s) # 0 PROVE s # <<>>
OBVIOUS

LEMMA RestoredGlobals ==
  ASSUME Run!RunEndFunction, store \in Seq(Run!Variables), Len(store) = 2
  PROVE  /\ Len(store') = 1 /\ DOMAIN store'[1] = DOMAIN store[1]
         /\ \A n \in DOMAIN store[1] : /\ store'[1][n].read = store[1][n].read
                                       /\ store'[1][n].init <=> n \in Run!Last(runs).globals
         /\ obs'.uninit = {} /\ obs'.closed = Run!ReadIn(Run!Last(store))
         /\ status' = Run!Parked
<1> DEFINE had(n) == n \in Run!Last(runs).globals
           globals == [n \in DOMAIN store[1] |-> [store[1][n] EXCEPT !.init = had(n)]]
           m == [Run!Memory EXCEPT !.store = <<globals>>]
           end == status = "live" /\ Run!OwesValue(Run!Last(cursor).node)
<1>1. Run!Remember(m, Run!ReadIn(Run!Last(store)), end, FALSE) /\ status' = Run!Parked
  BY DEF Run!RunEndFunction
<1>2. m.store = <<globals>> /\ m.uninit = {}
  BY DEF Run!Memory
<1>3. \A n \in DOMAIN store[1] : had(n) \in BOOLEAN
  OBVIOUS
<1> HIDE DEF m, end, had
<1>4. \A n \in DOMAIN store[1] : /\ globals[n].read = store[1][n].read
                                 /\ globals[n].init = had(n)
  <2>1. store[1] \in Run!Variables
    OBVIOUS
  <2>2. \A n \in DOMAIN store[1] : store[1][n] \in [init : BOOLEAN, read : BOOLEAN]
    BY <2>1, ScopeShape DEF Cells
  <2> QED BY <2>2
<1>5. DOMAIN globals = DOMAIN store[1]
  OBVIOUS
<1> HIDE DEF globals
<1>6. store' = <<globals>> /\ obs'.uninit = {} /\ obs'.closed = Run!ReadIn(Run!Last(store))
  BY <1>1, <1>2 DEF Run!Remember
<1>7. Len(store') = 1 /\ store'[1] = globals
  BY <1>6
<1> QED BY <1>1, <1>4, <1>5, <1>6, <1>7 DEF had

LEMMA VarEndFunction ==
  ASSUME Base, RunInv', VarInv, FlowEndFunction, ~failed'
  PROVE  VarInv' /\ ReportInv'
<1>1. /\ LeaveFunction /\ Run!RunEndFunction /\ class' = class /\ seen' = seen
      /\ insideFunction' = FALSE /\ Close("func")
  BY DEF FlowEndFunction, LeaveFunction, Leave
<1>2. phase' = "analyze" /\ frames' = childDone(Front(frames), cursor, Returns)
  BY <1>1 DEF LeaveFunction, Leave
<1>3. /\ ~failed /\ scopes' = Front(scopes) /\ assigned' = Local.before
      /\ \A n : <<"unused", n>> \in diags'
                  => <<"unused", n>> \in checkUnusedVariablesInCurrentScope(scopes)
      /\ scopes # <<>> /\ scopes \in Seq(Scopes) /\ ~Local.skip
  BY <1>1, FunctionLeft
<1>4. /\ Len(cursor) = 1 /\ Len(store) = 2 /\ Parent = cursor[1]
      /\ cursor[1].node.kind = "func"
  <2>1. Walk(cursor) /\ Parent.node.kind = "func"
    BY <1>1, PathInvParts DEF Base, Close, Parent
  <2> QED BY <1>1, <2>1, FunctionScope DEF Base
<1>5. /\ store \in Seq(Run!Variables) /\ store' \in Seq(Run!Variables)
      /\ frames \in Seq(Frames) /\ Len(frames) = 1 /\ Len(runs) = 1
      /\ Local = frames[1]
  BY <1>4, PathTyped DEF Base, RunInv, Local, Last
<1>6. Levels(scopes, store, CutOff) /\ Len(scopes) = Len(store)
  <2>1. Len(scopes) = Len(store)
    BY <1>3, Depths DEF Base
  <2> QED BY <1>3, <2>1 DEF VarInv
<1>7. /\ Len(store') = 1 /\ DOMAIN store'[1] = DOMAIN store[1]
      /\ \A n \in DOMAIN store[1] : /\ store'[1][n].read = store[1][n].read
                                    /\ store'[1][n].init <=> n \in Run!Last(runs).globals
      /\ obs'.uninit = {} /\ obs'.closed = Run!ReadIn(Run!Last(store))
      /\ status' = Run!Parked
  BY <1>1, <1>4, <1>5, RestoredGlobals
<1>8. Run!Last(runs) = runs[1] /\ status' = runs[1].parked
  <2>0. runs \in Seq(Run!Runs) /\ Len(runs) # 0
    BY <1>5 DEF Base, RunInv
  <2>1. runs # <<>> /\ runs \in Seq(Run!Runs)
    BY <2>0, NotEmpty
  <2>2. Run!Last(runs) = runs[1]
    BY <1>5, <2>1, RunEnds
  <2> QED BY <1>7, <2>2 DEF Run!Parked
<1>9. Tied(scopes', store')
  <2>1. Tied(Front(scopes), Front(store))
    BY <1>3, <1>5, <1>6, TiedFront
  <2>0. Len(store) # 0 /\ Len(store) - 1 = 1 /\ 1 \in 1 .. 1
    BY <1>4
  <2>2. store # <<>>
    BY <1>5, <2>0, NotEmpty
  <2>3. Len(Front(store)) = 1 /\ Front(store)[1] = store[1]
    <3>1. /\ Len(Front(store)) = Len(store) - 1
          /\ \A i \in 1 .. Len(store) - 1 : Front(store)[i] = store[i]
      BY <1>5, <2>2, FrontShape
    <3> QED BY <2>0, <3>1
  <2>4. Len(scopes') = 1 /\ DOMAIN scopes'[1] = DOMAIN store[1]
    BY <1>3, <2>1, <2>3 DEF Tied, SameNames
  <2>5. \A n \in DOMAIN store[1] : store[1][n].read => scopes'[1][n].used
    BY <1>3, <2>1, <2>3, <2>4 DEF Tied, ReadIsUsed
  <2>6. \A i : i \in 1 .. 1 <=> i = 1
    OBVIOUS
  <2>7. SameNames(store', scopes')
    BY <1>7, <2>4, <2>6 DEF SameNames
  <2>8. ReadIsUsed(scopes', store')
    BY <1>7, <2>4, <2>5, <2>6 DEF ReadIsUsed
  <2> QED BY <2>7, <2>8 DEF Tied
<1>10. Levels(scopes', store', CutOff')
  <2>1. scopes' \in Seq(Scopes)
    BY <1>3, FrontShape
  <2> QED BY <1>5, <1>9, <2>1, LevelsTied
<1>11. Reports
  <2>1. \A n \in obs'.closed : <<"unused", n>> \notin checkUnusedVariablesInCurrentScope(scopes)
    BY <1>3, <1>5, <1>6, <1>7, ReadIsNotUnused
  <2> QED BY <1>3, <1>7, <2>1 DEF Reports
<1>12. ASSUME Strict
       PROVE  /\ Tracked(assigned', seen', store', insideFunction', status')
              /\ Saved(frames', cursor', runs', store') /\ Among(frames', seen')
  <2>1. /\ Sound(store, seen, insideFunction)
        /\ Saved(frames, cursor, runs, store) /\ Among(frames, seen)
    BY <1>3, <1>12 DEF VarInv, Tracked
  <2>2. 1 \in 1 .. Len(frames) /\ 1 \in 1 .. Len(store)
    BY <1>4, <1>5
  <2>3. assigned' \subseteq seen'
    BY <1>1, <1>3, <1>5, <2>1, <2>2 DEF Among
  <2>4. Sound(store', seen', insideFunction')
    <3>1. \A i, j \in 1 .. Len(store') : ~(i < j)
      BY <1>7
    <3>2. Apart(store', insideFunction')
      BY <3>1 DEF Apart
    <3>3. \A i \in 1 .. Len(store') : i = 1
      BY <1>7
    <3>4. \A i \in 1 .. Len(store') : DOMAIN store'[i] \subseteq seen'
      BY <1>1, <1>7, <2>1, <2>2, <3>3 DEF Sound
    <3> QED BY <3>2, <3>4 DEF Sound
  <2>5. ASSUME status' = "live", NEW n \in assigned', Bound(store', n) PROVE Find(store', n).init
    <3>1. Safe(frames[1], cursor[1], runs[1], store)
      BY <1>3, <1>5, <2>1, <2>2 DEF Saved
    <3>2. Holds(store', n, Innermost(store', n)) /\ Find(store', n) = store'[Innermost(store', n)][n]
      BY <1>5, <2>5, Found
    <3>3. Innermost(store', n) = 1 /\ n \in DOMAIN store'[1]
      BY <1>7, <3>2 DEF Holds
    <3>4. n \in runs[1].globals
      BY <1>3, <1>4, <1>5, <1>7, <1>8, <2>5, <3>1, <3>3 DEF Safe
    <3> QED BY <1>7, <1>8, <3>2, <3>3, <3>4
  <2>6. frames' = <<>>
    <3>0. Len(frames) # 0
      BY <1>5
    <3>1. frames # <<>>
      BY <1>5, <3>0, NotEmpty
    <3>2. Len(Front(frames)) = 0 /\ Front(frames) \in Seq(Frames)
      BY <1>5, <3>1, FrontShape
    <3>3. Front(frames) = <<>>
      BY <3>2
    <3> QED BY <1>2, <3>3 DEF childDone
  <2>7. 1 .. Len(frames') = {}
    BY <2>6
  <2>8. Saved(frames', cursor', runs', store') /\ Among(frames', seen')
    BY <2>7 DEF Saved, Among
  <2> QED BY <2>3, <2>4, <2>5, <2>8 DEF Tracked, Initialized
<1> QED BY <1>1, <1>2, <1>10, <1>11, <1>12, VarOfParts DEF Follow

--------------------------------------------------------------------------------
(***************************************************************************)
(* The else branch.                                                        *)
(***************************************************************************)

\* The path and the run when the walk turns to the else branch.
LEMMA ElsePath ==
  ASSUME Base, OpenElse, Run!RunElse, NEW m, m = Len(frames)
  PROVE  /\ m \in Nat \ {0} /\ m \in 1 .. m /\ frames \in Seq(Frames) /\ Local = frames[m]
         /\ cursor[m].node.kind = "if" /\ cursor[m].slot = "thenDone"
         /\ cursor'[m].node.kind = "if" /\ cursor'[m].slot = "else"
         /\ \A i \in 1 .. m : i # m => cursor'[i] = cursor[i] /\ runs'[i] = runs[i]
         /\ runs[m].parked = "none" => runs'[m].parked = status /\ status' = "skipped"
         /\ runs[m].parked # "none" => runs'[m].parked = "none" /\ status' = runs[m].parked
         /\ store' = store /\ obs'.uninit = {} /\ obs'.closed = {}
<1>1. /\ frames \in Seq(Frames) /\ cursor \in Seq(Entries) /\ Len(cursor) = m
      /\ runs \in Seq(Run!Runs) /\ Len(runs) = m /\ Walk(cursor) /\ m \in Nat
  BY PathTyped, PathInvParts DEF Base, RunInv
<1>2. /\ cursor # <<>> /\ cursor[m].slot = "thenDone"
      /\ cursor' = [cursor EXCEPT ![m].slot = "else"]
  BY <1>1 DEF OpenElse, Last
<1>3. m \in 1 .. m /\ cursor[m] \in Entries /\ runs[m] \in Run!Runs /\ frames # <<>>
  BY <1>1, <1>2
<1>4. cursor[m].node.kind = "if"
  BY <1>1, <1>2, <1>3 DEF Walk
<1> DEFINE e == [cursor[m] EXCEPT !.slot = "else"]
           p == IF runs[m].parked = "none" THEN status ELSE "none"
           q == [runs[m] EXCEPT !.parked = p]
<1>5. e.node = cursor[m].node /\ e.slot = "else"
  BY <1>3 DEF Entries
<1>6. cursor' = [cursor EXCEPT ![m] = e]
  BY <1>2
<1> HIDE DEF e
<1>7. cursor'[m] = e /\ \A i \in 1 .. m : i # m => cursor'[i] = cursor[i]
  BY <1>1, <1>3, <1>6
<1>8. Run!Parked = runs[m].parked
  BY <1>1, <1>2, ParkedType DEF Base
<1>9. runs' = [runs EXCEPT ![m] = q]
  BY <1>1, <1>8 DEF Run!RunElse
<1>10. status' = IF runs[m].parked = "none" THEN "skipped" ELSE runs[m].parked
  BY <1>8 DEF Run!RunElse
<1>11. q.parked = p
  BY <1>3 DEF Run!Runs
<1> HIDE DEF q
<1>12. runs'[m] = q /\ \A i \in 1 .. m : i # m => runs'[i] = runs[i]
  BY <1>1, <1>3, <1>9
<1>13. store' = store /\ obs'.uninit = {} /\ obs'.closed = {}
  BY DEF Run!RunElse, Run!Quiet
<1>14. Local = frames[m]
  BY DEF Local, Last
<1>15. /\ runs[m].parked = "none" => runs'[m].parked = status
       /\ runs[m].parked # "none" => runs'[m].parked = "none"
  BY <1>11, <1>12
<1>16. m \in Nat \ {0}
  BY <1>1, <1>3
<1> HIDE DEF p
<1> QED BY <1>1, <1>2, <1>3, <1>4, <1>5, <1>7, <1>10, <1>12, <1>13, <1>14, <1>15, <1>16

LEMMA VarElse ==
  ASSUME Base, RunInv', VarInv, ElseBranch, Run!RunElse, class' = class, seen' = seen, ~failed'
  PROVE  VarInv' /\ ReportInv'
<1> DEFINE m == Len(frames)
           r == [frames[m] EXCEPT !.afterThen = assigned]
           a == [Env EXCEPT !.assigned = Local.before]
<1>1. /\ OpenElse /\ ~Local.skip /\ phase' = "analyze" /\ insideFunction' = insideFunction
      /\ Become(a) /\ frames' = [frames EXCEPT ![m] = r]
  BY DEF ElseBranch, InFunctionUnchanged
<1>2. ~failed /\ scopes' = a.scopes /\ assigned' = a.assigned
  BY <1>1, BecomeClean
<1>3. a.scopes = scopes /\ a.assigned = Local.before
  BY DEF Env
<1>4. /\ m \in Nat \ {0} /\ m \in 1 .. m /\ frames \in Seq(Frames) /\ Local = frames[m]
      /\ cursor[m].node.kind = "if" /\ cursor[m].slot = "thenDone"
      /\ cursor'[m].node.kind = "if" /\ cursor'[m].slot = "else"
      /\ \A i \in 1 .. m : i # m => cursor'[i] = cursor[i] /\ runs'[i] = runs[i]
      /\ runs[m].parked = "none" => runs'[m].parked = status /\ status' = "skipped"
      /\ runs[m].parked # "none" => runs'[m].parked = "none" /\ status' = runs[m].parked
      /\ store' = store /\ obs'.uninit = {} /\ obs'.closed = {}
  BY <1>1, ElsePath
<1>5. /\ r.afterThen = assigned /\ r.before = frames[m].before
      /\ r.skip = frames[m].skip /\ r.list = frames[m].list
  BY <1>4 DEF Frames
<1> HIDE DEF r, a
<1>6. /\ Len(frames') = m /\ frames'[m] = r
      /\ \A i \in 1 .. m : i # m => frames'[i] = frames[i]
  BY <1>1, <1>4
<1>7. CutOff' <=> CutOff
  <2>1. frames # <<>> /\ frames' # <<>>
    BY <1>1, <1>4, <1>6
  <2>2. /\ CutOff <=> frames[m].skip \/ frames[m].list # "open"
        /\ CutOff' <=> frames'[m].skip \/ frames'[m].list # "open"
    BY <1>4, <1>6, <2>1 DEF CutOff, Local, Last
  <2> QED BY <1>5, <1>6, <2>2
<1>8. Levels(scopes', store', CutOff')
  BY <1>2, <1>3, <1>4, <1>7 DEF VarInv
<1>9. Reports
  BY <1>4 DEF Reports
<1>10. ASSUME Strict
       PROVE  /\ Tracked(assigned', seen', store', insideFunction', status')
              /\ Saved(frames', cursor', runs', store') /\ Among(frames', seen')
  <2>1. /\ assigned \subseteq seen /\ Sound(store, seen, insideFunction)
        /\ status = "live" => Initialized(store, assigned)
        /\ Saved(frames, cursor, runs, store) /\ Among(frames, seen)
    BY <1>2, <1>10 DEF VarInv, Tracked
  <2>2. Safe(frames[m], cursor[m], runs[m], store)
    BY <1>1, <1>4, <2>1 DEF Saved
  <2>3. status' = "live" => Initialized(store, frames[m].before)
    BY <1>4, <2>2 DEF Safe
  <2>4. frames[m].before \subseteq seen
    BY <1>4, <2>1 DEF Among
  <2>5. Tracked(assigned', seen', store', insideFunction', status')
    BY <1>1, <1>2, <1>3, <1>4, <2>1, <2>3, <2>4 DEF Tracked
  <2>6. Safe(r, cursor'[m], runs'[m], store)
    <3>1. runs'[m].parked = "live" => status = "live"
      BY <1>4
    <3> QED BY <1>4, <1>5, <2>1, <3>1 DEF Safe, LoopKinds
  <2>7. Saved(frames', cursor', runs', store')
    <3>1. ASSUME NEW i \in 1 .. Len(frames'), ~frames'[i].skip
          PROVE  Safe(frames'[i], cursor'[i], runs'[i], store')
      <4>1. CASE i = m
        BY <1>4, <1>6, <2>6, <4>1
      <4>2. CASE i # m
        <5>1. Safe(frames[i], cursor[i], runs[i], store)
          BY <1>6, <2>1, <3>1, <4>2 DEF Saved
        <5> QED BY <1>4, <1>6, <4>2, <5>1
      <4> QED BY <4>1, <4>2
    <3> QED BY <3>1 DEF Saved
  <2>8. Among(frames', seen')
    <3>1. ASSUME NEW i \in 1 .. Len(frames')
          PROVE  frames'[i].before \subseteq seen /\ frames'[i].afterThen \subseteq seen
      <4>1. CASE i = m
        BY <1>5, <1>6, <2>1, <2>4, <4>1
      <4>2. CASE i # m
        BY <1>6, <2>1, <4>2 DEF Among
      <4> QED BY <4>1, <4>2
    <3> QED BY <3>1 DEF Among
  <2> QED BY <2>5, <2>7, <2>8
<1> QED BY <1>1, <1>8, <1>9, <1>10, VarOfParts DEF Follow

LEMMA VarSkipElse ==
  ASSUME Base, Base', VarInv, SkipElse, Run!RunElse, class' = class, seen' = seen, ~failed'
  PROVE  VarInv' /\ ReportInv'
<1> DEFINE m == Len(frames)
<1>1. /\ OpenElse /\ Local.skip /\ phase' = "analyze" /\ insideFunction' = insideFunction
      /\ frames' = frames /\ scopes' = scopes /\ assigned' = assigned /\ failed' = failed
  BY DEF SkipElse, Skipped, InFunctionUnchanged
<1>2. /\ m \in Nat \ {0} /\ m \in 1 .. m /\ frames \in Seq(Frames) /\ Local = frames[m]
      /\ \A i \in 1 .. m : i # m => cursor'[i] = cursor[i] /\ runs'[i] = runs[i]
      /\ store' = store /\ obs'.uninit = {} /\ obs'.closed = {}
  BY <1>1, ElsePath
<1>3. CutOff /\ CutOff'
  <2>1. frames # <<>>
    BY <1>2
  <2> QED BY <1>1, <2>1 DEF CutOff, Local
<1>4. Len(scopes) <= Len(store')
  BY <1>2, Depths DEF Base
<1>5. ASSUME Strict
      PROVE  /\ Sound(store', seen', insideFunction') /\ seen \subseteq seen'
             /\ Saved(frames', cursor', runs', store') /\ Among(frames', seen')
  <2>1. /\ Sound(store, seen, insideFunction)
        /\ Saved(frames, cursor, runs, store) /\ Among(frames, seen)
    BY <1>1, <1>5 DEF VarInv, Tracked
  <2>2. ASSUME NEW i \in 1 .. Len(frames), ~frames[i].skip
        PROVE  Safe(frames[i], cursor'[i], runs'[i], store)
    <3>1. i # m
      BY <1>1, <1>2, <2>2
    <3>2. Safe(frames[i], cursor[i], runs[i], store)
      BY <2>1, <2>2 DEF Saved
    <3> QED BY <1>2, <3>1, <3>2
  <2>3. Saved(frames, cursor', runs', store)
    BY <2>2 DEF Saved
  <2> QED BY <1>1, <1>2, <2>1, <2>3
<1> QED BY <1>1, <1>2, <1>3, <1>4, <1>5, SkippedStays

--------------------------------------------------------------------------------
(***************************************************************************)
(* Steps out of statements.                                                *)
(***************************************************************************)

\* The increment of a for-statement gives values and reads nothing.
Incremented(s) ==
  /\ s \in Seq(Run!Variables) /\ SameNames(s, store) /\ Moves(s, store, {})
  /\ \A i \in 1 .. Len(store) : \A n \in DOMAIN store[i] : s[i][n].read = store[i][n].read

LEMMA NoIncrement ==
  ASSUME store \in Seq(Run!Variables) PROVE Incremented(store)
BY MovesNot DEF Incremented, SameNames

LEMMA IncrementMoves ==
  ASSUME Base, NEW n
  PROVE  /\ Incremented(Run!Increment(Run!Memory, n).store)
         /\ Run!Increment(Run!Memory, n).uninit = {}
         /\ MemoryOK(Run!Increment(Run!Memory, n), Len(store))
<1> DEFINE k == Len(store)
           M == Run!Memory
<1>1. MemoryOK(M, k) /\ k \in Nat /\ M.store = store /\ store \in Seq(Run!Variables)
  BY MemoryType DEF Base, RunInv
<1>2. M.uninit = {}
  BY DEF Run!Memory
<1> HIDE DEF M
<1>3. ASSUME Run!Increment(M, n) = M
      PROVE  /\ Incremented(Run!Increment(M, n).store) /\ Run!Increment(M, n).uninit = {}
             /\ MemoryOK(Run!Increment(M, n), k)
  BY <1>1, <1>2, <1>3, NoIncrement
<1>4. ASSUME NEW v, Run!Increment(M, n) = Run!Write(M, v)
      PROVE  /\ Incremented(Run!Increment(M, n).store) /\ Run!Increment(M, n).uninit = {}
             /\ MemoryOK(Run!Increment(M, n), k)
  <2> DEFINE w == Run!Write(M, v)
  <2>1. MemoryOK(w, k)
    BY <1>1, WriteType
  <2>2. /\ SameNames(w.store, M.store) /\ Moves(w.store, M.store, {})
        /\ \A i \in 1 .. k : \A x \in DOMAIN M.store[i] : w.store[i][x].read = M.store[i][x].read
        /\ w.uninit = M.uninit
    BY <1>1, WriteMoves
  <2> HIDE DEF w
  <2>3. w.store \in Seq(Run!Variables)
    BY <1>1, <2>1, StoreTyped
  <2>4. Incremented(w.store)
    BY <1>1, <2>2, <2>3 DEF Incremented
  <2> QED BY <1>2, <1>4, <2>1, <2>2, <2>4 DEF w
<1>5. Run!Increment(M, n) = M \/ \E v : Run!Increment(M, n) = Run!Write(M, v)
  BY DEF Run!Increment
<1> QED BY <1>3, <1>4, <1>5 DEF M

\* The variables after the step, and the scope that ended.
LEMMA UpMemory ==
  ASSUME Base, FlowUp
  PROVE  /\ obs'.uninit = {}
         /\ \/ /\ Parent.node.kind \in {"if", "while"}
               /\ store' = store /\ obs'.closed = {}
            \/ /\ Parent.node.kind \in {"block", "for"}
               /\ obs'.closed = Run!ReadIn(Run!Last(store))
               /\ \E s : Incremented(s) /\ store' = Front(s)
<1>1. /\ MemoryOK(Run!Memory, Len(store)) /\ Len(store) \in Nat \ {0}
      /\ Run!Memory.store = store /\ store \in Seq(Run!Variables)
  BY MemoryType DEF Base, RunInv
<1>2. Run!Memory.uninit = {}
  BY DEF Run!Memory
<1>3. \A s : Run!Front(s) = Front(s)
  BY DEF Run!Front, Front
<1>4. ASSUME NEW m, MemoryOK(m, Len(store)), m.uninit = {},
             Run!Remember([m EXCEPT !.store = Run!Front(@)],
                          Run!ReadIn(Run!Last(store)), FALSE, FALSE)
      PROVE  /\ obs'.uninit = {} /\ store' = Front(m.store)
             /\ obs'.closed = Run!ReadIn(Run!Last(store))
  <2> DEFINE closed == Run!ReadIn(Run!Last(store))
             front == Run!Front(m.store)
             m2 == [m EXCEPT !.store = front]
  <2>1. Run!Remember(m2, closed, FALSE, FALSE)
    BY <1>4
  <2>2. front = Front(m.store)
    BY <1>3
  <2> HIDE DEF front, closed
  <2>3. m2.store = front /\ m2.uninit = m.uninit
    BY <1>4 DEF MemoryOK
  <2> HIDE DEF m2
  <2> QED BY <1>4, <2>1, <2>2, <2>3 DEF Run!Remember, closed
<1>5. CASE Run!RunEndBlock
  <2>1. Parent.node.kind = "block"
    BY <1>5, ClosedKind DEF Run!RunEndBlock, Run!Resume
  <2>2. Run!Remember([Run!Memory EXCEPT !.store = Run!Front(@)],
                     Run!ReadIn(Run!Last(store)), FALSE, FALSE)
    BY <1>5 DEF Run!RunEndBlock
  <2>3. /\ obs'.uninit = {} /\ store' = Front(Run!Memory.store)
        /\ obs'.closed = Run!ReadIn(Run!Last(store))
    BY <1>1, <1>2, <1>4, <2>2
  <2> QED BY <1>1, <2>1, <2>3, NoIncrement
<1>6. CASE Run!RunEndIf \/ Run!RunEndWhile
  <2>1. Parent.node.kind \in {"if", "while"}
    BY <1>6, ClosedKind DEF Run!RunEndIf, Run!RunEndWhile, Run!Resume
  <2> QED BY <1>6, <2>1 DEF Run!RunEndIf, Run!RunEndWhile, Run!Quiet
<1>7. CASE Run!RunEndFor
  <2> DEFINE inc == Run!Increment(Run!Memory, Run!Last(cursor).node)
             m == IF Run!Parked = "none" /\ status \in {"live", "continued"}
                  THEN inc ELSE Run!Memory
  <2>1. Parent.node.kind = "for"
    BY <1>7, ClosedKind DEF Run!RunEndFor, Run!Resume
  <2>2. Run!Remember([m EXCEPT !.store = Run!Front(@)],
                     Run!ReadIn(Run!Last(store)), FALSE, FALSE)
    BY <1>7 DEF Run!RunEndFor
  <2>3. MemoryOK(inc, Len(store)) /\ inc.uninit = {} /\ Incremented(inc.store)
    BY IncrementMoves
  <2>4. Incremented(Run!Memory.store)
    BY <1>1, NoIncrement
  <2>5. m = inc \/ m = Run!Memory
    OBVIOUS
  <2> HIDE DEF inc, m
  <2>6. MemoryOK(m, Len(store)) /\ m.uninit = {} /\ Incremented(m.store)
    BY <1>1, <1>2, <2>3, <2>4, <2>5
  <2>7. /\ obs'.uninit = {} /\ store' = Front(m.store)
        /\ obs'.closed = Run!ReadIn(Run!Last(store))
    BY <1>4, <2>2, <2>6
  <2> QED BY <2>1, <2>6, <2>7
<1> QED BY <1>5, <1>6, <1>7 DEF FlowUp

\* The path and the records after the step.
LEMMA UpPath ==
  ASSUME Base, FlowUp
  PROVE  /\ class' = class /\ seen' = seen /\ phase' = "analyze"
         /\ insideFunction' = insideFunction
         /\ frames # <<>> /\ frames \in Seq(Frames)
         /\ Front(frames) \in Seq(Frames) /\ Len(Front(frames)) = Len(frames) - 1
         /\ frames' = childDone(Front(frames), cursor, Returns) /\ Returns \in BOOLEAN
         /\ SameRecords(frames', Front(frames))
         /\ Advanced(cursor', Front(cursor)) /\ Walk(Front(cursor))
         /\ Front(cursor) # <<>> => Front(cursor)[Len(Front(cursor))].slot \in Waiting
         /\ Len(Front(cursor)) = Len(Front(frames))
         /\ cursor # <<>>
<1>1. /\ cursor # <<>> /\ cursor' = Advance(Front(cursor))
      /\ frames' = childDone(Front(frames), cursor, Returns)
  BY UpStatus DEF Base
<1>2. /\ frames # <<>> /\ Front(frames) \in Seq(Frames) /\ Front(cursor) \in Seq(Entries)
      /\ Len(Front(frames)) = Len(frames) - 1 /\ Len(Front(cursor)) = Len(cursor) - 1
      /\ Len(frames) = Len(cursor) /\ Len(frames) \in Nat \ {0}
      /\ \A i \in 1 .. Len(cursor) - 1 : Front(cursor)[i] = cursor[i]
  BY <1>1, PathEnd DEF Base
<1>3. Returns \in BOOLEAN
  BY <1>1, ReturnsType DEF Base
<1>4. Walk(cursor) /\ frames \in Seq(Frames)
  BY PathTyped, PathInvParts DEF Base
<1>5. Walk(Front(cursor))
      /\ (Front(cursor) # <<>> => Front(cursor)[Len(Front(cursor))].slot \in Waiting)
  BY <1>1, <1>2, <1>4, WalkFront
<1>6. Advanced(cursor', Front(cursor))
  BY <1>1, <1>2, AdvanceAdvances
<1>7. SameRecords(frames', Front(frames))
  BY <1>1, <1>2, <1>3, ChildDoneRecords
<1>8. class' = class /\ seen' = seen
  BY DEF FlowUp
<1>9. phase' = "analyze" /\ insideFunction' = insideFunction
  BY DEF FlowUp, Up, LeaveBlock, LeaveIf, LeaveWhile, LeaveFor, Leave, SkipLeave, Skipped,
         InFunctionUnchanged
<1> QED BY <1>1, <1>2, <1>3, <1>4, <1>5, <1>6, <1>7, <1>8, <1>9

\* What is restored on the way out of the statements around it.
LEMMA UpKeeps ==
  ASSUME Base, VarInv, ~failed, Strict, FlowUp
  PROVE  /\ Sound(store', seen', insideFunction') /\ Persists(store', store, seen)
         /\ Saved(frames', cursor', runs', store') /\ Among(frames', seen')
<1>1. /\ Sound(store, seen, insideFunction)
      /\ Saved(frames, cursor, runs, store) /\ Among(frames, seen)
  BY DEF VarInv, Tracked
<1>2. /\ seen' = seen /\ insideFunction' = insideFunction /\ cursor # <<>> /\ frames # <<>>
      /\ SameRecords(frames', Front(frames)) /\ Front(frames) \in Seq(Frames)
      /\ Advanced(cursor', Front(cursor)) /\ Walk(Front(cursor))
      /\ Front(cursor) # <<>> => Front(cursor)[Len(Front(cursor))].slot \in Waiting
      /\ Len(Front(cursor)) = Len(Front(frames))
  BY UpPath
<1>3. store \in Seq(Run!Variables) /\ store # <<>>
  BY MemoryType DEF Base, RunInv
<1>4. Sound(store', seen, insideFunction) /\ Persists(store', store, seen)
  <2>1. CASE store' = store
    BY <1>1, <2>1, PersistsSame
  <2>2. ASSUME Parent.node.kind \in {"block", "for"}, NEW s, Incremented(s), store' = Front(s)
        PROVE  Sound(store', seen, insideFunction) /\ Persists(store', store, seen)
    <3>1. Len(store) > 1 /\ ~(insideFunction /\ Len(store) = 2)
      BY <1>2, <2>2, InnerScopes DEF Base
    <3>2. Len(s) = Len(store) /\ s \in Seq(Run!Variables) /\ Moves(s, store, {})
      BY <2>2 DEF Incremented, SameNames
    <3>3. {} \cap seen = {} /\ seen \cup {} = seen /\ seen \cap {} = {}
      OBVIOUS
    <3>4. Sound(s, seen, insideFunction) /\ Persists(s, store, seen)
      BY <1>1, <1>3, <3>2, <3>3, SoundMoves
    <3>5. Sound(Front(s), seen, insideFunction) /\ Persists(Front(s), s, seen)
      BY <3>1, <3>2, <3>4, SoundCloses
    <3> QED BY <2>2, <3>4, <3>5, PersistsTrans
  <2> QED BY <2>1, <2>2, UpMemory
<1>5. Saved(Front(frames), Front(cursor), runs', store) /\ Among(Front(frames), seen)
  <2>1. /\ Len(frames) = Len(cursor) /\ Len(frames) \in Nat
        /\ Len(Front(frames)) = Len(frames) - 1
        /\ \A i \in 1 .. Len(frames) - 1 :
              Front(frames)[i] = frames[i] /\ Front(cursor)[i] = cursor[i]
    BY <1>2, PathEnd DEF Base
  <2>2. runs' = Front(runs) /\ runs \in Seq(Run!Runs) /\ runs # <<>> /\ Len(runs) = Len(frames)
    BY <1>2, <2>1, UpStatus, ParkedType DEF Base, RunInv
  <2>3. \A i \in 1 .. Len(frames) - 1 : runs'[i] = runs[i]
    BY <2>2, FrontShape
  <2> QED BY <1>1, <2>1, <2>3, SavedPops
<1>6. Saved(frames', cursor', runs', store') /\ Among(frames', seen)
  BY <1>2, <1>4, <1>5, SavedStays
<1> QED BY <1>2, <1>4, <1>6

\* What the analyzer does on the way out of a statement that is not skipped.
LEMMA UpEnv ==
  ASSUME Base, Up, ~Local.skip, ~failed'
  PROVE  /\ ~failed
         /\ Parent.node.kind \in {"block", "for"} =>
              /\ scopes' = Front(scopes)
              /\ diags' = checkUnusedVariablesInCurrentScope(scopes)
         /\ Parent.node.kind \in {"if", "while"} => scopes' = scopes
         /\ Parent.node.kind = "block" => assigned' = assigned
         /\ Parent.node.kind \in LoopKinds => assigned' = Local.before
         /\ Parent.node.kind = "if" =>
              assigned' = Local.before \cup IF Parent.slot = "done"
                                            THEN Local.afterThen \cap assigned ELSE {}
<1>1. /\ Env \in Envs /\ Env.scopes = scopes /\ Env.diags = {} /\ scopes \in Seq(Scopes)
      /\ Env.assigned = assigned /\ scopes # <<>>
  <2>1. /\ Env \in Envs /\ Env.scopes = scopes /\ Env.diags = {} /\ scopes \in Seq(Scopes)
        /\ Env.assigned = assigned
    BY EnvHere DEF Base, Env
  <2>2. Len(scopes) # 0
    BY Depths DEF Base
  <2> QED BY <2>1, <2>2, NotEmpty
<1> DEFINE l == leaveScope(Env)
<1>2. /\ l.scopes = Front(scopes) /\ l.assigned = assigned /\ l \in Envs
      /\ l.diags = checkUnusedVariablesInCurrentScope(scopes)
  BY <1>1, LeaveScopeParts
<1>3. ASSUME NEW kind, NEW a, Leave(kind, a)
      PROVE  /\ ~failed /\ scopes' = a.scopes /\ assigned' = a.assigned /\ diags' = a.diags
             /\ Parent.node.kind = kind
  BY <1>3, BecomeClean DEF Leave, Close, Parent
<1>4. CASE LeaveBlock
  <2>1. Leave("block", l)
    BY <1>4 DEF LeaveBlock
  <2> HIDE DEF l
  <2> QED BY <1>2, <1>3, <2>1 DEF LoopKinds
<1>5. CASE LeaveIf
  <2> DEFINE new == Local.before \cup IF Parent.slot = "done"
                                      THEN Local.afterThen \cap assigned ELSE {}
             b == [Env EXCEPT !.assigned = new]
  <2>1. Leave("if", b)
    BY <1>1, <1>5 DEF LeaveIf
  <2>2. b.scopes = scopes /\ b.assigned = new
    BY DEF Env
  <2> HIDE DEF b
  <2>3. ~failed /\ scopes' = scopes /\ assigned' = new /\ Parent.node.kind = "if"
    BY <1>3, <2>1, <2>2
  <2> QED BY <2>3 DEF LoopKinds
<1>6. CASE LeaveWhile
  <2> DEFINE b == [Env EXCEPT !.assigned = Local.before]
  <2>1. Leave("while", b)
    BY <1>6 DEF LeaveWhile
  <2>2. b.scopes = scopes /\ b.assigned = Local.before
    BY DEF Env
  <2> HIDE DEF b
  <2>3. ~failed /\ scopes' = scopes /\ assigned' = Local.before /\ Parent.node.kind = "while"
    BY <1>3, <2>1, <2>2
  <2> QED BY <2>3
<1>7. CASE LeaveFor
  <2> DEFINE b == [l EXCEPT !.assigned = Local.before]
  <2>1. Leave("for", b)
    BY <1>7 DEF LeaveFor
  <2> HIDE DEF l
  <2>2. b.scopes = l.scopes /\ b.assigned = Local.before /\ b.diags = l.diags
    BY <1>2 DEF Envs
  <2> HIDE DEF b
  <2>3. /\ ~failed /\ scopes' = l.scopes /\ assigned' = Local.before /\ diags' = l.diags
        /\ Parent.node.kind = "for"
    BY <1>3, <2>1, <2>2
  <2> QED BY <1>2, <2>3
<1>8. ~SkipLeave
  BY DEF SkipLeave
<1> QED BY <1>4, <1>5, <1>6, <1>7, <1>8 DEF Up

\* Giving values changes no level.
LEMMA IncrementedLevels ==
  ASSUME store \in Seq(Run!Variables), NEW sc \in Seq(Scopes), NEW cut,
         Levels(sc, store, cut), NEW s, Incremented(s)
  PROVE  Levels(sc, s, cut)
<1>1. /\ Len(s) = Len(store) /\ \A i \in 1 .. Len(store) : DOMAIN s[i] = DOMAIN store[i]
      /\ \A i \in 1 .. Len(store) : \A n \in DOMAIN store[i] : s[i][n].read = store[i][n].read
  BY DEF Incremented, SameNames
<1>2. \A i \in 1 .. Len(sc) : i \in 1 .. Len(store)
  BY DEF Levels
<1>3. ReadIsUsed(sc, s)
  <2>1. \A i \in 1 .. Len(sc) : \A n \in DOMAIN sc[i] : n \in DOMAIN store[i]
    BY DEF Levels
  <2>2. ReadIsUsed(sc, store)
    BY DEF Levels
  <2> QED BY <1>1, <1>2, <2>1, <2>2 DEF ReadIsUsed
<1> QED BY <1>1, <1>2, <1>3 DEF Levels

\* Only blocks are cut off.
LEMMA LeavesOpen ==
  ASSUME Base, cursor # <<>>, ~Local.skip, Parent.node.kind # "block"
  PROVE  ~CutOff
<1>1. /\ Local = frames[Len(frames)] /\ Parent = cursor[Len(frames)]
      /\ Len(frames) \in 1 .. Len(frames)
  BY PathEnd DEF Base
<1>2. Local.list = "open"
  BY <1>1 DEF Base, FlowInv, Agree, Static
<1> QED BY <1>2 DEF CutOff

LEMMA UpLevels ==
  ASSUME Base, RunInv', VarInv, FlowUp, ~Local.skip, ~failed'
  PROVE  /\ Levels(scopes', store', CutOff')
         /\ \A n \in obs'.closed : <<"unused", n>> \notin diags'
<1>1. /\ ~failed
      /\ Parent.node.kind \in {"block", "for"} =>
              /\ scopes' = Front(scopes)
              /\ diags' = checkUnusedVariablesInCurrentScope(scopes)
      /\ Parent.node.kind \in {"if", "while"} => scopes' = scopes
  BY UpEnv DEF FlowUp
<1>2. /\ scopes \in Seq(Scopes) /\ store \in Seq(Run!Variables) /\ store' \in Seq(Run!Variables)
      /\ Len(scopes) # 0 /\ Len(scopes) = Len(store) /\ Levels(scopes, store, CutOff)
  <2>1. Len(scopes) # 0 /\ Len(scopes) = Len(store)
    BY Depths DEF Base
  <2> QED BY <1>1, <2>1, EnvHere DEF Base, RunInv, VarInv
<1>3. scopes # <<>>
  BY <1>2, NotEmpty
<1>4. CASE Parent.node.kind \in {"if", "while"}
  <2>1. store' = store /\ obs'.closed = {} /\ cursor # <<>>
    BY <1>4, UpMemory, UpPath
  <2>2. ~CutOff
    BY <1>4, <2>1, LeavesOpen
  <2>3. Tied(scopes, store)
    BY <1>2, <2>2, LevelsTied
  <2>4. Levels(scopes, store, CutOff')
    BY <1>2, <2>3, LevelsTied
  <2> QED BY <1>1, <1>4, <2>1, <2>4
<1>5. CASE Parent.node.kind \in {"block", "for"}
  <2>1. PICK s : Incremented(s) /\ store' = Front(s)
    BY <1>5, UpMemory
  <2>2. obs'.closed = Run!ReadIn(Run!Last(store))
    BY <1>5, UpMemory
  <2>3. Levels(scopes, s, CutOff) /\ s \in Seq(Run!Variables) /\ Len(s) = Len(scopes)
    BY <1>2, <2>1, IncrementedLevels DEF Incremented, SameNames
  <2>4. Tied(Front(scopes), Front(s))
    BY <1>2, <1>3, <2>3, TiedFront
  <2>5. Front(scopes) \in Seq(Scopes)
    BY <1>2, <1>3, FrontShape
  <2>6. Levels(Front(scopes), store', CutOff')
    BY <1>2, <2>1, <2>4, <2>5, LevelsTied
  <2>7. \A n \in obs'.closed : <<"unused", n>> \notin checkUnusedVariablesInCurrentScope(scopes)
    BY <1>2, <1>3, <2>2, ReadIsNotUnused
  <2> QED BY <1>1, <1>5, <2>6, <2>7
<1> QED BY <1>4, <1>5, UpMemory

\* What the analyzer restores or joins holds in a run that goes on.
LEMMA UpInitialized ==
  ASSUME Base, VarInv, FlowUp, Strict, ~Local.skip, ~failed', status' = "live"
  PROVE  Initialized(store, assigned')
<1> DEFINE m == Len(frames)
<1>1. /\ ~failed
      /\ Parent.node.kind = "block" => assigned' = assigned
      /\ Parent.node.kind \in LoopKinds => assigned' = Local.before
      /\ Parent.node.kind = "if" =>
           assigned' = Local.before \cup IF Parent.slot = "done"
                                         THEN Local.afterThen \cap assigned ELSE {}
  BY UpEnv DEF FlowUp
<1>2. /\ cursor # <<>> /\ Len(cursor) = m
      /\ runs[m].parked # "none" => status' = runs[m].parked
      /\ runs[m].parked = "none" /\ cursor[m].node.kind \notin LoopKinds => status' = status
      /\ cursor[m].node.kind \in CompoundKinds
      /\ cursor[m].slot \in {"list", "thenDone", "done"}
  <2>1. Len(cursor) = m /\ Len(runs) = m
    BY PathTyped DEF Base, RunInv
  <2> QED BY <2>1, UpStatus DEF Base
<1>3. Local = frames[m] /\ Parent = cursor[m] /\ m \in 1 .. m /\ m \in Nat
  BY <1>2, PathEnd DEF Base
<1>4. /\ status = "live" => Initialized(store, assigned)
      /\ Safe(frames[m], cursor[m], runs[m], store)
  BY <1>1, <1>3 DEF VarInv, Tracked, Saved
<1>5. CASE cursor[m].node.kind = "block"
  <2>1. runs[m].parked = "none"
    BY <1>3, <1>5 DEF Base, FlowInv, Agree, Static
  <2> QED BY <1>1, <1>2, <1>3, <1>4, <1>5, <2>1 DEF LoopKinds
<1>6. CASE cursor[m].node.kind \in LoopKinds
  BY <1>1, <1>2, <1>3, <1>4, <1>6 DEF Safe
<1>7. CASE cursor[m].node.kind = "if"
  <2>1. Kept(frames, cursor, assigned) /\ Walk(cursor)
    BY PathInvIs DEF Base
  <2>2. Branches(frames, cursor, m)
    BY <1>3, <1>7 DEF Branches, Branching
  <2>3. /\ frames[m].before \subseteq assigned
        /\ cursor[m].slot = "done" => frames[m].before \subseteq frames[m].afterThen
    BY <1>3, <1>7, <2>1, <2>2 DEF Kept
  <2>4. cursor[m].slot \in {"thenDone", "done"}
    BY <1>2, <1>3, <1>7, <2>1 DEF Walk
  <2>5. \A X, Y : X \subseteq Y /\ Initialized(store, Y) => Initialized(store, X)
    BY DEF Initialized
  <2>6. CASE runs[m].parked = "none"
    <3>1. assigned' \subseteq assigned
      BY <1>1, <1>3, <1>7, <2>3
    <3>2. Initialized(store, assigned)
      BY <1>2, <1>4, <1>7, <2>6 DEF LoopKinds
    <3> QED BY <2>5, <3>1, <3>2
  <2>7. CASE runs[m].parked # "none"
    <3>1. runs[m].parked = "live"
      BY <1>2, <2>7
    <3>2. CASE cursor[m].slot = "thenDone"
      <4>1. Initialized(store, frames[m].before)
        BY <1>4, <1>7, <3>1, <3>2 DEF Safe
      <4>2. assigned' = frames[m].before
        BY <1>1, <1>3, <1>7, <3>2
      <4> QED BY <4>1, <4>2
    <3>3. CASE cursor[m].slot = "done"
      <4>1. Initialized(store, frames[m].afterThen)
        BY <1>4, <1>7, <3>1, <3>3 DEF Safe
      <4>2. assigned' \subseteq frames[m].afterThen
        BY <1>1, <1>3, <1>7, <2>3, <3>3
      <4> QED BY <2>5, <4>1, <4>2
    <3> QED BY <2>4, <3>2, <3>3
  <2> QED BY <2>6, <2>7
<1> QED BY <1>2, <1>5, <1>6, <1>7 DEF CompoundKinds

LEMMA VarUp ==
  ASSUME Base, RunInv', VarInv, FlowUp, ~Local.skip, ~failed'
  PROVE  VarInv' /\ ReportInv'
<1>1. class' = class /\ seen' = seen /\ phase' = "analyze"
  BY UpPath
<1>2. ~failed
  BY UpEnv DEF FlowUp
<1>3. /\ Levels(scopes', store', CutOff')
      /\ \A n \in obs'.closed : <<"unused", n>> \notin diags'
  BY UpLevels
<1>4. Reports
  BY <1>3, UpMemory DEF Reports
<1>5. ASSUME Strict
      PROVE  /\ Tracked(assigned', seen', store', insideFunction', status')
             /\ Saved(frames', cursor', runs', store') /\ Among(frames', seen')
  <2>1. /\ Sound(store', seen', insideFunction') /\ Persists(store', store, seen)
        /\ Saved(frames', cursor', runs', store') /\ Among(frames', seen')
    BY <1>2, <1>5, UpKeeps
  <2>2. assigned' \subseteq seen
    <3>1. assigned \subseteq seen /\ Among(frames, seen)
      BY <1>2, <1>5 DEF VarInv, Tracked
    <3>2. Local = frames[Len(frames)] /\ Len(frames) \in 1 .. Len(frames)
      BY UpPath, PathEnd DEF Base
    <3>3. Local.before \subseteq seen
      BY <3>1, <3>2 DEF Among
    <3>4. \A x \in assigned' : x \in assigned \/ x \in Local.before
      <4>1. \A x \in (IF Parent.slot = "done" THEN Local.afterThen \cap assigned ELSE {}) :
              x \in assigned
        OBVIOUS
      <4>2. Parent.node.kind \in {"block", "if"} \cup LoopKinds
        BY UpMemory DEF LoopKinds
      <4> QED BY <4>1, <4>2, UpEnv DEF FlowUp
    <3> QED BY <3>1, <3>3, <3>4
  <2>3. status' = "live" => Initialized(store', assigned')
    BY <1>5, <2>1, <2>2, UpInitialized, InitializedPersists
  <2> QED BY <1>1, <2>1, <2>2, <2>3 DEF Tracked
<1> QED BY <1>1, <1>3, <1>4, <1>5, VarOfParts DEF Follow

\* A skipped statement is left for a block that is skipped or cut off.
LEMMA SkipUpCut ==
  ASSUME Base, FlowUp, Local.skip
  PROVE  CutOff'
<1> DEFINE m == Len(frames)
           fs == Front(frames)
<1>1. /\ frames # <<>> /\ frames \in Seq(Frames) /\ fs \in Seq(Frames) /\ Len(fs) = m - 1
      /\ frames' = childDone(fs, cursor, Returns) /\ Returns \in BOOLEAN
  BY UpPath
<1>2. /\ m \in Nat \ {0} /\ Local = frames[m]
      /\ \A i \in 1 .. m - 1 : fs[i] = frames[i]
  BY <1>1, FrontShape DEF Local
<1>3. m > 1 /\ (frames[m - 1].skip \/ frames[m - 1].list # "open")
  BY <1>2 DEF Base, Below
<1>4. Above(frames', fs)
  BY <1>1, ChildDoneAbove
<1>5. m - 1 \in 1 .. m - 1
  BY <1>2, <1>3
<1>6. fs[m - 1] = frames[m - 1]
  BY <1>2, <1>5
<1>7. /\ Len(frames') = m - 1 /\ frames' \in Seq(Frames)
      /\ frames'[m - 1].skip \/ frames'[m - 1].list # "open"
  BY <1>1, <1>3, <1>4, <1>5, <1>6 DEF Above
<1>8. frames' # <<>> /\ Local' = frames'[m - 1]
  BY <1>2, <1>3, <1>7 DEF Local, Last
<1> QED BY <1>7, <1>8 DEF CutOff

LEMMA VarSkipUp ==
  ASSUME Base, Base', VarInv, FlowUp, Local.skip, ~failed'
  PROVE  VarInv' /\ ReportInv'
<1>1. class' = class /\ seen' = seen /\ phase' = "analyze" /\ cursor # <<>> /\ frames # <<>>
  BY UpPath
<1>2. SkipLeave
  BY DEF FlowUp, Up, LeaveBlock, LeaveIf, LeaveWhile, LeaveFor, Leave
<1>3. scopes' = scopes /\ assigned' = assigned /\ failed' = failed /\ diags' = {}
  BY <1>2 DEF SkipLeave, Skipped
<1>4. CutOff /\ CutOff' /\ status' # "live"
  <2>1. (IInv /\ FlowInv /\ CutOff => status # "live")'
    BY CutOffIsDead, PTL
  <2> QED BY <1>1, <2>1, SkipUpCut DEF Base, CutOff
<1>5. /\ scopes \in Seq(Scopes) /\ store \in Seq(Run!Variables) /\ store' \in Seq(Run!Variables)
      /\ Levels(scopes, store, CutOff)
  BY <1>3, EnvHere DEF Base, RunInv, VarInv
<1>6. Len(scopes) <= Len(store') /\ Len(scopes) \in Nat
  <2>1. (IInv /\ RunInv /\ SkipInherited =>
           /\ Len(scopes) <= Len(store) /\ Len(scopes) \in Nat \ {0}
           /\ frames = <<>> \/ ~Local.skip => Len(scopes) = Len(store))'
    BY Depths, PTL
  <2> QED BY <1>3, <2>1 DEF Base
<1>7. PICK s : Incremented(s) /\ (store' = s \/ store' = Front(s))
  BY <1>5, UpMemory, NoIncrement
<1>8. Levels(scopes, s, CutOff) /\ s \in Seq(Run!Variables) /\ Len(s) = Len(store)
  BY <1>5, <1>7, IncrementedLevels DEF Incremented, SameNames
<1>9. \A i \in 1 .. Len(scopes) : store'[i] = s[i]
  <2>1. CASE store' = s
    BY <2>1
  <2>2. CASE store' = Front(s)
    <3>1. s # <<>>
      BY <1>8, MemoryType DEF Base
    <3>2. Len(store') = Len(s) - 1 /\ \A i \in 1 .. Len(s) - 1 : store'[i] = s[i]
      BY <1>8, <2>2, <3>1, FrontShape
    <3> QED BY <1>6, <1>8, <3>2
  <2> QED BY <1>7, <2>1, <2>2
<1>10. Levels(scopes', store', CutOff')
  <2>1. \A i \in 1 .. Len(scopes) :
          /\ DOMAIN s[i] \subseteq DOMAIN store'[i]
          /\ \A x \in DOMAIN s[i] : store'[i][x] = s[i][x]
          /\ i < Len(scopes) => DOMAIN store'[i] = DOMAIN s[i]
    BY <1>9
  <2>2. Levels(scopes, store', CutOff')
    BY <1>4, <1>5, <1>6, <1>8, <2>1, LevelsCut
  <2> QED BY <1>3, <2>2
<1>11. Reports
  BY <1>3, UpMemory DEF Reports
<1>12. ASSUME Strict
       PROVE  /\ Tracked(assigned', seen', store', insideFunction', status')
              /\ Saved(frames', cursor', runs', store') /\ Among(frames', seen')
  <2>1. assigned \subseteq seen
    BY <1>3, <1>12 DEF VarInv, Tracked
  <2> QED BY <1>1, <1>3, <1>4, <1>12, <2>1, UpKeeps DEF Tracked
<1> QED BY <1>1, <1>10, <1>11, <1>12, VarOfParts DEF Follow

--------------------------------------------------------------------------------
(***************************************************************************)
(* The rest of the steps.                                                  *)
(***************************************************************************)

\* A step that changes nothing the invariant speaks of.
LEMMA VarStill ==
  ASSUME VarInv, failed => failed', class' = class, seen' = seen, scopes' = scopes,
         store' = store, frames' = frames, cursor' = cursor, runs' = runs,
         assigned' = assigned, status' = status, insideFunction' = insideFunction
  PROVE  VarInv'
<1>1. Strict' = Strict
  BY DEF Strict
<1>2. CutOff' = CutOff
  BY DEF CutOff, Local
<1> QED BY <1>1, <1>2 DEF VarInv

LEMMA VarGather ==
  ASSUME Base, VarInv, ReportInv, GatherSignatures,
         UNCHANGED <<status, runs, store, obs, class, seen>>
  PROVE  VarInv' /\ ReportInv'
<1> DEFINE names == {pending[i].name : i \in DOMAIN pending}
           again == Builtin \in names \/ Cardinality(names) < Len(pending)
           a == report(Env, "function", "", again)
<1>1. /\ Become(a) /\ phase = "gather" /\ phase' = "analyze"
      /\ cursor' = cursor /\ frames' = frames /\ insideFunction' = insideFunction
  BY DEF GatherSignatures, treeVars
<1> HIDE DEF again
<1>2. a.scopes = scopes /\ a.assigned = assigned
  BY DEF report, Env
<1> HIDE DEF a
<1>3. scopes' = scopes /\ assigned' = assigned /\ (failed => failed')
  BY <1>1, <1>2 DEF Become
<1>4. VarInv'
  BY <1>1, <1>3, VarStill
<1>5. ~failed => obs = Run!Quiet
  BY <1>1 DEF ReportInv
<1>6. ~failed' => obs'.closed = {} /\ obs'.uninit = {}
  BY <1>3, <1>5 DEF Run!Quiet
<1>7. ReportInv'
  BY <1>1, <1>6 DEF ReportInv
<1> QED BY <1>4, <1>7

LEMMA VarFinish ==
  ASSUME Base, VarInv, Finish, Run!RunEndProgram, class' = class, seen' = seen, ~failed'
  PROVE  VarInv' /\ ReportInv'
<1> DEFINE more == checkUnusedVariablesInCurrentScope(scopes)
           a == [Env EXCEPT !.diags = more]
<1>1. /\ Become(a) /\ cursor = <<>> /\ phase' = "done"
      /\ cursor' = cursor /\ frames' = frames /\ insideFunction' = insideFunction
  BY DEF Finish, treeVars
<1> HIDE DEF more
<1>2. a.scopes = scopes /\ a.assigned = assigned /\ a.diags = more
  BY DEF Env
<1> HIDE DEF a
<1>3. ~failed /\ scopes' = scopes /\ assigned' = assigned /\ diags' = more
  BY <1>1, <1>2, BecomeClean
<1>4. Run!Memory.store = store /\ Run!Memory.uninit = {}
  BY DEF Run!Memory
<1>5. /\ store' = store /\ obs'.uninit = {} /\ obs'.closed = Run!ReadIn(store[1])
      /\ status' = status /\ runs' = runs
  BY <1>4 DEF Run!RunEndProgram, Run!Remember
<1>6. VarInv'
  BY <1>1, <1>3, <1>5, VarStill
<1>7. /\ Len(store) = 1 /\ Len(scopes) = 1 /\ ~CutOff
      /\ scopes \in Seq(Scopes) /\ store \in Seq(Run!Variables)
  BY <1>1, GlobalsAlone
<1>8. scopes # <<>> /\ store # <<>>
  <2>1. Len(scopes) # 0 /\ Len(store) # 0
    BY <1>7
  <2> QED BY <1>7, <2>1, NotEmpty
<1>9. Run!Last(store) = store[1]
  BY <1>7, <1>8, RunEnds
<1>10. Levels(scopes, store, CutOff)
  BY <1>3 DEF VarInv
<1>11. \A n \in obs'.closed : <<"unused", n>> \notin more
  BY <1>5, <1>7, <1>8, <1>9, <1>10, ReadIsNotUnused DEF more
<1>12. ReportInv'
  BY <1>1, <1>3, <1>5, <1>11 DEF ReportInv
<1> QED BY <1>6, <1>12

LEMMA VarStarts ==
  ASSUME FlowInit
  PROVE  VarInv /\ ReportInv
<1>1. /\ scopes = <<EmptyScope>> /\ store = <<EmptyScope>> /\ frames = <<>> /\ assigned = {}
      /\ obs = Run!Quiet /\ seen = {}
  BY RunLooksUp DEF FlowInit, Init, SemInit, Run!RunInit
<1>2. DOMAIN EmptyScope = {}
  BY DEF EmptyScope
<1>3. ~CutOff /\ 1 .. Len(frames) = {}
  BY <1>1 DEF CutOff
<1>4. Len(scopes) = 1 /\ scopes[1] = EmptyScope /\ Len(store) = 1 /\ store[1] = EmptyScope
  BY <1>1
<1>5. \A i : i \in 1 .. 1 <=> i = 1
  OBVIOUS
<1>6. Levels(scopes, store, CutOff)
  BY <1>2, <1>3, <1>4, <1>5 DEF Levels, ReadIsUsed
<1>7. Sound(store, seen, insideFunction)
  <2>1. \A i, j \in 1 .. Len(store) : ~(i < j)
    BY <1>4
  <2>2. Apart(store, insideFunction)
    BY <2>1 DEF Apart
  <2> QED BY <1>2, <1>4, <1>5, <2>2 DEF Sound
<1>8. Tracked(assigned, seen, store, insideFunction, status)
  BY <1>1, <1>7 DEF Tracked, Initialized
<1>9. Saved(frames, cursor, runs, store) /\ Among(frames, seen)
  BY <1>3 DEF Saved, Among
<1>10. VarInv
  BY <1>6, <1>8, <1>9 DEF VarInv
<1>11. obs.uninit = {} /\ obs.closed = {}
  BY <1>1 DEF Run!Quiet
<1>12. ReportInv
  BY <1>1, <1>11 DEF ReportInv
<1> QED BY <1>10, <1>12

\* One step, whatever it is.
LEMMA VarNext ==
  ASSUME Base, Base', VarInv, ReportInv, [FlowNext]_flowVars
  PROVE  VarInv' /\ ReportInv'
<1>0. RunInv'
  BY DEF Base
<1>1. CASE UNCHANGED flowVars
  <2>1. VarInv'
    BY <1>1, VarStill DEF flowVars, vars, treeVars, semVars
  <2>2. Strict' = Strict
    BY <1>1 DEF flowVars, Strict
  <2>3. ReportInv'
    BY <1>1, <2>2 DEF ReportInv, flowVars, vars, semVars
  <2> QED BY <2>1, <2>3
<1>2. CASE failed'
  BY <1>2 DEF VarInv, ReportInv
<1>3. ASSUME ~failed', NEW n \in Statements, FlowLeaf(n) PROVE VarInv' /\ ReportInv'
  BY <1>0, <1>3, VarLeaf, VarSkipLeaf
<1>4. ASSUME ~failed', NEW n \in Statements, FlowDown(n) PROVE VarInv' /\ ReportInv'
  BY <1>0, <1>4, VarDown, VarSkipEnter
<1>5. CASE ~failed' /\ FlowUp
  BY <1>0, <1>5, VarUp, VarSkipUp
<1>6. CASE ~failed' /\ pending # <<>> /\ FlowFunction(Head(pending))
  BY <1>6, VarFunction
<1>7. CASE ~failed' /\ FlowEndFunction
  BY <1>0, <1>7, VarEndFunction
<1>8. CASE ~failed' /\ (ElseBranch \/ SkipElse) /\ Run!RunElse /\ UNCHANGED <<class, seen>>
  BY <1>0, <1>8, VarElse, VarSkipElse
<1>9. CASE GatherSignatures /\ UNCHANGED <<status, runs, store, obs, class, seen>>
  BY <1>9, VarGather
<1>10. CASE ~failed' /\ Finish /\ Run!RunEndProgram /\ UNCHANGED <<class, seen>>
  BY <1>10, VarFinish
<1> QED BY <1>1, <1>2, <1>3, <1>4, <1>5, <1>6, <1>7, <1>8, <1>9, <1>10 DEF FlowNext, FlowWalk

--------------------------------------------------------------------------------
(***************************************************************************)
(* What it shows.                                                          *)
(***************************************************************************)

\* The variables the analyzer and the run keep agree at every step.
THEOREM VariablesAgree == FlowSpec => [](VarInv /\ ReportInv)
<1>1. FlowInit => VarInv /\ ReportInv
  BY VarStarts
<1>2. Base /\ Base' /\ VarInv /\ ReportInv /\ [FlowNext]_flowVars => VarInv' /\ ReportInv'
  BY VarNext
<1>3. FlowSpec => []Base
  <2>1. IInv /\ RunInv /\ FlowInv /\ PathInv /\ SkipInherited /\ Below(frames) => Base
    BY DEF Base
  <2> QED BY <2>1, FlowIsAnalysis, Balance, RunBalance, FlowAgreement, PathInvariant,
             SkippedBelow, BelowJumps, PTL
<1> QED BY <1>1, <1>2, <1>3, PTL DEF FlowSpec

\* A variable the analyzer reports as unused is read by no run of an accepted
\* program, whatever it hides, whatever is skipped and wherever its scope ends.
THEOREM UnusedNeverRead == FlowSpec => []UnusedIsNeverRead
<1>1. ReportInv => UnusedIsNeverRead
  BY DEF ReportInv, UnusedIsNeverRead
<1> QED BY <1>1, VariablesAgree, PTL

\* A variable some run reads before it holds a value is reported there, in every
\* accepted program that declares each name once and whose for-increments only
\* assign what was assigned before.
THEOREM EarlyReadsWarned == FlowSpec => []WarnedWithoutReuse
<1>1. ReportInv => WarnedWithoutReuse
  BY DEF ReportInv, WarnedWithoutReuse, UninitializedReadsAreWarned, Strict
<1> QED BY <1>1, VariablesAgree, PTL
================================================================================
