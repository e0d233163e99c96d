-------------------------------- MODULE AstLemmas ------------------------------
(***************************************************************************)
(* What the path of the walk over the tree looks like, for the proofs      *)
(* about the passes that make it.                                          *)
(***************************************************************************)
EXTENDS Ast, TLAPS

\* A statement with an open child waits for it.
Waiting == {"list", "then", "else", "body"}

\* Functions are not nested, all but the last statement wait for a child, the
\* then branch is an if-statement's, which has no body, and a list a block's.
Walk(path) ==
  /\ path \in Seq(Entries)
  /\ \A i \in 1 .. Len(path) : path[i].node.kind = "func" => i = 1
  /\ \A i \in 1 .. Len(path) : i < Len(path) => path[i].slot \in Waiting
  /\ \A i \in 1 .. Len(path) : path[i].node.kind = "if" => path[i].slot # "body"
  /\ \A i \in 1 .. Len(path) :
       path[i].slot \in {"then", "thenDone"} => path[i].node.kind = "if"
  /\ \A i \in 1 .. Len(path) : path[i].slot = "list" => path[i].node.kind = "block"

\* path2 goes through the same statements as path.
SameNodes(path2, path) == /\ path2 \in Seq(Entries)
                          /\ Len(path2) = Len(path)
                          /\ \A i \in 1 .. Len(path) : path2[i].node = path[i].node

\* The walk going on to the next child leaves the statements on the path.
LEMMA AdvanceShape ==
  ASSUME NEW path \in Seq(Entries)
  PROVE  SameNodes(Advance(path), path)
<1>1. CASE path = <<>>
  BY <1>1 DEF Advance, SameNodes
<1>2. CASE path # <<>>
  <2> DEFINE top == path[Len(path)]
             new == [top EXCEPT !.slot = Filled(@)]
  <2>1. top \in Entries /\ Len(path) \in 1 .. Len(path)
    BY <1>2
  <2>2. new \in Entries /\ new.node = top.node
    BY <2>1 DEF Entries, Slots, Filled
  <2>3. Advance(path) = [path EXCEPT ![Len(path)] = new]
    BY <1>2 DEF Advance
  <2> HIDE DEF new
  <2> QED BY <2>1, <2>2, <2>3 DEF SameNodes
<1> QED BY <1>1, <1>2

\* A child of the last statement of path is complete.
Advanced(path2, path) ==
  /\ SameNodes(path2, path)
  /\ \A i \in 1 .. Len(path) :
       path2[i].slot = IF i = Len(path) THEN Filled(path[i].slot) ELSE path[i].slot

LEMMA AdvanceAdvances == ASSUME NEW path \in Seq(Entries) PROVE Advanced(Advance(path), path)
<1>0. SameNodes(Advance(path), path)
  BY AdvanceShape
<1>1. CASE path = <<>>
  <2>1. 1 .. Len(path) = {}
    BY <1>1
  <2> QED BY <1>0, <2>1 DEF Advanced
<1>2. CASE path # <<>>
  <2> DEFINE top == path[Len(path)]
             new == [top EXCEPT !.slot = Filled(@)]
  <2>1. top \in Entries /\ Len(path) \in 1 .. Len(path)
    BY <1>2
  <2>2. new.slot = Filled(top.slot)
    BY <2>1 DEF Entries
  <2>3. Advance(path) = [path EXCEPT ![Len(path)] = new]
    BY <1>2 DEF Advance
  <2> HIDE DEF new
  <2>4. \A i \in 1 .. Len(path) :
          Advance(path)[i] = IF i = Len(path) THEN new ELSE path[i]
    BY <2>3
  <2> QED BY <1>0, <2>2, <2>4 DEF Advanced
<1> QED BY <1>1, <1>2

\* Going on to the next child, going back to the enclosing statement and going
\* into a statement keep the shape.
LEMMA WalkAdvanced ==
  ASSUME NEW path, Walk(path), NEW path2, Advanced(path2, path),
         path # <<>> => path[Len(path)].slot \in Waiting
  PROVE  Walk(path2)
<1>1. /\ path \in Seq(Entries) /\ path2 \in Seq(Entries) /\ Len(path2) = Len(path)
      /\ Len(path) \in Nat
      /\ \A i \in 1 .. Len(path) : path2[i].node = path[i].node
  BY DEF Walk, Advanced, SameNodes
<1>2. ASSUME NEW i \in 1 .. Len(path)
      PROVE  /\ path[i].slot # "body" => path2[i].slot # "body"
             /\ path2[i].slot \in {"then", "thenDone"}
                  => path[i].slot \in {"then", "thenDone"}
             /\ path2[i].slot = "list" => path[i].slot = "list"
  <2>1. /\ Filled(path[i].slot) # "body"
        /\ Filled(path[i].slot) = "list" => path[i].slot = "list"
        /\ Filled(path[i].slot) \in {"then", "thenDone"} => path[i].slot = "then"
    BY DEF Filled
  <2> QED BY <2>1 DEF Advanced
<1>3. \A i \in 1 .. Len(path) : i < Len(path) => path2[i].slot = path[i].slot
  BY <1>1 DEF Advanced
<1> QED BY <1>1, <1>2, <1>3 DEF Walk

LEMMA WalkFront ==
  ASSUME NEW path, Walk(path), path # <<>>, NEW front \in Seq(Entries),
         Len(front) = Len(path) - 1,
         \A i \in 1 .. Len(path) - 1 : front[i] = path[i]
  PROVE  /\ Walk(front)
         /\ front # <<>> => front[Len(front)].slot \in Waiting
<1>1. Len(path) \in Nat \ {0} /\ Len(front) \in Nat
  BY DEF Walk
<1> QED BY <1>1 DEF Walk

LEMMA WalkAppend ==
  ASSUME NEW path, Walk(path), NEW e \in Entries,
         path # <<>> => path[Len(path)].slot \in Waiting /\ e.node.kind # "func",
         e.node.kind = "if" => e.slot # "body",
         e.slot \in {"then", "thenDone"} => e.node.kind = "if",
         e.slot = "list" => e.node.kind = "block"
  PROVE  Walk(Append(path, e))
<1> DEFINE path2 == Append(path, e)
<1>1. /\ path \in Seq(Entries) /\ Len(path) \in Nat
      /\ path2 \in Seq(Entries) /\ Len(path2) = Len(path) + 1
      /\ path2[Len(path) + 1] = e
      /\ \A i \in 1 .. Len(path) : path2[i] = path[i]
  BY DEF Walk
<1> HIDE DEF path2
<1>2. path = <<>> => Len(path) = 0
  OBVIOUS
<1>3. \A i \in 1 .. Len(path) : path2[i].slot \in Waiting
  BY <1>1, <1>2 DEF Walk
<1>4. \A i \in 1 .. Len(path2) : path2[i].node.kind = "func" => i = 1
  <2>1. e.node.kind = "func" => Len(path) = 0
    BY <1>2
  <2> QED BY <1>1, <2>1 DEF Walk
<1>5. \A i \in 1 .. Len(path2) : path2[i].node.kind = "if" => path2[i].slot # "body"
  BY <1>1 DEF Walk
<1>6. \A i \in 1 .. Len(path2) :
        path2[i].slot \in {"then", "thenDone"} => path2[i].node.kind = "if"
  BY <1>1 DEF Walk
<1>7. \A i \in 1 .. Len(path2) : path2[i].slot = "list" => path2[i].node.kind = "block"
  BY <1>1 DEF Walk
<1> QED BY <1>1, <1>3, <1>4, <1>5, <1>6, <1>7 DEF Walk, path2

\* Where the grammar has room for a statement, the innermost one waits for it.
LEMMA RoomWaits ==
  ASSUME NEW n, Room(n), cursor # <<>>
  PROVE  cursor[Len(cursor)].slot \in Waiting /\ n.kind # "func"
BY DEF Room, Waiting, Last

--------------------------------------------------------------------------------
(***************************************************************************)
(* Recursion over expressions.  Expressions are finite trees: what is      *)
(* defined for an expression from its values at the operands is defined.   *)
(***************************************************************************)
Operands(e) == {e.args[i] : i \in DOMAIN e.args}

\* Of any expressions, one has no operand among them.
LEMMA SmallestExpr ==
  ASSUME NEW S \in SUBSET Exprs, S # {}
  PROVE  \E e \in S : Operands(e) \cap S = {}
<1>1. PICK e \in S : \A i \in DOMAIN e.args : e.args[i] \notin S
  BY ExprAssumption
<1> QED BY <1>1 DEF Operands

LEMMA OperandsAreExprs == \A e \in Exprs : Operands(e) \subseteq Exprs
BY ExprAssumption DEF Operands

\* What G makes of an expression depends on the values of the operands alone.
IsLocal(G, T) ==
  \A e \in Exprs : \A g, h \in [Exprs -> T] :
    (\A x \in Operands(e) : g[x] = h[x]) => G[<<e, g>>] = G[<<e, h>>]

\* A function of expressions may be defined by what it is of an expression,
\* given what it is of the operands.
LEMMA Recursion ==
  ASSUME NEW T, NEW t \in T, NEW G \in [Exprs \X [Exprs -> T] -> T],
         IsLocal(G, T)
  PROVE  \E f \in [Exprs -> T] : \A e \in Exprs : f[e] = G[<<e, f>>]
<1> DEFINE Fs == [Exprs -> T]
           Solves(f, D) == \A e \in D : f[e] = G[<<e, f>>]
           Closed(D) == \A e \in D : Operands(e) \subseteq D
           Good == {D \in SUBSET Exprs : Closed(D) /\ \E f \in Fs : Solves(f, D)}
           U == UNION Good
           Value(e, v) == \E D \in Good : \E f \in Fs : e \in D /\ Solves(f, D) /\ v = f[e]
           F == [e \in Exprs |-> IF e \in U THEN CHOOSE v \in T : Value(e, v) ELSE t]
<1>0. /\ \A e \in Exprs : \A g, h \in Fs :
             (\A x \in Operands(e) : g[x] = h[x]) => G[<<e, g>>] = G[<<e, h>>]
      /\ \A e \in Exprs : \A g \in Fs : G[<<e, g>>] \in T
  BY DEF IsLocal
<1>1. ASSUME NEW D1 \in Good, NEW D2 \in Good, NEW f1 \in Fs, NEW f2 \in Fs,
             Solves(f1, D1), Solves(f2, D2)
      PROVE  \A e \in D1 \cap D2 : f1[e] = f2[e]
  <2> DEFINE S == {e \in D1 \cap D2 : f1[e] # f2[e]}
  <2> SUFFICES ASSUME S # {} PROVE FALSE
    OBVIOUS
  <2>1. S \in SUBSET Exprs
    OBVIOUS
  <2> HIDE DEF S
  <2>2. PICK e \in S : Operands(e) \cap S = {}
    BY <2>1, SmallestExpr
  <2> USE DEF S
  <2>3. e \in Exprs /\ e \in D1 /\ e \in D2 /\ f1[e] # f2[e]
    BY <2>2
  <2>4. Operands(e) \subseteq D1 /\ Operands(e) \subseteq D2
    BY <2>3
  <2>5. \A x \in Operands(e) : f1[x] = f2[x]
    BY <2>2, <2>4
  <2>6. G[<<e, f1>>] = G[<<e, f2>>]
    BY <2>3, <2>5, <1>0
  <2>7. f1[e] = G[<<e, f1>>] /\ f2[e] = G[<<e, f2>>]
    BY <1>1, <2>3
  <2> QED BY <2>3, <2>6, <2>7
<1>2. \A e \in Exprs : e \in U => \E v \in T : Value(e, v)
  <2> SUFFICES ASSUME NEW e \in Exprs, e \in U PROVE \E v \in T : Value(e, v)
    OBVIOUS
  <2>1. PICK D \in Good : e \in D
    OBVIOUS
  <2>2. PICK f \in Fs : Solves(f, D)
    BY <2>1
  <2>3. f[e] \in T
    OBVIOUS
  <2> QED BY <2>1, <2>2, <2>3
<1>3. F \in Fs
  BY <1>2
<1>4. ASSUME NEW D \in Good, NEW f \in Fs, Solves(f, D), NEW e \in D
      PROVE  F[e] = f[e]
  <2>1. e \in Exprs /\ e \in U
    OBVIOUS
  <2>2. F[e] = CHOOSE v \in T : Value(e, v)
    BY <2>1
  <2>3. Value(e, F[e])
    BY <1>2, <2>1, <2>2
  <2>4. PICK D2 \in Good, f2 \in Fs : e \in D2 /\ Solves(f2, D2) /\ F[e] = f2[e]
    BY <2>3
  <2> HIDE DEF F, U, Value, Good, Solves
  <2> QED BY <1>1, <1>4, <2>4
<1>5. Closed(U)
  OBVIOUS
<1>6. Solves(F, U)
  <2> SUFFICES ASSUME NEW e \in U PROVE F[e] = G[<<e, F>>]
    OBVIOUS
  <2>1. PICK D \in Good : e \in D
    OBVIOUS
  <2>2. PICK f \in Fs : Solves(f, D)
    BY <2>1
  <2>3. Operands(e) \subseteq D /\ e \in Exprs
    BY <2>1
  <2>4. f[e] = G[<<e, f>>]
    BY <2>1, <2>2
  <2>5. F[e] = f[e] /\ \A x \in Operands(e) : F[x] = f[x]
    <3> HIDE DEF F, U, Value, Good, Solves
    <3> QED BY <1>4, <2>1, <2>2, <2>3
  <2>6. G[<<e, F>>] = G[<<e, f>>]
    <3> HIDE DEF F, U, Value, Good, Solves
    <3> QED BY <1>0, <1>3, <2>2, <2>3, <2>5
  <2> QED BY <2>4, <2>5, <2>6
<1>7. ASSUME Exprs \ U # {} PROVE FALSE
  <2>1. PICK e \in Exprs \ U : Operands(e) \cap (Exprs \ U) = {}
    <3> HIDE DEF U
    <3> QED BY <1>7, SmallestExpr
  <2>2. Operands(e) \subseteq U /\ e \in Exprs /\ e \notin U
    <3> HIDE DEF U
    <3> QED BY <2>1, OperandsAreExprs
  <2> DEFINE H == [F EXCEPT ![e] = G[<<e, F>>]]
             D == U \cup {e}
  <2>3. /\ H \in Fs /\ H[e] = G[<<e, F>>]
        /\ \A x \in Exprs : x # e => H[x] = F[x]
    <3> HIDE DEF F, U
    <3> QED BY <1>0, <1>3, <2>2
  <2>4. D \in SUBSET Exprs /\ Closed(D)
    BY <1>5, <2>2
  <2>5. U \subseteq Exprs
    OBVIOUS
  <2> HIDE DEF F, U, H
  <2>6. ASSUME NEW x \in D PROVE H[x] = G[<<x, H>>]
    <3>1. x \in Exprs /\ Operands(x) \subseteq U
      BY <2>2, <2>5, <1>5
    <3>2. \A y \in Operands(x) : H[y] = F[y]
      BY <3>1, <2>2, <2>3, <2>5
    <3>3. G[<<x, H>>] = G[<<x, F>>]
      BY <3>1, <3>2, <1>0, <1>3, <2>3
    <3>4. CASE x = e
      BY <3>3, <3>4, <2>3
    <3>5. CASE x # e
      <4>1. F[x] = G[<<x, F>>]
        BY <3>5, <1>6
      <4> QED BY <4>1, <3>1, <3>3, <3>5, <2>3
    <3> QED BY <3>4, <3>5
  <2>7. Solves(H, D)
    BY <2>6
  <2>8. D \in Good
    BY <2>3, <2>4, <2>7
  <2>9. e \in U
    BY <2>8 DEF U
  <2> QED BY <2>2, <2>9
<1>8. U = Exprs
  BY <1>7
<1> HIDE DEF F, U
<1> QED BY <1>3, <1>6, <1>8

\* The variables of an expression, V in VarsOf.
VarsIn ==
  LET V[e \in Exprs] == IF e.op = "var" THEN {e.id}
                        ELSE UNION {V[e.args[i]] : i \in DOMAIN e.args}
  IN V

LEMMA VarsInIs ==
  /\ \A xs : VarsOf(xs) = UNION {VarsIn[xs[i]] : i \in DOMAIN xs}
  /\ \A e \in Exprs : VarsIn[e] = IF e.op = "var" THEN {e.id}
                                  ELSE UNION {VarsIn[x] : x \in Operands(e)}
<1>1. \A xs : VarsOf(xs) = UNION {VarsIn[xs[i]] : i \in DOMAIN xs}
  BY DEF VarsOf, VarsIn
<1> DEFINE Ids == SUBSET {e.id : e \in Exprs}
           Of(e, v) == IF e.op = "var" THEN {e.id} ELSE UNION {v[e.args[i]] : i \in DOMAIN e.args}
           G == [p \in Exprs \X [Exprs -> Ids] |-> Of(p[1], p[2])]
<1>2. \A e \in Exprs : \A v \in [Exprs -> Ids] : Of(e, v) \in Ids /\ G[<<e, v>>] = Of(e, v)
  <2> TAKE e \in Exprs
  <2> TAKE v \in [Exprs -> Ids]
  <2>1. \A i \in DOMAIN e.args : v[e.args[i]] \in Ids
    BY ExprAssumption
  <2> QED BY <2>1
<1>3. \A e \in Exprs : \A g, h \in [Exprs -> Ids] :
           (\A x \in Operands(e) : g[x] = h[x]) => Of(e, g) = Of(e, h)
  <2> TAKE e \in Exprs
  <2> TAKE g, h \in [Exprs -> Ids]
  <2> HAVE \A x \in Operands(e) : g[x] = h[x]
  <2>1. \A i \in DOMAIN e.args : g[e.args[i]] = h[e.args[i]]
    BY DEF Operands
  <2>2. {g[e.args[i]] : i \in DOMAIN e.args} = {h[e.args[i]] : i \in DOMAIN e.args}
    BY <2>1
  <2> QED BY <2>2
<1>4. {} \in Ids
  OBVIOUS
<1>5. PICK f \in [Exprs -> Ids] : \A e \in Exprs : f[e] = Of(e, f)
  <2> HIDE DEF Ids, Of
  <2>1. G \in [Exprs \X [Exprs -> Ids] -> Ids]
    BY <1>2
  <2>2. IsLocal(G, Ids)
    BY <1>2, <1>3 DEF IsLocal
  <2>3. \E f \in [Exprs -> Ids] : \A e \in Exprs : f[e] = G[<<e, f>>]
    <3> HIDE DEF G
    <3> QED BY <1>4, <2>1, <2>2, Recursion
  <2> QED BY <1>2, <2>3
<1>6. f = [e \in Exprs |-> Of(e, f)]
  <2> HIDE DEF Ids, Of
  <2> QED BY <1>5
<1>7. VarsIn = [e \in Exprs |-> Of(e, VarsIn)]
  <2>1. VarsIn = CHOOSE v : v = [e \in Exprs |-> Of(e, v)]
    BY DEF VarsIn
  <2> HIDE DEF Of
  <2> QED BY <1>6, <2>1
<1>8. \A e \in Exprs : Of(e, VarsIn) = IF e.op = "var" THEN {e.id}
                                       ELSE UNION {VarsIn[x] : x \in Operands(e)}
  BY DEF Operands
<1> HIDE DEF Of
<1> QED BY <1>1, <1>7, <1>8
================================================================================
