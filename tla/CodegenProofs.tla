------------------------------ MODULE CodegenProofs -----------------------------
(***************************************************************************)
(* Proofs about the code generator: its type invariant, the scopes and the *)
(* loop stack in step with the statements code is generated for, and the   *)
(* one block without a terminator, for all programs.  Then, next to any    *)
(* run of any program: control in the emitted code comes to the insertion  *)
(* point just when the run comes to the statement generated there, and the *)
(* code of a statement is executed by the runs that execute it.            *)
(***************************************************************************)
EXTENDS EmittedFlow, AstLemmas, SequenceLemmas

\* A function's body is generated in any case.
FunctionsGenerated == \A i \in DOMAIN cursor : cursor[i].node.kind = "func" => ~locals[i].skip

\* The blocks created for a statement that are not part of the function yet.
Due(l) == {l.other, l.after, l.inc} \ {0}

\* The blocks an open statement goes on to have been created.
BlocksExist ==
  /\ \A i \in Generated({"if"}) :
       /\ IF cursor[i].slot \in {"else", "done"} THEN locals[i].after # 0
                                                ELSE locals[i].other # 0
       /\ locals[i].inc = 0
  /\ \A i \in Generated(LoopKinds) : locals[i].after # 0 /\ locals[i].again # 0
  /\ \A i \in Generated({"for"}) : locals[i].inc \notin {0, locals[i].after}

\* No two open statements go on to the same block.
BlocksDiffer ==
  \A i, j \in DOMAIN locals : i # j => Due(locals[i]) \cap Due(locals[j]) = {}

\* The only block without a terminator is the current one, if the insertion
\* point is at its end, and it is not one that is to be inserted later.
Openness ==
  /\ builder.open \subseteq {builder.at}
  /\ builder.mid => builder.open = {}
  /\ \A i \in DOMAIN locals : builder.open \cap Due(locals[i]) = {}

GenInv == /\ GenTypeOK /\ Walk(cursor) /\ FunctionsGenerated
          /\ ScopesMatch /\ LoopStackMatches
          /\ BlocksExist /\ BlocksDiffer /\ Openness

--------------------------------------------------------------------------------
(***************************************************************************)
(* The state of the generator within a step, as an operator leaves it.     *)
(***************************************************************************)
GenFields == {"b", "allocas", "declared", "taken", "edges", "code", "aborted", "type"}

BranchesOK(edges) ==
  \A b \in DOMAIN edges : b \in Blocks /\ Range(edges[b]) \subseteq Blocks

\* The blocks are as between two steps; those of D are to be inserted later.
BlocksOK(g, D) ==
  /\ g.b \in Builders /\ g.taken \in SUBSET Nat /\ IsFiniteSet(g.taken)
  /\ BranchesOK(g.edges) /\ g.code \in SUBSET Blocks
  /\ D \subseteq g.taken /\ g.b.at \in g.taken
  /\ g.b.open \subseteq {g.b.at} /\ g.b.open \cap D = {}
  /\ g.b.mid => g.b.open = {}

\* There are k scopes, and the two records of them are in step.
ScopesOK(al, de, k) ==
  /\ al \in Seq(AllocaScopes) /\ de \in Seq(SUBSET Name)
  /\ Len(al) = k /\ Len(de) = k + 1
  /\ \A i \in 1 .. k : de[i + 1] = DOMAIN al[i]

GenOK(g, D, k) == /\ DOMAIN g = GenFields
                  /\ BlocksOK(g, D) /\ ScopesOK(g.allocas, g.declared, k)

LEMMA RejectOK ==
  ASSUME NEW g, NEW D, NEW k, GenOK(g, D, k), NEW when
  PROVE  /\ GenOK(Reject(g, when), D, k)
         /\ Reject(g, when).taken = g.taken /\ Reject(g, when).b.at = g.b.at
BY DEF GenOK, GenFields, BlocksOK, Builders, Reject

LEMMA AbortOK ==
  ASSUME NEW g, NEW D, NEW k, GenOK(g, D, k), NEW when
  PROVE  GenOK(Abort(g, when), D, k)
BY DEF GenOK, GenFields, BlocksOK, Builders, Abort

LEMMA EmitOK ==
  ASSUME NEW g, NEW D, NEW k, GenOK(g, D, k)
  PROVE  GenOK(Emit(g), D, k)
<1> DEFINE h == [g EXCEPT !.code = @ \cup {g.b.at}]
<1>1. GenOK(h, D, k)
  BY DEF GenOK, GenFields, BlocksOK, Builders
<1> QED BY <1>1, RejectOK DEF Emit

LEMMA TerminateOK ==
  ASSUME NEW g, NEW D, NEW k, GenOK(g, D, k), NEW targets, Range(targets) \subseteq Blocks
  PROVE  /\ GenOK(Terminate(g, targets), D, k)
         /\ Terminate(g, targets).b.open = {} /\ Terminate(g, targets).taken = g.taken
BY DEF GenOK, GenFields, BlocksOK, Builders, Terminate, Reject, BranchesOK, Recorded

--------------------------------------------------------------------------------
(***************************************************************************)
(* Names of new blocks.                                                    *)
(***************************************************************************)
\* There is always a k-th name that is not taken.
LEMMA FreeName ==
  ASSUME NEW T \in SUBSET Nat, IsFiniteSet(T), NEW k \in Nat \ {0}
  PROVE  \E b \in 1 .. Cardinality(T) + k : b \notin T /\ Cardinality((1 .. b) \ T) = k
<1> DEFINE n == Cardinality(T) + k
           Free(b) == (1 .. b) \ T
           S == {b \in 1 .. n + 1 : Cardinality(Free(b - 1)) < k}
           m == Max(S)
<1>1. Cardinality(T) \in Nat /\ n \in Nat
  BY FS_CardinalityType
<1>2. ASSUME NEW b \in Nat PROVE IsFiniteSet(Free(b)) /\ Cardinality(Free(b)) \in Nat
  <2>1. IsFiniteSet(1 .. b)
    BY FS_Interval
  <2> QED BY <2>1, FS_Difference, FS_CardinalityType
<1>3. 1 \in S
  <2>1. Free(0) = {}
    OBVIOUS
  <2>2. Cardinality(Free(1 - 1)) = 0
    BY <2>1, FS_EmptySet
  <2> HIDE DEF Free, n
  <2> QED BY <1>1, <2>2
<1>4. n + 1 \notin S
  <2>1. IsFiniteSet(1 .. n) /\ Cardinality(1 .. n) = n
    BY <1>1, FS_Interval
  <2>2. IsFiniteSet((1 .. n) \cap T) /\ Cardinality((1 .. n) \cap T) <= Cardinality(T)
    BY FS_Subset
  <2>3. Cardinality(Free(n)) = n - Cardinality((1 .. n) \cap T)
    BY <2>1, FS_Difference
  <2>4. Cardinality((1 .. n) \cap T) \in Nat
    BY <2>2, FS_CardinalityType
  <2>5. Cardinality(Free(n)) >= k
    BY <1>1, <2>2, <2>3, <2>4
  <2>6. (n + 1) - 1 = n
    BY <1>1
  <2>7. Cardinality(Free(n)) \in Nat
    BY <1>1, <1>2
  <2> HIDE DEF Free, n
  <2> QED BY <2>5, <2>6, <2>7
<1>5. m \in S /\ \A i \in S : i <= m
  <2>1. S \in SUBSET (1 .. n + 1) /\ n + 1 \in Nat
    BY <1>1
  <2> HIDE DEF S, n
  <2> QED BY <1>3, <2>1, MaxOfPositions
<1>6. m \in 1 .. n
  <2> HIDE DEF Free
  <2> QED BY <1>1, <1>4, <1>5
<1>7. Cardinality(Free(m - 1)) < k
  BY <1>5
<1>8. ~(Cardinality(Free(m)) < k)
  <2>1. m + 1 \in 1 .. n + 1 /\ (m + 1) - 1 = m
    BY <1>1, <1>6
  <2>2. m + 1 \notin S
    <3>1. m \in Nat
      <4> HIDE DEF m
      <4> QED BY <1>1, <1>6
    <3> HIDE DEF m, S
    <3> QED BY <1>5, <3>1
  <2> HIDE DEF Free, m, n
  <2> QED BY <2>1, <2>2
<1>9. IF m \in T THEN Free(m) = Free(m - 1)
                 ELSE Free(m) = Free(m - 1) \cup {m} /\ m \notin Free(m - 1)
  <2> HIDE DEF m, n
  <2> QED BY <1>1, <1>6
<1>10. m - 1 \in Nat /\ m \in Nat
  BY <1>6
<1> HIDE DEF Free, m, n, S
<1>11. /\ Cardinality(Free(m)) \in Nat /\ Cardinality(Free(m - 1)) \in Nat
       /\ IsFiniteSet(Free(m - 1))
  BY <1>2, <1>10
<1>12. m \notin T
  BY <1>7, <1>8, <1>9
<1>13. Cardinality(Free(m)) = Cardinality(Free(m - 1)) + 1
  BY <1>9, <1>11, <1>12, FS_AddElement
<1>14. Cardinality(Free(m)) = k
  BY <1>7, <1>8, <1>11, <1>13
<1> QED BY <1>6, <1>12, <1>14 DEF Free, n

\* A new block is one nothing refers to, and different from the other new ones.
LEMMA NewBlockIsNew ==
  ASSUME NEW g, g.taken \in SUBSET Nat, IsFiniteSet(g.taken),
         NEW k \in Nat \ {0}
  PROVE  /\ NewBlock(g, k) \in Blocks /\ NewBlock(g, k) \notin g.taken
         /\ Cardinality((1 .. NewBlock(g, k)) \ g.taken) = k
<1> DEFINE T == g.taken
           n == Cardinality(T) + k
           P(b) == b \notin T /\ Cardinality((1 .. b) \ T) = k
           c == CHOOSE b \in 1 .. n : P(b)
<1>1. \E b \in 1 .. n : P(b)
  BY FreeName
<1>2. c \in 1 .. n /\ P(c)
  <2> HIDE DEF P, n
  <2> QED BY <1>1
<1>3. NewBlock(g, k) = c
  BY DEF NewBlock
<1>4. c \in Blocks
  <2>1. n \in Nat
    BY FS_CardinalityType
  <2> HIDE DEF c
  <2> QED BY <1>2, <2>1 DEF Blocks
<1> HIDE DEF c
<1> QED BY <1>2, <1>3, <1>4

LEMMA NewBlocksDiffer ==
  ASSUME NEW g, g.taken \in SUBSET Nat, IsFiniteSet(g.taken)
  PROVE  /\ NewBlock(g, 1) # NewBlock(g, 2)
         /\ NewBlock(g, 1) # NewBlock(g, 3)
         /\ NewBlock(g, 2) # NewBlock(g, 3)
<1> DEFINE Rank(b) == Cardinality((1 .. b) \ g.taken)
<1>1. /\ Rank(NewBlock(g, 1)) = 1
      /\ Rank(NewBlock(g, 2)) = 2
      /\ Rank(NewBlock(g, 3)) = 3
  BY NewBlockIsNew
<1> HIDE DEF Rank
<1> QED BY <1>1

--------------------------------------------------------------------------------
(***************************************************************************)
(* The operators of the generator keep its state in order.                 *)
(***************************************************************************)
LEMMA BranchIfOpenOK ==
  ASSUME NEW g, NEW D, NEW k, GenOK(g, D, k), NEW x \in Blocks
  PROVE  /\ GenOK(BranchIfOpen(g, x), D, k) /\ BranchIfOpen(g, x).b.open = {}
         /\ BranchIfOpen(g, x).taken = g.taken
<1>1. HasTerminator(g.b) => g.b.open = {}
  BY DEF HasTerminator, GenOK, BlocksOK
<1>2. Range(<<x>>) \subseteq Blocks
  BY DEF Range
<1> QED BY <1>1, <1>2, TerminateOK DEF BranchIfOpen

LEMMA ReturnIfOpenOK ==
  ASSUME NEW g, NEW D, NEW k, GenOK(g, D, k)
  PROVE  GenOK(ReturnIfOpen(g), D, k)
<1>1. Range(<<>>) \subseteq Blocks
  BY DEF Range
<1> QED BY <1>1, TerminateOK DEF ReturnIfOpen

\* A block created earlier is inserted, and not to be inserted any more.
LEMMA StartBlockOK ==
  ASSUME NEW g, NEW D, NEW k, GenOK(g, D, k), g.b.open = {},
         NEW x \in Blocks, x \in g.taken, NEW E \in SUBSET D, x \notin E
  PROVE  /\ GenOK(StartBlock(g, x), E, k) /\ StartBlock(g, x).taken = g.taken
BY DEF GenOK, GenFields, BlocksOK, Builders, StartBlock

\* Blocks are created.
LEMMA TakeOK ==
  ASSUME NEW g, NEW D, NEW k, GenOK(g, D, k),
         NEW bs \in SUBSET Nat, IsFiniteSet(bs),
         NEW E \in SUBSET (D \cup bs), g.b.open \cap E = {}
  PROVE  /\ GenOK(Take(g, bs), E, k)
         /\ Take(g, bs).taken = g.taken \cup bs /\ Take(g, bs).b = g.b
<1>1. IsFiniteSet(g.taken \cup bs)
  BY FS_Union DEF GenOK, BlocksOK
<1> QED BY <1>1 DEF GenOK, GenFields, BlocksOK, Take

\* The blocks a step creates.
LEMMA NewBlocksOK ==
  ASSUME NEW g, NEW D, NEW k, GenOK(g, D, k)
  PROVE  /\ \A j \in {1, 2, 3} : /\ NewBlock(g, j) \in Blocks
                                /\ NewBlock(g, j) \notin g.taken
                                /\ NewBlock(g, j) \notin D
         /\ NewBlock(g, 1) # NewBlock(g, 2)
         /\ NewBlock(g, 1) # NewBlock(g, 3)
         /\ NewBlock(g, 2) # NewBlock(g, 3)
<1>1. g.taken \in SUBSET Nat /\ IsFiniteSet(g.taken) /\ D \subseteq g.taken
  BY DEF GenOK, BlocksOK
<1>2. {1, 2, 3} \subseteq Nat \ {0}
  OBVIOUS
<1>3. ASSUME NEW j \in Nat \ {0}
      PROVE  NewBlock(g, j) \in Blocks /\ NewBlock(g, j) \notin g.taken
  BY <1>1, NewBlockIsNew
<1> QED BY <1>1, <1>2, <1>3, NewBlocksDiffer

LEMMA MoveOK ==
  ASSUME NEW g, NEW D, NEW k, GenOK(g, D, k)
  PROVE  GenOK(Move(g), D, k)
<1> DEFINE last == NewBlock(g, 1)
           h == Take(g, {last})
           t == Terminate(h, <<last>>)
<1>1. last \in Blocks /\ last \notin g.taken /\ last \notin D
  BY NewBlocksOK
<1>2. {last} \in SUBSET Nat /\ IsFiniteSet({last})
  BY <1>1, FS_Singleton DEF Blocks
<1>3. GenOK(h, D, k) /\ h.taken = g.taken \cup {last}
  <2> HIDE DEF last
  <2>1. D \in SUBSET (D \cup {last}) /\ g.b.open \cap D = {}
    BY DEF GenOK, BlocksOK
  <2> QED BY <1>2, <2>1, TakeOK
<1>4. Range(<<last>>) \subseteq Blocks
  BY <1>1 DEF Range
<1>5. GenOK(t, D, k) /\ t.b.open = {} /\ t.taken = h.taken
  <2> HIDE DEF last, h
  <2> QED BY <1>3, <1>4, TerminateOK
<1> HIDE DEF last, h, t
<1>6. GenOK(StartBlock(t, last), D, k)
  BY <1>1, <1>3, <1>5, StartBlockOK
<1> QED BY <1>6 DEF Move, last, h, t

LEMMA AccessOK ==
  ASSUME NEW g, NEW D, NEW k, GenOK(g, D, k), NEW names
  PROVE  GenOK(Access(g, names), D, k)
BY EmitOK, RejectOK, AbortOK DEF Access

LEMMA TypedOK ==
  ASSUME NEW g, NEW D, NEW k, GenOK(g, D, k), NEW type
  PROVE  GenOK([g EXCEPT !.type = type], D, k)
BY DEF GenOK, GenFields, BlocksOK

LEMMA LoadOK ==
  ASSUME NEW g, NEW D, NEW k, GenOK(g, D, k), NEW v
  PROVE  GenOK(Load(g, v), D, k)
<1> DEFINE a == Access(g, v.loads)
<1>1. GenOK(a, D, k)
  BY AccessOK
<1> HIDE DEF a
<1>2. GenOK([a EXCEPT !.type = v.type], D, k)
  BY <1>1, TypedOK
<1> QED BY <1>2, RejectOK, AbortOK DEF Load, a

LEMMA EvalOK ==
  ASSUME NEW g, NEW D, NEW k, GenOK(g, D, k), NEW xs
  PROVE  GenOK(Eval(g, xs), D, k)
<1>1. ASSUME NEW v PROVE GenOK(Value(g, v), D, k)
  BY LoadOK, MoveOK DEF Value
<1> QED BY <1>1, TypedOK DEF Eval

LEMMA ConditionOK ==
  ASSUME NEW g, NEW D, NEW k, GenOK(g, D, k), NEW xs
  PROVE  GenOK(Condition(g, xs), D, k)
BY EvalOK, AbortOK DEF Condition, CompareWithZero

\* A record of the scopes apart from that of the blocks.
SameBlocks(h, g) ==
  /\ DOMAIN h = GenFields /\ h.b = g.b /\ h.taken = g.taken
  /\ h.edges = g.edges /\ h.code = g.code

LEMMA ScopesChanged ==
  ASSUME NEW g, NEW D, NEW k, GenOK(g, D, k), NEW h, SameBlocks(h, g), NEW l,
         ScopesOK(h.allocas, h.declared, l)
  PROVE  GenOK(h, D, l)
BY DEF GenOK, BlocksOK, SameBlocks

LEMMA AllocaIntro ==
  ASSUME NEW names \in SUBSET Name, NEW s \in [names -> BOOLEAN]
  PROVE  s \in AllocaScopes
BY DEF AllocaScopes

LEMMA AllocaElim ==
  ASSUME NEW s \in AllocaScopes
  PROVE  DOMAIN s \in SUBSET Name /\ s \in [DOMAIN s -> BOOLEAN]
BY DEF AllocaScopes

\* The innermost scope gets a variable in both records.
LEMMA RegisterOK ==
  ASSUME NEW g, NEW D, NEW k \in Nat \ {0}, GenOK(g, D, k), NEW n \in Name
  PROVE  GenOK(registerVariable(g, n), D, k)
<1> DEFINE al == g.allocas
           de == g.declared
           top == al[k]
           new == Recorded(top, n, TRUE)
           names == de[k + 1] \cup {n}
           al2 == [al EXCEPT ![k] = new]
           de2 == [de EXCEPT ![k + 1] = names]
<1>1. /\ DOMAIN g = GenFields
      /\ al \in Seq(AllocaScopes) /\ de \in Seq(SUBSET Name)
      /\ Len(al) = k /\ Len(de) = k + 1
      /\ \A i \in 1 .. k : de[i + 1] = DOMAIN al[i]
  BY DEF GenOK, ScopesOK
<1>2. /\ registerVariable(g, n).allocas = al2 /\ registerVariable(g, n).declared = de2
      /\ SameBlocks(registerVariable(g, n), g)
  BY <1>1 DEF registerVariable, Bind, GenFields, SameBlocks
<1>3. top \in AllocaScopes /\ de[k + 1] = DOMAIN top
  BY <1>1
<1>4. new \in [names -> BOOLEAN] /\ DOMAIN new = names /\ names \in SUBSET Name
  BY <1>3, AllocaElim DEF Recorded
<1>5. new \in AllocaScopes
  BY <1>4, AllocaIntro
<1> HIDE DEF new, names
<1>6. al2 \in Seq(AllocaScopes) /\ Len(al2) = k /\ de2 \in Seq(SUBSET Name) /\ Len(de2) = k + 1
  BY <1>1, <1>4, <1>5
<1>7. \A i \in 1 .. k : de2[i + 1] = DOMAIN al2[i]
  BY <1>1, <1>4
<1>8. ScopesOK(al2, de2, k)
  BY <1>6, <1>7 DEF ScopesOK
<1> HIDE DEF al2, de2
<1> QED BY <1>2, <1>8, ScopesChanged

LEMMA SimpleOK ==
  ASSUME NEW g, NEW D, NEW k \in Nat \ {0}, GenOK(g, D, k), NEW n, IsSimple(n)
  PROVE  GenOK(codegenSimple(g, n), D, k)
<1>1. ASSUME NEW h, GenOK(h, D, k), NEW xs PROVE GenOK(CreateStore(h, xs), D, k)
  BY <1>1, RejectOK DEF CreateStore
<1>2. ASSUME NEW h, GenOK(h, D, k), NEW xs PROVE GenOK(Assigned(h, xs), D, k)
  BY <1>1, <1>2, AbortOK DEF Assigned
<1>3. CASE n.kind = "decl"
  <2>1. n.name \in Name
    BY <1>3 DEF IsSimple
  <2>2. GenOK(registerVariable(Emit(g), n.name), D, k)
    BY <2>1, EmitOK, RegisterOK
  <2>3. GenOK(CreateStore(Eval(registerVariable(Emit(g), n.name), n.expr), n.expr), D, k)
    BY <1>1, <2>2, EvalOK
  <2> QED BY <1>3, <2>3 DEF codegenSimple, codegenVarDeclaration
<1>4. CASE n.kind = "assign"
  <2>1. GenOK(Eval(Access(g, {n.name}), <<n.expr>>), D, k)
    BY AccessOK, EvalOK
  <2> QED BY <1>2, <1>4, <2>1 DEF codegenSimple, codegenAssignment
<1>5. CASE n.kind = "expr"
  BY <1>5, EvalOK DEF codegenSimple
<1> QED BY <1>3, <1>4, <1>5 DEF IsSimple, SimpleKinds

LEMMA OptionalOK ==
  ASSUME NEW g, NEW D, NEW k \in Nat \ {0}, GenOK(g, D, k), NEW ns,
         ns # <<>> => IsSimple(ns[1])
  PROVE  GenOK(codegenOptional(g, ns), D, k)
BY SimpleOK DEF codegenOptional

LEMMA ReturnOK ==
  ASSUME NEW g, NEW D, NEW k, GenOK(g, D, k), NEW n
  PROVE  GenOK(codegenReturn(g, n), D, k)
<1>1. ASSUME NEW h, GenOK(h, D, k), NEW xs PROVE GenOK(CreateReturn(h, xs), D, k)
  <2>1. Range(<<>>) \subseteq Blocks
    BY DEF Range
  <2> QED BY <1>1, <2>1, RejectOK, TerminateOK DEF CreateReturn
<1> QED BY <1>1, EvalOK DEF codegenReturn

LEMMA PushScopeOK ==
  ASSUME NEW g, NEW D, NEW k \in Nat, GenOK(g, D, k)
  PROVE  GenOK(pushScope(g), D, k + 1)
<1> DEFINE al == g.allocas
           de == g.declared
           al2 == Append(al, EmptyScope)
           de2 == Append(de, {})
<1>1. /\ DOMAIN g = GenFields
      /\ al \in Seq(AllocaScopes) /\ de \in Seq(SUBSET Name)
      /\ Len(al) = k /\ Len(de) = k + 1
      /\ \A i \in 1 .. k : de[i + 1] = DOMAIN al[i]
  BY DEF GenOK, ScopesOK
<1>2. EmptyScope \in AllocaScopes /\ DOMAIN EmptyScope = {}
  <2>1. EmptyScope \in [{} -> BOOLEAN] /\ {} \in SUBSET Name
    BY DEF EmptyScope
  <2> QED BY <2>1, AllocaIntro
<1>3. ScopesOK(al2, de2, k + 1)
  <2> HIDE DEF al, de
  <2> QED BY <1>1, <1>2 DEF ScopesOK
<1>4. /\ pushScope(g).allocas = al2 /\ pushScope(g).declared = de2
      /\ SameBlocks(pushScope(g), g)
  BY <1>1 DEF pushScope, GenFields, SameBlocks
<1> HIDE DEF al2, de2
<1> QED BY <1>3, <1>4, ScopesChanged

LEMMA PopScopeOK ==
  ASSUME NEW g, NEW D, NEW k \in Nat \ {0}, GenOK(g, D, k)
  PROVE  GenOK(popScope(g), D, k - 1)
<1> DEFINE al == g.allocas
           de == g.declared
           al2 == Front(al)
           de2 == Front(de)
<1>1. /\ DOMAIN g = GenFields
      /\ al \in Seq(AllocaScopes) /\ de \in Seq(SUBSET Name)
      /\ Len(al) = k /\ Len(de) = k + 1
      /\ \A i \in 1 .. k : de[i + 1] = DOMAIN al[i]
  BY DEF GenOK, ScopesOK
<1>2. al # <<>> /\ de # <<>> /\ Len(de) > 1
  <2> HIDE DEF al, de
  <2> QED BY <1>1
<1>3. /\ al2 \in Seq(AllocaScopes) /\ Len(al2) = k - 1
      /\ de2 \in Seq(SUBSET Name) /\ Len(de2) = k
      /\ \A i \in 1 .. k - 1 : al2[i] = al[i]
      /\ \A i \in 1 .. k : de2[i] = de[i]
  <2> HIDE DEF al, de
  <2>1. /\ Front(al) \in Seq(AllocaScopes) /\ Len(Front(al)) = Len(al) - 1
        /\ \A i \in 1 .. Len(al) - 1 : Front(al)[i] = al[i]
    BY <1>1, <1>2, FrontShape
  <2>2. /\ Front(de) \in Seq(SUBSET Name) /\ Len(Front(de)) = Len(de) - 1
        /\ \A i \in 1 .. Len(de) - 1 : Front(de)[i] = de[i]
    BY <1>1, <1>2, FrontShape
  <2> QED BY <1>1, <2>1, <2>2
<1>4. ScopesOK(al2, de2, k - 1)
  <2> HIDE DEF al, de, al2, de2
  <2> QED BY <1>1, <1>3 DEF ScopesOK
<1>5. /\ popScope(g).allocas = al2 /\ popScope(g).declared = de2
      /\ SameBlocks(popScope(g), g)
  BY <1>1, <1>2 DEF popScope, GenFields, SameBlocks
<1> HIDE DEF al2, de2
<1> QED BY <1>4, <1>5, ScopesChanged

LEMMA LeaveRegionOK ==
  ASSUME NEW g, NEW D, NEW k \in Nat \ {0}, GenOK(g, D, k), NEW known
  PROVE  GenOK(LeaveRegion(g, known), D, k)
<1> DEFINE al == g.allocas
           top == al[k]
           new == [n \in DOMAIN top |-> top[n] /\ n \in known]
           al2 == [al EXCEPT ![k] = new]
<1>1. /\ DOMAIN g = GenFields
      /\ al \in Seq(AllocaScopes) /\ g.declared \in Seq(SUBSET Name)
      /\ Len(al) = k /\ Len(g.declared) = k + 1
      /\ \A i \in 1 .. k : g.declared[i + 1] = DOMAIN al[i]
  BY DEF GenOK, ScopesOK
<1>2. /\ LeaveRegion(g, known).allocas = al2 /\ LeaveRegion(g, known).declared = g.declared
      /\ SameBlocks(LeaveRegion(g, known), g)
  BY <1>1 DEF LeaveRegion, GenFields, SameBlocks
<1>3. top \in AllocaScopes
  BY <1>1
<1>4. new \in [DOMAIN top -> BOOLEAN] /\ DOMAIN new = DOMAIN top
  OBVIOUS
<1>5. new \in AllocaScopes
  BY <1>3, <1>4, AllocaElim, AllocaIntro
<1> HIDE DEF new
<1>6. ScopesOK(al2, g.declared, k)
  BY <1>1, <1>4, <1>5 DEF ScopesOK
<1> HIDE DEF al2
<1> QED BY <1>2, <1>6, ScopesChanged

--------------------------------------------------------------------------------
(***************************************************************************)
(* The locals and the path: the same of any ls, path and stack.  Steps     *)
(* change them at the end.                                                 *)
(***************************************************************************)
GeneratedIn(ls, path, kinds) ==
  {i \in 1 .. Len(ls) : ~ls[i].skip /\ path[i].node.kind \in kinds}

Scoping == {"block", "for", "func"}

Depth(ls, path) == 1 + Cardinality(GeneratedIn(ls, path, Scoping))

AllDue(ls) == UNION {Due(ls[i]) : i \in 1 .. Len(ls)}

\* What an open statement with locals l at entry e goes on to exists.
TargetsExist(l, e) ==
  ~l.skip =>
    /\ e.node.kind = "if" => IF e.slot \in {"else", "done"} THEN l.after # 0
                                                            ELSE l.other # 0
    /\ e.node.kind = "if" => l.inc = 0
    /\ e.node.kind \in LoopKinds => l.after # 0 /\ l.again # 0
    /\ e.node.kind = "for" => l.inc \notin {0, l.after}

PathOK(ls, path) ==
  /\ Walk(path) /\ ls \in Seq(Locals) /\ Len(ls) = Len(path)
  /\ \A i \in 1 .. Len(ls) : path[i].node.kind = "func" => ~ls[i].skip
  /\ \A i \in 1 .. Len(ls) : TargetsExist(ls[i], path[i])
  /\ \A i, j \in 1 .. Len(ls) : i # j => Due(ls[i]) \cap Due(ls[j]) = {}

\* The stack entry of a loop with locals l at entry e.
IsLoopOf(loop, l, e) ==
  /\ loop.breakBB = l.after
  /\ loop.continueBB = IF e.node.kind = "for" THEN l.inc ELSE l.again

Nth(S, i) == Cardinality({j \in S : j <= i})

StackOK(stack, ls, path) ==
  LET loops == GeneratedIn(ls, path, LoopKinds)
  IN /\ stack \in Seq(LoopContexts)
     /\ Len(stack) = Cardinality(loops)
     /\ \A i \in loops : IsLoopOf(stack[Nth(loops, i)], ls[i], path[i])

\* ls2 and path2 hold one more statement.
OneMore(ls2, path2, ls, path) ==
  /\ ls \in Seq(Locals) /\ path \in Seq(Entries) /\ Len(ls) = Len(path)
  /\ ls2 \in Seq(Locals) /\ path2 \in Seq(Entries) /\ Len(ls2) = Len(path2)
  /\ Len(ls2) = Len(ls) + 1
  /\ \A i \in 1 .. Len(ls) : ls2[i] = ls[i] /\ path2[i] = path[i]

Counts(l, e, kinds) == ~l.skip /\ e.node.kind \in kinds

\* The statements of some kinds are finitely many, and one more counts once.
LEMMA GeneratedFinite ==
  ASSUME NEW ls \in Seq(Locals), NEW path, NEW kinds
  PROVE  /\ IsFiniteSet(GeneratedIn(ls, path, kinds))
         /\ Cardinality(GeneratedIn(ls, path, kinds)) \in Nat
<1>1. GeneratedIn(ls, path, kinds) \subseteq 1 .. Len(ls) /\ Len(ls) \in Nat
  BY DEF GeneratedIn
<1>2. IsFiniteSet(1 .. Len(ls))
  BY <1>1, FS_Interval
<1> QED BY <1>1, <1>2, FS_Subset, FS_CardinalityType

LEMMA OneMoreGenerated ==
  ASSUME NEW ls, NEW path, NEW ls2, NEW path2, OneMore(ls2, path2, ls, path), NEW kinds
  PROVE  LET m == Len(ls2)
             old == GeneratedIn(ls, path, kinds)
             new == GeneratedIn(ls2, path2, kinds)
         IN /\ Counts(ls2[m], path2[m], kinds) =>
                 new = old \cup {m} /\ Cardinality(new) = Cardinality(old) + 1
            /\ ~Counts(ls2[m], path2[m], kinds) => new = old
            /\ m \notin old
<1> DEFINE m == Len(ls2)
           old == GeneratedIn(ls, path, kinds)
           new == GeneratedIn(ls2, path2, kinds)
<1>1. Len(ls) \in Nat /\ m = Len(ls) + 1
  BY DEF OneMore
<1>2. m \notin old
  BY <1>1 DEF GeneratedIn
<1>3. /\ Counts(ls2[m], path2[m], kinds) => new = old \cup {m}
      /\ ~Counts(ls2[m], path2[m], kinds) => new = old
  BY <1>1 DEF GeneratedIn, Counts, OneMore
<1>4. IsFiniteSet(old) /\ Cardinality(old) \in Nat
  BY GeneratedFinite DEF OneMore
<1> QED BY <1>2, <1>3, <1>4, FS_AddElement

\* The ranks below the new statement stay, and its own is the last.
LEMMA RankOfNew ==
  ASSUME NEW n \in Nat, NEW S \in SUBSET (1 .. n)
  PROVE  /\ \A i \in S : Nth(S \cup {n + 1}, i) = Nth(S, i)
         /\ Nth(S \cup {n + 1}, n + 1) = Cardinality(S) + 1
         /\ \A i \in S : Nth(S, i) \in 1 .. Cardinality(S)
<1>1. IsFiniteSet(S) /\ Cardinality(S) \in Nat
  <2>1. IsFiniteSet(1 .. n)
    BY FS_Interval
  <2> QED BY <2>1, FS_Subset, FS_CardinalityType
<1>2. ASSUME NEW i \in S PROVE {j \in S \cup {n + 1} : j <= i} = {j \in S : j <= i}
  OBVIOUS
<1>3. {j \in S \cup {n + 1} : j <= n + 1} = S \cup {n + 1} /\ n + 1 \notin S
  <2>1. \A j \in S : j \in Nat /\ j <= n
    OBVIOUS
  <2>2. n + 1 \notin S
    BY <2>1
  <2>3. \A j \in S \cup {n + 1} : j <= n + 1
    BY <2>1
  <2> QED BY <2>2, <2>3
<1>4. Cardinality(S \cup {n + 1}) = Cardinality(S) + 1
  BY <1>1, <1>3, FS_AddElement
<1>5. ASSUME NEW i \in S PROVE Nth(S, i) \in 1 .. Cardinality(S)
  <2> DEFINE B == {j \in S : j <= i}
  <2>1. B \subseteq S /\ i \in B
    OBVIOUS
  <2>2. IsFiniteSet(B) /\ Cardinality(B) \in Nat /\ Cardinality(B) <= Cardinality(S)
    BY <1>1, <2>1, FS_Subset, FS_CardinalityType
  <2>3. Cardinality(B) # 0
    BY <2>1, <2>2, FS_EmptySet
  <2> HIDE DEF B
  <2>4. Cardinality(B) \in 1 .. Cardinality(S)
    BY <1>1, <2>2, <2>3
  <2> QED BY <2>4 DEF Nth, B
<1> QED BY <1>2, <1>3, <1>4, <1>5 DEF Nth

\* A statement is opened, with locals that are in order by themselves.
LEMMA PathPushed ==
  ASSUME NEW ls, NEW path, NEW ls2, NEW path2,
         OneMore(ls2, path2, ls, path), PathOK(ls, path), Walk(path2),
         path2[Len(ls2)].node.kind = "func" => ~ls2[Len(ls2)].skip,
         TargetsExist(ls2[Len(ls2)], path2[Len(ls2)]),
         Due(ls2[Len(ls2)]) \cap AllDue(ls) = {}
  PROVE  /\ PathOK(ls2, path2)
         /\ AllDue(ls2) = AllDue(ls) \cup Due(ls2[Len(ls2)])
<1> DEFINE m == Len(ls2)
<1>1. /\ Len(ls) \in Nat /\ m = Len(ls) + 1 /\ ls2 \in Seq(Locals)
      /\ Len(ls2) = Len(path2) /\ Len(ls2) = m
      /\ \A i \in 1 .. m - 1 : ls2[i] = ls[i] /\ path2[i] = path[i]
      /\ 1 .. m = 1 .. (m - 1) \cup {m} /\ 1 .. Len(ls) = 1 .. m - 1
  BY DEF OneMore
<1>2. AllDue(ls2) = AllDue(ls) \cup Due(ls2[m])
  BY <1>1 DEF AllDue
<1>3. \A i \in 1 .. m : path2[i].node.kind = "func" => ~ls2[i].skip
  BY <1>1 DEF PathOK
<1>4. \A i \in 1 .. m : TargetsExist(ls2[i], path2[i])
  BY <1>1 DEF PathOK
<1>5. \A i, j \in 1 .. m : i # j => Due(ls2[i]) \cap Due(ls2[j]) = {}
  <2>1. \A i, j \in 1 .. m - 1 : i # j => Due(ls2[i]) \cap Due(ls2[j]) = {}
    BY <1>1 DEF PathOK
  <2>2. \A i \in 1 .. m - 1 : Due(ls2[i]) \cap Due(ls2[m]) = {}
    <3>1. \A i \in 1 .. m - 1 : Due(ls2[i]) \subseteq AllDue(ls)
      BY <1>1 DEF AllDue
    <3> QED BY <3>1
  <2> QED BY <1>1, <2>1, <2>2
<1> QED BY <1>1, <1>2, <1>3, <1>4, <1>5 DEF PathOK

\* A statement is complete.
LEMMA PathPopped ==
  ASSUME NEW ls, NEW path, NEW ls2, NEW path2,
         OneMore(ls2, path2, ls, path), PathOK(ls2, path2), Walk(path)
  PROVE  /\ PathOK(ls, path)
         /\ AllDue(ls) \subseteq AllDue(ls2)
         /\ AllDue(ls) \cap Due(ls2[Len(ls2)]) = {}
<1> DEFINE m == Len(ls2)
<1>1. /\ Len(ls) \in Nat /\ m = Len(ls) + 1 /\ ls \in Seq(Locals) /\ Len(ls) = Len(path)
      /\ \A i \in 1 .. Len(ls) : ls2[i] = ls[i] /\ path2[i] = path[i]
      /\ \A i \in 1 .. Len(ls) : i \in 1 .. Len(ls2) /\ i # m /\ m \in 1 .. Len(ls2)
  BY DEF OneMore
<1>2. PathOK(ls, path)
  BY <1>1 DEF PathOK
<1>3. AllDue(ls) \subseteq AllDue(ls2)
  BY <1>1 DEF AllDue
<1>4. \A i \in 1 .. Len(ls) : Due(ls[i]) \cap Due(ls2[m]) = {}
  BY <1>1 DEF PathOK
<1> QED BY <1>2, <1>3, <1>4 DEF AllDue

\* The number of scopes follows.
LEMMA DepthChanged ==
  ASSUME NEW ls, NEW path, NEW ls2, NEW path2,
         OneMore(ls2, path2, ls, path)
  PROVE  /\ Counts(ls2[Len(ls2)], path2[Len(ls2)], Scoping) => Depth(ls2, path2) = Depth(ls, path) + 1
         /\ ~Counts(ls2[Len(ls2)], path2[Len(ls2)], Scoping) => Depth(ls2, path2) = Depth(ls, path)
         /\ Depth(ls, path) \in Nat \ {0}
<1>1. Cardinality(GeneratedIn(ls, path, Scoping)) \in Nat
  BY GeneratedFinite DEF OneMore
<1> QED BY <1>1, OneMoreGenerated DEF Depth

\* A loop is pushed with its targets, and taken off the stack when it is left.
LEMMA LoopPushed ==
  ASSUME NEW ls, NEW path, NEW ls2, NEW path2,
         OneMore(ls2, path2, ls, path),
         Counts(ls2[Len(ls2)], path2[Len(ls2)], LoopKinds),
         NEW stack, StackOK(stack, ls, path),
         NEW loop \in LoopContexts, IsLoopOf(loop, ls2[Len(ls2)], path2[Len(ls2)])
  PROVE  StackOK(Append(stack, loop), ls2, path2)
<1> DEFINE old == GeneratedIn(ls, path, LoopKinds)
           new == GeneratedIn(ls2, path2, LoopKinds)
           stack2 == Append(stack, loop)
           n == Len(ls)
           m == Len(ls2)
<1>1. /\ n \in Nat /\ m = n + 1 /\ old \in SUBSET (1 .. n)
      /\ \A i \in 1 .. n : ls2[i] = ls[i] /\ path2[i] = path[i]
  BY DEF OneMore, GeneratedIn
<1>2. new = old \cup {n + 1} /\ Cardinality(new) = Cardinality(old) + 1
  <2>1. new = old \cup {m} /\ Cardinality(new) = Cardinality(old) + 1
    BY OneMoreGenerated
  <2> QED BY <1>1, <2>1
<1>3. /\ \A i \in old : Nth(new, i) = Nth(old, i) /\ Nth(old, i) \in 1 .. Cardinality(old)
      /\ Nth(new, n + 1) = Cardinality(old) + 1
  <2> HIDE DEF old, new, n
  <2> QED BY <1>1, <1>2, RankOfNew
<1>4. /\ stack \in Seq(LoopContexts) /\ Len(stack) = Cardinality(old)
      /\ \A i \in old : IsLoopOf(stack[Nth(old, i)], ls[i], path[i])
  BY DEF StackOK
<1>5. /\ stack2 \in Seq(LoopContexts) /\ Len(stack2) = Cardinality(old) + 1
      /\ \A c \in 1 .. Cardinality(old) : stack2[c] = stack[c]
      /\ stack2[Cardinality(old) + 1] = loop
  <2> HIDE DEF old
  <2> QED BY <1>4
<1> HIDE DEF old, new, stack2, n
<1>6. \A i \in new : IsLoopOf(stack2[Nth(new, i)], ls2[i], path2[i])
  <2>1. ASSUME NEW i \in old PROVE IsLoopOf(stack2[Nth(new, i)], ls2[i], path2[i])
    <3>1. ls2[i] = ls[i] /\ path2[i] = path[i]
      BY <1>1
    <3> QED BY <1>3, <1>4, <1>5, <3>1
  <2>2. IsLoopOf(stack2[Nth(new, n + 1)], ls2[n + 1], path2[n + 1])
    BY <1>1, <1>3, <1>5
  <2> QED BY <1>2, <2>1, <2>2
<1> QED BY <1>2, <1>5, <1>6 DEF StackOK, new, stack2

LEMMA LoopPopped ==
  ASSUME NEW ls, NEW path, NEW ls2, NEW path2,
         OneMore(ls2, path2, ls, path),
         Counts(ls2[Len(ls2)], path2[Len(ls2)], LoopKinds),
         NEW stack2, StackOK(stack2, ls2, path2)
  PROVE  stack2 # <<>> /\ StackOK(Front(stack2), ls, path)
<1> DEFINE old == GeneratedIn(ls, path, LoopKinds)
           new == GeneratedIn(ls2, path2, LoopKinds)
           stack == Front(stack2)
           n == Len(ls)
           m == Len(ls2)
<1>1. /\ n \in Nat /\ m = n + 1 /\ old \in SUBSET (1 .. n)
      /\ \A i \in 1 .. n : ls2[i] = ls[i] /\ path2[i] = path[i]
  BY DEF OneMore, GeneratedIn
<1>2. new = old \cup {n + 1} /\ Cardinality(new) = Cardinality(old) + 1
  <2>1. new = old \cup {m} /\ Cardinality(new) = Cardinality(old) + 1
    BY OneMoreGenerated
  <2> QED BY <1>1, <2>1
<1>3. \A i \in old : Nth(new, i) = Nth(old, i) /\ Nth(old, i) \in 1 .. Cardinality(old)
  <2> HIDE DEF old, new, n
  <2> QED BY <1>1, <1>2, RankOfNew
<1>4. /\ stack2 \in Seq(LoopContexts) /\ Len(stack2) = Cardinality(new)
      /\ \A i \in new : IsLoopOf(stack2[Nth(new, i)], ls2[i], path2[i])
  BY DEF StackOK
<1>5. Cardinality(old) \in Nat
  BY GeneratedFinite DEF OneMore
<1> HIDE DEF old, new, n
<1>6. stack2 # <<>> /\ Len(stack2) = Cardinality(old) + 1
  BY <1>2, <1>4, <1>5
<1>7. /\ stack \in Seq(LoopContexts) /\ Len(stack) = Cardinality(old)
      /\ \A c \in 1 .. Cardinality(old) : stack[c] = stack2[c]
  BY <1>4, <1>5, <1>6, FrontShape
<1> HIDE DEF stack
<1>8. \A i \in old : IsLoopOf(stack[Nth(old, i)], ls[i], path[i])
  <2> TAKE i \in old
  <2>1. ls2[i] = ls[i] /\ path2[i] = path[i] /\ i \in new
    BY <1>1, <1>2
  <2> QED BY <1>3, <1>4, <1>7, <2>1
<1> QED BY <1>6, <1>7, <1>8 DEF StackOK, old, stack

\* Another statement leaves the stack alone.
LEMMA NoLoop ==
  ASSUME NEW ls, NEW path, NEW ls2, NEW path2,
         OneMore(ls2, path2, ls, path),
         ~Counts(ls2[Len(ls2)], path2[Len(ls2)], LoopKinds), NEW stack
  PROVE  StackOK(stack, ls, path) <=> StackOK(stack, ls2, path2)
<1> DEFINE old == GeneratedIn(ls, path, LoopKinds)
           new == GeneratedIn(ls2, path2, LoopKinds)
<1>1. \A i \in old : ls2[i] = ls[i] /\ path2[i] = path[i]
  BY DEF OneMore, GeneratedIn
<1>2. new = old
  BY OneMoreGenerated
<1> HIDE DEF old, new
<1> QED BY <1>1, <1>2 DEF StackOK, old, new

\* Locals that differ in whether a list of statements has stopped.
SameLocals(ls2, ls) ==
  /\ ls2 \in Seq(Locals) /\ Len(ls2) = Len(ls)
  /\ \A i \in 1 .. Len(ls) :
       /\ ls2[i].skip = ls[i].skip
       /\ ls2[i].other = ls[i].other /\ ls2[i].after = ls[i].after
       /\ ls2[i].again = ls[i].again /\ ls2[i].inc = ls[i].inc

LEMMA ChildDoneSame ==
  ASSUME NEW ls \in Seq(Locals), NEW b
  PROVE  SameLocals(childDone(ls, b), ls)
<1>1. CASE ls = <<>>
  BY <1>1 DEF childDone, SameLocals
<1>2. CASE ls # <<>>
  <2> DEFINE top == ls[Len(ls)]
             new == [top EXCEPT !.stopped = @ \/ (cursor[Len(ls)].node.kind = "block"
                                                   /\ ~Last(ls).skip /\ HasTerminator(b))]
  <2>1. top \in Locals /\ Len(ls) \in 1 .. Len(ls)
    BY <1>2
  <2>2. /\ new \in Locals /\ new.skip = top.skip /\ new.other = top.other
        /\ new.after = top.after /\ new.again = top.again /\ new.inc = top.inc
    BY <2>1 DEF Locals
  <2>3. childDone(ls, b) = [ls EXCEPT ![Len(ls)] = new]
    BY <1>2 DEF childDone
  <2> HIDE DEF new
  <2> QED BY <2>1, <2>2, <2>3 DEF SameLocals
<1> QED BY <1>1, <1>2

\* The walk goes on below the same statements.
LEMMA PathAdvanced ==
  ASSUME NEW ls, NEW path, NEW ls2, NEW path2, PathOK(ls, path),
         path # <<>> => path[Len(path)].slot \in Waiting,
         SameLocals(ls2, ls), Advanced(path2, path), NEW stack
  PROVE  /\ PathOK(ls2, path2)
         /\ AllDue(ls2) = AllDue(ls)
         /\ Depth(ls2, path2) = Depth(ls, path)
         /\ StackOK(stack, ls, path) => StackOK(stack, ls2, path2)
<1>1. /\ ls \in Seq(Locals) /\ ls2 \in Seq(Locals) /\ Len(ls) \in Nat
      /\ Len(ls2) = Len(ls) /\ Len(path) = Len(ls) /\ Len(path2) = Len(ls)
      /\ Walk(path) /\ \A i \in 1 .. Len(ls) : path2[i].node = path[i].node
  BY DEF PathOK, SameLocals, Advanced, SameNodes
<1>2. Walk(path2)
  BY <1>1, WalkAdvanced
<1>3. \A i \in 1 .. Len(ls) : Due(ls2[i]) = Due(ls[i])
  BY DEF Due, SameLocals
<1>4. AllDue(ls2) = AllDue(ls)
  BY <1>1, <1>3 DEF AllDue
<1>5. \A kinds : GeneratedIn(ls2, path2, kinds) = GeneratedIn(ls, path, kinds)
  BY <1>1 DEF GeneratedIn, SameLocals
<1>6. ASSUME NEW i \in 1 .. Len(ls) PROVE TargetsExist(ls2[i], path2[i])
  <2>1. TargetsExist(ls[i], path[i])
    BY DEF PathOK
  <2>2. CASE path2[i].slot = path[i].slot
    BY <1>1, <2>1, <2>2 DEF TargetsExist, SameLocals
  <2>3. CASE path2[i].slot # path[i].slot
    <3>1. i = Len(path) /\ path2[i].slot = Filled(path[i].slot) /\ path[i].slot \in Waiting
      BY <1>1, <2>3 DEF Advanced
    <3>2. path[i].node.kind = "if" => path[i].slot # "body"
      BY <1>1 DEF Walk
    <3>3. path[i].node.kind = "if" =>
            (path2[i].slot \in {"else", "done"} <=> path[i].slot \in {"else", "done"})
      BY <3>1, <3>2 DEF Filled, Waiting
    <3> QED BY <1>1, <2>1, <3>3 DEF TargetsExist, SameLocals
  <2> QED BY <2>2, <2>3
<1>7. PathOK(ls2, path2)
  <2>1. \A i \in 1 .. Len(ls2) : path2[i].node.kind = "func" => ~ls2[i].skip
    BY <1>1 DEF PathOK, SameLocals
  <2>2. \A i, j \in 1 .. Len(ls2) : i # j => Due(ls2[i]) \cap Due(ls2[j]) = {}
    BY <1>1, <1>3 DEF PathOK
  <2> QED BY <1>1, <1>2, <1>6, <2>1, <2>2 DEF PathOK
<1>8. StackOK(stack, ls, path) => StackOK(stack, ls2, path2)
  <2> DEFINE loops == GeneratedIn(ls, path, LoopKinds)
  <2>1. \A i \in loops : /\ i \in 1 .. Len(ls) /\ path2[i].node = path[i].node
                         /\ ls2[i].after = ls[i].after /\ ls2[i].again = ls[i].again
                         /\ ls2[i].inc = ls[i].inc
    BY <1>1 DEF GeneratedIn, SameLocals
  <2>2. loops = GeneratedIn(ls2, path2, LoopKinds)
    BY <1>5
  <2> HIDE DEF loops
  <2>3. ASSUME StackOK(stack, ls, path), NEW i \in loops
        PROVE  IsLoopOf(stack[Nth(loops, i)], ls2[i], path2[i])
    <3>1. IsLoopOf(stack[Nth(loops, i)], ls[i], path[i])
      BY <2>3 DEF StackOK, loops
    <3> QED BY <2>1, <3>1 DEF IsLoopOf
  <2> QED BY <2>2, <2>3 DEF StackOK, loops
<1> QED BY <1>4, <1>5, <1>7, <1>8 DEF Depth

--------------------------------------------------------------------------------
(***************************************************************************)
(* The invariant, and the state of the generator at the start of a step.   *)
(***************************************************************************)
ModuleOK(mod) == \A f \in DOMAIN mod : IsFunction(mod[f])

EmittedOK(em) == BranchesOK(em.edges) /\ em.code \in SUBSET Blocks

BuilderOK(b, D) ==
  /\ b \in Builders
  /\ b.open \subseteq {b.at} /\ b.open \cap D = {}
  /\ b.mid => b.open = {}

LEMMA GenInvIs ==
  GenInv <=> /\ PathOK(locals, cursor) /\ StackOK(loopStack, locals, cursor)
             /\ pending \in Seq(Functions) /\ stage \in Stages
             /\ ModuleOK(module) /\ EmittedOK(emitted)
             /\ BuilderOK(builder, AllDue(locals))
             /\ ScopesOK(allocas, declared, Depth(locals, cursor))
<1> DEFINE Typed == /\ cursor \in Seq(Entries) /\ locals \in Seq(Locals)
                    /\ Len(locals) = Len(cursor)
<1>1. GenInv => Typed
  BY DEF GenInv, GenTypeOK, CursorTypeOK
<1>2. PathOK(locals, cursor) => Typed
  BY DEF PathOK, Walk
<1>3. ASSUME Typed
      PROVE  /\ DOMAIN locals = 1 .. Len(locals) /\ DOMAIN cursor = 1 .. Len(locals)
             /\ Len(locals) = Len(cursor)
             /\ \A kinds : Generated(kinds) = GeneratedIn(locals, cursor, kinds)
  BY <1>3 DEF Generated, GeneratedIn
<1>4. ASSUME Typed PROVE BlocksExist <=> \A i \in 1 .. Len(locals) : TargetsExist(locals[i], cursor[i])
  BY <1>3, <1>4 DEF BlocksExist, TargetsExist, GeneratedIn
<1>5. ASSUME Typed
      PROVE  PathOK(locals, cursor)
               <=> Typed /\ Walk(cursor) /\ FunctionsGenerated /\ BlocksExist /\ BlocksDiffer
  BY <1>3, <1>4, <1>5 DEF FunctionsGenerated, BlocksDiffer, PathOK
<1>6. ASSUME Typed
      PROVE  StackOK(loopStack, locals, cursor)
               <=> loopStack \in Seq(LoopContexts) /\ LoopStackMatches
  BY <1>3, <1>6 DEF StackOK, LoopStackMatches, Nth, IsLoopOf
<1>7. ASSUME Typed
      PROVE  BuilderOK(builder, AllDue(locals)) <=> builder \in Builders /\ Openness
  BY <1>3, <1>7 DEF BuilderOK, Openness, AllDue
<1>8. ASSUME Typed
      PROVE  ScopesOK(allocas, declared, Depth(locals, cursor))
               <=> allocas \in Seq(AllocaScopes) /\ declared \in Seq(SUBSET Name) /\ ScopesMatch
  <2>1. Depth(locals, cursor) = 1 + Cardinality(Generated({"block", "for", "func"}))
    BY <1>3, <1>8 DEF Depth, Scoping
  <2>2. allocas \in Seq(AllocaScopes) => DOMAIN allocas = 1 .. Len(allocas)
    OBVIOUS
  <2>3. ScopesMatch <=>
          /\ Len(allocas) = Depth(locals, cursor) /\ Len(declared) = Depth(locals, cursor) + 1
          /\ \A i \in DOMAIN allocas : declared[i + 1] = DOMAIN allocas[i]
    BY <2>1 DEF ScopesMatch
  <2> QED BY <2>2, <2>3 DEF ScopesOK
<1>9. EmittedOK(emitted) <=>
        /\ \A b \in DOMAIN emitted.edges : b \in Blocks /\ Range(emitted.edges[b]) \subseteq Blocks
        /\ emitted.code \subseteq Blocks
  BY DEF EmittedOK, BranchesOK
<1>10. ModuleOK(module) <=> \A f \in DOMAIN module : IsFunction(module[f])
  BY DEF ModuleOK
<1> QED BY <1>1, <1>2, <1>5, <1>6, <1>7, <1>8, <1>9, <1>10 DEF GenInv, GenTypeOK, CursorTypeOK

\* Finitely many statements refer to finitely many blocks.
LEMMA FiniteUnion ==
  ASSUME NEW n \in Nat, NEW f \in [1 .. n -> SUBSET Nat],
         \A i \in 1 .. n : IsFiniteSet(f[i])
  PROVE  IsFiniteSet(UNION {f[i] : i \in 1 .. n})
<1> DEFINE T == {f[i] : i \in 1 .. n}
<1>1. f \in Surjection(1 .. n, T)
  BY DEF Surjection
<1>2. IsFiniteSet(1 .. n)
  BY FS_Interval
<1>3. IsFiniteSet(T)
  <2> HIDE DEF T
  <2> QED BY <1>1, <1>2, FS_Surjection
<1> QED BY <1>3, FS_UNION

LEMMA LocalsFinite ==
  ASSUME NEW ls \in Seq(Locals)
  PROVE  LET bs == UNION {LocalBlocks(ls[i]) : i \in DOMAIN ls}
         IN bs \in SUBSET Nat /\ IsFiniteSet(bs)
<1> DEFINE n == Len(ls)
           f == [i \in 1 .. n |-> LocalBlocks(ls[i])]
<1>1. ASSUME NEW l \in Locals PROVE LocalBlocks(l) \in SUBSET Nat /\ IsFiniteSet(LocalBlocks(l))
  <2>1. l.other \in Nat /\ l.after \in Nat /\ l.again \in Nat /\ l.inc \in Nat
    BY DEF Locals, Blocks
  <2>2. LocalBlocks(l) = {l.other} \cup {l.after} \cup {l.again} \cup {l.inc}
    BY DEF LocalBlocks
  <2>3. IsFiniteSet({l.other} \cup {l.after})
    BY FS_Singleton, FS_Union
  <2>4. IsFiniteSet({l.other} \cup {l.after} \cup {l.again})
    BY <2>3, FS_Singleton, FS_Union
  <2>5. IsFiniteSet({l.other} \cup {l.after} \cup {l.again} \cup {l.inc})
    BY <2>4, FS_Singleton, FS_Union
  <2> QED BY <2>1, <2>2, <2>5
<1>2. n \in Nat /\ DOMAIN ls = 1 .. n /\ \A i \in 1 .. n : ls[i] \in Locals
  OBVIOUS
<1> HIDE DEF n
<1>3. /\ f \in [1 .. n -> SUBSET Nat] /\ \A i \in 1 .. n : IsFiniteSet(f[i])
      /\ {LocalBlocks(ls[i]) : i \in DOMAIN ls} = {f[i] : i \in 1 .. n}
  BY <1>1, <1>2
<1> HIDE DEF f
<1>4. IsFiniteSet(UNION {f[i] : i \in 1 .. n})
  BY <1>2, <1>3, FiniteUnion
<1>5. UNION {f[i] : i \in 1 .. n} \in SUBSET Nat
  BY <1>3
<1> QED BY <1>3, <1>4, <1>5

LEMMA StackFinite ==
  ASSUME NEW stack \in Seq(LoopContexts)
  PROVE  LET bs == UNION {Targets(stack[i]) : i \in DOMAIN stack}
         IN bs \in SUBSET Nat /\ IsFiniteSet(bs)
<1> DEFINE n == Len(stack)
           f == [i \in 1 .. n |-> Targets(stack[i])]
<1>1. ASSUME NEW l \in LoopContexts PROVE Targets(l) \in SUBSET Nat /\ IsFiniteSet(Targets(l))
  <2>1. l.breakBB \in Nat /\ l.continueBB \in Nat
    BY DEF LoopContexts, Blocks
  <2>2. Targets(l) = {l.breakBB} \cup {l.continueBB}
    BY DEF Targets
  <2>3. IsFiniteSet({l.breakBB} \cup {l.continueBB})
    BY FS_Singleton, FS_Union
  <2> QED BY <2>1, <2>2, <2>3
<1>2. n \in Nat /\ DOMAIN stack = 1 .. n /\ \A i \in 1 .. n : stack[i] \in LoopContexts
  OBVIOUS
<1> HIDE DEF n
<1>3. /\ f \in [1 .. n -> SUBSET Nat] /\ \A i \in 1 .. n : IsFiniteSet(f[i])
      /\ {Targets(stack[i]) : i \in DOMAIN stack} = {f[i] : i \in 1 .. n}
  BY <1>1, <1>2
<1> HIDE DEF f
<1>4. IsFiniteSet(UNION {f[i] : i \in 1 .. n})
  BY <1>2, <1>3, FiniteUnion
<1>5. UNION {f[i] : i \in 1 .. n} \in SUBSET Nat
  BY <1>3
<1> QED BY <1>3, <1>4, <1>5

\* The state a step starts from.
LEMMA GenStarts ==
  GenInv => GenOK(Gen, AllDue(locals), Depth(locals, cursor))
<1> SUFFICES ASSUME GenInv PROVE GenOK(Gen, AllDue(locals), Depth(locals, cursor))
  OBVIOUS
<1>1. /\ PathOK(locals, cursor) /\ StackOK(loopStack, locals, cursor)
      /\ BuilderOK(builder, AllDue(locals))
      /\ ScopesOK(allocas, declared, Depth(locals, cursor))
  BY GenInvIs
<1>2. locals \in Seq(Locals) /\ loopStack \in Seq(LoopContexts)
  BY <1>1 DEF PathOK, StackOK
<1>3. Referenced \in SUBSET Nat /\ IsFiniteSet(Referenced)
  <2> DEFINE S == UNION {LocalBlocks(locals[i]) : i \in DOMAIN locals}
             T == UNION {Targets(loopStack[i]) : i \in DOMAIN loopStack}
  <2>1. Referenced = S \cup T
    BY DEF Referenced
  <2>2. S \in SUBSET Nat /\ IsFiniteSet(S)
    BY <1>2, LocalsFinite
  <2>3. T \in SUBSET Nat /\ IsFiniteSet(T)
    BY <1>2, StackFinite
  <2> HIDE DEF S, T
  <2> QED BY <2>1, <2>2, <2>3, FS_Union
<1>4. /\ builder.open \in SUBSET Nat /\ builder.open \subseteq {builder.at}
      /\ builder.at \in Nat
  BY <1>1 DEF BuilderOK, Builders, Blocks
<1>5. InUse \in SUBSET Nat /\ IsFiniteSet(InUse)
  <2>1. IsFiniteSet(builder.open) /\ IsFiniteSet({builder.at})
    BY <1>4, FS_Singleton, FS_Subset
  <2>2. IsFiniteSet(Referenced \cup builder.open)
    BY <1>3, <2>1, FS_Union
  <2>3. IsFiniteSet(Referenced \cup builder.open \cup {builder.at})
    BY <2>1, <2>2, FS_Union
  <2> QED BY <1>3, <1>4, <2>3 DEF InUse
<1>6. AllDue(locals) \subseteq InUse /\ builder.at \in InUse
  <2> DEFINE S == UNION {LocalBlocks(locals[i]) : i \in DOMAIN locals}
  <2>1. S \subseteq InUse
    BY DEF InUse, Referenced
  <2>2. DOMAIN locals = 1 .. Len(locals)
    BY <1>2
  <2>3. \A i \in 1 .. Len(locals) : Due(locals[i]) \subseteq LocalBlocks(locals[i])
    BY DEF Due, LocalBlocks
  <2>4. AllDue(locals) \subseteq S
    BY <2>2, <2>3 DEF AllDue
  <2> HIDE DEF S
  <2> QED BY <2>1, <2>4 DEF InUse
<1> DEFINE b == [builder EXCEPT !.live = @ \cap InUse]
<1>7. BuilderOK(b, AllDue(locals)) /\ b.at = builder.at
  BY <1>1 DEF BuilderOK, Builders
<1>8. /\ Gen.b = b /\ Gen.allocas = allocas /\ Gen.declared = declared
      /\ Gen.taken = InUse /\ Gen.edges = <<>> /\ Gen.code = {}
      /\ DOMAIN Gen = GenFields
  BY DEF Gen, GenWith, GenFields
<1>9. BranchesOK(<<>>)
  BY DEF BranchesOK
<1> HIDE DEF b
<1>10. BlocksOK(Gen, AllDue(locals))
  BY <1>5, <1>6, <1>7, <1>8, <1>9 DEF BlocksOK, BuilderOK
<1> QED BY <1>1, <1>8, <1>10 DEF GenOK

\* The state a step ends in.
LEMMA PutOK ==
  ASSUME NEW g, NEW D, NEW k, GenOK(g, D, k), stage \in Stages, Put(g)
  PROVE  /\ BuilderOK(builder', D) /\ ScopesOK(allocas', declared', k)
         /\ EmittedOK(emitted') /\ stage' \in Stages
BY DEF GenOK, BlocksOK, Put, BuilderOK, EmittedOK, Stages

LEMMA FewerDue ==
  ASSUME NEW b, NEW D, BuilderOK(b, D), NEW E \in SUBSET D
  PROVE  BuilderOK(b, E)
BY DEF BuilderOK

\* The parts of the invariant after a step.
LEMMA GenInvNext ==
  /\ PathOK(locals', cursor') /\ StackOK(loopStack', locals', cursor')
  /\ pending' \in Seq(Functions) /\ stage' \in Stages
  /\ ModuleOK(module') /\ EmittedOK(emitted')
  /\ BuilderOK(builder', AllDue(locals'))
  /\ ScopesOK(allocas', declared', Depth(locals', cursor'))
  => GenInv'
<1>1. (GenInv <=> /\ PathOK(locals, cursor) /\ StackOK(loopStack, locals, cursor)
                  /\ pending \in Seq(Functions) /\ stage \in Stages
                  /\ ModuleOK(module) /\ EmittedOK(emitted)
                  /\ BuilderOK(builder, AllDue(locals))
                  /\ ScopesOK(allocas, declared, Depth(locals, cursor)))'
  BY GenInvIs, PTL
<1> QED BY <1>1

\* A step that generates code.
LEMMA StepEnds ==
  ASSUME GenInv, NEW g, NEW D, Put(g), AllDue(locals') \subseteq D,
         GenOK(g, D, Depth(locals', cursor')),
         PathOK(locals', cursor'), StackOK(loopStack', locals', cursor'),
         pending' \in Seq(Functions), module' = module
  PROVE  GenInv'
<1>1. stage \in Stages /\ ModuleOK(module)
  BY GenInvIs
<1>2. /\ BuilderOK(builder', D) /\ ScopesOK(allocas', declared', Depth(locals', cursor'))
      /\ EmittedOK(emitted') /\ stage' \in Stages
  BY <1>1, PutOK
<1>3. BuilderOK(builder', AllDue(locals'))
  BY <1>2, FewerDue
<1> QED BY <1>1, <1>2, <1>3, GenInvNext

LEMMA GenInitInv == Init => GenInv
<1> SUFFICES ASSUME Init PROVE GenInv
  OBVIOUS
<1>1. /\ cursor = <<>> /\ locals = <<>> /\ loopStack = <<>> /\ pending \in Programs
      /\ stage = "functions" /\ module = <<>> /\ builder = Entry
      /\ allocas = <<EmptyScope>> /\ declared = <<{}, {}>> /\ emitted = Nothing
  BY DEF Init, TreeInit, GenInit
<1>2. pending \in Seq(Functions)
  BY <1>1, AstAssumption
<1>3. \A kinds : GeneratedIn(<<>>, <<>>, kinds) = {}
  BY DEF GeneratedIn
<1>4. AllDue(<<>>) = {} /\ Depth(<<>>, <<>>) = 1
  BY <1>3, FS_EmptySet DEF AllDue, Depth
<1>5. PathOK(<<>>, <<>>)
  <2>1. <<>> \in Seq(Entries) /\ <<>> \in Seq(Locals) /\ Len(<<>>) = 0 /\ 1 .. 0 = {}
    OBVIOUS
  <2> QED BY <2>1 DEF PathOK, Walk
<1>6. StackOK(<<>>, <<>>, <<>>)
  BY <1>3, FS_EmptySet DEF StackOK
<1>7. BuilderOK(Entry, {})
  BY DEF BuilderOK, Entry, Builders, Blocks
<1>8. ScopesOK(<<EmptyScope>>, <<{}, {}>>, 1)
  <2>1. EmptyScope \in AllocaScopes /\ DOMAIN EmptyScope = {}
    <3>1. EmptyScope \in [{} -> BOOLEAN] /\ {} \in SUBSET Name
      BY DEF EmptyScope
    <3> QED BY <3>1, AllocaIntro
  <2> QED BY <2>1 DEF ScopesOK
<1>9. EmittedOK(Nothing) /\ ModuleOK(<<>>) /\ "functions" \in Stages
  BY DEF EmittedOK, Nothing, BranchesOK, ModuleOK, Stages, Generating
<1> QED BY <1>1, <1>2, <1>4, <1>5, <1>6, <1>7, <1>8, <1>9, GenInvIs

--------------------------------------------------------------------------------
(***************************************************************************)
(* The steps of the walk.                                                  *)
(***************************************************************************)
LEMMA LeafPath ==
  ASSUME GenInv, NEW n, VisitLeaf(n), SameLocals(locals', locals)
  PROVE  /\ PathOK(locals', cursor') /\ AllDue(locals') = AllDue(locals)
         /\ Depth(locals', cursor') = Depth(locals, cursor)
         /\ StackOK(loopStack, locals', cursor')
         /\ pending' \in Seq(Functions)
<1>1. /\ PathOK(locals, cursor) /\ StackOK(loopStack, locals, cursor)
      /\ pending \in Seq(Functions)
  BY GenInvIs
<1>2. cursor \in Seq(Entries)
  BY <1>1 DEF PathOK, Walk
<1>3. Room(n) /\ cursor' = Advance(cursor) /\ pending' = pending
  BY DEF VisitLeaf
<1>4. cursor # <<>> => cursor[Len(cursor)].slot \in Waiting
  BY <1>3, RoomWaits
<1>5. Advanced(cursor', cursor)
  BY <1>2, <1>3, AdvanceAdvances
<1> QED BY <1>1, <1>3, <1>4, <1>5, PathAdvanced

LEMMA LeafStep ==
  ASSUME GenInv, NEW n, NEW g, GenOK(g, AllDue(locals), Depth(locals, cursor)), GenLeaf(n, g)
  PROVE  GenInv'
<1>1. locals \in Seq(Locals)
  BY GenInvIs DEF PathOK
<1>2. /\ VisitLeaf(n) /\ Put(g) /\ locals' = childDone(locals, g.b)
      /\ module' = module /\ loopStack' = loopStack
  BY DEF GenLeaf
<1>3. SameLocals(locals', locals)
  BY <1>1, <1>2, ChildDoneSame
<1>4. /\ PathOK(locals', cursor') /\ AllDue(locals') = AllDue(locals)
      /\ Depth(locals', cursor') = Depth(locals, cursor)
      /\ StackOK(loopStack, locals', cursor')
      /\ pending' \in Seq(Functions)
  BY <1>2, <1>3, LeafPath
<1>5. /\ GenOK(g, AllDue(locals), Depth(locals', cursor')) /\ StackOK(loopStack', locals', cursor')
      /\ AllDue(locals') \subseteq AllDue(locals)
  BY <1>2, <1>4
<1> QED BY <1>2, <1>4, <1>5, StepEnds

\* Nothing is generated.
LEMMA SkipEnds ==
  ASSUME GenInv, NotGenerated, AllDue(locals') \subseteq AllDue(locals),
         Depth(locals', cursor') = Depth(locals, cursor),
         PathOK(locals', cursor'), StackOK(loopStack, locals', cursor'),
         pending' \in Seq(Functions)
  PROVE  GenInv'
<1>1. /\ stage \in Stages /\ ModuleOK(module)
      /\ BuilderOK(builder, AllDue(locals))
      /\ ScopesOK(allocas, declared, Depth(locals, cursor))
  BY GenInvIs
<1>2. /\ stage' = stage /\ module' = module /\ builder' = builder /\ allocas' = allocas
      /\ declared' = declared /\ loopStack' = loopStack /\ emitted' = Nothing
  BY DEF NotGenerated
<1>3. EmittedOK(Nothing)
  BY DEF EmittedOK, Nothing, BranchesOK
<1>4. BuilderOK(builder, AllDue(locals'))
  BY <1>1, FewerDue
<1> QED BY <1>1, <1>2, <1>3, <1>4, GenInvNext

LEMMA SkipLeafStep ==
  ASSUME GenInv, NEW n, SkipLeaf(n)
  PROVE  GenInv'
<1>1. VisitLeaf(n) /\ NotGenerated /\ locals' = locals
  BY DEF SkipLeaf
<1>2. SameLocals(locals', locals)
  BY <1>1, GenInvIs DEF SameLocals, PathOK
<1> QED BY <1>1, <1>2, LeafPath, SkipEnds

\* There is an innermost scope between any two steps.
LEMMA DepthNat == GenInv => Depth(locals, cursor) \in Nat \ {0}
<1> SUFFICES ASSUME GenInv PROVE Depth(locals, cursor) \in Nat \ {0}
  OBVIOUS
<1>1. locals \in Seq(Locals)
  BY GenInvIs DEF PathOK
<1>2. Cardinality(GeneratedIn(locals, cursor, Scoping)) \in Nat
  BY <1>1, GeneratedFinite
<1> QED BY <1>2 DEF Depth

LEMMA JumpOK ==
  ASSUME NEW g, NEW D, NEW k, GenOK(g, D, k), NEW target, loopStack # <<>> => target \in Blocks
  PROVE  GenOK(Jump(g, target), D, k)
<1>1. target \in Blocks => Range(<<target>>) \subseteq Blocks
  BY DEF Range
<1> QED BY <1>1, AbortOK, TerminateOK DEF Jump

LEMMA LeafKeepsInv ==
  ASSUME GenInv, NEW n \in Statements, Leaf(n)
  PROVE  GenInv'
<1> DEFINE D == AllDue(locals)
           k == Depth(locals, cursor)
<1>1. GenOK(Gen, D, k) /\ k \in Nat \ {0}
  BY GenStarts, DepthNat
<1>2. loopStack # <<>> => getCurrentLoopEnd \in Blocks /\ getCurrentLoopContinue \in Blocks
  <2>1. loopStack \in Seq(LoopContexts)
    BY GenInvIs DEF StackOK
  <2>2. loopStack # <<>> => Last(loopStack) \in LoopContexts
    BY <2>1 DEF Last
  <2> QED BY <2>2 DEF LoopContexts, getCurrentLoopEnd, getCurrentLoopContinue
<1> HIDE DEF D, k
<1>3. CASE GenSimple(n)
  <2>1. IsSimple(n)
    BY <1>3, AstAssumption DEF GenSimple, IsStatement
  <2>2. GenOK(codegenSimple(Gen, n), D, k)
    BY <1>1, <2>1, SimpleOK
  <2> QED BY <1>3, <2>2, LeafStep DEF GenSimple, D, k
<1>4. CASE GenReturn(n)
  <2>1. GenOK(codegenReturn(Gen, n), D, k)
    BY <1>1, ReturnOK
  <2> QED BY <1>4, <2>1, LeafStep DEF GenReturn, D, k
<1>5. CASE GenBreak(n)
  <2>1. GenOK(Jump(Gen, getCurrentLoopEnd), D, k)
    BY <1>1, <1>2, JumpOK
  <2> QED BY <1>5, <2>1, LeafStep DEF GenBreak, D, k
<1>6. CASE GenContinue(n)
  <2>1. GenOK(Jump(Gen, getCurrentLoopContinue), D, k)
    BY <1>1, <1>2, JumpOK
  <2> QED BY <1>6, <2>1, LeafStep DEF GenContinue, D, k
<1>7. CASE GenNull(n)
  BY <1>1, <1>7, LeafStep DEF GenNull, D, k
<1>8. CASE SkipLeaf(n)
  BY <1>8, SkipLeafStep
<1> QED BY <1>3, <1>4, <1>5, <1>6, <1>7, <1>8 DEF Leaf

\* A statement is entered: the path with it and its locals.
LEMMA OpenPath ==
  ASSUME GenInv, NEW n \in Statements, Open(n), NEW l \in Locals, locals' = Append(locals, l),
         TargetsExist(l, [node |-> n, slot |-> FirstSlot(n)]),
         Due(l) \cap AllDue(locals) = {}
  PROVE  /\ OneMore(locals', cursor', locals, cursor)
         /\ locals'[Len(locals')] = l /\ cursor'[Len(locals')].node = n
         /\ PathOK(locals', cursor')
         /\ AllDue(locals') = AllDue(locals) \cup Due(l)
         /\ pending' \in Seq(Functions)
<1> DEFINE e == [node |-> n, slot |-> FirstSlot(n)]
           m == Len(locals) + 1
<1>1. /\ PathOK(locals, cursor) /\ pending \in Seq(Functions)
  BY GenInvIs
<1>2. /\ n.kind \in CompoundKinds /\ Room(n) /\ pending' = pending
      /\ cursor' = Append(cursor, e)
  BY DEF Open
<1>3. e \in Entries /\ e.node = n /\ e.slot = FirstSlot(n)
  BY DEF Entries, FirstSlot, Slots
<1>4. /\ locals \in Seq(Locals) /\ cursor \in Seq(Entries) /\ Len(locals) = Len(cursor)
      /\ Walk(cursor)
  BY <1>1 DEF PathOK, Walk
<1>5. /\ n.kind # "func"
      /\ n.kind = "if" => FirstSlot(n) # "body"
      /\ FirstSlot(n) \in {"then", "thenDone"} => n.kind = "if"
      /\ FirstSlot(n) = "list" => n.kind = "block"
  BY <1>2 DEF CompoundKinds, LoopKinds, FirstSlot
<1> HIDE DEF e
<1>6. Walk(cursor')
  <2>1. cursor # <<>> => cursor[Len(cursor)].slot \in Waiting
    BY <1>2, RoomWaits
  <2> QED BY <1>2, <1>3, <1>4, <1>5, <2>1, WalkAppend
<1>7. /\ Len(locals') = m /\ locals'[m] = l /\ cursor'[m] = e
      /\ OneMore(locals', cursor', locals, cursor)
  BY <1>2, <1>3, <1>4 DEF OneMore
<1>8. TargetsExist(locals'[m], cursor'[m])
  BY <1>7 DEF e
<1>9. cursor'[m].node.kind # "func"
  BY <1>3, <1>5, <1>7
<1>10. PathOK(locals', cursor') /\ AllDue(locals') = AllDue(locals) \cup Due(l)
  <2>1. Due(locals'[Len(locals')]) \cap AllDue(locals) = {} /\ m = Len(locals')
    BY <1>7
  <2> HIDE DEF m
  <2>2. /\ PathOK(locals', cursor')
        /\ AllDue(locals') = AllDue(locals) \cup Due(locals'[Len(locals')])
    BY <1>1, <1>6, <1>7, <1>8, <1>9, <2>1, PathPushed
  <2> QED BY <1>7, <2>2
<1> QED BY <1>1, <1>2, <1>3, <1>7, <1>10

\* The code of a statement's beginning, which is no loop or one left out.
LEMMA OpenStep ==
  ASSUME GenInv, NEW n \in Statements, Open(n), NEW l \in Locals, NEW g, GenDown(g, l),
         TargetsExist(l, [node |-> n, slot |-> FirstSlot(n)]),
         Due(l) \cap AllDue(locals) = {},
         l.skip \/ n.kind \notin LoopKinds, loopStack' = loopStack,
         GenOK(g, AllDue(locals) \cup Due(l),
               Depth(locals, cursor) + IF ~l.skip /\ n.kind \in Scoping THEN 1 ELSE 0)
  PROVE  GenInv'
<1>1. Put(g) /\ locals' = Append(locals, l) /\ module' = module
  BY DEF GenDown
<1>2. /\ OneMore(locals', cursor', locals, cursor)
      /\ locals'[Len(locals')] = l /\ cursor'[Len(locals')].node = n
      /\ PathOK(locals', cursor')
      /\ AllDue(locals') = AllDue(locals) \cup Due(l)
      /\ pending' \in Seq(Functions)
  BY <1>1, OpenPath
<1>3. ~Counts(locals'[Len(locals')], cursor'[Len(locals')], LoopKinds)
  BY <1>2 DEF Counts
<1>4. StackOK(loopStack', locals', cursor')
  BY <1>2, <1>3, GenInvIs, NoLoop
<1>5. Counts(locals'[Len(locals')], cursor'[Len(locals')], Scoping)
        <=> ~l.skip /\ n.kind \in Scoping
  BY <1>2 DEF Counts
<1>6. Depth(locals, cursor) \in Nat
  BY DepthNat
<1>7. Depth(locals', cursor')
        = Depth(locals, cursor) + IF ~l.skip /\ n.kind \in Scoping THEN 1 ELSE 0
  <2>1. CASE ~l.skip /\ n.kind \in Scoping
    <3>1. Depth(locals', cursor') = Depth(locals, cursor) + 1
      BY <1>2, <1>5, <2>1, DepthChanged
    <3> QED BY <2>1, <3>1
  <2>2. CASE ~(~l.skip /\ n.kind \in Scoping)
    <3>1. Depth(locals', cursor') = Depth(locals, cursor)
      BY <1>2, <1>5, <2>2, DepthChanged
    <3> QED BY <1>6, <2>2, <3>1
  <2> QED BY <2>1, <2>2
<1>8. GenOK(g, AllDue(locals) \cup Due(l), Depth(locals', cursor'))
  BY <1>7
<1> QED BY <1>1, <1>2, <1>4, <1>8, StepEnds

\* Blocks are created, control branches to some, and code goes on in one.
LEMMA BranchOK ==
  ASSUME NEW g, NEW D, NEW k, GenOK(g, D, k),
         NEW bs \in SUBSET Nat, IsFiniteSet(bs), NEW x \in bs, x \in Blocks,
         NEW E \in SUBSET (D \cup bs), x \notin E, g.b.open \cap E = {},
         NEW targets, Range(targets) \subseteq Blocks
  PROVE  GenOK(StartBlock(Terminate(Take(g, bs), targets), x), E, k)
<1> DEFINE h == Take(g, bs)
           t == Terminate(h, targets)
<1>1. GenOK(h, E, k) /\ h.taken = g.taken \cup bs
  BY TakeOK
<1> HIDE DEF h
<1>2. GenOK(t, E, k) /\ t.b.open = {} /\ t.taken = h.taken
  BY <1>1, TerminateOK
<1> HIDE DEF t
<1>3. GenOK(StartBlock(t, x), E, k)
  <2>1. x \in t.taken
    BY <1>1, <1>2
  <2> QED BY <1>2, <2>1, StartBlockOK
<1> QED BY <1>3 DEF t, h

\* New blocks are not the current one.
LEMMA NewNotOpen ==
  ASSUME NEW g, NEW D, NEW k, GenOK(g, D, k), NEW E, \A x \in E : x \in D \/ x \notin g.taken
  PROVE  g.b.open \cap E = {}
BY DEF GenOK, BlocksOK

LEMMA PlainLocals ==
  /\ Plain \in Locals /\ Due(Plain) = {} /\ ~Plain.skip
  /\ Skipping \in Locals /\ Due(Skipping) = {} /\ Skipping.skip
  /\ \A e : TargetsExist(Skipping, e)
BY DEF Plain, Skipping, Locals, Due, TargetsExist

LEMMA UsableNames ==
  ASSUME NEW g, NEW D, NEW k \in Nat \ {0}, GenOK(g, D, k)
  PROVE  Usable(g) \in SUBSET Name
<1>1. g.allocas \in Seq(AllocaScopes) /\ Len(g.allocas) = k
  BY DEF GenOK, ScopesOK
<1>2. Last(g.allocas) \in AllocaScopes
  BY <1>1 DEF Last
<1> QED BY <1>2, AllocaElim DEF Usable

LEMMA StartConditionOK ==
  ASSUME NEW g, NEW D, NEW k, GenOK(g, D, k)
  PROVE  /\ GenOK(StartCondition(g, NewBlock(g, 1)), D, k)
         /\ NewBlock(g, 1) \in Blocks
<1> DEFINE again == NewBlock(g, 1)
<1>1. again \in Blocks /\ again \notin g.taken /\ again \notin D
  BY NewBlocksOK
<1> HIDE DEF again
<1>2. {again} \in SUBSET Nat /\ IsFiniteSet({again}) /\ again \in {again}
  BY <1>1, FS_Singleton DEF Blocks
<1>3. D \in SUBSET (D \cup {again}) /\ g.b.open \cap D = {}
  BY DEF GenOK, BlocksOK
<1>4. Range(<<again>>) \subseteq Blocks
  BY <1>1 DEF Range
<1>5. GenOK(StartBlock(Terminate(Take(g, {again}), <<again>>), again), D, k)
  BY <1>1, <1>2, <1>3, <1>4, BranchOK
<1>6. GenOK(StartCondition(g, again), D, k)
  BY <1>5 DEF StartCondition
<1> QED BY <1>1, <1>6 DEF again

LEMMA EnterBlockStep ==
  ASSUME GenInv, NEW n \in Statements, EnterBlock(n)
  PROVE  GenInv'
<1> DEFINE D == AllDue(locals)
           k == Depth(locals, cursor)
<1>1. GenOK(Gen, D, k) /\ k \in Nat \ {0}
  BY GenStarts, DepthNat
<1>2. /\ n.kind = "block" /\ Open(n) /\ GenDown(pushScope(Gen), Plain)
      /\ loopStack' = loopStack
  BY DEF EnterBlock, GenOpen
<1>3. D \cup Due(Plain) = D /\ Due(Plain) \cap D = {}
  BY PlainLocals
<1> HIDE DEF D, k
<1>4. GenOK(pushScope(Gen), D, k + 1)
  BY <1>1, PushScopeOK
<1>5. TargetsExist(Plain, [node |-> n, slot |-> FirstSlot(n)])
  BY <1>2 DEF TargetsExist, LoopKinds
<1>6. /\ (~Plain.skip /\ n.kind \in Scoping)
      /\ Plain.skip \/ n.kind \notin LoopKinds
  BY <1>2, PlainLocals DEF Scoping, LoopKinds
<1>7. GenOK(pushScope(Gen), D \cup Due(Plain),
            k + IF ~Plain.skip /\ n.kind \in Scoping THEN 1 ELSE 0)
  BY <1>3, <1>4, <1>6
<1> QED BY <1>2, <1>3, <1>5, <1>6, <1>7, PlainLocals, OpenStep DEF D, k

\* A statement that is left out after all.
LEMMA SkippingStep ==
  ASSUME GenInv, NEW n \in Statements, Open(n), NEW g, GenDown(g, Skipping),
         loopStack' = loopStack, GenOK(g, AllDue(locals), Depth(locals, cursor))
  PROVE  GenInv'
<1> DEFINE D == AllDue(locals)
           k == Depth(locals, cursor)
<1>1. D \cup Due(Skipping) = D /\ Due(Skipping) \cap D = {}
  BY PlainLocals
<1>2. Depth(locals, cursor) \in Nat
  BY DepthNat
<1> HIDE DEF D, k
<1>3. k + (IF ~Skipping.skip /\ n.kind \in Scoping THEN 1 ELSE 0) = k
  BY <1>2, PlainLocals DEF k
<1>4. GenOK(g, D \cup Due(Skipping),
            k + IF ~Skipping.skip /\ n.kind \in Scoping THEN 1 ELSE 0)
  BY <1>1, <1>3 DEF D, k
<1> QED BY <1>1, <1>4, PlainLocals, OpenStep DEF D, k

LEMMA EnterIfStep ==
  ASSUME GenInv, NEW n \in Statements, EnterIf(n)
  PROVE  GenInv'
<1> DEFINE D == AllDue(locals)
           k == Depth(locals, cursor)
           g == Condition(Gen, <<n.cond>>)
           thenBB == NewBlock(g, 1)
           other == NewBlock(g, 2)
           h == StartBlock(Terminate(Take(g, {thenBB, other}), <<thenBB, other>>), thenBB)
           l == [Plain EXCEPT !.other = other, !.known = Usable(g)]
<1>1. GenOK(Gen, D, k) /\ k \in Nat \ {0}
  BY GenStarts, DepthNat
<1>2. GenOK(g, D, k)
  <2> HIDE DEF D, k
  <2> QED BY <1>1, ConditionOK
<1>3. /\ n.kind = "if" /\ Open(n) /\ loopStack' = loopStack
      /\ IF HasValue(g) THEN GenDown(h, l) ELSE GenDown(g, Skipping)
  BY DEF EnterIf, GenOpen, EnterThen
<1> HIDE DEF g
<1>4. CASE ~HasValue(g)
  BY <1>2, <1>3, <1>4, SkippingStep
<1>5. CASE HasValue(g)
  <2>1. /\ thenBB \in Blocks /\ thenBB \notin g.taken /\ thenBB \notin D
        /\ other \in Blocks /\ other \notin g.taken /\ other \notin D
        /\ thenBB # other
    <3> HIDE DEF D, k
    <3> QED BY <1>2, NewBlocksOK
  <2>2. Usable(g) \in SUBSET Name
    <3> HIDE DEF D, k
    <3> QED BY <1>1, <1>2, UsableNames
  <2>3. GenDown(h, l)
    BY <1>3, <1>5
  <2> HIDE DEF D, k, thenBB, other
  <2>4. GenOK(h, D \cup {other}, k)
    <3>1. {thenBB, other} \in SUBSET Nat /\ thenBB \in {thenBB, other}
      BY <2>1 DEF Blocks
    <3>2. IsFiniteSet({thenBB, other})
      <4>1. {thenBB, other} = {thenBB} \cup {other}
        OBVIOUS
      <4>2. IsFiniteSet({thenBB} \cup {other})
        BY FS_Singleton, FS_Union
      <4> QED BY <4>1, <4>2
    <3>3. Range(<<thenBB, other>>) \subseteq Blocks
      BY <2>1 DEF Range
    <3>4. D \cup {other} \in SUBSET (D \cup {thenBB, other}) /\ thenBB \notin D \cup {other}
      BY <2>1
    <3>5. g.b.open \cap (D \cup {other}) = {}
      <4>1. \A x \in D \cup {other} : x \in D \/ x \notin g.taken
        BY <2>1
      <4> QED BY <1>2, <4>1, NewNotOpen
    <3> QED BY <1>2, <2>1, <3>1, <3>2, <3>3, <3>4, <3>5, BranchOK
  <2>5. /\ l \in Locals /\ Due(l) = {other} /\ l.other = other /\ ~l.skip
        /\ l.after = 0 /\ l.inc = 0
    BY <2>1, <2>2 DEF Plain, Locals, Due, Blocks
  <2> HIDE DEF l, h
  <2>6. TargetsExist(l, [node |-> n, slot |-> FirstSlot(n)])
    BY <1>3, <2>1, <2>5 DEF TargetsExist, FirstSlot, LoopKinds, Blocks
  <2>7. Due(l) \cap D = {} /\ n.kind \notin LoopKinds /\ n.kind \notin Scoping
    BY <1>3, <2>1, <2>5 DEF LoopKinds, Scoping
  <2>8. GenOK(h, D \cup Due(l), k + IF ~l.skip /\ n.kind \in Scoping THEN 1 ELSE 0)
    <3>1. k + (IF ~l.skip /\ n.kind \in Scoping THEN 1 ELSE 0) = k
      BY <1>1, <2>7
    <3> QED BY <2>4, <2>5, <3>1
  <2> QED BY <1>3, <2>3, <2>5, <2>6, <2>7, <2>8, OpenStep DEF D, k
<1> QED BY <1>4, <1>5

\* The blocks of a loop, and the code in front of its body.
LEMMA LoopBlocksOK ==
  ASSUME NEW g, NEW D, NEW k, GenOK(g, D, k), NEW inc \in {0, NewBlock(g, 3)}
  PROVE  LET bodyBB == NewBlock(g, 1)
             after == NewBlock(g, 2)
         IN GenOK(StartBlock(Terminate(Take(g, {bodyBB, after, inc}), <<bodyBB, after>>), bodyBB),
                  D \cup ({after, inc} \ {0}), k)
<1> DEFINE bodyBB == NewBlock(g, 1)
           after == NewBlock(g, 2)
           E == D \cup ({after, inc} \ {0})
<1>1. /\ bodyBB \in Blocks /\ bodyBB \notin D
      /\ after \in Blocks /\ after \notin g.taken
      /\ bodyBB # after
      /\ inc # 0 => inc \in Blocks /\ inc \notin g.taken /\ inc # bodyBB
  BY NewBlocksOK
<1> HIDE DEF bodyBB, after
<1> DEFINE bs == {bodyBB, after, inc}
<1>2. bs \in SUBSET Nat /\ bodyBB \in bs
  <2>1. inc \in Nat
    BY <1>1 DEF Blocks
  <2> QED BY <1>1, <2>1 DEF Blocks
<1>3. IsFiniteSet(bs)
  <2>1. bs = {bodyBB} \cup {after} \cup {inc}
    OBVIOUS
  <2>2. IsFiniteSet({bodyBB} \cup {after})
    BY FS_Singleton, FS_Union
  <2>3. IsFiniteSet({bodyBB} \cup {after} \cup {inc})
    BY <2>2, FS_Singleton, FS_Union
  <2> QED BY <2>1, <2>3
<1>4. E \in SUBSET (D \cup bs) /\ bodyBB \notin E
  BY <1>1
<1>5. g.b.open \cap E = {}
  <2>1. \A x \in E : x \in D \/ x \notin g.taken
    BY <1>1
  <2> HIDE DEF E
  <2> QED BY <2>1, NewNotOpen
<1>6. Range(<<bodyBB, after>>) \subseteq Blocks
  BY <1>1 DEF Range
<1> HIDE DEF bs, E
<1>7. GenOK(StartBlock(Terminate(Take(g, bs), <<bodyBB, after>>), bodyBB), E, k)
  BY <1>1, <1>2, <1>3, <1>4, <1>5, <1>6, BranchOK
<1> QED BY <1>7 DEF bodyBB, after, bs, E

\* A loop is entered.
LEMMA LoopStep ==
  ASSUME GenInv, NEW n \in Statements, n.kind \in LoopKinds, Open(n),
         NEW g, NEW left, NEW again \in Blocks, NEW known \in SUBSET Name,
         GenOK(g, AllDue(locals),
               Depth(locals, cursor) + IF n.kind = "for" THEN 1 ELSE 0),
         GenOK(left, AllDue(locals), Depth(locals, cursor)),
         EnterLoop(n, g, left, again, known)
  PROVE  GenInv'
<1> DEFINE D == AllDue(locals)
           k == Depth(locals, cursor) + IF n.kind = "for" THEN 1 ELSE 0
           bodyBB == NewBlock(g, 1)
           after == NewBlock(g, 2)
           inc == IF n.kind = "for" THEN NewBlock(g, 3) ELSE 0
           h == StartBlock(Terminate(Take(g, {bodyBB, after, inc}), <<bodyBB, after>>), bodyBB)
           l == [Plain EXCEPT !.after = after, !.again = again, !.inc = inc, !.known = known]
           loop == [breakBB |-> after, continueBB |-> continueTarget(n, again, inc)]
<1>1. IF HasValue(g)
      THEN GenDown(h, l) /\ loopStack' = Append(loopStack, loop)
      ELSE GenDown(left, Skipping) /\ loopStack' = loopStack
  BY DEF EnterLoop, pushLoop
<1>2. CASE ~HasValue(g)
  BY <1>1, <1>2, SkippingStep
<1>3. CASE HasValue(g)
  <2> HIDE DEF k, D
  <2>1. GenOK(g, D, k)
    BY DEF D, k
  <2>2. /\ after \in Blocks /\ after \notin D
        /\ NewBlock(g, 3) \in Blocks /\ NewBlock(g, 3) \notin D /\ NewBlock(g, 3) # after
    BY <2>1, NewBlocksOK
  <2>3. /\ n.kind = "for" => inc \in Blocks /\ inc # after
        /\ n.kind # "for" => inc = 0
        /\ inc \notin D \/ inc = 0
        /\ inc \in {0, NewBlock(g, 3)}
    BY <2>2
  <2> HIDE DEF inc
  <2>4. GenOK(h, D \cup ({after, inc} \ {0}), k)
    BY <2>1, <2>3, LoopBlocksOK
  <2> HIDE DEF h, after, bodyBB
  <2>5. /\ l \in Locals /\ l.after = after /\ l.again = again /\ l.inc = inc /\ ~l.skip
        /\ l.other = 0
    BY <2>2, <2>3 DEF Plain, Locals, Blocks
  <2>6. Put(h) /\ locals' = Append(locals, l) /\ module' = module
        /\ loopStack' = Append(loopStack, loop)
    BY <1>1, <1>3 DEF GenDown
  <2> HIDE DEF l
  <2>7. Due(l) = {after, inc} \ {0} /\ Due(l) \cap D = {}
    BY <2>2, <2>3, <2>5 DEF Due
  <2>8. TargetsExist(l, [node |-> n, slot |-> FirstSlot(n)])
    BY <2>2, <2>3, <2>5 DEF TargetsExist, LoopKinds, Blocks
  <2>9. /\ OneMore(locals', cursor', locals, cursor)
        /\ locals'[Len(locals')] = l /\ cursor'[Len(locals')].node = n
        /\ PathOK(locals', cursor')
        /\ AllDue(locals') = D \cup Due(l)
        /\ pending' \in Seq(Functions)
    BY <2>5, <2>6, <2>7, <2>8, OpenPath DEF D
  <2>10. loop \in LoopContexts /\ IsLoopOf(loop, locals'[Len(locals')], cursor'[Len(locals')])
    BY <2>2, <2>3, <2>5, <2>9 DEF LoopContexts, IsLoopOf, continueTarget
  <2> HIDE DEF loop
  <2>11. Counts(locals'[Len(locals')], cursor'[Len(locals')], LoopKinds)
    BY <2>5, <2>9 DEF Counts
  <2>12. StackOK(loopStack', locals', cursor')
    <3>1. StackOK(loopStack, locals, cursor)
      BY GenInvIs
    <3>2. StackOK(Append(loopStack, loop), locals', cursor')
      BY <2>9, <2>10, <2>11, <3>1, LoopPushed
    <3> QED BY <2>6, <3>2
  <2>13. Depth(locals', cursor') = k
    <3>1. Counts(locals'[Len(locals')], cursor'[Len(locals')], Scoping) <=> n.kind = "for"
      BY <2>5, <2>9 DEF Counts, Scoping, LoopKinds
    <3>2. Depth(locals, cursor) \in Nat
      BY DepthNat
    <3>3. CASE n.kind = "for"
      BY <2>9, <3>1, <3>3, DepthChanged DEF k
    <3>4. CASE n.kind # "for"
      <4>1. Depth(locals', cursor') = Depth(locals, cursor)
        BY <2>9, <3>1, <3>4, DepthChanged
      <4> QED BY <3>2, <3>4, <4>1 DEF k
    <3> QED BY <3>3, <3>4
  <2>14. GenOK(h, D \cup Due(l), Depth(locals', cursor'))
    BY <2>4, <2>7, <2>13
  <2> QED BY <2>6, <2>9, <2>12, <2>14, StepEnds
<1> QED BY <1>2, <1>3

LEMMA EnterWhileStep ==
  ASSUME GenInv, NEW n \in Statements, EnterWhile(n)
  PROVE  GenInv'
<1> DEFINE D == AllDue(locals)
           k == Depth(locals, cursor)
           again == NewBlock(Gen, 1)
           g == Condition(StartCondition(Gen, again), <<n.cond>>)
<1>1. GenOK(Gen, D, k) /\ k \in Nat \ {0}
  BY GenStarts, DepthNat
<1> HIDE DEF D, k
<1>2. GenOK(g, D, k) /\ again \in Blocks
  BY <1>1, StartConditionOK, ConditionOK
<1>3. n.kind = "while" /\ Open(n) /\ EnterLoop(n, g, g, again, Usable(g))
  BY DEF EnterWhile, GenOpen, WhileBody
<1> HIDE DEF g, again
<1>4. Usable(g) \in SUBSET Name
  BY <1>1, <1>2, UsableNames
<1>5. k + (IF n.kind = "for" THEN 1 ELSE 0) = k /\ n.kind \in LoopKinds
  BY <1>1, <1>3 DEF LoopKinds
<1>6. GenOK(g, D, k + IF n.kind = "for" THEN 1 ELSE 0)
  BY <1>2, <1>5
<1> QED BY <1>2, <1>3, <1>4, <1>5, <1>6, LoopStep DEF D, k

LEMMA EnterForStep ==
  ASSUME GenInv, NEW n \in Statements, EnterFor(n)
  PROVE  GenInv'
<1> DEFINE D == AllDue(locals)
           k == Depth(locals, cursor)
           start == codegenOptional(pushScope(Gen), n.init)
           again == NewBlock(start, 1)
           g == Condition(StartCondition(start, again), n.cond)
<1>1. GenOK(Gen, D, k) /\ k \in Nat \ {0}
  BY GenStarts, DepthNat
<1>2. n.kind = "for" /\ Open(n) /\ EnterLoop(n, g, popScope(g), again, {})
  BY DEF EnterFor, GenOpen, StartFor, ForCondition, ForBody
<1>3. n.init # <<>> => IsSimple(n.init[1])
  BY <1>2, AstAssumption DEF IsStatement
<1> HIDE DEF D, k
<1>4. GenOK(start, D, k + 1) /\ k + 1 \in Nat \ {0}
  BY <1>1, <1>3, PushScopeOK, OptionalOK
<1> HIDE DEF start
<1>5. GenOK(g, D, k + 1) /\ again \in Blocks
  BY <1>4, StartConditionOK, ConditionOK
<1> HIDE DEF g, again
<1>6. GenOK(popScope(g), D, k)
  <2>1. GenOK(popScope(g), D, (k + 1) - 1)
    BY <1>4, <1>5, PopScopeOK
  <2>2. (k + 1) - 1 = k
    BY <1>1
  <2> QED BY <2>1, <2>2
<1>7. GenOK(g, D, k + IF n.kind = "for" THEN 1 ELSE 0) /\ n.kind \in LoopKinds
  BY <1>2, <1>5 DEF LoopKinds
<1> QED BY <1>2, <1>5, <1>6, <1>7, LoopStep DEF D, k

LEMMA SkipEnterStep ==
  ASSUME GenInv, NEW n \in Statements, SkipEnter(n)
  PROVE  GenInv'
<1>1. Open(n) /\ locals' = Append(locals, Skipping) /\ NotGenerated
  BY DEF SkipEnter
<1>2. /\ OneMore(locals', cursor', locals, cursor)
      /\ locals'[Len(locals')] = Skipping
      /\ PathOK(locals', cursor')
      /\ AllDue(locals') = AllDue(locals) \cup Due(Skipping)
      /\ pending' \in Seq(Functions)
  <2>1. Due(Skipping) \cap AllDue(locals) = {}
    BY PlainLocals
  <2> QED BY <1>1, <2>1, PlainLocals, OpenPath
<1>3. AllDue(locals') = AllDue(locals)
  BY <1>2, PlainLocals
<1>4. \A kinds : ~Counts(locals'[Len(locals')], cursor'[Len(locals')], kinds)
  BY <1>2, PlainLocals DEF Counts
<1>5. Depth(locals', cursor') = Depth(locals, cursor)
  BY <1>2, <1>4, DepthChanged
<1>6. StackOK(loopStack, locals', cursor')
  BY <1>2, <1>4, GenInvIs, NoLoop
<1> QED BY <1>1, <1>2, <1>3, <1>5, <1>6, SkipEnds
--------------------------------------------------------------------------------
(***************************************************************************)
(* The ends of statements.                                                 *)
(***************************************************************************)
\* A statement is left: what is known of it, and the path without it.
LEMMA ClosePath ==
  ASSUME GenInv, NEW kind, Close(kind), SameLocals(locals', Front(locals))
  PROVE  /\ locals # <<>> /\ Local \in Locals /\ Parent \in Entries
         /\ Parent.node.kind = kind /\ Parent.slot \in {"list", "thenDone", "done"}
         /\ TargetsExist(Local, Parent) /\ Due(Local) \subseteq AllDue(locals)
         /\ PathOK(locals', cursor') /\ pending' \in Seq(Functions)
         /\ AllDue(locals') \subseteq AllDue(locals) \ Due(Local)
         /\ IF ~Local.skip /\ kind \in LoopKinds
            THEN StackOK(popLoop(loopStack), locals', cursor')
            ELSE StackOK(loopStack, locals', cursor')
         /\ Depth(locals', cursor')
              = Depth(locals, cursor) - IF ~Local.skip /\ kind \in Scoping THEN 1 ELSE 0
<1> DEFINE ls == Front(locals)
           path == Front(cursor)
           m == Len(locals)
<1>1. /\ PathOK(locals, cursor) /\ StackOK(loopStack, locals, cursor)
      /\ pending \in Seq(Functions)
  BY GenInvIs
<1>2. /\ locals \in Seq(Locals) /\ cursor \in Seq(Entries) /\ Len(cursor) = m
      /\ Walk(cursor)
  BY <1>1 DEF PathOK, Walk
<1>3. /\ cursor # <<>> /\ Parent.node.kind = kind /\ pending' = pending
      /\ Parent.slot \in {"list", "thenDone", "done"} /\ cursor' = Advance(path)
  BY DEF Close, Parent
<1>4. locals # <<>>
  BY <1>2, <1>3
<1>5. /\ ls \in Seq(Locals) /\ Len(ls) = m - 1 /\ m \in Nat \ {0}
      /\ \A i \in 1 .. m - 1 : ls[i] = locals[i]
      /\ Local = locals[m] /\ Local \in Locals
  BY <1>2, <1>4, FrontShape DEF Local
<1>6. /\ path \in Seq(Entries) /\ Len(path) = m - 1
      /\ \A i \in 1 .. m - 1 : path[i] = cursor[i]
      /\ Parent = cursor[m] /\ Parent \in Entries
  BY <1>2, <1>3, FrontShape DEF Parent
<1>7. Walk(path) /\ (path # <<>> => path[Len(path)].slot \in Waiting)
  <2> HIDE DEF path, m
  <2> QED BY <1>2, <1>3, <1>6, WalkFront
<1>8. SameLocals(locals', ls)
  OBVIOUS
<1> HIDE DEF ls, path
<1>9. OneMore(locals, cursor, ls, path)
  BY <1>2, <1>5, <1>6 DEF OneMore
<1>10. /\ PathOK(ls, path) /\ AllDue(ls) \subseteq AllDue(locals)
       /\ AllDue(ls) \cap Due(Local) = {}
  BY <1>1, <1>5, <1>7, <1>9, PathPopped
<1>11. Advanced(cursor', path)
  BY <1>3, <1>6, AdvanceAdvances
<1>12. ASSUME NEW stack
       PROVE  /\ PathOK(locals', cursor') /\ AllDue(locals') = AllDue(ls)
              /\ Depth(locals', cursor') = Depth(ls, path)
              /\ StackOK(stack, ls, path) => StackOK(stack, locals', cursor')
  BY <1>7, <1>8, <1>10, <1>11, PathAdvanced
<1>13. \A kinds : Counts(locals[Len(locals)], cursor[Len(locals)], kinds)
                    <=> ~Local.skip /\ kind \in kinds
  BY <1>3, <1>5, <1>6 DEF Counts
<1>14. IF ~Local.skip /\ kind \in LoopKinds
       THEN StackOK(popLoop(loopStack), ls, path)
       ELSE StackOK(loopStack, ls, path)
  <2>1. CASE ~Local.skip /\ kind \in LoopKinds
    <3>1. StackOK(Front(loopStack), ls, path)
      BY <1>1, <1>9, <1>13, <2>1, LoopPopped
    <3> QED BY <2>1, <3>1 DEF popLoop
  <2>2. CASE ~(~Local.skip /\ kind \in LoopKinds)
    <3>1. StackOK(loopStack, ls, path)
      BY <1>1, <1>9, <1>13, <2>2, NoLoop
    <3> QED BY <2>2, <3>1
  <2> QED BY <2>1, <2>2
<1>15. Depth(ls, path) = Depth(locals, cursor) - IF ~Local.skip /\ kind \in Scoping THEN 1 ELSE 0
  <2>1. Depth(ls, path) \in Nat \ {0}
    BY <1>9, DepthChanged
  <2>2. CASE ~Local.skip /\ kind \in Scoping
    <3>1. Depth(locals, cursor) = Depth(ls, path) + 1
      BY <1>9, <1>13, <2>2, DepthChanged
    <3> QED BY <2>1, <2>2, <3>1
  <2>3. CASE ~(~Local.skip /\ kind \in Scoping)
    <3>1. Depth(locals, cursor) = Depth(ls, path)
      BY <1>9, <1>13, <2>3, DepthChanged
    <3> QED BY <2>1, <2>3, <3>1
  <2> QED BY <2>2, <2>3
<1>16. TargetsExist(Local, Parent) /\ Due(Local) \subseteq AllDue(locals)
  <2>1. m \in 1 .. Len(locals)
    BY <1>5
  <2> HIDE DEF m
  <2> QED BY <1>1, <1>5, <1>6, <2>1 DEF PathOK, AllDue
<1> QED BY <1>1, <1>3, <1>4, <1>5, <1>6, <1>10, <1>12, <1>14, <1>15, <1>16

\* The code of a statement's end.
LEMMA CloseStep ==
  ASSUME GenInv, NEW kind, NEW g, GenUp(kind, g),
         loopStack' = IF kind \in LoopKinds THEN popLoop(loopStack) ELSE loopStack,
         GenOK(g, AllDue(locals) \ Due(Local),
               Depth(locals, cursor) - IF kind \in Scoping THEN 1 ELSE 0)
  PROVE  GenInv'
<1>1. /\ Close(kind) /\ ~Local.skip /\ Put(g) /\ module' = module
      /\ locals' = childDone(Front(locals), g.b)
  BY DEF GenUp
<1>2. /\ locals \in Seq(Locals) /\ cursor \in Seq(Entries) /\ Len(locals) = Len(cursor)
  BY GenInvIs DEF PathOK, Walk
<1>3. Front(locals) \in Seq(Locals)
  <2>1. cursor # <<>>
    BY <1>1 DEF Close
  <2>2. locals # <<>>
    BY <1>2, <2>1
  <2> QED BY <1>2, <2>2, FrontShape
<1>4. SameLocals(locals', Front(locals))
  BY <1>1, <1>3, ChildDoneSame
<1>5. /\ PathOK(locals', cursor') /\ pending' \in Seq(Functions)
      /\ AllDue(locals') \subseteq AllDue(locals) \ Due(Local)
      /\ IF ~Local.skip /\ kind \in LoopKinds
         THEN StackOK(popLoop(loopStack), locals', cursor')
         ELSE StackOK(loopStack, locals', cursor')
      /\ Depth(locals', cursor')
           = Depth(locals, cursor) - IF ~Local.skip /\ kind \in Scoping THEN 1 ELSE 0
  BY <1>1, <1>4, ClosePath
<1>6. StackOK(loopStack', locals', cursor')
  BY <1>1, <1>5
<1>7. GenOK(g, AllDue(locals) \ Due(Local), Depth(locals', cursor'))
  BY <1>1, <1>5
<1> QED BY <1>1, <1>5, <1>6, <1>7, StepEnds
\* What is known of the statement that is left.
LEMMA GenUpFacts ==
  ASSUME GenInv, NEW kind, NEW g, GenUp(kind, g)
  PROVE  /\ ~Local.skip /\ Local \in Locals /\ Parent \in Entries
         /\ Parent.node.kind = kind /\ Parent.slot \in {"list", "thenDone", "done"}
         /\ TargetsExist(Local, Parent) /\ Due(Local) \subseteq AllDue(locals)
<1>1. /\ Close(kind) /\ ~Local.skip /\ locals' = childDone(Front(locals), g.b)
  BY DEF GenUp
<1>2. /\ locals \in Seq(Locals) /\ cursor \in Seq(Entries) /\ Len(locals) = Len(cursor)
  BY GenInvIs DEF PathOK, Walk
<1>3. Front(locals) \in Seq(Locals)
  <2>1. cursor # <<>>
    BY <1>1 DEF Close
  <2>2. locals # <<>>
    BY <1>2, <2>1
  <2> QED BY <1>2, <2>2, FrontShape
<1>4. SameLocals(locals', Front(locals))
  BY <1>1, <1>3, ChildDoneSame
<1> QED BY <1>1, <1>4, ClosePath

\* Control is led on to x, and code goes on in a block y created earlier.
LEMMA LeadOnOK ==
  ASSUME NEW g, NEW D, NEW k, GenOK(g, D, k), NEW x \in Blocks,
         NEW y \in D, y \in Blocks, NEW E \in SUBSET D, y \notin E
  PROVE  GenOK(StartBlock(BranchIfOpen(g, x), y), E, k)
<1> DEFINE h == BranchIfOpen(g, x)
<1>1. GenOK(h, D, k) /\ h.b.open = {} /\ h.taken = g.taken
  BY BranchIfOpenOK
<1>2. y \in g.taken
  BY DEF GenOK, BlocksOK
<1> HIDE DEF h
<1>3. GenOK(StartBlock(h, y), E, k)
  BY <1>1, <1>2, StartBlockOK
<1> QED BY <1>3 DEF h

LEMMA LeaveBlockStep ==
  ASSUME GenInv, LeaveBlock
  PROVE  GenInv'
<1> DEFINE D == AllDue(locals) \ Due(Local)
           k == Depth(locals, cursor)
<1>1. GenOK(Gen, AllDue(locals), k) /\ k \in Nat \ {0}
  BY GenStarts, DepthNat
<1>2. GenUp("block", popScope(Gen)) /\ loopStack' = loopStack
  BY DEF LeaveBlock
<1>3. "block" \notin LoopKinds /\ "block" \in Scoping
  BY DEF LoopKinds, Scoping
<1>4. GenOK(Gen, D, k)
  <2> HIDE DEF k
  <2> QED BY <1>1 DEF GenOK, BlocksOK
<1> HIDE DEF D, k
<1>5. GenOK(popScope(Gen), D, k - 1)
  BY <1>1, <1>4, PopScopeOK
<1>6. GenOK(popScope(Gen), D, k - IF "block" \in Scoping THEN 1 ELSE 0)
  BY <1>3, <1>5
<1>7. loopStack' = IF "block" \in LoopKinds THEN popLoop(loopStack) ELSE loopStack
  BY <1>2, <1>3
<1> QED BY <1>2, <1>6, <1>7, CloseStep DEF D, k

LEMMA LeaveIfStep ==
  ASSUME GenInv, LeaveIf
  PROVE  GenInv'
<1> DEFINE D == AllDue(locals) \ Due(Local)
           k == Depth(locals, cursor)
           merge == IF Local.after = 0 THEN Local.other ELSE Local.after
           h == StartBlock(BranchIfOpen(Gen, merge), merge)
           g == LeaveRegion(h, Local.known)
<1>1. GenOK(Gen, AllDue(locals), k) /\ k \in Nat \ {0}
  BY GenStarts, DepthNat
<1>2. GenUp("if", g) /\ loopStack' = loopStack
  BY DEF LeaveIf
<1>3. "if" \notin LoopKinds /\ "if" \notin Scoping
  BY DEF LoopKinds, Scoping
<1>4. /\ ~Local.skip /\ Local \in Locals /\ Parent.node.kind = "if"
      /\ TargetsExist(Local, Parent) /\ Due(Local) \subseteq AllDue(locals)
      /\ Local.after = 0 => Local.other # 0
  <2> HIDE DEF g
  <2>1. /\ ~Local.skip /\ Local \in Locals /\ Parent.node.kind = "if"
        /\ TargetsExist(Local, Parent) /\ Due(Local) \subseteq AllDue(locals)
    BY <1>2, GenUpFacts
  <2> QED BY <2>1 DEF TargetsExist
<1>5. merge \in Blocks /\ merge \in Due(Local)
  BY <1>4 DEF Due, Locals
<1> HIDE DEF k, merge
<1>6. GenOK(h, D, k)
  <2>1. D \in SUBSET AllDue(locals) /\ merge \in AllDue(locals) /\ merge \notin D
    BY <1>4, <1>5
  <2> HIDE DEF D
  <2> QED BY <1>1, <1>5, <2>1, LeadOnOK
<1> HIDE DEF D, h
<1>7. GenOK(g, D, k)
  BY <1>1, <1>6, LeaveRegionOK
<1> HIDE DEF g
<1>8. GenOK(g, D, k - IF "if" \in Scoping THEN 1 ELSE 0)
  BY <1>1, <1>3, <1>7
<1>9. loopStack' = IF "if" \in LoopKinds THEN popLoop(loopStack) ELSE loopStack
  BY <1>2, <1>3
<1> QED BY <1>2, <1>8, <1>9, CloseStep DEF D, k
LEMMA LeaveWhileStep ==
  ASSUME GenInv, LeaveWhile
  PROVE  GenInv'
<1> DEFINE D == AllDue(locals) \ Due(Local)
           k == Depth(locals, cursor)
           h == StartBlock(BranchIfOpen(Gen, Local.again), Local.after)
           g == LeaveRegion(h, Local.known)
<1>1. GenOK(Gen, AllDue(locals), k) /\ k \in Nat \ {0}
  BY GenStarts, DepthNat
<1>2. GenUp("while", g) /\ loopStack' = popLoop(loopStack)
  BY DEF LeaveWhile
<1>3. "while" \in LoopKinds /\ "while" \notin Scoping
  BY DEF LoopKinds, Scoping
<1>4. /\ ~Local.skip /\ Local \in Locals /\ Parent.node.kind = "while"
      /\ TargetsExist(Local, Parent) /\ Due(Local) \subseteq AllDue(locals)
  <2> HIDE DEF g
  <2> QED BY <1>2, GenUpFacts
<1>5. Local.again \in Blocks /\ Local.after \in Blocks /\ Local.after \in Due(Local)
  BY <1>3, <1>4 DEF TargetsExist, Due, Locals
<1> HIDE DEF k
<1>6. GenOK(h, D, k)
  <2>1. /\ D \in SUBSET AllDue(locals) /\ Local.after \in AllDue(locals)
        /\ Local.after \notin D
    BY <1>4, <1>5
  <2> HIDE DEF D
  <2> QED BY <1>1, <1>5, <2>1, LeadOnOK
<1> HIDE DEF D, h
<1>7. GenOK(g, D, k)
  BY <1>1, <1>6, LeaveRegionOK
<1> HIDE DEF g
<1>8. GenOK(g, D, k - IF "while" \in Scoping THEN 1 ELSE 0)
  BY <1>1, <1>3, <1>7
<1>9. loopStack' = IF "while" \in LoopKinds THEN popLoop(loopStack) ELSE loopStack
  BY <1>2, <1>3
<1> QED BY <1>2, <1>8, <1>9, CloseStep DEF D, k

\* The increment of a for-statement is generated between its body and the code
\* that follows.
LEMMA LeaveForStep ==
  ASSUME GenInv, LeaveFor
  PROVE  GenInv'
<1> DEFINE D == AllDue(locals) \ Due(Local)
           E == AllDue(locals) \ {Local.inc}
           k == Depth(locals, cursor)
           inInc == StartBlock(BranchIfOpen(Gen, Local.inc), Local.inc)
           step == codegenOptional(inInc, Parent.node.inc)
           h == StartBlock(BranchIfOpen(step, Local.again), Local.after)
           g == popScope(h)
<1>1. GenOK(Gen, AllDue(locals), k) /\ k \in Nat \ {0}
  BY GenStarts, DepthNat
<1>2. GenUp("for", g) /\ loopStack' = popLoop(loopStack)
  BY DEF LeaveFor
<1>3. "for" \in LoopKinds /\ "for" \in Scoping
  BY DEF LoopKinds, Scoping
<1>4. /\ ~Local.skip /\ Local \in Locals /\ Parent \in Entries /\ Parent.node.kind = "for"
      /\ TargetsExist(Local, Parent) /\ Due(Local) \subseteq AllDue(locals)
  <2> HIDE DEF g
  <2> QED BY <1>2, GenUpFacts
<1>5. /\ Local.again \in Blocks
      /\ Local.after \in Blocks /\ Local.after \in Due(Local)
      /\ Local.inc \in Blocks /\ Local.inc \in Due(Local)
      /\ Local.inc # Local.after
  BY <1>3, <1>4 DEF TargetsExist, Due, Locals
<1>6. Parent.node.inc # <<>> => IsSimple(Parent.node.inc[1])
  <2>1. Parent.node \in Statements \cup Functions
    BY <1>4 DEF Entries
  <2>2. Parent.node \notin Functions
    BY <1>4, AstAssumption DEF IsFunction
  <2>3. IsStatement(Parent.node)
    BY <2>1, <2>2, AstAssumption
  <2> QED BY <1>4, <2>3 DEF IsStatement
<1> HIDE DEF k
<1>7. GenOK(inInc, E, k)
  <2>1. E \in SUBSET AllDue(locals) /\ Local.inc \in AllDue(locals) /\ Local.inc \notin E
    BY <1>4, <1>5
  <2> HIDE DEF E
  <2> QED BY <1>1, <1>5, <2>1, LeadOnOK
<1> HIDE DEF inInc
<1>8. GenOK(step, E, k)
  <2> HIDE DEF E
  <2> QED BY <1>1, <1>6, <1>7, OptionalOK
<1> HIDE DEF step
<1>9. GenOK(h, D, k)
  <2>1. D \in SUBSET E /\ Local.after \in E /\ Local.after \notin D
    BY <1>4, <1>5
  <2> HIDE DEF D, E
  <2> QED BY <1>5, <1>8, <2>1, LeadOnOK
<1> HIDE DEF D, h
<1>10. GenOK(g, D, k - 1)
  BY <1>1, <1>9, PopScopeOK
<1> HIDE DEF g
<1>11. GenOK(g, D, k - IF "for" \in Scoping THEN 1 ELSE 0)
  BY <1>3, <1>10
<1>12. loopStack' = IF "for" \in LoopKinds THEN popLoop(loopStack) ELSE loopStack
  BY <1>2, <1>3
<1> QED BY <1>2, <1>11, <1>12, CloseStep DEF D, k

LEMMA SkipLeaveStep ==
  ASSUME GenInv, SkipLeave
  PROVE  GenInv'
<1>1. PICK kind \in CompoundKinds : Close(kind)
  BY DEF SkipLeave
<1>2. Local.skip /\ locals' = childDone(Front(locals), builder) /\ NotGenerated
  BY DEF SkipLeave
<1>3. /\ locals \in Seq(Locals) /\ cursor \in Seq(Entries) /\ Len(locals) = Len(cursor)
  BY GenInvIs DEF PathOK, Walk
<1>4. Front(locals) \in Seq(Locals)
  <2>1. cursor # <<>>
    BY <1>1 DEF Close
  <2>2. locals # <<>>
    BY <1>3, <2>1
  <2> QED BY <1>3, <2>2, FrontShape
<1>5. SameLocals(locals', Front(locals))
  BY <1>2, <1>4, ChildDoneSame
<1>6. /\ PathOK(locals', cursor') /\ pending' \in Seq(Functions)
      /\ AllDue(locals') \subseteq AllDue(locals)
      /\ StackOK(loopStack, locals', cursor')
      /\ Depth(locals', cursor')
           = Depth(locals, cursor) - IF ~Local.skip /\ kind \in Scoping THEN 1 ELSE 0
  BY <1>1, <1>2, <1>5, ClosePath
<1>7. Depth(locals, cursor) \in Nat
  BY DepthNat
<1>8. Depth(locals', cursor') = Depth(locals, cursor)
  BY <1>2, <1>6, <1>7
<1> QED BY <1>2, <1>6, <1>8, SkipEnds

--------------------------------------------------------------------------------
(***************************************************************************)
(* The else branch.                                                        *)
(***************************************************************************)
\* The statement whose else branch is next.
LEMMA ElseFacts ==
  ASSUME GenInv, OpenElse
  PROVE  /\ Parent.node.kind = "if" /\ Parent.slot = "thenDone" /\ Parent \in Entries
         /\ locals # <<>> /\ Local \in Locals /\ Local = locals[Len(locals)]
         /\ Parent = cursor[Len(locals)]
         /\ TargetsExist(Local, Parent) /\ Due(Local) \subseteq AllDue(locals)
<1> DEFINE m == Len(locals)
<1>1. PathOK(locals, cursor)
  BY GenInvIs
<1>2. /\ locals \in Seq(Locals) /\ cursor \in Seq(Entries) /\ Len(cursor) = m
      /\ Walk(cursor)
  BY <1>1 DEF PathOK, Walk
<1>3. cursor # <<>> /\ Parent.slot = "thenDone"
  BY DEF OpenElse, Parent
<1>4. locals # <<>>
  BY <1>2, <1>3
<1>5. /\ Local = locals[m] /\ Local \in Locals /\ m \in Nat \ {0}
      /\ Parent = cursor[m] /\ Parent \in Entries
  BY <1>2, <1>3, <1>4, FrontShape DEF Local, Parent
<1>6. m \in 1 .. Len(locals)
  BY <1>5
<1>7. Parent.node.kind = "if"
  BY <1>2, <1>3, <1>5 DEF Walk
<1>8. TargetsExist(Local, Parent) /\ Due(Local) \subseteq AllDue(locals)
  <2> HIDE DEF m
  <2> QED BY <1>1, <1>5, <1>6 DEF PathOK, AllDue
<1> QED BY <1>3, <1>4, <1>5, <1>7, <1>8

\* ls2 differs from ls in the locals of the innermost statement.
Replaced(ls2, ls, l) ==
  /\ ls2 \in Seq(Locals) /\ Len(ls2) = Len(ls) /\ ls2[Len(ls)] = l
  /\ \A i \in 1 .. Len(ls) - 1 : ls2[i] = ls[i]

LEMMA ElsePath ==
  ASSUME GenInv, OpenElse, NEW l \in Locals, Replaced(locals', locals, l),
         l.skip = Local.skip, ~l.skip => l.after # 0 /\ l.inc = 0,
         Due(l) \cap (AllDue(locals) \ Due(Local)) = {}
  PROVE  /\ PathOK(locals', cursor') /\ pending' \in Seq(Functions)
         /\ AllDue(locals') \subseteq (AllDue(locals) \ Due(Local)) \cup Due(l)
         /\ StackOK(loopStack, locals', cursor')
         /\ Depth(locals', cursor') = Depth(locals, cursor)
<1> DEFINE ls == Front(locals)
           path == Front(cursor)
           m == Len(locals)
           e == [cursor[m] EXCEPT !.slot = "else"]
<1>1. /\ PathOK(locals, cursor) /\ StackOK(loopStack, locals, cursor)
      /\ pending \in Seq(Functions)
  BY GenInvIs
<1>2. /\ locals \in Seq(Locals) /\ cursor \in Seq(Entries) /\ Len(cursor) = m
      /\ Walk(cursor)
  BY <1>1 DEF PathOK, Walk
<1>3. cursor # <<>> /\ Parent.slot = "thenDone" /\ pending' = pending
  BY DEF OpenElse, Parent
<1>4. locals # <<>>
  BY <1>2, <1>3
<1>5. /\ ls \in Seq(Locals) /\ Len(ls) = m - 1 /\ m \in Nat \ {0}
      /\ \A i \in 1 .. m - 1 : ls[i] = locals[i]
      /\ Local = locals[m] /\ Local \in Locals
  BY <1>2, <1>4, FrontShape DEF Local
<1>6. /\ path \in Seq(Entries) /\ Len(path) = m - 1
      /\ \A i \in 1 .. m - 1 : path[i] = cursor[i]
      /\ Parent = cursor[m] /\ Parent \in Entries
  BY <1>2, <1>3, FrontShape DEF Parent
<1>7. Walk(path)
  <2> HIDE DEF path, m
  <2> QED BY <1>2, <1>3, <1>6, WalkFront
<1>8. e \in Entries /\ e.node = Parent.node /\ e.slot = "else"
  BY <1>6 DEF Entries, Slots
<1>9. cursor' = [cursor EXCEPT ![m] = e]
  BY <1>2 DEF OpenElse
<1> HIDE DEF ls, path, e
<1>10. /\ cursor' \in Seq(Entries) /\ Len(cursor') = m /\ cursor'[m] = e
       /\ \A i \in 1 .. m - 1 : cursor'[i] = cursor[i]
  BY <1>2, <1>5, <1>8, <1>9
<1>11. /\ locals' \in Seq(Locals) /\ Len(locals') = m /\ locals'[m] = l
       /\ \A i \in 1 .. m - 1 : locals'[i] = locals[i]
  BY DEF Replaced
<1>12. Parent.node.kind = "if"
  BY ElseFacts
<1>13. Walk(cursor')
  <2>1. \A i \in 1 .. m : i < m => i \in 1 .. m - 1
    BY <1>5
  <2>2. \A i \in 1 .. m : i = m \/ i < m
    BY <1>5
  <2>3. \A i \in 1 .. m : cursor'[i].node = cursor[i].node
    BY <1>6, <1>8, <1>10, <2>1, <2>2
  <2>4. \A i \in 1 .. m : cursor'[i].slot = IF i = m THEN "else" ELSE cursor[i].slot
    BY <1>8, <1>10, <2>1, <2>2
  <2> HIDE DEF m
  <2>5. \A i \in 1 .. m : cursor'[i].node.kind = "func" => i = 1
    BY <1>2, <2>3 DEF Walk
  <2>6. \A i \in 1 .. m : i < m => cursor'[i].slot \in Waiting
    BY <1>2, <2>4 DEF Walk
  <2>7. \A i \in 1 .. m : cursor'[i].node.kind = "if" => cursor'[i].slot # "body"
    BY <1>2, <2>3, <2>4 DEF Walk
  <2>8. \A i \in 1 .. m :
          cursor'[i].slot \in {"then", "thenDone"} => cursor'[i].node.kind = "if"
    BY <1>2, <2>3, <2>4 DEF Walk
  <2>9. \A i \in 1 .. m : cursor'[i].slot = "list" => cursor'[i].node.kind = "block"
    BY <1>2, <2>3, <2>4 DEF Walk
  <2> QED BY <1>10, <2>5, <2>6, <2>7, <2>8, <2>9 DEF Walk
<1>14. OneMore(locals, cursor, ls, path) /\ OneMore(locals', cursor', ls, path)
  BY <1>2, <1>5, <1>6, <1>10, <1>11 DEF OneMore
<1>15. /\ PathOK(ls, path) /\ AllDue(ls) \subseteq AllDue(locals)
       /\ AllDue(ls) \cap Due(Local) = {}
  BY <1>1, <1>5, <1>7, <1>14, PathPopped
<1>17. TargetsExist(l, e)
  BY <1>8, <1>12 DEF TargetsExist, LoopKinds
<1>18. PathOK(locals', cursor') /\ AllDue(locals') = AllDue(ls) \cup Due(l)
  <2>1. Due(l) \cap AllDue(ls) = {}
    BY <1>15
  <2>2. /\ locals'[Len(locals')] = l /\ cursor'[Len(locals')] = e
        /\ cursor'[Len(locals')].node.kind # "func"
    BY <1>8, <1>10, <1>11, <1>12
  <2>3. /\ PathOK(locals', cursor')
        /\ AllDue(locals') = AllDue(ls) \cup Due(locals'[Len(locals')])
    BY <1>13, <1>14, <1>15, <1>17, <2>1, <2>2, PathPushed
  <2> QED BY <2>2, <2>3
<1>19. /\ ~Counts(locals[Len(locals)], cursor[Len(locals)], LoopKinds)
       /\ ~Counts(locals'[Len(locals')], cursor'[Len(locals')], LoopKinds)
       /\ ~Counts(locals[Len(locals)], cursor[Len(locals)], Scoping)
       /\ ~Counts(locals'[Len(locals')], cursor'[Len(locals')], Scoping)
  BY <1>5, <1>6, <1>8, <1>10, <1>11, <1>12 DEF Counts, LoopKinds, Scoping
<1>20. StackOK(loopStack, locals', cursor')
  <2>1. StackOK(loopStack, ls, path)
    BY <1>1, <1>14, <1>19, NoLoop
  <2> QED BY <1>14, <1>19, <2>1, NoLoop
<1>21. Depth(locals', cursor') = Depth(locals, cursor)
  <2>1. Depth(locals, cursor) = Depth(ls, path)
    BY <1>14, <1>19, DepthChanged
  <2>2. Depth(locals', cursor') = Depth(ls, path)
    BY <1>14, <1>19, DepthChanged
  <2> QED BY <2>1, <2>2
<1> QED BY <1>1, <1>3, <1>15, <1>18, <1>20, <1>21

LEMMA SkipElseStep ==
  ASSUME GenInv, SkipElse
  PROVE  GenInv'
<1>1. OpenElse /\ Local.skip /\ locals' = locals /\ NotGenerated
  BY DEF SkipElse
<1>2. locals \in Seq(Locals)
  BY GenInvIs DEF PathOK
<1>4. Local \in Locals /\ Replaced(locals', locals, Local)
  BY <1>1, <1>2, ElseFacts DEF Replaced
<1>5. Due(Local) \cap (AllDue(locals) \ Due(Local)) = {}
  OBVIOUS
<1>6. /\ PathOK(locals', cursor') /\ pending' \in Seq(Functions)
      /\ StackOK(loopStack, locals', cursor')
      /\ Depth(locals', cursor') = Depth(locals, cursor)
  BY <1>1, <1>4, <1>5, ElsePath
<1>7. AllDue(locals') \subseteq AllDue(locals)
  BY <1>1
<1> QED BY <1>1, <1>6, <1>7, SkipEnds

\* The else branch starts in the block of the false condition, and a new block
\* takes over as the one behind the statement.
LEMMA ElseBranchStep ==
  ASSUME GenInv, ElseBranch
  PROVE  GenInv'
<1> DEFINE D == AllDue(locals)
           k == Depth(locals, cursor)
           merge == NewBlock(Gen, 1)
           taken == Take(Gen, {merge})
           h == StartBlock(BranchIfOpen(taken, merge), Local.other)
           l == [Local EXCEPT !.other = 0, !.after = merge]
           E == (D \ Due(Local)) \cup {merge}
<1>1. GenOK(Gen, D, k) /\ k \in Nat \ {0}
  BY GenStarts, DepthNat
<1>2. /\ OpenElse /\ ~Local.skip /\ Put(LeaveRegion(h, Local.known))
      /\ locals' = [locals EXCEPT ![Len(locals)] = [@ EXCEPT !.other = 0, !.after = merge]]
      /\ module' = module /\ loopStack' = loopStack
  BY DEF ElseBranch
<1> HIDE DEF D, k
<1>3. merge \in Blocks /\ merge \notin Gen.taken /\ merge \notin D
  BY <1>1, NewBlocksOK
<1>4. /\ locals # <<>> /\ Local = locals[Len(locals)] /\ Local \in Locals
      /\ Local.other \in Blocks /\ Local.inc = 0
      /\ Due(Local) \subseteq D /\ Local.other \in Due(Local)
  <2>1. /\ Parent.node.kind = "if" /\ Parent.slot = "thenDone"
        /\ locals # <<>> /\ Local = locals[Len(locals)] /\ Local \in Locals
        /\ TargetsExist(Local, Parent) /\ Due(Local) \subseteq AllDue(locals)
    BY <1>2, ElseFacts
  <2>2. Local.other # 0 /\ Local.inc = 0
    BY <1>2, <2>1 DEF TargetsExist
  <2> QED BY <2>1, <2>2 DEF Due, Locals, D
<1>5. locals \in Seq(Locals)
  BY GenInvIs DEF PathOK
<1> HIDE DEF merge, h
<1>6. /\ l \in Locals /\ l.other = 0 /\ l.after = merge /\ l.skip = Local.skip
      /\ l.inc = 0
  BY <1>3, <1>4 DEF Locals
<1>7. Replaced(locals', locals, l)
  <2>1. locals' = [locals EXCEPT ![Len(locals)] = l] /\ l \in Locals
    BY <1>2, <1>4, <1>6
  <2> HIDE DEF l
  <2> QED BY <1>4, <1>5, <2>1 DEF Replaced
<1> HIDE DEF l
<1>8. Due(l) = {merge} /\ Due(l) \cap (D \ Due(Local)) = {} /\ l.after # 0
  BY <1>3, <1>6 DEF Due, Blocks
<1>9. /\ PathOK(locals', cursor') /\ pending' \in Seq(Functions)
      /\ AllDue(locals') \subseteq E
      /\ StackOK(loopStack, locals', cursor')
      /\ Depth(locals', cursor') = k
  <2>1. Due(l) \cap (AllDue(locals) \ Due(Local)) = {}
    BY <1>8 DEF D
  <2>2. /\ PathOK(locals', cursor') /\ pending' \in Seq(Functions)
        /\ AllDue(locals') \subseteq (AllDue(locals) \ Due(Local)) \cup Due(l)
        /\ StackOK(loopStack, locals', cursor')
        /\ Depth(locals', cursor') = Depth(locals, cursor)
    BY <1>2, <1>6, <1>7, <1>8, <2>1, ElsePath
  <2> QED BY <1>8, <2>2 DEF D, k
<1>10. GenOK(taken, D \cup {merge}, k)
  <2>1. {merge} \in SUBSET Nat /\ IsFiniteSet({merge})
    BY <1>3, FS_Singleton DEF Blocks
  <2>2. Gen.b.open \cap (D \cup {merge}) = {}
    <3>1. \A x \in D \cup {merge} : x \in D \/ x \notin Gen.taken
      BY <1>3
    <3> QED BY <1>1, <3>1, NewNotOpen
  <2> QED BY <1>1, <2>1, <2>2, TakeOK
<1> HIDE DEF taken
<1>11. GenOK(h, E, k)
  <2>1. /\ E \in SUBSET (D \cup {merge}) /\ Local.other \in D \cup {merge}
        /\ Local.other \notin E
    BY <1>3, <1>4
  <2> HIDE DEF E
  <2>2. GenOK(StartBlock(BranchIfOpen(taken, merge), Local.other), E, k)
    BY <1>3, <1>4, <1>10, <2>1, LeadOnOK
  <2> QED BY <2>2 DEF h
<1> HIDE DEF E
<1>12. GenOK(LeaveRegion(h, Local.known), E, k)
  BY <1>1, <1>11, LeaveRegionOK
<1>13. GenOK(LeaveRegion(h, Local.known), E, Depth(locals', cursor')) /\ StackOK(loopStack', locals', cursor')
  BY <1>2, <1>9, <1>12
<1> QED BY <1>2, <1>9, <1>13, StepEnds

--------------------------------------------------------------------------------
(***************************************************************************)
(* Functions, and the statements of main.                                  *)
(***************************************************************************)
LEMMA EmptyPath ==
  ASSUME GenInv, cursor = <<>>
  PROVE  locals = <<>> /\ AllDue(locals) = {} /\ Depth(locals, cursor) = 1
<1>1. locals \in Seq(Locals) /\ Len(locals) = Len(cursor)
  BY GenInvIs DEF PathOK
<1>2. locals = <<>>
  BY <1>1
<1>3. GeneratedIn(<<>>, <<>>, Scoping) = {}
  BY DEF GeneratedIn
<1> QED BY <1>2, <1>3, FS_EmptySet DEF AllDue, Depth

LEMMA ScopeAppended ==
  ASSUME NEW al, NEW de, NEW k \in Nat, ScopesOK(al, de, k), NEW s \in AllocaScopes
  PROVE  ScopesOK(Append(al, s), Append(de, DOMAIN s), k + 1)
<1>1. /\ al \in Seq(AllocaScopes) /\ de \in Seq(SUBSET Name)
      /\ Len(al) = k /\ Len(de) = k + 1
      /\ \A i \in 1 .. k : de[i + 1] = DOMAIN al[i]
  BY DEF ScopesOK
<1>2. DOMAIN s \in SUBSET Name
  BY AllocaElim
<1> QED BY <1>1, <1>2 DEF ScopesOK

\* A builder in the first block of a function.
LEMMA FreshBuilders ==
  /\ BuilderOK(Entry, {}) /\ BuilderOK(InFront, {})
  /\ EmittedOK(Nothing) /\ EmittedOK([Nothing EXCEPT !.code = {Entry.at}])
<1>1. 1 \in Blocks
  BY DEF Blocks
<1>2. BuilderOK(Entry, {}) /\ BuilderOK(InFront, {})
  BY <1>1 DEF BuilderOK, Entry, InFront, Builders
<1>3. EmittedOK(Nothing) /\ EmittedOK([Nothing EXCEPT !.code = {Entry.at}])
  BY <1>1 DEF EmittedOK, Nothing, BranchesOK, Entry
<1> QED BY <1>2, <1>3

LEMMA ModuleGrows ==
  ASSUME NEW mod, ModuleOK(mod), NEW name, NEW f, IsFunction(f)
  PROVE  ModuleOK(Recorded(mod, name, f))
BY DEF ModuleOK, Recorded

LEMMA EnterFunctionStep ==
  ASSUME GenInv, pending # <<>>, EnterFunction(Head(pending))
  PROVE  GenInv'
<1> DEFINE f == Head(pending)
           names == {f.params[i].name : i \in DOMAIN f.params}
           s == [n \in names |-> TRUE]
           e == [node |-> f, slot |-> FirstSlot(f)]
<1>1. /\ PathOK(locals, cursor) /\ StackOK(loopStack, locals, cursor)
      /\ pending \in Seq(Functions) /\ stage \in Stages /\ ModuleOK(module)
      /\ ScopesOK(allocas, declared, Depth(locals, cursor))
  BY GenInvIs
<1>2. f \in Functions /\ IsFunction(f) /\ Tail(pending) \in Seq(Functions)
  <2>1. f \in Functions /\ Tail(pending) \in Seq(Functions)
    BY <1>1
  <2> QED BY <2>1, AstAssumption
<1>3. /\ OpenFunction(f) /\ builder' = Entry /\ locals' = Append(locals, Plain)
      /\ module' = (IF f.name \in DOMAIN module THEN module ELSE Recorded(module, f.name, f))
      /\ allocas' = Append(allocas, s) /\ declared' = Append(declared, names)
      /\ emitted' = [Nothing EXCEPT !.code = {Entry.at}]
      /\ stage' = stage /\ loopStack' = loopStack
  BY DEF EnterFunction
<1>4. /\ f.kind = "func" /\ cursor = <<>> /\ cursor' = Append(cursor, e)
      /\ pending' = Tail(pending)
  BY <1>3 DEF OpenFunction, Room
<1>5. names \in SUBSET Name
  <2>1. f.params \in Seq(Parameters)
    BY <1>2 DEF IsFunction
  <2>2. \A i \in DOMAIN f.params : f.params[i] \in Parameters
    BY <2>1
  <2> QED BY <2>2 DEF Parameters
<1>6. s \in AllocaScopes /\ DOMAIN s = names
  <2>1. s \in [names -> BOOLEAN] /\ DOMAIN s = names
    OBVIOUS
  <2> HIDE DEF s, names
  <2> QED BY <1>5, <2>1, AllocaIntro
<1>7. locals = <<>> /\ AllDue(locals) = {} /\ Depth(locals, cursor) = 1
  BY <1>4, EmptyPath
<1>8. ModuleOK(module')
  BY <1>1, <1>2, <1>3, ModuleGrows
<1> HIDE DEF f, s, names
<1>9. ScopesOK(allocas', declared', 1 + 1)
  <2>1. ScopesOK(Append(allocas, s), Append(declared, DOMAIN s), 1 + 1)
    BY <1>1, <1>6, <1>7, ScopeAppended
  <2> QED BY <1>3, <1>6, <2>1
<1>10. e \in Entries /\ e.node = f /\ e.slot = "body"
  BY <1>2, <1>4 DEF Entries, Slots, FirstSlot
<1> HIDE DEF e
<1>11. /\ locals \in Seq(Locals) /\ cursor \in Seq(Entries) /\ Len(locals) = Len(cursor)
       /\ Walk(cursor) /\ Plain \in Locals
  BY <1>1, PlainLocals DEF PathOK, Walk
<1>12. Walk(cursor')
  BY <1>4, <1>10, <1>11, WalkAppend
<1>13. /\ OneMore(locals', cursor', locals, cursor)
       /\ locals'[Len(locals')] = Plain /\ cursor'[Len(locals')] = e
  BY <1>3, <1>4, <1>10, <1>11 DEF OneMore
<1>14. /\ ~Plain.skip /\ Due(Plain) = {} /\ e.node.kind = "func"
       /\ TargetsExist(Plain, e)
  BY <1>4, <1>10, PlainLocals DEF TargetsExist, LoopKinds
<1>15. /\ PathOK(locals', cursor')
       /\ AllDue(locals') = AllDue(locals) \cup Due(locals'[Len(locals')])
  <2>1. Due(locals'[Len(locals')]) \cap AllDue(locals) = {}
    BY <1>13, <1>14
  <2> QED BY <1>1, <1>12, <1>13, <1>14, <2>1, PathPushed
<1>16. AllDue(locals') = {}
  BY <1>7, <1>13, <1>14, <1>15
<1>17. /\ ~Counts(locals'[Len(locals')], cursor'[Len(locals')], LoopKinds)
       /\ Counts(locals'[Len(locals')], cursor'[Len(locals')], Scoping)
  BY <1>13, <1>14 DEF Counts, LoopKinds, Scoping
<1>18. StackOK(loopStack', locals', cursor')
  BY <1>1, <1>3, <1>13, <1>17, NoLoop
<1>19. Depth(locals', cursor') = 1 + 1
  BY <1>7, <1>13, <1>17, DepthChanged
<1>20. ScopesOK(allocas', declared', Depth(locals', cursor'))
  BY <1>9, <1>19
<1>21. BuilderOK(builder', AllDue(locals')) /\ EmittedOK(emitted')
  BY <1>3, <1>16, FreshBuilders
<1> QED BY <1>1, <1>2, <1>3, <1>4, <1>8, <1>15, <1>18, <1>20, <1>21, GenInvNext

LEMMA LeaveFunctionStep ==
  ASSUME GenInv, LeaveFunction
  PROVE  GenInv'
<1> DEFINE D == AllDue(locals)
           k == Depth(locals, cursor)
           r == ReturnIfOpen(Gen)
           g == popScope(r)
<1>1. GenOK(Gen, D, k) /\ k \in Nat \ {0}
  BY GenStarts, DepthNat
<1>2. /\ Close("func") /\ locals' = Front(locals) /\ module' = module /\ loopStack' = loopStack
      /\ stage' = (IF verifyFails(g) THEN "failed" ELSE stage) /\ builder' = Entry
      /\ allocas' = g.allocas /\ declared' = g.declared
      /\ emitted' = [edges |-> g.edges, code |-> g.code]
  BY DEF LeaveFunction
<1> HIDE DEF D, k
<1>3. GenOK(g, D, k - 1)
  BY <1>1, ReturnIfOpenOK, PopScopeOK
<1> HIDE DEF g
<1>4. /\ PathOK(locals, cursor) /\ stage \in Stages /\ ModuleOK(module)
      /\ locals \in Seq(Locals) /\ cursor \in Seq(Entries) /\ Len(locals) = Len(cursor)
      /\ Walk(cursor)
  BY GenInvIs DEF PathOK, Walk
<1>5. cursor # <<>> /\ Last(cursor).node.kind = "func"
  BY <1>2 DEF Close
<1>6. Len(locals) = 1 /\ locals # <<>> /\ ~Local.skip
  <2>1. Last(cursor) = cursor[Len(cursor)] /\ Len(cursor) \in Nat \ {0}
    BY <1>4, <1>5, FrontShape
  <2>2. Len(cursor) = 1
    <3>1. Len(cursor) \in 1 .. Len(cursor) /\ cursor[Len(cursor)].node.kind = "func"
      BY <1>5, <2>1
    <3> QED BY <1>4, <3>1 DEF Walk
  <2>3. ~locals[1].skip
    <3>1. 1 \in 1 .. Len(locals) /\ cursor[1].node.kind = "func"
      BY <1>4, <1>5, <2>1, <2>2
    <3>2. \A i \in 1 .. Len(locals) : cursor[i].node.kind = "func" => ~locals[i].skip
      BY <1>4 DEF PathOK
    <3> QED BY <3>1, <3>2
  <2>4. Len(locals) = 1
    BY <1>4, <2>2
  <2>5. locals # <<>>
    BY <2>4
  <2>6. Local = locals[Len(locals)]
    BY <1>4, <2>5, FrontShape DEF Local
  <2> QED BY <2>3, <2>4, <2>5, <2>6
<1>7. Front(locals) \in Seq(Locals) /\ Len(Front(locals)) = 0
  BY <1>4, <1>6, FrontShape
<1>8. SameLocals(locals', Front(locals)) /\ AllDue(locals') = {}
  BY <1>2, <1>7 DEF SameLocals, AllDue
<1>9. "func" \notin LoopKinds /\ "func" \in Scoping
  BY DEF LoopKinds, Scoping
<1>10. /\ PathOK(locals', cursor') /\ pending' \in Seq(Functions)
       /\ StackOK(loopStack', locals', cursor')
       /\ Depth(locals', cursor') = k - 1
  BY <1>2, <1>6, <1>8, <1>9, ClosePath DEF k
<1>11. ScopesOK(allocas', declared', Depth(locals', cursor')) /\ EmittedOK(emitted')
  BY <1>2, <1>3, <1>10 DEF GenOK, BlocksOK, EmittedOK
<1>12. BuilderOK(builder', AllDue(locals'))
  BY <1>2, <1>8, FreshBuilders
<1>13. stage' \in Stages
  BY <1>2, <1>4 DEF Stages
<1> QED BY <1>2, <1>4, <1>10, <1>11, <1>12, <1>13, GenInvNext

\* Between the functions, and when all is generated, there is no path.
LEMMA TopStep ==
  ASSUME GenInv, cursor = <<>>, UNCHANGED <<treeVars, allocas, declared, loopStack, locals>>,
         stage' \in Stages, ModuleOK(module'), EmittedOK(emitted'), BuilderOK(builder', {})
  PROVE  GenInv'
<1>1. /\ PathOK(locals, cursor) /\ StackOK(loopStack, locals, cursor)
      /\ pending \in Seq(Functions)
      /\ ScopesOK(allocas, declared, Depth(locals, cursor))
  BY GenInvIs
<1>2. AllDue(locals) = {}
  BY EmptyPath
<1>3. /\ cursor' = cursor /\ pending' = pending /\ allocas' = allocas
      /\ declared' = declared /\ loopStack' = loopStack /\ locals' = locals
  BY DEF treeVars
<1> QED BY <1>1, <1>2, <1>3, GenInvNext

LEMMA StartMainStep ==
  ASSUME GenInv, StartMain
  PROVE  GenInv'
<1>1. ModuleOK(module)
  BY GenInvIs
<1>2. IsFunction(syntheticMain)
  BY DEF IsFunction, syntheticMain, DeclaredTypes
<1>3. ModuleOK(module')
  BY <1>1, <1>2, ModuleGrows DEF StartMain
<1>4. /\ cursor = <<>> /\ UNCHANGED <<treeVars, allocas, declared, loopStack, locals>>
      /\ stage' \in Stages /\ builder' \in {Entry, InFront} /\ emitted' = Nothing
  BY DEF StartMain, Stages, Generating
<1> QED BY <1>3, <1>4, FreshBuilders, TopStep

LEMMA FinishMainStep ==
  ASSUME GenInv, FinishMain
  PROVE  GenInv'
<1> DEFINE g == ReturnIfOpen(Gen)
<1>1. GenOK(Gen, AllDue(locals), Depth(locals, cursor)) /\ ModuleOK(module)
      /\ BuilderOK(builder, AllDue(locals))
  BY GenStarts, GenInvIs
<1>2. GenOK(g, AllDue(locals), Depth(locals, cursor))
  BY <1>1, ReturnIfOpenOK
<1>3. /\ cursor = <<>> /\ UNCHANGED <<treeVars, module, allocas, declared, loopStack, locals>>
      /\ \/ /\ stage' \in {"failed", "done"} /\ builder' = g.b
            /\ emitted' = [edges |-> g.edges, code |-> g.code]
         \/ stage' = "done" /\ emitted' = Nothing /\ builder' = builder
  BY DEF FinishMain
<1> HIDE DEF g
<1>4. AllDue(locals) = {}
  BY <1>3, EmptyPath
<1>5. BuilderOK(g.b, {}) /\ EmittedOK([edges |-> g.edges, code |-> g.code])
  BY <1>2, <1>4 DEF GenOK, BlocksOK, BuilderOK, EmittedOK
<1>6. stage' \in Stages /\ ModuleOK(module')
  BY <1>1, <1>3 DEF Stages
<1>7. BuilderOK(builder', {}) /\ EmittedOK(emitted')
  BY <1>1, <1>3, <1>4, <1>5, FreshBuilders
<1> QED BY <1>3, <1>6, <1>7, TopStep

--------------------------------------------------------------------------------
(***************************************************************************)
(* The invariant, and what it is for.                                      *)
(***************************************************************************)
LEMMA NextKeepsInv ==
  ASSUME GenInv, [Next]_<<treeVars, genVars>>
  PROVE  GenInv'
<1>1. ASSUME NEW n \in Statements, Leaf(n) PROVE GenInv'
  BY <1>1, LeafKeepsInv
<1>2. ASSUME NEW n \in Statements, Down(n) PROVE GenInv'
  BY <1>2, EnterBlockStep, EnterIfStep, EnterWhileStep, EnterForStep, SkipEnterStep DEF Down
<1>3. CASE Up
  BY <1>3, LeaveBlockStep, LeaveIfStep, LeaveWhileStep, LeaveForStep, SkipLeaveStep DEF Up
<1>4. CASE UNCHANGED <<treeVars, genVars>>
  <2>1. /\ cursor' = cursor /\ pending' = pending /\ stage' = stage /\ module' = module
        /\ builder' = builder /\ allocas' = allocas /\ declared' = declared
        /\ loopStack' = loopStack /\ locals' = locals /\ emitted' = emitted
    BY <1>4 DEF treeVars, genVars
  <2> QED BY <2>1, GenInvIs, GenInvNext
<1>5. CASE Terminating
  BY <1>4, <1>5 DEF Terminating
<1> QED BY <1>1, <1>2, <1>3, <1>4, <1>5, EnterFunctionStep, ElseBranchStep, SkipElseStep,
           LeaveFunctionStep, StartMainStep, FinishMainStep DEF Next

\* However a program is nested and whatever it leaves out, the generator's
\* scopes, loop stack, locals and blocks fit the statements under way.
THEOREM GenInvariant == GenSpec => []GenInv
<1>1. Init => GenInv
  BY GenInitInv
<1>2. GenInv /\ [Next]_<<treeVars, genVars>> => GenInv'
  BY NextKeepsInv
<1> QED BY <1>1, <1>2, PTL DEF GenSpec

\* Every variable of the code generator has its type, for all programs.
THEOREM GenTypes == GenSpec => []GenTypeOK
<1>1. GenInv => GenTypeOK
  BY DEF GenInv
<1> QED BY <1>1, GenInvariant, PTL

\* namedValues and the generator's symbol table hold the same variables in the
\* same scopes, one for each open block, for-statement and function, however a
\* statement is left.
THEOREM ScopesStayMatched == GenSpec => []ScopesMatch
<1>1. GenInv => ScopesMatch
  BY DEF GenInv
<1> QED BY <1>1, GenInvariant, PTL

\* A break or continue anywhere in a program finds the targets of the loop
\* that encloses it.
THEOREM LoopsStayMatched == GenSpec => []LoopStackMatches
<1>1. GenInv => LoopStackMatches
  BY DEF GenInv
<1> QED BY <1>1, GenInvariant, PTL

\* Every block the generator leaves has been given a terminator.
THEOREM BlocksAreLeftTerminated == GenSpec => []OneOpenBlock
<1>1. GenInv => OneOpenBlock
  <2> SUFFICES ASSUME GenInv, NEW i \in DOMAIN locals
               PROVE  /\ builder.open \subseteq {builder.at}
                      /\ builder.open \cap {locals[i].after, locals[i].inc} = {}
    BY DEF OneOpenBlock, GenInv, Openness
  <2>1. /\ builder.open \subseteq {builder.at}
        /\ builder.open \cap Due(locals[i]) = {} /\ builder.open \subseteq Blocks
    BY DEF GenInv, Openness, GenTypeOK, Builders
  <2> QED BY <2>1 DEF Due, Blocks
<1> QED BY <1>1, GenInvariant, PTL

--------------------------------------------------------------------------------
(***************************************************************************)
(* An open statement: what the generator and the run keep for it.  Its     *)
(* blocks are told apart from those of the others, and control waits in    *)
(* one of them for the walk to come to where the run goes on.              *)
(***************************************************************************)
Frame(e, l, r, x) ==
  [kind |-> e.node.kind, skip |-> l.skip, other |-> l.other, after |-> l.after,
   again |-> l.again, inc |-> l.inc, parked |-> r.parked, exit |-> x]

Frames == [i \in 1 .. Len(cursor) |-> Frame(cursor[i], locals[i], runs[i], exits[i])]

\* The blocks an open statement goes on to, and the one it goes back to.
Own(f) == {f.other, f.after, f.again, f.inc} \ {0}

\* Where the part of a statement that is not taken is left.
Untaken(f) == IF f.after = 0 THEN f.other ELSE f.after

\* Where the two jumps of a loop lead.
JumpTarget(f, s) == IF s = "broke" THEN f.after
                    ELSE IF f.kind = "for" THEN f.inc ELSE f.again

FrameOK(f) ==
  /\ f.kind \in CompoundKinds \cup {"func"} /\ f.parked \in Run!Statuses \cup {"none"}
  /\ {f.other, f.after, f.again, f.inc} \subseteq Nat
  /\ f.again = 0 \/ f.again \notin {f.other, f.after, f.inc}
  /\ f.kind \notin LoopKinds \/ f.skip => f.again = 0
  /\ f.kind = "block" => f.parked = "none"
  /\ f.kind = "func" => f.parked = "live"
  /\ f.kind = "if" /\ ~f.skip => Untaken(f) # 0 /\ f.inc = 0
  /\ f.kind \in LoopKinds /\ f.skip => f.parked # "none"
  /\ f.kind \in LoopKinds /\ ~f.skip => f.exit = f.after /\ f.after # 0 /\ f.again # 0
  /\ f.kind = "for" /\ ~f.skip => f.inc \notin {0, f.after}

\* The innermost loop of the first k open statements.
IsInnermost(fr, i, k) ==
  /\ i \in 1 .. k /\ fr[i].kind \in LoopKinds
  /\ \A j \in i + 1 .. k : fr[j].kind \notin LoopKinds

\* Where control waits, at p, when a run has left the code at the end of the
\* first k open statements with status s.
WaitsFor(fr, p, s, k) ==
  /\ s = "returned" => p = 0
  /\ s \in {"broke", "continued"} =>
       \E i \in 1 .. k : IsInnermost(fr, i, k) /\ ~fr[i].skip /\ p = JumpTarget(fr[i], s)
  /\ s = "skipped" =>
       \E i \in 1 .. k : fr[i].kind # "func" /\ fr[i].parked \notin {"none", "skipped"}

\* ... or when it has parked at the i-th.
Parks(fr, p, i) ==
  fr[i].kind # "func" =>
    /\ fr[i].parked = "live" => ~fr[i].skip /\ p = Untaken(fr[i])
    /\ fr[i].parked \notin {"none", "live"} => WaitsFor(fr, p, fr[i].parked, i - 1)

Agrees(fr, n, p, s, at, open) ==
  /\ s = "live" <=> p = at /\ at \in open
  /\ WaitsFor(fr, p, s, n)
  /\ \A i \in 1 .. n : Parks(fr, p, i)

\* No two open statements share a block, and none has the current one.
Apart(fr, n, open) ==
  /\ \A i \in 1 .. n : FrameOK(fr[i]) /\ open \cap Own(fr[i]) = {}
  /\ \A i, j \in 1 .. n : i # j => Own(fr[i]) \cap Own(fr[j]) = {}

\* Statements are left out only after a terminator, where one is due the
\* builder is at the end of an open block, and an if-statement has no merge
\* block before its else branch.
Orderly(path, ls, b, st) ==
  /\ ~b.mid
  /\ \A i \in 1 .. Len(path) :
       /\ ls[i].skip \/ ls[i].stopped =>
            b.at \notin b.open /\ \A j \in i + 1 .. Len(path) : ls[j].skip
       /\ ls[i].stopped => path[i].node.kind = "block"
       /\ path[i].node.kind = "if" /\ path[i].slot \notin {"else", "done"} => ls[i].after = 0
  /\ path # <<>> =>
       LET n == Len(path)
       IN path[n].slot \in Waiting /\ ~ls[n].skip /\ ~ls[n].stopped => b.at \in b.open
  /\ path # <<>> => (path[1].node.kind = "func" <=> st = "functions")
  /\ path = <<>> /\ st = "functions" => b = Entry

FlowTypes ==
  /\ status \in Run!Statuses /\ pc \in Nat
  /\ runs \in Seq(Run!Runs) /\ Len(runs) = Len(cursor)
  /\ exits \in Seq(Nat) /\ Len(exits) = Len(cursor)

EmitInv ==
  Flowing =>
    /\ FlowTypes
    /\ Orderly(cursor, locals, builder, stage)
    /\ Apart(Frames, Len(cursor), builder.open)
    /\ Agrees(Frames, Len(cursor), pc, status, builder.at, builder.open)
    /\ cursor = <<>> /\ stage = "functions" => status = "live"

--------------------------------------------------------------------------------
(***************************************************************************)
(* Following branches.                                                     *)
(***************************************************************************)
\* k branches with one target lead from block p to block q.
Lead(edges, p, q, k) ==
  \E w \in [0 .. k -> Nat] :
    /\ w[0] = p /\ w[k] = q
    /\ \A i \in 0 .. k - 1 : w[i] \in DOMAIN edges /\ edges[w[i]] = <<w[i + 1]>>

LEMMA LeadNone == ASSUME NEW edges, NEW p \in Nat PROVE Lead(edges, p, p, 0)
<1> DEFINE w == [i \in 0 .. 0 |-> p]
<1>1. w \in [0 .. 0 -> Nat] /\ w[0] = p /\ 0 .. 0 - 1 = {}
  OBVIOUS
<1> QED BY <1>1 DEF Lead

\* One more branch, or one that is elsewhere.
LEMMA LeadMore ==
  ASSUME NEW edges, NEW p, NEW q, NEW k \in Nat, Lead(edges, p, q, k),
         q \notin DOMAIN edges, NEW x \in Nat
  PROVE  Lead(Recorded(edges, q, <<x>>), p, x, k + 1)
<1>1. PICK w \in [0 .. k -> Nat] :
        /\ w[0] = p /\ w[k] = q
        /\ \A i \in 0 .. k - 1 : w[i] \in DOMAIN edges /\ edges[w[i]] = <<w[i + 1]>>
  BY DEF Lead
<1> DEFINE v == [i \in 0 .. k + 1 |-> IF i <= k THEN w[i] ELSE x]
           more == Recorded(edges, q, <<x>>)
<1>2. v \in [0 .. k + 1 -> Nat] /\ v[0] = p /\ v[k + 1] = x /\ v[k] = q
      /\ \A i \in 0 .. k : v[i] = w[i]
  BY <1>1
<1>3. /\ DOMAIN more = DOMAIN edges \cup {q} /\ more[q] = <<x>>
      /\ \A b \in DOMAIN edges : more[b] = edges[b]
  BY DEF Recorded
<1> HIDE DEF v, more
<1>4. ASSUME NEW i \in 0 .. (k + 1) - 1
      PROVE  v[i] \in DOMAIN more /\ more[v[i]] = <<v[i + 1]>>
  <2>1. CASE i = k
    BY <1>2, <1>3, <2>1
  <2>2. CASE i # k
    <3>1. i \in 0 .. k - 1 /\ i \in 0 .. k /\ i + 1 \in 0 .. k
      BY <2>2
    <3> QED BY <1>1, <1>2, <1>3, <3>1
  <2> QED BY <2>1, <2>2
<1> QED BY <1>2, <1>4 DEF Lead, more

LEMMA LeadKept ==
  ASSUME NEW edges, NEW p, NEW q, NEW k \in Nat, Lead(edges, p, q, k),
         NEW d, d \notin DOMAIN edges, NEW ts
  PROVE  Lead(Recorded(edges, d, ts), p, q, k)
<1> DEFINE more == Recorded(edges, d, ts)
<1>1. \A b \in DOMAIN edges : b \in DOMAIN more /\ more[b] = edges[b]
  BY DEF Recorded
<1> HIDE DEF more
<1>2. Lead(more, p, q, k)
  BY <1>1 DEF Lead
<1> QED BY <1>2 DEF more

LEMMA LeadFirst ==
  ASSUME NEW edges, NEW p \in Nat, p \in DOMAIN edges, NEW x, edges[p] = <<x>>,
         NEW q, NEW k \in Nat, Lead(edges, x, q, k)
  PROVE  Lead(edges, p, q, k + 1)
<1>1. PICK w \in [0 .. k -> Nat] :
        /\ w[0] = x /\ w[k] = q
        /\ \A i \in 0 .. k - 1 : w[i] \in DOMAIN edges /\ edges[w[i]] = <<w[i + 1]>>
  BY DEF Lead
<1> DEFINE v == [i \in 0 .. k + 1 |-> IF i = 0 THEN p ELSE w[i - 1]]
<1>2. v \in [0 .. k + 1 -> Nat] /\ v[0] = p /\ v[k + 1] = q
      /\ \A i \in 1 .. k + 1 : v[i] = w[i - 1]
  <2>1. \A i \in 0 .. k + 1 : i # 0 => i - 1 \in 0 .. k
    OBVIOUS
  <2>2. (k + 1) - 1 = k /\ k + 1 # 0 /\ k + 1 \in 0 .. k + 1 /\ 0 \in 0 .. k + 1
    OBVIOUS
  <2> QED BY <1>1, <2>1, <2>2
<1> HIDE DEF v
<1>3. ASSUME NEW i \in 0 .. (k + 1) - 1
      PROVE  v[i] \in DOMAIN edges /\ edges[v[i]] = <<v[i + 1]>>
  <2>1. CASE i = 0
    <3>1. v[1] = w[0]
      BY <1>2
    <3> QED BY <1>1, <1>2, <2>1, <3>1
  <2>2. CASE i # 0
    <3>1. i - 1 \in 0 .. k - 1 /\ i \in 1 .. k + 1 /\ i + 1 \in 1 .. k + 1
          /\ (i - 1) + 1 = i /\ (i + 1) - 1 = i
      BY <2>2
    <3>2. v[i] = w[i - 1] /\ v[i + 1] = w[i]
      BY <1>2, <3>1
    <3> QED BY <1>1, <3>1, <3>2
  <2> QED BY <2>1, <2>2
<1> QED BY <1>2, <1>3 DEF Lead

\* Four branches, and no more.
LEMMA FollowIs ==
  ASSUME NEW edges, NEW p, NEW o
  PROVE  Follow(edges, p, o)
           = Successor(edges, Successor(edges, Successor(edges, Successor(edges, p, o), o), o), o)
<1> DEFINE a == Successor(edges, p, o)
           b == Successor(edges, a, o)
           c == Successor(edges, b, o)
           d == Successor(edges, c, o)
           IsF(F) == F = [k \in 0 .. MaxBranches |->
                            IF k = 0 THEN p ELSE Successor(edges, F[k - 1], o)]
           f == [k \in 0 .. MaxBranches |->
                   IF k = 0 THEN p ELSE IF k = 1 THEN a ELSE IF k = 2 THEN b
                   ELSE IF k = 3 THEN c ELSE d]
           F == CHOOSE F : IsF(F)
<1>1. f[0] = p /\ f[1] = a /\ f[2] = b /\ f[3] = c /\ f[4] = d
  BY DEF MaxBranches
<1>2. IsF(f)
  <2> DEFINE h == [k \in 0 .. MaxBranches |->
                     IF k = 0 THEN p ELSE Successor(edges, f[k - 1], o)]
  <2>1. h[0] = f[0] /\ h[1] = f[1] /\ h[2] = f[2] /\ h[3] = f[3] /\ h[4] = f[4]
    <3>1. 1 - 1 = 0 /\ 2 - 1 = 1 /\ 3 - 1 = 2 /\ 4 - 1 = 3
      OBVIOUS
    <3> HIDE DEF f
    <3>2. \A k \in 0 .. MaxBranches :
            h[k] = IF k = 0 THEN p ELSE Successor(edges, f[k - 1], o)
      OBVIOUS
    <3>3. 0 .. MaxBranches = {0, 1, 2, 3, 4}
      BY DEF MaxBranches
    <3> HIDE DEF h, a, b, c, d
    <3>4. h[0] = p /\ h[1] = Successor(edges, f[0], o) /\ h[2] = Successor(edges, f[1], o)
          /\ h[3] = Successor(edges, f[2], o) /\ h[4] = Successor(edges, f[3], o)
      BY <3>1, <3>2, <3>3
    <3> QED BY <1>1, <3>4 DEF a, b, c, d
  <2>2. \A k \in 0 .. MaxBranches : h[k] = f[k]
    <3> HIDE DEF h, f, a, b, c, d
    <3> QED BY <2>1 DEF MaxBranches
  <2>3. h = f
    <3>1. h = [k \in 0 .. MaxBranches |-> h[k]]
      OBVIOUS
    <3>2. f = [k \in 0 .. MaxBranches |-> f[k]]
      OBVIOUS
    <3> HIDE DEF h, f
    <3> QED BY <2>2, <3>1, <3>2
  <2> HIDE DEF f
  <2> QED BY <2>3
<1>3. IsF(F)
  <2> HIDE DEF f, IsF
  <2> QED BY <1>2
<1>4. Follow(edges, p, o) = F[MaxBranches]
  BY DEF Follow
<1>5. \A k \in 0 .. MaxBranches : F[k] = IF k = 0 THEN p ELSE Successor(edges, F[k - 1], o)
  <2> HIDE DEF F
  <2> QED BY <1>3
<1>6. F[MaxBranches] = d
  <2>1. 1 - 1 = 0 /\ 2 - 1 = 1 /\ 3 - 1 = 2 /\ 4 - 1 = 3 /\ 0 .. MaxBranches = {0, 1, 2, 3, 4}
    BY DEF MaxBranches
  <2> HIDE DEF F, a, b, c, d
  <2>2. F[0] = p /\ F[1] = Successor(edges, F[0], o) /\ F[2] = Successor(edges, F[1], o)
        /\ F[3] = Successor(edges, F[2], o) /\ F[4] = Successor(edges, F[3], o)
    BY <1>5, <2>1
  <2> QED BY <2>2 DEF a, b, c, d, MaxBranches
<1> QED BY <1>4, <1>6

\* The way ends at q, or takes one more branch there.
LEMMA FollowLead ==
  ASSUME NEW edges, NEW p, NEW q, NEW o, NEW k \in 0 .. 3, Lead(edges, p, q, k),
         Successor(edges, q, o) \notin DOMAIN edges
  PROVE  Follow(edges, p, o) = Successor(edges, q, o)
<1> DEFINE S(x) == Successor(edges, x, o)
           r == S(q)
<1> SUFFICES Follow(edges, p, o) = r
  OBVIOUS
<1>1. PICK w \in [0 .. k -> Nat] :
        /\ w[0] = p /\ w[k] = q
        /\ \A i \in 0 .. k - 1 : w[i] \in DOMAIN edges /\ edges[w[i]] = <<w[i + 1]>>
  BY DEF Lead
<1>2. \A x, y : x \in DOMAIN edges /\ edges[x] = <<y>> => S(x) = y
  BY DEF Successor
<1>3. \A i \in 0 .. k - 1 : S(w[i]) = w[i + 1]
  BY <1>1, <1>2
<1>4. S(r) = r
  BY DEF Successor
<1>5. Follow(edges, p, o) = S(S(S(S(p))))
  BY FollowIs
<1> HIDE DEF S, r
<1>6. S(w[k]) = r
  BY <1>1 DEF r
<1>7. CASE k = 0
  BY <1>1, <1>4, <1>5, <1>6, <1>7 DEF r
<1>8. CASE k = 1
  <2>1. S(w[0]) = w[1]
    <3>1. 0 \in 0 .. k - 1 /\ 0 + 1 = 1
      BY <1>8
    <3> QED BY <1>3, <3>1
  <2> QED BY <1>1, <1>4, <1>5, <1>6, <1>8, <2>1 DEF r
<1>9. CASE k = 2
  <2>1. S(w[0]) = w[1] /\ S(w[1]) = w[2]
    <3>1. 0 \in 0 .. k - 1 /\ 0 + 1 = 1 /\ 1 \in 0 .. k - 1 /\ 1 + 1 = 2
      BY <1>9
    <3> QED BY <1>3, <3>1
  <2> QED BY <1>1, <1>4, <1>5, <1>6, <1>9, <2>1 DEF r
<1>10. CASE k = 3
  <2>1. S(w[0]) = w[1] /\ S(w[1]) = w[2] /\ S(w[2]) = w[3]
    <3>1. /\ 0 \in 0 .. k - 1 /\ 0 + 1 = 1 /\ 1 \in 0 .. k - 1 /\ 1 + 1 = 2
          /\ 2 \in 0 .. k - 1 /\ 2 + 1 = 3
      BY <1>10
    <3> QED BY <1>3, <3>1
  <2> QED BY <1>1, <1>4, <1>5, <1>6, <1>10, <2>1 DEF r
<1> QED BY <1>7, <1>8, <1>9, <1>10

LEMMA FollowEnds ==
  ASSUME NEW edges, NEW p, NEW q, NEW o, NEW k \in 0 .. 3, Lead(edges, p, q, k),
         q \notin DOMAIN edges
  PROVE  Follow(edges, p, o) = q
<1>1. Successor(edges, q, o) = q
  BY DEF Successor
<1> QED BY <1>1, FollowLead

\* Nothing leads on from a block without a terminator.
LEMMA FollowStays ==
  ASSUME NEW edges, NEW p \in Nat, NEW o, p \notin DOMAIN edges
  PROVE  Follow(edges, p, o) = p
BY LeadNone, FollowEnds

\* The blocks passed on the way.
IsVisit(V, edges, p) ==
  /\ V[0] = {p} /\ Visited(edges, p) = V[4]
  /\ \A k \in 0 .. 3 : V[k + 1] = Passed(edges, V[k])

LEMMA VisitedIs ==
  ASSUME NEW edges, NEW p
  PROVE  \E V : IsVisit(V, edges, p)
<1> DEFINE On(S) == Passed(edges, S)
           a == {p}
           b1 == On(a)
           c1 == On(b1)
           d == On(c1)
           e == On(d)
           IsF(F) == F = [k \in 0 .. MaxBranches |-> IF k = 0 THEN {p} ELSE On(F[k - 1])]
           f == [k \in 0 .. MaxBranches |->
                   IF k = 0 THEN a ELSE IF k = 1 THEN b1 ELSE IF k = 2 THEN c1
                   ELSE IF k = 3 THEN d ELSE e]
           F == CHOOSE F : IsF(F)
<1>1. f[0] = a /\ f[1] = b1 /\ f[2] = c1 /\ f[3] = d /\ f[4] = e
  BY DEF MaxBranches
<1>0. 1 - 1 = 0 /\ 2 - 1 = 1 /\ 3 - 1 = 2 /\ 4 - 1 = 3 /\ 0 .. MaxBranches = {0, 1, 2, 3, 4}
  BY DEF MaxBranches
<1>2. IsF(f)
  <2> DEFINE h == [k \in 0 .. MaxBranches |-> IF k = 0 THEN {p} ELSE On(f[k - 1])]
  <2>1. \A k \in 0 .. MaxBranches : h[k] = IF k = 0 THEN {p} ELSE On(f[k - 1])
    OBVIOUS
  <2>2. h = [k \in 0 .. MaxBranches |-> h[k]] /\ f = [k \in 0 .. MaxBranches |-> f[k]]
    OBVIOUS
  <2> HIDE DEF f, h, On
  <2>3. h[0] = {p} /\ h[1] = On(f[0]) /\ h[2] = On(f[1]) /\ h[3] = On(f[2]) /\ h[4] = On(f[3])
    BY <1>0, <2>1
  <2>4. \A k \in 0 .. MaxBranches : h[k] = f[k]
    BY <1>0, <1>1, <2>3
  <2>5. h = f
    BY <2>2, <2>4
  <2> QED BY <2>5 DEF h
<1>3. IsF(F)
  <2> HIDE DEF f, IsF
  <2> QED BY <1>2
<1>4. Visited(edges, p) = F[MaxBranches]
  BY DEF Visited
<1>5. \A k \in 0 .. MaxBranches : F[k] = IF k = 0 THEN {p} ELSE On(F[k - 1])
  <2> HIDE DEF F, On
  <2> QED BY <1>3
<1>6. F[0] = {p} /\ \A k \in 0 .. MaxBranches - 1 : F[k + 1] = On(F[k])
  <2>1. /\ 0 \in 0 .. MaxBranches
        /\ \A k \in 0 .. MaxBranches - 1 :
             k + 1 \in 0 .. MaxBranches /\ k + 1 # 0 /\ (k + 1) - 1 = k
    BY DEF MaxBranches
  <2> HIDE DEF F, On
  <2> QED BY <1>5, <2>1
<1> HIDE DEF F
<1>7. IsVisit(F, edges, p)
  BY <1>4, <1>6 DEF IsVisit, MaxBranches
<1> QED BY <1>7

LEMMA VisitedLead ==
  ASSUME NEW edges, NEW p, NEW q, NEW k \in 0 .. 3, Lead(edges, p, q, k)
  PROVE  q \in Visited(edges, p)
<1>1. PICK w \in [0 .. k -> Nat] :
        /\ w[0] = p /\ w[k] = q
        /\ \A i \in 0 .. k - 1 : w[i] \in DOMAIN edges /\ edges[w[i]] = <<w[i + 1]>>
  BY DEF Lead
<1>2. PICK V : IsVisit(V, edges, p)
  BY VisitedIs
<1>3. \A j \in 0 .. 3 : V[j] \subseteq V[j + 1]
  BY <1>2 DEF IsVisit, Passed
<1>4. ASSUME NEW j \in 0 .. k - 1, w[j] \in V[j] PROVE w[j + 1] \in V[j + 1]
  <2>1. w[j] \in DOMAIN edges /\ edges[w[j]] = <<w[j + 1]>>
    BY <1>1
  <2>2. Len(edges[w[j]]) = 1 /\ edges[w[j]][1] = w[j + 1]
    BY <2>1
  <2>3. j \in 0 .. 3
    OBVIOUS
  <2>4. w[j] \in {c \in V[j] \cap DOMAIN edges : Len(edges[c]) = 1}
    BY <1>4, <2>1, <2>2
  <2> QED BY <1>2, <2>2, <2>3, <2>4 DEF IsVisit, Passed
<1>5. w[0] \in V[0]
  BY <1>1, <1>2 DEF IsVisit
<1>6. w[k] \in V[k]
  <2>1. k > 0 => w[0 + 1] \in V[0 + 1]
    BY <1>4, <1>5
  <2>2. k > 1 => w[1 + 1] \in V[1 + 1]
    <3>1. 0 + 1 = 1
      OBVIOUS
    <3> QED BY <1>4, <2>1, <3>1
  <2>3. k > 2 => w[2 + 1] \in V[2 + 1]
    <3>1. 1 + 1 = 2
      OBVIOUS
    <3> QED BY <1>4, <2>2, <3>1
  <2>4. 0 + 1 = 1 /\ 1 + 1 = 2 /\ 2 + 1 = 3
    OBVIOUS
  <2> QED BY <1>5, <2>1, <2>2, <2>3, <2>4
<1>7. V[0] \subseteq V[1] /\ V[1] \subseteq V[2] /\ V[2] \subseteq V[3] /\ V[3] \subseteq V[4]
  <2>1. 0 + 1 = 1 /\ 1 + 1 = 2 /\ 2 + 1 = 3 /\ 3 + 1 = 4
    OBVIOUS
  <2> QED BY <1>3, <2>1
<1>8. w[k] \in V[4]
  BY <1>6, <1>7
<1> QED BY <1>1, <1>2, <1>8 DEF IsVisit

LEMMA VisitedAlone ==
  ASSUME NEW edges, NEW p, p \notin DOMAIN edges
  PROVE  Visited(edges, p) = {p}
<1>1. PICK V : IsVisit(V, edges, p)
  BY VisitedIs
<1>2. \A j \in 0 .. 3 : V[j] = {p} => V[j + 1] = {p}
  BY <1>1 DEF IsVisit, Passed
<1>3. 0 + 1 = 1 /\ 1 + 1 = 2 /\ 2 + 1 = 3 /\ 3 + 1 = 4 /\ 0 .. 3 = {0, 1, 2, 3}
  OBVIOUS
<1>4. V[4] = {p}
  BY <1>1, <1>2, <1>3 DEF IsVisit
<1> QED BY <1>1, <1>4 DEF IsVisit

--------------------------------------------------------------------------------
(***************************************************************************)
(* The generator within a step.                                            *)
(***************************************************************************)
\* The builder is at the end of an open block.  The step has added branches and
\* code to blocks of S and to new blocks, which are not of T.
On(g, S, T) ==
  /\ DOMAIN g = GenFields /\ g.b \in Builders
  /\ g.taken \in SUBSET Nat /\ IsFiniteSet(g.taken) /\ T \subseteq g.taken
  /\ g.b.open = {g.b.at} /\ ~g.b.mid
  /\ g.b.at \in g.taken /\ DOMAIN g.edges \subseteq g.taken \ {0, g.b.at}
  /\ {g.b.at} \cup DOMAIN g.edges \cup g.code \subseteq S \cup (Nat \ T)

\* At most k branches lead from p to the insertion point.
From(g, p, k) == \E i \in 0 .. k : Lead(g.edges, p, g.b.at, i)

\* ... and the code of the step is on the way.
Through(g, p, k) ==
  g.code # {} => \E c \in g.code : \E i \in 0 .. k : Lead(g.edges, p, c, i)

\* At most m branches more.
Goes(h, g, m) ==
  \A p, k : k \in Nat /\ From(g, p, k)
              => From(h, p, k + m) /\ (Through(g, p, k) => Through(h, p, k + m))

LEMMA GoesOn ==
  ASSUME NEW g, NEW h, NEW i, NEW m \in Nat, NEW l \in Nat, Goes(h, g, m), Goes(i, h, l)
  PROVE  Goes(i, g, m + l)
<1> SUFFICES ASSUME NEW p, NEW k \in Nat, From(g, p, k)
             PROVE  From(i, p, k + (m + l)) /\ (Through(g, p, k) => Through(i, p, k + (m + l)))
  BY DEF Goes
<1>1. From(h, p, k + m) /\ (Through(g, p, k) => Through(h, p, k + m)) /\ k + m \in Nat
  BY DEF Goes
<1>2. From(i, p, (k + m) + l) /\ (Through(h, p, k + m) => Through(i, p, (k + m) + l))
  BY <1>1 DEF Goes
<1>3. (k + m) + l = k + (m + l)
  OBVIOUS
<1> QED BY <1>1, <1>2, <1>3

LEMMA GoesMore ==
  ASSUME NEW g, NEW h, NEW m \in Nat, NEW l \in Nat, m <= l, Goes(h, g, m)
  PROVE  Goes(h, g, l)
<1> SUFFICES ASSUME NEW p, NEW k \in Nat, From(g, p, k)
             PROVE  From(h, p, k + l) /\ (Through(g, p, k) => Through(h, p, k + l))
  BY DEF Goes
<1>1. From(h, p, k + m) /\ (Through(g, p, k) => Through(h, p, k + m))
  BY DEF Goes
<1>2. 0 .. k + m \subseteq 0 .. k + l
  OBVIOUS
<1> QED BY <1>1, <1>2 DEF From, Through

\* Code for the current block, or something apart from the blocks.
KeepsFlow(h, g) ==
  /\ DOMAIN h = GenFields /\ h.b \in Builders
  /\ h.b.at = g.b.at /\ h.b.open = g.b.open /\ h.b.mid = g.b.mid
  /\ h.taken = g.taken /\ h.edges = g.edges
  /\ h.code = g.code \/ h.code = g.code \cup {g.b.at}

LEMMA KeepsTrans ==
  ASSUME NEW g, NEW h, NEW i, KeepsFlow(h, g), KeepsFlow(i, h)
  PROVE  KeepsFlow(i, g)
BY DEF KeepsFlow

LEMMA KeepsOn ==
  ASSUME NEW g, NEW h, NEW S, NEW T, On(g, S, T), KeepsFlow(h, g)
  PROVE  On(h, S, T) /\ Goes(h, g, 0)
<1>1. On(h, S, T)
  BY DEF On, KeepsFlow
<1>2. ASSUME NEW p, NEW k \in Nat, From(g, p, k)
      PROVE  From(h, p, k) /\ (Through(g, p, k) => Through(h, p, k))
  <2>1. From(h, p, k)
    BY <1>2 DEF From, KeepsFlow
  <2>2. ASSUME Through(g, p, k) PROVE Through(h, p, k)
    <3>1. CASE h.code = g.code
      BY <2>2, <3>1 DEF Through, KeepsFlow
    <3>2. CASE h.code = g.code \cup {g.b.at}
      <4>1. g.b.at \in h.code /\ \E i \in 0 .. k : Lead(h.edges, p, g.b.at, i)
        BY <1>2, <3>2 DEF From, KeepsFlow
      <4> QED BY <4>1 DEF Through
    <3> QED BY <3>1, <3>2 DEF KeepsFlow
  <2> QED BY <2>1, <2>2
<1>3. \A k \in Nat : k + 0 = k
  OBVIOUS
<1> QED BY <1>1, <1>2, <1>3 DEF Goes

Sound(g) == DOMAIN g = GenFields /\ g.b \in Builders

LEMMA SmallSteps ==
  ASSUME NEW g, Sound(g), g.b.at \in Blocks
  PROVE  /\ \A when : KeepsFlow(Abort(g, when), g)
         /\ \A when : KeepsFlow(Reject(g, when), g)
         /\ \A type : KeepsFlow([g EXCEPT !.type = type], g)
         /\ \A n : KeepsFlow(registerVariable(g, n), g)
         /\ KeepsFlow(pushScope(g), g) /\ KeepsFlow(popScope(g), g)
         /\ \A known : KeepsFlow(LeaveRegion(g, known), g)
<1>1. \A when : KeepsFlow(Abort(g, when), g)
  BY DEF Sound, KeepsFlow, Abort, GenFields
<1>2. \A when : KeepsFlow(Reject(g, when), g)
  BY DEF Sound, KeepsFlow, Reject, GenFields, Builders
<1>3. \A type : KeepsFlow([g EXCEPT !.type = type], g)
  BY DEF Sound, KeepsFlow, GenFields
<1>4. \A n : KeepsFlow(registerVariable(g, n), g)
  BY DEF Sound, KeepsFlow, registerVariable, GenFields
<1>5. KeepsFlow(pushScope(g), g) /\ KeepsFlow(popScope(g), g)
  BY DEF Sound, KeepsFlow, pushScope, popScope, GenFields
<1>6. \A known : KeepsFlow(LeaveRegion(g, known), g)
  BY DEF Sound, KeepsFlow, LeaveRegion, GenFields
<1> QED BY <1>1, <1>2, <1>3, <1>4, <1>5, <1>6

LEMMA KeepsSound ==
  ASSUME NEW g, NEW h, KeepsFlow(h, g), g.b.at \in Blocks
  PROVE  Sound(h) /\ h.b.at \in Blocks
BY DEF KeepsFlow, Sound

LEMMA OnSound == ASSUME NEW g, NEW S, NEW T, On(g, S, T) PROVE Sound(g) /\ g.b.at \in Blocks
BY DEF On, Sound, Builders

LEMMA EmitKeeps ==
  ASSUME NEW g, Sound(g), g.b.at \in Blocks
  PROVE  KeepsFlow(Emit(g), g)
<1> DEFINE h == [g EXCEPT !.code = @ \cup {g.b.at}]
           when == ~g.b.mid /\ g.b.at \notin g.b.open
<1>1. KeepsFlow(h, g)
  BY DEF Sound, KeepsFlow, GenFields
<1>2. Emit(g) = Reject(h, when)
  BY DEF Emit
<1>3. Sound(h) /\ h.b.at \in Blocks
  BY <1>1, KeepsSound
<1> HIDE DEF h, when
<1>4. KeepsFlow(Reject(h, when), h)
  BY <1>3, SmallSteps
<1> QED BY <1>1, <1>2, <1>4, KeepsTrans

LEMMA AccessKeeps ==
  ASSUME NEW g, Sound(g), g.b.at \in Blocks, NEW names
  PROVE  KeepsFlow(Access(g, names), g)
<1> DEFINE e == Emit(g)
           w1 == g.b.at \in g.b.live /\ \E n \in names : findVariable(g, n) /\ ~Find(g.allocas, n)
           w2 == \E n \in names : ~findVariable(g, n)
           r == Reject(e, w1)
<1>1. Access(g, names) = Abort(r, w2)
  BY DEF Access
<1>2. KeepsFlow(e, g) /\ Sound(e) /\ e.b.at \in Blocks
  BY EmitKeeps, KeepsSound
<1> HIDE DEF e, w1, w2
<1>3. KeepsFlow(r, e)
  BY <1>2, SmallSteps
<1> HIDE DEF r
<1>4. Sound(r) /\ r.b.at \in Blocks /\ KeepsFlow(r, g)
  BY <1>2, <1>3, KeepsSound, KeepsTrans
<1>5. KeepsFlow(Abort(r, w2), r)
  BY <1>4, SmallSteps
<1> QED BY <1>1, <1>4, <1>5, KeepsTrans

LEMMA LoadKeeps ==
  ASSUME NEW g, Sound(g), g.b.at \in Blocks, NEW v
  PROVE  KeepsFlow(Load(g, v), g) /\ Load(g, v).type = v.type
<1> DEFINE e == Access(g, v.loads)
           t == [e EXCEPT !.type = v.type]
           w1 == v.flaws \cap {"operands", "merge"} # {}
           w2 == "cast" \in v.flaws \/ \E n \in v.loads : ~isDeclared(g, n)
           r == Reject(t, w1)
<1>1. Load(g, v) = Abort(r, w2)
  BY DEF Load
<1>2. KeepsFlow(e, g) /\ Sound(e) /\ e.b.at \in Blocks
  BY AccessKeeps, KeepsSound
<1> HIDE DEF e, w1, w2
<1>3. KeepsFlow(t, e) /\ t.type = v.type
  BY <1>2, SmallSteps DEF Sound, GenFields
<1> HIDE DEF t
<1>4. Sound(t) /\ t.b.at \in Blocks /\ KeepsFlow(t, g)
  BY <1>2, <1>3, KeepsSound, KeepsTrans
<1>5. KeepsFlow(r, t) /\ r.type = t.type
  BY <1>4, SmallSteps DEF Reject, Sound, GenFields
<1> HIDE DEF r
<1>6. Sound(r) /\ r.b.at \in Blocks /\ KeepsFlow(r, g)
  BY <1>4, <1>5, KeepsSound, KeepsTrans
<1>7. KeepsFlow(Abort(r, w2), r) /\ Abort(r, w2).type = r.type
  BY <1>6, SmallSteps DEF Abort, Sound, GenFields
<1> QED BY <1>1, <1>3, <1>5, <1>6, <1>7, KeepsTrans

\* New blocks, and branches to some.
LEMMA BranchOn ==
  ASSUME NEW g, NEW S, NEW T, On(g, S, T),
         NEW bs \in SUBSET Nat, IsFiniteSet(bs), NEW x \in bs, x \in Blocks, x \notin g.taken,
         NEW targets, Range(targets) \subseteq Blocks
  PROVE  LET h == StartBlock(Terminate(Take(g, bs), targets), x)
         IN /\ On(h, S, T) /\ h.b.at = x /\ h.taken = g.taken \cup bs /\ h.type = g.type
            /\ h.edges = Recorded(g.edges, g.b.at, targets) /\ h.code = g.code
<1> DEFINE t == Take(g, bs)
           u == Terminate(t, targets)
           h == StartBlock(u, x)
<1>1. /\ DOMAIN t = GenFields /\ t.b = g.b /\ t.edges = g.edges /\ t.code = g.code
      /\ t.taken = g.taken \cup bs /\ t.type = g.type
  BY DEF On, Take, GenFields
<1> HIDE DEF t
<1>2. t.taken \in SUBSET Nat /\ IsFiniteSet(t.taken)
  <2>1. IsFiniteSet(g.taken) /\ g.taken \in SUBSET Nat
    BY DEF On
  <2>2. IsFiniteSet(g.taken \cup bs)
    BY <2>1, FS_Union
  <2> QED BY <1>1, <2>1, <2>2
<1>3. /\ DOMAIN u = GenFields /\ u.b \in Builders /\ u.b.open = {} /\ ~u.b.mid
      /\ u.edges = Recorded(g.edges, g.b.at, targets) /\ u.code = g.code
      /\ u.taken = t.taken /\ u.type = g.type
  BY <1>1 DEF On, Terminate, Reject, GenFields, Builders
<1> HIDE DEF u
<1>4. /\ DOMAIN h = GenFields /\ h.b \in Builders /\ h.b.open = {x} /\ ~h.b.mid /\ h.b.at = x
      /\ h.edges = u.edges /\ h.code = u.code /\ h.taken = u.taken /\ h.type = u.type
  BY <1>3 DEF StartBlock, GenFields, Builders
<1> HIDE DEF h
<1>5. DOMAIN h.edges = DOMAIN g.edges \cup {g.b.at}
  BY <1>3, <1>4 DEF Recorded
<1>6. On(h, S, T)
  <2>1. /\ g.b.at \in g.taken \ {0} /\ DOMAIN g.edges \subseteq g.taken \ {0}
        /\ T \subseteq g.taken
        /\ {g.b.at} \cup DOMAIN g.edges \cup g.code \subseteq S \cup (Nat \ T)
    BY DEF On, Builders, Blocks
  <2>2. DOMAIN h.edges \subseteq h.taken \ {0, h.b.at} /\ h.b.at \in h.taken /\ T \subseteq h.taken
    BY <1>1, <1>3, <1>4, <1>5, <2>1
  <2>3. x \in Nat \ T
    BY <2>1
  <2>4. {h.b.at} \cup DOMAIN h.edges \cup h.code \subseteq S \cup (Nat \ T)
    BY <1>3, <1>4, <1>5, <2>1, <2>3
  <2> QED BY <1>2, <1>3, <1>4, <2>2, <2>4 DEF On
<1> QED BY <1>1, <1>3, <1>4, <1>6 DEF h, u, t

LEMMA JumpGoes ==
  ASSUME NEW g, NEW S, NEW T, On(g, S, T), NEW h, NEW x \in Nat,
         h.b.at = x, h.edges = Recorded(g.edges, g.b.at, <<x>>), h.code = g.code
  PROVE  Goes(h, g, 1)
<1>1. g.b.at \notin DOMAIN g.edges
  BY DEF On
<1>2. ASSUME NEW p, NEW k \in Nat, From(g, p, k)
      PROVE  From(h, p, k + 1) /\ (Through(g, p, k) => Through(h, p, k + 1))
  <2>1. From(h, p, k + 1)
    <3>1. PICK i \in 0 .. k : Lead(g.edges, p, g.b.at, i)
      BY <1>2 DEF From
    <3>2. Lead(h.edges, p, x, i + 1)
      BY <1>1, <3>1, LeadMore
    <3>3. i + 1 \in 0 .. k + 1
      OBVIOUS
    <3> QED BY <3>2, <3>3 DEF From
  <2>2. ASSUME Through(g, p, k), h.code # {} PROVE Through(h, p, k + 1)
    <3>1. PICK c \in g.code : \E i \in 0 .. k : Lead(g.edges, p, c, i)
      BY <2>2 DEF Through
    <3>2. PICK i \in 0 .. k : Lead(g.edges, p, c, i)
      BY <3>1
    <3>3. Lead(h.edges, p, c, i) /\ i \in 0 .. k + 1
      BY <1>1, <3>2, LeadKept
    <3> QED BY <3>1, <3>3 DEF Through
  <2> QED BY <2>1, <2>2 DEF Through
<1> QED BY <1>2 DEF Goes

LEMMA NewOn ==
  ASSUME NEW g, NEW S, NEW T, On(g, S, T), NEW j \in {1, 2, 3}
  PROVE  NewBlock(g, j) \in Blocks /\ NewBlock(g, j) \notin g.taken
<1>1. g.taken \in SUBSET Nat /\ IsFiniteSet(g.taken) /\ j \in Nat \ {0}
  BY DEF On
<1> QED BY <1>1, NewBlockIsNew

LEMMA OneTarget ==
  ASSUME NEW x \in Blocks
  PROVE  {x} \in SUBSET Nat /\ IsFiniteSet({x}) /\ Range(<<x>>) \subseteq Blocks /\ x \in Nat
<1>1. Range(<<x>>) \subseteq Blocks
  BY DEF Range
<1>2. IsFiniteSet({x})
  BY FS_Singleton
<1> QED BY <1>1, <1>2 DEF Blocks

LEMMA ConditionStarts ==
  ASSUME NEW g, NEW S, NEW T, On(g, S, T), NEW x \in Blocks, x \notin g.taken
  PROVE  LET h == StartCondition(g, x)
         IN /\ On(h, S, T) /\ Goes(h, g, 1) /\ h.b.at = x /\ h.type = g.type
            /\ x \in h.taken /\ From(h, x, 0)
<1> DEFINE h == StartBlock(Terminate(Take(g, {x}), <<x>>), x)
<1>1. {x} \in SUBSET Nat /\ IsFiniteSet({x}) /\ Range(<<x>>) \subseteq Blocks /\ x \in Nat
  BY OneTarget
<1>2. StartCondition(g, x) = h
  BY DEF StartCondition
<1>3. /\ On(h, S, T) /\ h.b.at = x /\ h.taken = g.taken \cup {x} /\ h.type = g.type
      /\ h.edges = Recorded(g.edges, g.b.at, <<x>>) /\ h.code = g.code
  BY <1>1, BranchOn
<1> HIDE DEF h
<1>4. Goes(h, g, 1)
  BY <1>1, <1>3, JumpGoes
<1>5. From(h, x, 0)
  BY <1>1, <1>3, LeadNone DEF From
<1> QED BY <1>2, <1>3, <1>4, <1>5

LEMMA MoveOn ==
  ASSUME NEW g, NEW S, NEW T, On(g, S, T)
  PROVE  /\ On(Move(g), S, T) /\ Goes(Move(g), g, 1) /\ Move(g).type = g.type
         /\ g.taken \subseteq Move(g).taken
<1> DEFINE x == NewBlock(g, 1)
           h == StartBlock(Terminate(Take(g, {x}), <<x>>), x)
<1>1. x \in Blocks /\ x \notin g.taken
  BY NewOn
<1>2. Move(g) = h
  BY DEF Move
<1> HIDE DEF x
<1>3. {x} \in SUBSET Nat /\ IsFiniteSet({x}) /\ Range(<<x>>) \subseteq Blocks /\ x \in Nat
  BY <1>1, OneTarget
<1>4. /\ On(h, S, T) /\ h.b.at = x /\ h.taken = g.taken \cup {x} /\ h.type = g.type
      /\ h.edges = Recorded(g.edges, g.b.at, <<x>>) /\ h.code = g.code
  BY <1>1, <1>3, BranchOn
<1> HIDE DEF h
<1>5. Goes(h, g, 1)
  BY <1>3, <1>4, JumpGoes
<1> QED BY <1>2, <1>4, <1>5

\* What the operators of a step give: at most one branch.
Passes(h, g, S, T) == On(h, S, T) /\ Goes(h, g, 1) /\ g.taken \subseteq h.taken

LEMMA KeepsPasses ==
  ASSUME NEW g, NEW S, NEW T, On(g, S, T), NEW h, KeepsFlow(h, g)
  PROVE  Passes(h, g, S, T)
<1>1. On(h, S, T) /\ Goes(h, g, 0) /\ g.taken = h.taken
  BY KeepsOn DEF KeepsFlow
<1>2. Goes(h, g, 1)
  BY <1>1, GoesMore
<1> QED BY <1>1, <1>2 DEF Passes

LEMMA PassesKeeps ==
  ASSUME NEW g, NEW S, NEW T, NEW h, Passes(h, g, S, T), NEW i, KeepsFlow(i, h)
  PROVE  Passes(i, g, S, T)
<1>1. On(i, S, T) /\ Goes(i, h, 0) /\ i.taken = h.taken
  BY KeepsOn DEF KeepsFlow, Passes
<1>2. Goes(i, g, 1 + 0)
  BY <1>1, GoesOn DEF Passes
<1> QED BY <1>1, <1>2 DEF Passes

LEMMA KeepsThenPasses ==
  ASSUME NEW g, NEW S, NEW T, On(g, S, T), NEW h, KeepsFlow(h, g), NEW i, Passes(i, h, S, T)
  PROVE  Passes(i, g, S, T)
<1>1. On(h, S, T) /\ Goes(h, g, 0) /\ g.taken = h.taken
  BY KeepsOn DEF KeepsFlow
<1>2. Goes(i, g, 0 + 1)
  BY <1>1, GoesOn DEF Passes
<1> QED BY <1>1, <1>2 DEF Passes

LEMMA EvalPasses ==
  ASSUME NEW g, NEW S, NEW T, On(g, S, T), NEW xs
  PROVE  /\ Passes(Eval(g, xs), g, S, T)
         /\ Eval(g, xs).type = IF xs = <<>> THEN "void" ELSE codegenExpr[xs[1]].type
<1>0. Sound(g) /\ g.b.at \in Blocks
  BY OnSound
<1>1. CASE xs = <<>>
  <2> DEFINE h == [g EXCEPT !.type = "void"]
  <2>1. Eval(g, xs) = h
    BY <1>1 DEF Eval
  <2>2. KeepsFlow(h, g) /\ h.type = "void"
    BY <1>0, SmallSteps DEF Sound, GenFields
  <2> HIDE DEF h
  <2> QED BY <1>1, <2>1, <2>2, KeepsPasses
<1>2. CASE xs # <<>>
  <2> DEFINE v == codegenExpr[xs[1]]
             l == Load(g, v)
  <2>1. Eval(g, xs) = IF v.moves THEN Move(l) ELSE l
    BY <1>2 DEF Eval, Value
  <2> HIDE DEF v
  <2>2. KeepsFlow(l, g) /\ l.type = v.type
    BY <1>0, LoadKeeps
  <2> HIDE DEF l
  <2>3. On(l, S, T) /\ Passes(l, g, S, T)
    BY <2>2, KeepsPasses DEF Passes
  <2>4. Passes(Move(l), l, S, T) /\ Move(l).type = l.type
    BY <2>3, MoveOn DEF Passes
  <2>5. Passes(Move(l), g, S, T)
    BY <2>2, <2>4, KeepsThenPasses
  <2>6. Passes(Eval(g, xs), g, S, T) /\ Eval(g, xs).type = v.type
    BY <2>1, <2>2, <2>3, <2>4, <2>5
  <2> QED BY <1>2, <2>6 DEF v
<1> QED BY <1>1, <1>2

LEMMA PassesSound ==
  ASSUME NEW g, NEW h, NEW S, NEW T, Passes(h, g, S, T)
  PROVE  On(h, S, T) /\ Sound(h) /\ h.b.at \in Blocks
BY OnSound DEF Passes

LEMMA ConditionPasses ==
  ASSUME NEW g, NEW S, NEW T, On(g, S, T), NEW xs
  PROVE  /\ Passes(Condition(g, xs), g, S, T)
         /\ Condition(g, xs).type = IF xs = <<>> THEN "void" ELSE codegenExpr[xs[1]].type
<1> DEFINE e == Eval(g, xs)
           w == xs # <<>> /\ e.type \in {"ptr", "void"}
<1>1. Condition(g, xs) = Abort(e, w)
  BY DEF Condition, CompareWithZero
<1>2. Passes(e, g, S, T) /\ e.type = IF xs = <<>> THEN "void" ELSE codegenExpr[xs[1]].type
  BY EvalPasses
<1> HIDE DEF e, w
<1>3. Sound(e) /\ e.b.at \in Blocks
  BY <1>2, PassesSound
<1>4. KeepsFlow(Abort(e, w), e) /\ Abort(e, w).type = e.type
  BY <1>3, SmallSteps DEF Abort, Sound, GenFields
<1> QED BY <1>1, <1>2, <1>4, PassesKeeps

LEMMA SimplePasses ==
  ASSUME NEW g, NEW S, NEW T, On(g, S, T), NEW n, n.kind \in SimpleKinds
  PROVE  Passes(codegenSimple(g, n), g, S, T)
<1>0. Sound(g) /\ g.b.at \in Blocks
  BY OnSound
<1>1. CASE n.kind = "decl"
  <2> DEFINE e == Emit(g)
             r == registerVariable(e, n.name)
             v == Eval(r, n.expr)
             w == n.expr # <<>> /\ v.type = "void"
  <2>1. codegenSimple(g, n) = IF n.name \in Last(g.declared) THEN g ELSE Reject(v, w)
    BY <1>1 DEF codegenSimple, codegenVarDeclaration, CreateStore
  <2>2. KeepsFlow(e, g) /\ Sound(e) /\ e.b.at \in Blocks
    BY <1>0, EmitKeeps, KeepsSound
  <2> HIDE DEF e
  <2>3. KeepsFlow(r, e)
    BY <2>2, SmallSteps
  <2> HIDE DEF r
  <2>4. KeepsFlow(r, g)
    BY <2>2, <2>3, KeepsTrans
  <2>5. On(r, S, T)
    BY <2>4, KeepsOn
  <2>6. Passes(v, r, S, T)
    BY <2>5, EvalPasses
  <2> HIDE DEF v, w
  <2>7. Passes(v, g, S, T) /\ Sound(v) /\ v.b.at \in Blocks
    BY <2>4, <2>6, KeepsThenPasses, PassesSound
  <2>8. KeepsFlow(Reject(v, w), v)
    BY <2>7, SmallSteps
  <2>9. Passes(Reject(v, w), g, S, T)
    BY <2>7, <2>8, PassesKeeps
  <2>10. KeepsFlow(g, g)
    BY <1>0 DEF KeepsFlow, Sound
  <2>11. Passes(g, g, S, T)
    BY <2>10, KeepsPasses
  <2> QED BY <2>1, <2>9, <2>11
<1>2. CASE n.kind = "assign"
  <2> DEFINE a == Access(g, {n.name})
             v == Eval(a, <<n.expr>>)
             b == Abort(v, ~HasValue(v))
             w == <<n.expr>> # <<>> /\ b.type = "void"
  <2>1. codegenSimple(g, n) = Reject(b, w)
    BY <1>2 DEF codegenSimple, codegenAssignment, Assigned, CreateStore
  <2>2. KeepsFlow(a, g)
    BY <1>0, AccessKeeps
  <2> HIDE DEF a
  <2>3. On(a, S, T)
    BY <2>2, KeepsOn
  <2>4. Passes(v, a, S, T)
    BY <2>3, EvalPasses
  <2> HIDE DEF v
  <2>5. Passes(v, g, S, T) /\ Sound(v) /\ v.b.at \in Blocks
    BY <2>2, <2>4, KeepsThenPasses, PassesSound
  <2>6. KeepsFlow(b, v)
    BY <2>5, SmallSteps
  <2> HIDE DEF b, w
  <2>7. Passes(b, g, S, T) /\ Sound(b) /\ b.b.at \in Blocks
    BY <2>5, <2>6, PassesKeeps, PassesSound
  <2>8. KeepsFlow(Reject(b, w), b)
    BY <2>7, SmallSteps
  <2> QED BY <2>1, <2>7, <2>8, PassesKeeps
<1>3. CASE n.kind = "expr"
  <2>1. codegenSimple(g, n) = Eval(g, <<n.expr>>)
    BY <1>3 DEF codegenSimple
  <2> QED BY <2>1, EvalPasses
<1> QED BY <1>1, <1>2, <1>3 DEF SimpleKinds

LEMMA OptionalPasses ==
  ASSUME NEW g, NEW S, NEW T, On(g, S, T), NEW ns, ns # <<>> => ns[1].kind \in SimpleKinds
  PROVE  Passes(codegenOptional(g, ns), g, S, T)
<1>1. CASE ns = <<>>
  <2>1. KeepsFlow(g, g)
    BY OnSound DEF KeepsFlow, Sound
  <2> QED BY <1>1, <2>1, KeepsPasses DEF codegenOptional
<1>2. CASE ns # <<>>
  BY <1>2, SimplePasses DEF codegenOptional
<1> QED BY <1>1, <1>2

\* Where the way leads at the end of a step.
LEMMA FollowHere ==
  ASSUME NEW g, NEW S, NEW T, On(g, S, T), NEW p, From(g, p, 3), NEW o
  PROVE  Follow(g.edges, p, o) = g.b.at
<1>1. PICK k \in 0 .. 3 : Lead(g.edges, p, g.b.at, k)
  BY DEF From
<1>2. g.b.at \notin DOMAIN g.edges
  BY DEF On
<1> QED BY <1>1, <1>2, FollowEnds

\* A terminator with these targets leads to x when the outcome is o.
LeadsTo(targets, o, x) ==
  \/ targets = <<>> /\ x = 0
  \/ targets = <<x>>
  \/ Len(targets) = 2 /\ targets # <<>> /\ x = targets[o]

LEMMA FollowOn ==
  ASSUME NEW g, NEW S, NEW T, On(g, S, T), NEW p, From(g, p, 3), NEW targets, NEW o, NEW x,
         x \notin DOMAIN g.edges, x # g.b.at, LeadsTo(targets, o, x)
  PROVE  Follow(Recorded(g.edges, g.b.at, targets), p, o) = x
<1> DEFINE q == g.b.at
           more == Recorded(g.edges, q, targets)
<1>1. PICK k \in 0 .. 3 : Lead(g.edges, p, q, k)
  BY DEF From
<1>2. q \notin DOMAIN g.edges
  BY DEF On
<1>3. Lead(more, p, q, k)
  BY <1>1, <1>2, LeadKept
<1>4. DOMAIN more = DOMAIN g.edges \cup {q} /\ more[q] = targets
  BY DEF Recorded
<1>5. x \notin DOMAIN more
  BY <1>4
<1> HIDE DEF more, q
<1>6. Successor(more, q, o) = x
  <2>1. <<x>> # <<>> /\ Len(<<x>>) = 1 /\ <<x>>[1] = x /\ Len(<<>>) = 0
    OBVIOUS
  <2>2. CASE targets = <<>> /\ x = 0
    BY <1>4, <2>1, <2>2 DEF Successor
  <2>3. CASE targets = <<x>>
    BY <1>4, <2>1, <2>3 DEF Successor
  <2>4. CASE Len(targets) = 2 /\ targets # <<>> /\ x = targets[o]
    BY <1>4, <2>4 DEF Successor
  <2> QED BY <2>2, <2>3, <2>4 DEF LeadsTo
<1>7. Follow(more, p, o) = x
  BY <1>1, <1>3, <1>5, <1>6, FollowLead
<1> QED BY <1>7 DEF more, q

\* The code is on the way.
LEMMA CodeVisited ==
  ASSUME NEW g, NEW S, NEW T, On(g, S, T), NEW p, Through(g, p, 3), g.code # {}, NEW edges,
         edges = g.edges \/ \E targets : edges = Recorded(g.edges, g.b.at, targets)
  PROVE  Visited(edges, p) \cap g.code # {}
<1>1. PICK c \in g.code : \E i \in 0 .. 3 : Lead(g.edges, p, c, i)
  BY DEF Through
<1>2. PICK i \in 0 .. 3 : Lead(g.edges, p, c, i)
  BY <1>1
<1>3. g.b.at \notin DOMAIN g.edges
  BY DEF On
<1>4. Lead(edges, p, c, i)
  <2>1. CASE edges = g.edges
    BY <1>2, <2>1
  <2>2. CASE \E targets : edges = Recorded(g.edges, g.b.at, targets)
    <3>1. PICK targets : edges = Recorded(g.edges, g.b.at, targets)
      BY <2>2
    <3>2. Lead(Recorded(g.edges, g.b.at, targets), p, c, i)
      BY <1>2, <1>3, LeadKept
    <3> QED BY <3>1, <3>2
  <2> QED BY <2>1, <2>2
<1>5. c \in Visited(edges, p)
  BY <1>4, VisitedLead
<1> QED BY <1>1, <1>5

--------------------------------------------------------------------------------
(***************************************************************************)
(* Where control waits.                                                    *)
(***************************************************************************)
LEMMA StatusKinds ==
  /\ Run!Statuses = {"live", "skipped", "broke", "continued", "returned"}
  /\ LoopKinds = {"while", "for"} /\ CompoundKinds = {"while", "for", "block", "if"}
BY DEF Run!Statuses, LoopKinds, CompoundKinds

\* Control is in a block of an open statement, or has returned.
Held(fr, p, k) == p = 0 \/ \E i \in 1 .. k : ~fr[i].skip /\ p \in Own(fr[i])

LEMMA JumpHeld ==
  ASSUME NEW fr, NEW p, NEW s \in {"returned", "broke", "continued"}, NEW k \in Nat,
         \A i \in 1 .. k : FrameOK(fr[i]), WaitsFor(fr, p, s, k)
  PROVE  Held(fr, p, k)
<1>1. CASE s = "returned"
  BY <1>1 DEF WaitsFor, Held
<1>2. CASE s \in {"broke", "continued"}
  <2>1. PICK i \in 1 .. k : IsInnermost(fr, i, k) /\ ~fr[i].skip /\ p = JumpTarget(fr[i], s)
    BY <1>2 DEF WaitsFor
  <2>2. FrameOK(fr[i]) /\ fr[i].kind \in LoopKinds
    BY <2>1 DEF IsInnermost
  <2>3. p \in Own(fr[i])
    BY <2>1, <2>2 DEF FrameOK, JumpTarget, Own
  <2> QED BY <2>1, <2>3 DEF Held
<1> QED BY <1>1, <1>2

LEMMA WaitsHeld ==
  ASSUME NEW fr, NEW p, NEW s \in Run!Statuses, s # "live", NEW k \in Nat,
         \A i \in 1 .. k : FrameOK(fr[i]) /\ Parks(fr, p, i), WaitsFor(fr, p, s, k)
  PROVE  Held(fr, p, k)
<1>1. CASE s \in {"returned", "broke", "continued"}
  BY <1>1, JumpHeld
<1>2. CASE s = "skipped"
  <2>1. PICK i \in 1 .. k : fr[i].kind # "func" /\ fr[i].parked \notin {"none", "skipped"}
    BY <1>2 DEF WaitsFor
  <2>2. FrameOK(fr[i]) /\ Parks(fr, p, i)
    OBVIOUS
  <2>3. CASE fr[i].parked = "live"
    <3>1. ~fr[i].skip /\ p = Untaken(fr[i])
      BY <2>1, <2>2, <2>3 DEF Parks
    <3>2. fr[i].kind \in LoopKinds \cup {"if"}
      BY <2>1, <2>2, <2>3, StatusKinds DEF FrameOK
    <3>3. p \in Own(fr[i])
      BY <2>2, <3>1, <3>2 DEF FrameOK, Untaken, Own
    <3> QED BY <3>1, <3>3 DEF Held
  <2>4. CASE fr[i].parked # "live"
    <3>1. fr[i].parked \in {"returned", "broke", "continued"}
      BY <2>1, <2>2, <2>4, StatusKinds DEF FrameOK
    <3>2. WaitsFor(fr, p, fr[i].parked, i - 1)
      BY <2>1, <2>2, <2>4, <3>1 DEF Parks
    <3>3. i - 1 \in Nat /\ 1 .. i - 1 \subseteq 1 .. k
      OBVIOUS
    <3>4. Held(fr, p, i - 1)
      BY <3>1, <3>2, <3>3, JumpHeld
    <3> QED BY <3>3, <3>4 DEF Held
  <2> QED BY <2>3, <2>4
<1> QED BY <1>1, <1>2, StatusKinds

\* ... and so not at the insertion point.
LEMMA HeldAway ==
  ASSUME NEW fr, NEW n \in Nat, NEW open, Apart(fr, n, open), 0 \notin open, NEW p,
         NEW k \in 0 .. n, Held(fr, p, k)
  PROVE  p \notin open
<1>1. 1 .. k \subseteq 1 .. n
  OBVIOUS
<1> QED BY <1>1 DEF Held, Apart

\* A run is parked nowhere unless control waits.
LEMMA Unparked ==
  ASSUME NEW fr, NEW p, NEW k \in Nat, \A i \in 1 .. k : FrameOK(fr[i]) /\ Parks(fr, p, i),
         ~Held(fr, p, k), NEW i \in 1 .. k, fr[i].kind # "func"
  PROVE  fr[i].parked = "none"
<1>1. Parks(fr, p, i) /\ FrameOK(fr[i])
  OBVIOUS
<1>2. CASE fr[i].parked = "live"
  <2>1. ~fr[i].skip /\ p = Untaken(fr[i])
    BY <1>1, <1>2 DEF Parks
  <2>2. fr[i].kind \in LoopKinds \cup {"if"}
    BY <1>1, <1>2, StatusKinds DEF FrameOK
  <2>3. p \in Own(fr[i])
    BY <1>1, <2>1, <2>2 DEF FrameOK, Untaken, Own
  <2> QED BY <2>1, <2>3 DEF Held
<1>3. CASE fr[i].parked \notin {"none", "live"}
  <2>1. WaitsFor(fr, p, fr[i].parked, i - 1) /\ fr[i].parked \in Run!Statuses
    BY <1>1, <1>3 DEF Parks, FrameOK
  <2>2. i - 1 \in Nat /\ 1 .. i - 1 \subseteq 1 .. k
    OBVIOUS
  <2>3. Held(fr, p, i - 1)
    BY <1>3, <2>1, <2>2, WaitsHeld
  <2> QED BY <2>2, <2>3 DEF Held
<1> QED BY <1>2, <1>3

LEMMA LiveNotHeld ==
  ASSUME NEW fr, NEW n \in Nat, NEW open, Apart(fr, n, open), 0 \notin open,
         NEW p, NEW at, Agrees(fr, n, p, "live", at, open), NEW k \in 0 .. n
  PROVE  ~Held(fr, p, k)
<1>1. p \in open
  BY DEF Agrees
<1> QED BY <1>1, HeldAway

\* The first k open statements are the same.
Same(fr2, fr, k) == \A i \in 1 .. k : fr2[i] = fr[i]

LEMMA WaitsSame ==
  ASSUME NEW fr, NEW fr2, NEW k \in Nat, Same(fr2, fr, k), NEW p, NEW s, WaitsFor(fr, p, s, k)
  PROVE  WaitsFor(fr2, p, s, k)
<1>1. ASSUME NEW i, IsInnermost(fr, i, k) PROVE IsInnermost(fr2, i, k)
  BY <1>1 DEF IsInnermost, Same
<1> QED BY <1>1 DEF WaitsFor, Same

LEMMA ParksSame ==
  ASSUME NEW fr, NEW fr2, NEW k \in Nat, Same(fr2, fr, k), NEW p, NEW i \in 1 .. k,
         Parks(fr, p, i)
  PROVE  Parks(fr2, p, i)
<1>1. i - 1 \in Nat /\ Same(fr2, fr, i - 1)
  BY DEF Same
<1>2. fr2[i] = fr[i]
  BY DEF Same
<1> QED BY <1>1, <1>2, WaitsSame DEF Parks

\* Where runs are parked does not change while control waits.
LEMMA ParksKept ==
  ASSUME NEW fr, NEW k \in Nat, NEW p, \A i \in 1 .. k : FrameOK(fr[i]) /\ Parks(fr, p, i),
         NEW q, q = p \/ ~Held(fr, p, k), NEW fr2, Same(fr2, fr, k), NEW i \in 1 .. k
  PROVE  Parks(fr2, q, i)
<1>1. CASE q = p
  <2>1. Parks(fr, p, i)
    OBVIOUS
  <2> QED BY <1>1, <2>1, ParksSame
<1>2. CASE ~Held(fr, p, k)
  <2>1. fr2[i] = fr[i]
    BY DEF Same
  <2>2. fr[i].kind # "func" => fr[i].parked = "none"
    BY <1>2, Unparked
  <2> QED BY <2>1, <2>2 DEF Parks
<1> QED BY <1>1, <1>2

LEMMA RunKept ==
  ASSUME NEW fr, NEW n \in Nat, NEW open, Apart(fr, n, open), 0 \notin open, NEW p, NEW s, NEW at,
         Agrees(fr, n, p, s, at, open), NEW q, q = p \/ s = "live",
         NEW k \in 0 .. n, NEW fr2, Same(fr2, fr, k)
  PROVE  \A i \in 1 .. k : Parks(fr2, q, i)
<1>1. k \in Nat /\ \A i \in 1 .. k : FrameOK(fr[i]) /\ Parks(fr, p, i)
  BY DEF Apart, Agrees
<1>2. q = p \/ ~Held(fr, p, k)
  BY LiveNotHeld
<1> QED BY <1>1, <1>2, ParksKept

LEMMA WaitsMore ==
  ASSUME NEW fr, NEW n \in Nat, NEW p, NEW s, WaitsFor(fr, p, s, n),
         fr[n + 1].kind \notin LoopKinds
  PROVE  WaitsFor(fr, p, s, n + 1)
<1>1. ASSUME NEW i, IsInnermost(fr, i, n) PROVE IsInnermost(fr, i, n + 1)
  <2>1. i \in 1 .. n + 1 /\ \A j \in i + 1 .. n + 1 : j \in i + 1 .. n \/ j = n + 1
    BY <1>1 DEF IsInnermost
  <2> QED BY <1>1, <2>1 DEF IsInnermost
<1>2. 1 .. n \subseteq 1 .. n + 1
  OBVIOUS
<1> QED BY <1>1, <1>2 DEF WaitsFor

\* A block is opened.
LEMMA BlockOpened ==
  ASSUME NEW fr, NEW n \in Nat, NEW open, Apart(fr, n, open), 0 \notin open, NEW p, NEW s, NEW at,
         Agrees(fr, n, p, s, at, open),
         NEW fr2, Same(fr2, fr, n), fr2[n + 1].kind = "block", fr2[n + 1].parked = "none",
         NEW q, NEW at2, NEW open2, s = "live" => q = at2 /\ at2 \in open2,
         s # "live" => q = p /\ q \notin open2
  PROVE  Agrees(fr2, n + 1, q, s, at2, open2)
<1>1. \A i \in 1 .. n + 1 : i \in 1 .. n \/ i = n + 1
  OBVIOUS
<1>2. \A i \in 1 .. n : Parks(fr2, q, i)
  BY RunKept
<1>3. Parks(fr2, q, n + 1)
  BY DEF Parks
<1>4. WaitsFor(fr2, q, s, n + 1)
  <2>1. CASE s = "live"
    BY <2>1 DEF WaitsFor
  <2>2. CASE s # "live"
    <3>1. WaitsFor(fr2, p, s, n)
      BY WaitsSame DEF Agrees
    <3>2. fr2[n + 1].kind \notin LoopKinds
      BY DEF LoopKinds
    <3> QED BY <2>2, <3>1, <3>2, WaitsMore
  <2> QED BY <2>1, <2>2
<1> QED BY <1>1, <1>2, <1>3, <1>4 DEF Agrees

\* A branch or loop body is entered by the run.
LEMMA BranchTaken ==
  ASSUME NEW fr, NEW n \in Nat, NEW open, Apart(fr, n, open), 0 \notin open, NEW p, NEW at,
         Agrees(fr, n, p, "live", at, open),
         NEW fr2, Same(fr2, fr, n), fr2[n + 1].parked = "none",
         NEW at2, NEW open2, at2 \in open2
  PROVE  Agrees(fr2, n + 1, at2, "live", at2, open2)
<1>1. \A i \in 1 .. n + 1 : i \in 1 .. n \/ i = n + 1
  OBVIOUS
<1>2. \A i \in 1 .. n : Parks(fr2, at2, i)
  BY RunKept
<1>3. Parks(fr2, at2, n + 1)
  BY DEF Parks
<1> QED BY <1>1, <1>2, <1>3 DEF Agrees, WaitsFor

\* ... or passed by.
LEMMA BranchPassed ==
  ASSUME NEW fr, NEW n \in Nat, NEW open, Apart(fr, n, open), 0 \notin open, NEW p,
         NEW s \in Run!Statuses, NEW at, Agrees(fr, n, p, s, at, open),
         NEW fr2, Same(fr2, fr, n), fr2[n + 1].kind # "func", fr2[n + 1].parked = s,
         NEW q, NEW at2, NEW open2, q \notin open2,
         s = "live" => ~fr2[n + 1].skip /\ q = Untaken(fr2[n + 1]), s # "live" => q = p
  PROVE  Agrees(fr2, n + 1, q, "skipped", at2, open2)
<1>1. \A i \in 1 .. n + 1 : i \in 1 .. n \/ i = n + 1
  OBVIOUS
<1>2. \A i \in 1 .. n : Parks(fr2, q, i)
  BY RunKept
<1>3. s # "live" => WaitsFor(fr2, q, s, n)
  BY WaitsSame DEF Agrees
<1>4. Parks(fr2, q, n + 1)
  <2>1. (n + 1) - 1 = n
    OBVIOUS
  <2> QED BY <1>3, <2>1 DEF Parks
<1>5. WaitsFor(fr2, q, "skipped", n + 1)
  <2>1. CASE s = "skipped"
    <3>1. PICK i \in 1 .. n : fr2[i].kind # "func" /\ fr2[i].parked \notin {"none", "skipped"}
      BY <1>3, <2>1 DEF WaitsFor
    <3>2. i \in 1 .. n + 1
      OBVIOUS
    <3> QED BY <3>1, <3>2 DEF WaitsFor
  <2>2. CASE s # "skipped"
    <3>1. n + 1 \in 1 .. n + 1 /\ s # "none"
      BY StatusKinds
    <3> QED BY <2>2, <3>1 DEF WaitsFor
  <2> QED BY <2>1, <2>2
<1> QED BY <1>1, <1>2, <1>4, <1>5 DEF Agrees

\* A run that jumped in the body of a loop waits where that loop's jumps lead.
LEMMA JumpLands ==
  ASSUME NEW fr, NEW n \in Nat \ {0}, NEW p, NEW s \in {"broke", "continued"},
         WaitsFor(fr, p, s, n), fr[n].kind \in LoopKinds
  PROVE  ~fr[n].skip /\ p = JumpTarget(fr[n], s)
<1>1. ASSUME NEW i, IsInnermost(fr, i, n) PROVE i = n
  <2>1. CASE i # n
    <3>1. n \in i + 1 .. n
      BY <1>1, <2>1 DEF IsInnermost
    <3> QED BY <1>1, <3>1 DEF IsInnermost
  <2> QED BY <2>1
<1> QED BY <1>1 DEF WaitsFor

\* What a statement that ends says of a run that is not there.
LEMMA LastWaits ==
  ASSUME NEW fr, NEW n \in Nat \ {0}, NEW open, Apart(fr, n, open), NEW p,
         NEW s \in Run!Statuses, s # "live", NEW at, Agrees(fr, n, p, s, at, open),
         fr[n].kind # "func"
  PROVE  LET top == fr[n]
             jumped == top.kind \in LoopKinds /\ s \in {"broke", "continued"}
         IN /\ top.parked = "none" /\ ~jumped => WaitsFor(fr, p, s, n - 1)
            /\ top.parked = "none" /\ jumped => ~top.skip /\ p = JumpTarget(top, s)
            /\ top.parked = "live" =>
                 /\ top.kind \in LoopKinds \cup {"if"} /\ ~top.skip
                 /\ p = Untaken(top) /\ p \in Own(top)
            /\ top.parked \notin {"none", "live"} => WaitsFor(fr, p, top.parked, n - 1)
<1> DEFINE top == fr[n]
<1>1. n \in 1 .. n /\ Parks(fr, p, n) /\ WaitsFor(fr, p, s, n) /\ FrameOK(top)
  BY DEF Agrees, Apart
<1>2. top.parked \notin {"none", "live"} => WaitsFor(fr, p, top.parked, n - 1)
  BY <1>1 DEF Parks
<1>3. ASSUME top.parked = "live"
      PROVE  /\ top.kind \in LoopKinds \cup {"if"} /\ ~top.skip
             /\ p = Untaken(top) /\ p \in Own(top)
  <2>1. ~top.skip /\ p = Untaken(top)
    BY <1>1, <1>3 DEF Parks
  <2>2. top.kind \in LoopKinds \cup {"if"}
    BY <1>1, <1>3, StatusKinds DEF FrameOK
  <2>3. p \in Own(top)
    BY <1>1, <2>1, <2>2 DEF FrameOK, Untaken, Own
  <2> QED BY <2>1, <2>2, <2>3
<1>4. ASSUME NEW i, IsInnermost(fr, i, n), top.kind \notin LoopKinds
      PROVE  IsInnermost(fr, i, n - 1)
  <2>1. i # n
    BY <1>4 DEF IsInnermost
  <2>2. i \in 1 .. n - 1 /\ \A j \in i + 1 .. n - 1 : j \in i + 1 .. n
    BY <1>4, <2>1 DEF IsInnermost
  <2> QED BY <1>4, <2>2 DEF IsInnermost
<1>6. ASSUME top.parked = "none", top.kind \in LoopKinds, s \in {"broke", "continued"}
      PROVE  ~top.skip /\ p = JumpTarget(top, s)
  BY <1>1, <1>6, JumpLands
<1>7. ASSUME top.parked = "none", ~(top.kind \in LoopKinds /\ s \in {"broke", "continued"})
      PROVE  WaitsFor(fr, p, s, n - 1)
  <2>1. CASE s = "returned"
    BY <1>1, <2>1 DEF WaitsFor
  <2>2. CASE s \in {"broke", "continued"}
    <3>1. PICK i \in 1 .. n : IsInnermost(fr, i, n) /\ ~fr[i].skip /\ p = JumpTarget(fr[i], s)
      BY <1>1, <2>2 DEF WaitsFor
    <3>2. IsInnermost(fr, i, n - 1)
      BY <1>4, <1>7, <2>2, <3>1
    <3>3. i \in 1 .. n - 1
      BY <3>2 DEF IsInnermost
    <3> QED BY <2>2, <3>1, <3>2, <3>3 DEF WaitsFor
  <2>3. CASE s = "skipped"
    <3>1. PICK i \in 1 .. n : fr[i].kind # "func" /\ fr[i].parked \notin {"none", "skipped"}
      BY <1>1, <2>3 DEF WaitsFor
    <3>2. i # n
      BY <1>7, <3>1
    <3>3. i \in 1 .. n - 1
      BY <3>2
    <3> QED BY <2>3, <3>1, <3>3 DEF WaitsFor
  <2> QED BY <2>1, <2>2, <2>3, StatusKinds
<1> QED BY <1>2, <1>3, <1>6, <1>7

\* A statement ends.
LEMMA StatementEnded ==
  ASSUME NEW fr, NEW n \in Nat \ {0}, NEW open, Apart(fr, n, open), 0 \notin open, NEW p,
         NEW s \in Run!Statuses, NEW at, Agrees(fr, n, p, s, at, open), fr[n].kind # "func",
         NEW fr2, Same(fr2, fr, n - 1), NEW s2,
         s2 = IF fr[n].parked # "none" THEN fr[n].parked
              ELSE IF fr[n].kind \in LoopKinds /\ s \in {"broke", "continued"} THEN "live" ELSE s,
         NEW q, NEW at2, NEW open2, s2 = "live" => q = at2 /\ at2 \in open2,
         s2 # "live" => q = p /\ q \notin open2,
         q = p \/ s = "live" \/ p \in Own(fr[n])
  PROVE  Agrees(fr2, n - 1, q, s2, at2, open2)
<1>1. n - 1 \in Nat /\ n - 1 \in 0 .. n /\ n \in 1 .. n
  OBVIOUS
<1>2. \A i \in 1 .. n - 1 : FrameOK(fr[i]) /\ Parks(fr, p, i)
  BY DEF Apart, Agrees
<1>3. q = p \/ ~Held(fr, p, n - 1)
  <2>1. s = "live" => ~Held(fr, p, n - 1)
    BY <1>1, LiveNotHeld
  <2>2. ASSUME p \in Own(fr[n]) PROVE ~Held(fr, p, n - 1)
    <3>1. \A i \in 1 .. n - 1 : i \in 1 .. n /\ i # n
      OBVIOUS
    <3>2. p # 0
      BY <2>2 DEF Own
    <3> QED BY <1>1, <2>2, <3>1, <3>2 DEF Held, Apart
  <2> QED BY <2>1, <2>2
<1>4. \A i \in 1 .. n - 1 : Parks(fr2, q, i)
  BY <1>1, <1>2, <1>3, ParksKept
<1>5. CASE s2 = "live"
  BY <1>4, <1>5 DEF Agrees, WaitsFor
<1>6. CASE s2 # "live"
  <2>1. s # "live"
    <3>1. s = "live" => fr[n].parked = "none"
      <4>1. s = "live" => ~Held(fr, p, n)
        <5>1. n \in 0 .. n
          OBVIOUS
        <5> QED BY <5>1, LiveNotHeld
      <4>2. \A i \in 1 .. n : FrameOK(fr[i]) /\ Parks(fr, p, i)
        BY DEF Apart, Agrees
      <4> QED BY <1>1, <4>1, <4>2, Unparked
    <3> QED BY <1>6, <3>1
  <2>2. WaitsFor(fr, p, s2, n - 1)
    BY <1>6, <2>1, LastWaits
  <2>3. WaitsFor(fr2, p, s2, n - 1)
    BY <1>1, <2>2, WaitsSame
  <2> QED BY <1>4, <1>6, <2>3 DEF Agrees
<1> QED BY <1>5, <1>6

\* How the run of an if-statement, recorded in f, changes status where the then
\* branch ends; f2 is its record afterwards.
Turned(f2, s2, f, s) ==
  /\ f2.parked = IF f.parked = "none" THEN s ELSE "none"
  /\ s2 = IF f.parked = "none" THEN "skipped" ELSE f.parked

\* The run goes on after the then branch, or starts on the else branch.
LEMMA ElseTurned ==
  ASSUME NEW fr, NEW n \in Nat \ {0}, NEW open, Apart(fr, n, open), 0 \notin open, NEW p,
         NEW s \in Run!Statuses, NEW at, Agrees(fr, n, p, s, at, open), fr[n].kind = "if",
         NEW fr2, Same(fr2, fr, n - 1), fr2[n].kind = "if",
         NEW s2, Turned(fr2[n], s2, fr[n], s),
         NEW q, NEW at2, NEW open2, s2 = "live" => q = at2 /\ at2 \in open2,
         s2 # "live" => q \notin open2,
         s # "live" => q = p, s = "live" => ~fr2[n].skip /\ q = Untaken(fr2[n])
  PROVE  Agrees(fr2, n, q, s2, at2, open2)
<1>0. /\ fr2[n].parked = IF fr[n].parked = "none" THEN s ELSE "none"
      /\ s2 = IF fr[n].parked = "none" THEN "skipped" ELSE fr[n].parked
  BY DEF Turned
<1>1. n - 1 \in Nat /\ n - 1 \in 0 .. n /\ n \in 1 .. n /\ n \in 0 .. n /\ (n - 1) + 1 = n
      /\ \A i \in 1 .. n : i \in 1 .. n - 1 \/ i = n
  OBVIOUS
<1>2. \A i \in 1 .. n - 1 : Parks(fr2, q, i)
  BY <1>1, RunKept
<1>3. s = "live" => fr[n].parked = "none"
  <2>1. s = "live" => ~Held(fr, p, n)
    BY <1>1, LiveNotHeld
  <2>2. \A i \in 1 .. n : FrameOK(fr[i]) /\ Parks(fr, p, i)
    BY DEF Apart, Agrees
  <2> QED BY <1>1, <2>1, <2>2, Unparked
<1>4. fr[n].kind # "func" /\ fr[n].kind \notin LoopKinds /\ fr2[n].kind \notin LoopKinds
      /\ s # "none" /\ fr2[n].kind # "func"
  BY StatusKinds
<1>5. s # "live" =>
        /\ fr[n].parked = "none" => WaitsFor(fr2, q, s, n - 1)
        /\ fr[n].parked \notin {"none", "live"} => WaitsFor(fr2, q, fr[n].parked, n - 1)
  <2>1. ASSUME s # "live"
        PROVE  /\ fr[n].parked = "none" => WaitsFor(fr, p, s, n - 1)
               /\ fr[n].parked \notin {"none", "live"} => WaitsFor(fr, p, fr[n].parked, n - 1)
    BY <1>4, <2>1, LastWaits
  <2> QED BY <1>1, <2>1, WaitsSame
<1>6. Parks(fr2, q, n)
  BY <1>0, <1>4, <1>5 DEF Parks
<1>7. WaitsFor(fr2, q, s2, n)
  <2>1. CASE fr[n].parked = "none"
    <3>1. CASE s = "skipped"
      <4>1. PICK i \in 1 .. n - 1 : fr2[i].kind # "func" /\ fr2[i].parked \notin {"none", "skipped"}
        BY <1>0, <1>5, <2>1, <3>1 DEF WaitsFor
      <4>2. i \in 1 .. n
        OBVIOUS
      <4> QED BY <1>0, <2>1, <4>1, <4>2 DEF WaitsFor
    <3>2. CASE s # "skipped"
      BY <1>0, <1>1, <1>4, <2>1, <3>2 DEF WaitsFor
    <3> QED BY <3>1, <3>2
  <2>2. CASE fr[n].parked = "live"
    BY <1>0, <2>2 DEF WaitsFor
  <2>3. CASE fr[n].parked \notin {"none", "live"}
    <3>1. WaitsFor(fr2, q, s2, n - 1)
      BY <1>0, <1>3, <1>5, <2>3
    <3>2. fr2[(n - 1) + 1].kind \notin LoopKinds
      BY <1>1, <1>4
    <3>3. WaitsFor(fr2, q, s2, (n - 1) + 1)
      BY <1>1, <3>1, <3>2, WaitsMore
    <3> QED BY <1>1, <3>3
  <2> QED BY <2>1, <2>2, <2>3
<1>8. \A i \in 1 .. n : Parks(fr2, q, i)
  BY <1>1, <1>2, <1>6
<1> QED BY <1>7, <1>8 DEF Agrees

\* The path stays, and the run does.
LEMMA RunStays ==
  ASSUME NEW fr, NEW n \in Nat, NEW open, Apart(fr, n, open), 0 \notin open, NEW p, NEW s, NEW at,
         Agrees(fr, n, p, s, at, open), NEW fr2, Same(fr2, fr, n),
         NEW q, NEW at2, NEW open2, s = "live" => q = at2 /\ at2 \in open2,
         s # "live" => q = p /\ q \notin open2
  PROVE  Agrees(fr2, n, q, s, at2, open2)
<1>1. \A i \in 1 .. n : Parks(fr2, q, i)
  BY RunKept
<1>2. WaitsFor(fr2, q, s, n)
  <2>1. CASE s = "live"
    BY <2>1 DEF WaitsFor
  <2>2. CASE s # "live"
    BY <2>2, WaitsSame DEF Agrees
  <2> QED BY <2>1, <2>2
<1> QED BY <1>1, <1>2 DEF Agrees

\* ... or jumps.
LEMMA RunJumps ==
  ASSUME NEW fr, NEW n \in Nat, NEW open, Apart(fr, n, open), 0 \notin open, NEW p, NEW at,
         Agrees(fr, n, p, "live", at, open), NEW fr2, Same(fr2, fr, n),
         NEW s, s # "live", NEW q, WaitsFor(fr2, q, s, n), NEW at2, NEW open2, q \notin open2
  PROVE  Agrees(fr2, n, q, s, at2, open2)
<1>1. \A i \in 1 .. n : Parks(fr2, q, i)
  BY RunKept
<1> QED BY <1>1 DEF Agrees

--------------------------------------------------------------------------------
(***************************************************************************)
(* Statements left out, and the blocks of the open statements.             *)
(***************************************************************************)
\* A list of statements stops after a terminator.
StoppedAt(ls2, ls, path, b) ==
  /\ SameLocals(ls2, ls) /\ Len(ls) = Len(path)
  /\ \A i \in 1 .. Len(ls) :
       ls2[i].stopped <=> \/ ls[i].stopped
                          \/ /\ i = Len(ls) /\ path[i].node.kind = "block"
                             /\ ~ls[i].skip /\ HasTerminator(b)

LEMMA ChildDoneStops ==
  ASSUME NEW ls \in Seq(Locals), NEW b, NEW path, Len(path) = Len(ls),
         \A i \in 1 .. Len(ls) : path[i].node = cursor[i].node
  PROVE  StoppedAt(childDone(ls, b), ls, path, b)
<1>1. SameLocals(childDone(ls, b), ls)
  BY ChildDoneSame
<1>2. CASE ls = <<>>
  BY <1>1, <1>2 DEF StoppedAt
<1>3. CASE ls # <<>>
  <2> DEFINE top == ls[Len(ls)]
             stops == cursor[Len(ls)].node.kind = "block" /\ ~Last(ls).skip /\ HasTerminator(b)
             new == [top EXCEPT !.stopped = @ \/ stops]
  <2>1. top \in Locals /\ Len(ls) \in 1 .. Len(ls) /\ Last(ls) = top
    BY <1>3 DEF Last
  <2>2. new.stopped <=> top.stopped \/ stops
    BY <2>1 DEF Locals
  <2>3. childDone(ls, b) = [ls EXCEPT ![Len(ls)] = new]
    BY <1>3 DEF childDone
  <2>4. stops <=> path[Len(ls)].node.kind = "block" /\ ~top.skip /\ HasTerminator(b)
    BY <2>1
  <2> HIDE DEF new, stops
  <2>5. ASSUME NEW i \in 1 .. Len(ls)
        PROVE  childDone(ls, b)[i].stopped
                 <=> \/ ls[i].stopped
                     \/ /\ i = Len(ls) /\ path[i].node.kind = "block"
                        /\ ~ls[i].skip /\ HasTerminator(b)
    <3>1. CASE i = Len(ls)
      BY <2>2, <2>3, <2>4, <3>1
    <3>2. CASE i # Len(ls)
      BY <2>3, <3>2
    <3> QED BY <3>1, <3>2
  <2> QED BY <1>1, <2>5 DEF StoppedAt
<1> QED BY <1>2, <1>3

\* What is left out of the first statements of a path.
Halts(path, ls, b) ==
  \A i \in 1 .. Len(path) :
    /\ ls[i].skip \/ ls[i].stopped =>
         b.at \notin b.open /\ \A j \in i + 1 .. Len(path) : ls[j].skip
    /\ ls[i].stopped => path[i].node.kind = "block"
    /\ path[i].node.kind = "if" /\ path[i].slot \notin {"else", "done"} => ls[i].after = 0

LEMMA OrderlyAdvanced ==
  ASSUME NEW path, Walk(path), NEW ls, NEW b, ~b.mid, Halts(path, ls, b),
         NEW path2, Advanced(path2, path), NEW ls2, StoppedAt(ls2, ls, path, b), NEW st,
         path # <<>> => (path[1].node.kind = "func" <=> st = "functions"),
         path = <<>> /\ st = "functions" => b = Entry
  PROVE  Orderly(path2, ls2, b, st)
<1>1. /\ Len(path) \in Nat /\ Len(path2) = Len(path) /\ Len(ls) = Len(path)
      /\ path \in Seq(Entries) /\ path2 \in Seq(Entries)
      /\ \A i \in 1 .. Len(path) : path2[i].node = path[i].node
  BY DEF Walk, Advanced, SameNodes, StoppedAt
<1>2. ASSUME NEW i \in 1 .. Len(path)
      PROVE  /\ ls2[i].skip = ls[i].skip /\ ls2[i].after = ls[i].after
             /\ ls2[i].stopped
                  <=> \/ ls[i].stopped
                      \/ /\ i = Len(path) /\ path[i].node.kind = "block"
                         /\ ~ls[i].skip /\ HasTerminator(b)
  BY <1>1 DEF StoppedAt, SameLocals
<1>3. HasTerminator(b) <=> b.at \notin b.open
  BY DEF HasTerminator
<1>4. ASSUME NEW i \in 1 .. Len(path)
      PROVE  /\ ls2[i].skip \/ ls2[i].stopped =>
                  b.at \notin b.open /\ \A j \in i + 1 .. Len(path) : ls2[j].skip
             /\ ls2[i].stopped => path2[i].node.kind = "block"
  <2>1. \A j \in i + 1 .. Len(path) : j \in 1 .. Len(path) /\ ls2[j].skip = ls[j].skip
    BY <1>1, <1>2
  <2>2. i = Len(path) => i + 1 .. Len(path) = {}
    BY <1>1
  <2> QED BY <1>1, <1>2, <1>3, <2>1, <2>2 DEF Halts
<1>5. ASSUME NEW i \in 1 .. Len(path), path2[i].node.kind = "if",
             path2[i].slot \notin {"else", "done"}
      PROVE  ls2[i].after = 0
  <2>1. path[i].slot \notin {"else", "done"}
    BY <1>5 DEF Advanced, Filled
  <2> QED BY <1>1, <1>2, <1>5, <2>1 DEF Halts
<1>6. ASSUME path2 # <<>>, path2[Len(path)].slot \in Waiting, ~ls2[Len(path)].skip,
             ~ls2[Len(path)].stopped
      PROVE  b.at \in b.open
  <2>1. Len(path) \in 1 .. Len(path)
    BY <1>1, <1>6
  <2>2. path[Len(path)].slot = "list"
    BY <1>6, <2>1 DEF Advanced, Filled, Waiting
  <2>3. path[Len(path)].node.kind = "block"
    BY <2>1, <2>2 DEF Walk
  <2> QED BY <1>2, <1>3, <1>6, <2>1, <2>3
<1>7. (path2 = <<>> <=> path = <<>>) /\ (path # <<>> => path2[1].node = path[1].node)
  BY <1>1
<1> QED BY <1>1, <1>4, <1>5, <1>6, <1>7 DEF Orderly

LEMMA OrderlyHalts ==
  ASSUME NEW path, NEW ls, NEW b, NEW st, Orderly(path, ls, b, st)
  PROVE  Halts(path, ls, b) /\ ~b.mid
BY DEF Orderly, Halts

LEMMA OrderlyPushed ==
  ASSUME NEW path \in Seq(Entries), NEW ls \in Seq(Locals), Len(ls) = Len(path), NEW b, NEW st,
         Orderly(path, ls, b, st), NEW e \in Entries, NEW l \in Locals,
         ~l.stopped, e.node.kind = "if" => l.after = 0,
         path = <<>> => (e.node.kind = "func" <=> st = "functions"),
         NEW b2, ~b2.mid,
         IF l.skip THEN b2.at \notin b2.open ELSE b.at \in b.open /\ b2.at \in b2.open
  PROVE  Orderly(Append(path, e), Append(ls, l), b2, st)
<1> DEFINE n == Len(path)
           path2 == Append(path, e)
           ls2 == Append(ls, l)
<1>1. /\ n \in Nat /\ Len(path2) = n + 1 /\ path2[n + 1] = e /\ ls2[n + 1] = l
      /\ \A i \in 1 .. n : path2[i] = path[i] /\ ls2[i] = ls[i]
      /\ path2 # <<>> /\ (path # <<>> <=> n # 0)
  OBVIOUS
<1> HIDE DEF path2, ls2, n
<1>2. ASSUME NEW i \in 1 .. n + 1
      PROVE  /\ ls2[i].skip \/ ls2[i].stopped =>
                  b2.at \notin b2.open /\ \A j \in i + 1 .. n + 1 : ls2[j].skip
             /\ ls2[i].stopped => path2[i].node.kind = "block"
             /\ path2[i].node.kind = "if" /\ path2[i].slot \notin {"else", "done"}
                  => ls2[i].after = 0
  <2>1. CASE i = n + 1
    <3>1. i + 1 .. n + 1 = {}
      BY <1>1, <2>1
    <3> QED BY <1>1, <2>1, <3>1
  <2>2. CASE i \in 1 .. n
    <3>1. /\ ls[i].skip \/ ls[i].stopped =>
               b.at \notin b.open /\ \A j \in i + 1 .. n : ls[j].skip
          /\ ls[i].stopped => path[i].node.kind = "block"
          /\ path[i].node.kind = "if" /\ path[i].slot \notin {"else", "done"}
               => ls[i].after = 0
      BY <2>2 DEF Orderly, n
    <3>2. \A j \in i + 1 .. n + 1 : j = n + 1 \/ (j \in i + 1 .. n /\ j \in 1 .. n)
      BY <1>1, <2>2
    <3> QED BY <1>1, <2>2, <3>1, <3>2
  <2> QED BY <1>1, <2>1, <2>2
<1>3. path2[1].node.kind = "func" <=> st = "functions"
  <2>1. CASE n = 0
    BY <1>1, <2>1
  <2>2. CASE n # 0
    <3>1. 1 \in 1 .. n
      BY <1>1, <2>2
    <3> QED BY <1>1, <2>2, <3>1 DEF Orderly
  <2> QED BY <2>1, <2>2
<1> QED BY <1>1, <1>2, <1>3 DEF Orderly, path2, ls2

LEMMA OrderlyElse ==
  ASSUME NEW path \in Seq(Entries), path # <<>>, NEW ls, NEW b, NEW st, Orderly(path, ls, b, st),
         path[Len(path)].node.kind = "if",
         NEW path2 \in Seq(Entries), Len(path2) = Len(path),
         \A i \in 1 .. Len(path) :
           /\ path2[i].node = path[i].node
           /\ path2[i].slot = IF i = Len(path) THEN "else" ELSE path[i].slot,
         NEW ls2,
         \A i \in 1 .. Len(path) : ls2[i].skip = ls[i].skip /\ ls2[i].stopped = ls[i].stopped,
         \A i \in 1 .. Len(path) - 1 : ls2[i].after = ls[i].after,
         NEW b2, ~b2.mid,
         IF ls[Len(path)].skip THEN b2.at \notin b2.open ELSE b2.at \in b2.open
  PROVE  Orderly(path2, ls2, b2, st)
<1> DEFINE n == Len(path)
<1>1. n \in Nat \ {0} /\ n \in 1 .. n /\ 1 \in 1 .. n /\ Len(path2) = n /\ path2 # <<>>
  OBVIOUS
<1> HIDE DEF n
<1>2. ASSUME NEW i \in 1 .. n
      PROVE  /\ ls2[i].skip = ls[i].skip /\ ls2[i].stopped = ls[i].stopped
             /\ path2[i].node = path[i].node
             /\ path2[i].slot = IF i = n THEN "else" ELSE path[i].slot
             /\ i # n => ls2[i].after = ls[i].after
             /\ ls[i].skip \/ ls[i].stopped =>
                  b.at \notin b.open /\ \A j \in i + 1 .. n : ls[j].skip
             /\ ls[i].stopped => path[i].node.kind = "block"
             /\ path[i].node.kind = "if" /\ path[i].slot \notin {"else", "done"} => ls[i].after = 0
  <2>1. i # n => i \in 1 .. n - 1
    BY <1>1
  <2> QED BY <2>1 DEF Orderly, n
<1>3. ~ls[n].stopped
  BY <1>1, <1>2 DEF n
<1>4. ASSUME NEW i \in 1 .. n, ls[i].skip \/ ls[i].stopped PROVE ls[n].skip
  <2>1. i = n \/ n \in i + 1 .. n
    BY <1>1
  <2> QED BY <1>2, <1>3, <1>4, <2>1
<1>5. ASSUME NEW i \in 1 .. n
      PROVE  /\ ls2[i].skip \/ ls2[i].stopped =>
                  b2.at \notin b2.open /\ \A j \in i + 1 .. n : ls2[j].skip
             /\ ls2[i].stopped => path2[i].node.kind = "block"
             /\ path2[i].node.kind = "if" /\ path2[i].slot \notin {"else", "done"}
                  => ls2[i].after = 0
  <2>1. \A j \in i + 1 .. n : j \in 1 .. n
    BY <1>1
  <2>2. ls2[i].skip \/ ls2[i].stopped => b2.at \notin b2.open
    BY <1>2, <1>4 DEF n
  <2> QED BY <1>2, <2>1, <2>2
<1>6. path2[n].slot \in Waiting /\ ~ls2[n].skip /\ ~ls2[n].stopped => b2.at \in b2.open
  BY <1>1, <1>2 DEF n
<1>7. path2[1].node.kind = "func" <=> st = "functions"
  BY <1>1, <1>2 DEF Orderly
<1> QED BY <1>1, <1>5, <1>6, <1>7 DEF Orderly, n

\* The statements on the path keep their blocks.
LEMMA ApartKept ==
  ASSUME NEW fr, NEW n \in Nat, NEW open, Apart(fr, n, open), NEW k \in 0 .. n,
         NEW fr2, Same(fr2, fr, k), NEW open2, \A i \in 1 .. k : open2 \cap Own(fr[i]) = {}
  PROVE  Apart(fr2, k, open2)
<1>1. \A i \in 1 .. k : i \in 1 .. n /\ fr2[i] = fr[i]
  BY DEF Same
<1> QED BY <1>1 DEF Apart

\* One more statement, with blocks of its own.
LEMMA ApartMore ==
  ASSUME NEW fr, NEW n \in Nat, NEW open, Apart(fr, n, open),
         NEW fr2, Same(fr2, fr, n), NEW open2, \A i \in 1 .. n : open2 \cap Own(fr[i]) = {},
         FrameOK(fr2[n + 1]), open2 \cap Own(fr2[n + 1]) = {},
         \A i \in 1 .. n : Own(fr[i]) \cap Own(fr2[n + 1]) = {}
  PROVE  Apart(fr2, n + 1, open2)
<1>1. \A i \in 1 .. n + 1 : i = n + 1 \/ (i \in 1 .. n /\ fr2[i] = fr[i])
  BY DEF Same
<1> QED BY <1>1 DEF Apart

--------------------------------------------------------------------------------
(***************************************************************************)
(* The state between two steps.                                            *)
(***************************************************************************)
Now ==
  /\ GenInv /\ stage \in {"functions", "main"}
  /\ Walk(cursor) /\ cursor \in Seq(Entries) /\ Len(cursor) \in Nat
  /\ locals \in Seq(Locals) /\ Len(locals) = Len(cursor)
  /\ builder \in Builders /\ builder.open \subseteq {builder.at} /\ 0 \notin builder.open
  /\ FlowTypes
  /\ Orderly(cursor, locals, builder, stage)
  /\ Apart(Frames, Len(cursor), builder.open)
  /\ Agrees(Frames, Len(cursor), pc, status, builder.at, builder.open)
  /\ cursor = <<>> /\ stage = "functions" => status = "live"

LEMMA NowIs == ASSUME GenInv, EmitInv, Flowing PROVE Now
<1>1. /\ PathOK(locals, cursor) /\ BuilderOK(builder, AllDue(locals))
  BY GenInvIs
<1>2. /\ Walk(cursor) /\ cursor \in Seq(Entries) /\ Len(cursor) \in Nat
      /\ locals \in Seq(Locals) /\ Len(locals) = Len(cursor)
  BY <1>1 DEF PathOK, Walk
<1>3. builder \in Builders /\ builder.open \subseteq {builder.at} /\ 0 \notin builder.open
  BY <1>1 DEF BuilderOK, Builders, Blocks
<1> QED BY <1>2, <1>3 DEF Now, EmitInv, Flowing

LEMMA FrameIs ==
  ASSUME NEW i \in 1 .. Len(cursor)
  PROVE  /\ Frames[i].kind = cursor[i].node.kind /\ Frames[i].skip = locals[i].skip
         /\ Frames[i].other = locals[i].other /\ Frames[i].after = locals[i].after
         /\ Frames[i].again = locals[i].again /\ Frames[i].inc = locals[i].inc
         /\ Frames[i].parked = runs[i].parked /\ Frames[i].exit = exits[i]
BY DEF Frames, Frame

\* The names of the blocks of open statements are not given to new blocks.
LEMMA OwnTaken ==
  ASSUME Now, NEW i \in 1 .. Len(cursor)
  PROVE  Own(Frames[i]) \subseteq InUse
<1>1. Own(Frames[i]) \subseteq LocalBlocks(locals[i])
  BY FrameIs DEF Own, LocalBlocks
<1>2. i \in DOMAIN locals
  BY DEF Now
<1> QED BY <1>1, <1>2 DEF InUse, Referenced

LEMMA GenOn ==
  ASSUME Now, builder.at \in builder.open
  PROVE  /\ On(Gen, {builder.at}, InUse) /\ From(Gen, builder.at, 0)
         /\ Through(Gen, builder.at, 0) /\ Gen.b.at = builder.at /\ Gen.taken = InUse
<1>1. GenOK(Gen, AllDue(locals), Depth(locals, cursor))
  BY GenStarts DEF Now
<1>2. /\ DOMAIN Gen = GenFields /\ Gen.b \in Builders
      /\ Gen.taken \in SUBSET Nat /\ IsFiniteSet(Gen.taken) /\ Gen.b.at \in Gen.taken
      /\ Gen.b.open \subseteq {Gen.b.at}
  BY <1>1 DEF GenOK, BlocksOK
<1>3. /\ Gen.b.at = builder.at /\ Gen.b.open = builder.open /\ Gen.b.mid = builder.mid
      /\ Gen.taken = InUse /\ Gen.edges = <<>> /\ Gen.code = {}
  BY DEF Gen, GenWith, Now, Builders
<1>4. DOMAIN <<>> = {} /\ ~builder.mid
  BY DEF Now, Orderly
<1>5. On(Gen, {builder.at}, InUse)
  BY <1>2, <1>3, <1>4 DEF On
<1>6. builder.at \in Nat
  BY DEF Now, Builders, Blocks
<1>7. Lead(<<>>, builder.at, builder.at, 0)
  BY <1>6, LeadNone
<1>8. From(Gen, builder.at, 0)
  BY <1>3, <1>7 DEF From
<1> QED BY <1>3, <1>5, <1>8 DEF Through

\* A waiting control is not where the step adds branches and code.
LEMMA WaitsApart ==
  ASSUME Now, status # "live"
  PROVE  Held(Frames, pc, Len(cursor)) /\ pc \notin builder.open /\ pc \in InUse \cup {0}
<1>1. /\ Len(cursor) \in Nat /\ Apart(Frames, Len(cursor), builder.open) /\ 0 \notin builder.open
      /\ Agrees(Frames, Len(cursor), pc, status, builder.at, builder.open)
      /\ status \in Run!Statuses
  BY DEF Now, FlowTypes
<1>2. Held(Frames, pc, Len(cursor))
  BY <1>1, WaitsHeld DEF Agrees, Apart
<1>3. Len(cursor) \in 0 .. Len(cursor)
  BY <1>1
<1>4. pc \notin builder.open
  BY <1>1, <1>2, <1>3, HeldAway
<1> QED BY <1>2, <1>4, OwnTaken DEF Held

LEMMA WaitsElsewhere ==
  ASSUME Now, status # "live", builder.at \in builder.open,
         NEW g, On(g, {builder.at}, InUse)
  PROVE  /\ pc \notin DOMAIN g.edges /\ pc # g.b.at /\ pc \notin g.b.open
         /\ pc \in g.code => pc = 0
BY WaitsApart DEF On, Builders, Blocks

\* The blocks a step opens are new, or the one it has found open.
LEMMA OpenApart ==
  ASSUME Now, NEW open, open \subseteq {builder.at} \cup (Nat \ InUse),
         builder.at \in builder.open \/ builder.at \notin open, NEW i \in 1 .. Len(cursor)
  PROVE  open \cap Own(Frames[i]) = {}
<1>1. builder.at \in builder.open => builder.at \notin Own(Frames[i])
  BY DEF Now, Apart
<1> QED BY <1>1, OwnTaken

\* Code is generated at the end of an open block, and left out only after one.
LEMMA ActiveOpen ==
  ASSUME Now, Active, NEW n, Room(n)
  PROVE  builder.at \in builder.open
<1>1. CASE cursor = <<>>
  <2>1. stage = "main" /\ ~HasTerminator(builder)
    BY <1>1 DEF Active, Stopped, Now
  <2> QED BY <2>1 DEF HasTerminator
<1>2. CASE cursor # <<>>
  <2>1. cursor[Len(cursor)].slot \in Waiting
    BY <1>2, RoomWaits
  <2>2. ~locals[Len(cursor)].skip /\ ~locals[Len(cursor)].stopped
    BY <1>2 DEF Active, Stopped, Local, Last, Now
  <2> QED BY <1>2, <2>1, <2>2 DEF Now, Orderly
<1> QED BY <1>1, <1>2

LEMMA StoppedShut ==
  ASSUME Now, Stopped
  PROVE  builder.at \notin builder.open /\ status # "live"
<1>1. builder.at \notin builder.open
  <2>1. CASE cursor = <<>>
    <3>1. HasTerminator(builder) /\ ~builder.mid
      BY <2>1 DEF Stopped, Now, Orderly
    <3> QED BY <3>1 DEF HasTerminator
  <2>2. CASE cursor # <<>>
    <3>1. Len(cursor) \in 1 .. Len(cursor)
      BY <2>2 DEF Now
    <3>2. locals[Len(cursor)].skip \/ locals[Len(cursor)].stopped
      BY <2>2 DEF Stopped, Local, Last, Now
    <3> QED BY <3>1, <3>2 DEF Now, Orderly
  <2> QED BY <2>1, <2>2
<1> QED BY <1>1 DEF Now, Agrees

\* Locals with the same blocks.
SameLocal(l2, l) ==
  /\ l2.skip = l.skip /\ l2.other = l.other /\ l2.after = l.after
  /\ l2.again = l.again /\ l2.inc = l.inc

LEMMA FramesSame ==
  ASSUME NEW k \in Nat, k <= Len(cursor), k <= Len(cursor'),
         cursor \in Seq(Entries), cursor' \in Seq(Entries),
         \A i \in 1 .. k : /\ cursor'[i].node = cursor[i].node /\ SameLocal(locals'[i], locals[i])
                           /\ runs'[i].parked = runs[i].parked /\ exits'[i] = exits[i]
  PROVE  Same(Frames', Frames, k)
<1> SUFFICES ASSUME NEW i \in 1 .. k PROVE Frames'[i] = Frames[i]
  BY DEF Same
<1>1. i \in 1 .. Len(cursor) /\ i \in 1 .. Len(cursor')
  OBVIOUS
<1>2. Frames[i] = Frame(cursor[i], locals[i], runs[i], exits[i])
  BY <1>1 DEF Frames
<1>3. Frames'[i] = Frame(cursor'[i], locals'[i], runs'[i], exits'[i])
  BY <1>1 DEF Frames
<1> QED BY <1>2, <1>3 DEF Frame, SameLocal

--------------------------------------------------------------------------------
(***************************************************************************)
(* Statements without children.                                            *)
(***************************************************************************)
\* Nothing has been left out where the builder is at the end of an open block.
LEMMA OpenHalts ==
  ASSUME Now, builder.at \in builder.open, NEW b
  PROVE  Halts(cursor, locals, b) /\ \A i \in 1 .. Len(cursor) : ~locals[i].skip
BY DEF Now, Orderly, Halts

LEMMA LeafEnds ==
  ASSUME Now, NEW n, VisitLeaf(n), runs' = runs, exits' = exits, stage' = stage,
         StoppedAt(locals', locals, cursor, builder'),
         ~builder'.mid, Halts(cursor, locals, builder'), cursor = <<>> => stage # "functions",
         status' \in Run!Statuses, pc' \in Nat,
         builder'.open \subseteq {builder.at} \cup (Nat \ InUse),
         builder.at \in builder.open \/ builder.at \notin builder'.open,
         \A fr : Same(fr, Frames, Len(cursor))
                   => Agrees(fr, Len(cursor), pc', status', builder'.at, builder'.open)
  PROVE  EmitInv'
<1>1. /\ Walk(cursor) /\ cursor \in Seq(Entries) /\ Len(cursor) \in Nat
      /\ locals \in Seq(Locals) /\ Len(locals) = Len(cursor)
      /\ Apart(Frames, Len(cursor), builder.open)
  BY DEF Now
<1>2. Advanced(cursor', cursor)
  BY <1>1, AdvanceAdvances, RoomWaits DEF VisitLeaf
<1>3. /\ cursor' \in Seq(Entries) /\ Len(cursor') = Len(cursor)
      /\ \A i \in 1 .. Len(cursor) : cursor'[i].node = cursor[i].node
  BY <1>1, <1>2 DEF Advanced, SameNodes
<1>4. Same(Frames', Frames, Len(cursor))
  <2>1. \A i \in 1 .. Len(cursor) : SameLocal(locals'[i], locals[i])
    BY <1>1 DEF StoppedAt, SameLocals, SameLocal
  <2> QED BY <1>1, <1>3, <2>1, FramesSame
<1>5. \A i \in 1 .. Len(cursor) : builder'.open \cap Own(Frames[i]) = {}
  BY OpenApart
<1>6. Apart(Frames', Len(cursor'), builder'.open)
  <2>1. Len(cursor) \in 0 .. Len(cursor)
    BY <1>1
  <2> QED BY <1>1, <1>3, <1>4, <1>5, <2>1, ApartKept
<1>7. Agrees(Frames', Len(cursor'), pc', status', builder'.at, builder'.open)
  BY <1>3, <1>4
<1>8. Orderly(cursor', locals', builder', stage')
  <2>1. cursor # <<>> => (cursor[1].node.kind = "func" <=> stage = "functions")
    BY DEF Now, Orderly
  <2> QED BY <1>1, <1>2, <2>1, OrderlyAdvanced
<1>9. FlowTypes'
  BY <1>3 DEF Now, FlowTypes
<1>10. cursor' = <<>> => stage' # "functions"
  BY <1>1, <1>3
<1> QED BY <1>6, <1>7, <1>8, <1>9, <1>10 DEF EmitInv

\* The last entry of the loop stack is that of the innermost loop.
LEMMA LastLoop ==
  ASSUME Now, builder.at \in builder.open, loopStack # <<>>
  PROVE  \E i \in 1 .. Len(cursor) :
           /\ IsInnermost(Frames, i, Len(cursor)) /\ ~Frames[i].skip
           /\ Last(loopStack).breakBB = JumpTarget(Frames[i], "broke")
           /\ Last(loopStack).continueBB = JumpTarget(Frames[i], "continued")
<1> DEFINE n == Len(cursor)
           loops == GeneratedIn(locals, cursor, LoopKinds)
           i == Max(loops)
<1>1. n \in Nat /\ Len(locals) = n /\ StackOK(loopStack, locals, cursor)
  BY GenInvIs DEF Now
<1>2. loops \in SUBSET (1 .. n) /\ \A j \in 1 .. n : j \in loops <=> Frames[j].kind \in LoopKinds
  <2>1. \A j \in 1 .. n : ~locals[j].skip
    BY OpenHalts
  <2> QED BY <1>1, <2>1, FrameIs DEF GeneratedIn
<1>3. /\ loopStack \in Seq(LoopContexts) /\ Len(loopStack) = Cardinality(loops)
      /\ \A j \in loops : IsLoopOf(loopStack[Nth(loops, j)], locals[j], cursor[j])
  BY <1>1 DEF StackOK
<1> HIDE DEF loops
<1>4. loops # {}
  BY <1>3, FS_EmptySet
<1>5. i \in loops /\ \A j \in loops : j <= i
  BY <1>1, <1>2, <1>4, MaxOfPositions
<1> HIDE DEF i
<1>6. i \in 1 .. n
  BY <1>2, <1>5
<1>7. IsInnermost(Frames, i, n)
  <2>1. \A j \in i + 1 .. n : j \in 1 .. n /\ ~(j <= i)
    BY <1>1, <1>6
  <2>2. \A j \in i + 1 .. n : Frames[j].kind \notin LoopKinds
    BY <1>2, <1>5, <2>1
  <2> QED BY <1>2, <1>5, <1>6, <2>2 DEF IsInnermost
<1>8. Last(loopStack) = loopStack[Nth(loops, i)]
  <2>1. {j \in loops : j <= i} = loops
    BY <1>5
  <2> QED BY <1>3, <2>1 DEF Nth, Last
<1>9. IsLoopOf(Last(loopStack), locals[i], cursor[i])
  BY <1>3, <1>5, <1>8
<1>10. ~Frames[i].skip
  BY <1>6, OpenHalts, FrameIs
<1>11. /\ Last(loopStack).breakBB = Frames[i].after
       /\ Last(loopStack).continueBB = IF Frames[i].kind = "for" THEN Frames[i].inc
                                                                 ELSE Frames[i].again
  BY <1>6, <1>9, FrameIs DEF IsLoopOf
<1> QED BY <1>6, <1>7, <1>10, <1>11 DEF JumpTarget

\* A step that is not aborted puts the generator in the state it has made.
LEMMA PutFlows ==
  ASSUME NEW g, Put(g), Flowing'
  PROVE  /\ builder' = g.b /\ emitted'.edges = g.edges /\ emitted'.code = g.code
         /\ stage' = stage /\ Flowing
BY DEF Put, Flowing, Stages, Generating

\* What a step opens has a new name, or is where the builder was.
LEMMA OnOpens ==
  ASSUME Now, builder.at \in builder.open, NEW g, On(g, {builder.at}, InUse)
  PROVE  /\ g.b.at \in g.b.open /\ g.b.at \in Nat /\ ~g.b.mid
         /\ g.b.open \subseteq {builder.at} \cup (Nat \ InUse)
BY DEF On, Builders, Blocks

\* The run is at the end of the step's code if it was at the start.
LEMMA RunFlows ==
  ASSUME Now, builder.at \in builder.open, NEW g, On(g, {builder.at}, InUse),
         From(g, builder.at, 3), NEW o
  PROVE  /\ status = "live" => Follow(g.edges, pc, o) = g.b.at
         /\ status # "live" => Follow(g.edges, pc, o) = pc /\ pc \notin g.b.open
         /\ Follow(g.edges, pc, o) \in Nat
<1>1. pc \in Nat /\ (status = "live" => pc = builder.at)
  BY DEF Now, FlowTypes, Agrees
<1>2. CASE status = "live"
  <2>1. Follow(g.edges, pc, o) = g.b.at
    BY <1>1, <1>2, FollowHere
  <2> QED BY <1>2, <2>1, OnOpens
<1>3. CASE status # "live"
  BY <1>1, <1>3, WaitsElsewhere, FollowStays
<1> QED BY <1>2, <1>3

LEMMA PassesFrom ==
  ASSUME NEW g, NEW h, NEW S, NEW T, Passes(h, g, S, T), NEW p, NEW k \in Nat, From(g, p, k)
  PROVE  From(h, p, k + 1)
BY DEF Passes, Goes

LEMMA FromMore ==
  ASSUME NEW g, NEW p, NEW k \in Nat, NEW m \in Nat, k <= m, From(g, p, k)
  PROVE  From(g, p, m)
<1>1. 0 .. k \subseteq 0 .. m
  OBVIOUS
<1> QED BY <1>1 DEF From

LEMMA LeafStays ==
  ASSUME Now, NEW n, NEW g, GenLeaf(n, g), Passes(g, Gen, {builder.at}, InUse), Flowing',
         status' = status, runs' = runs, exits' = exits, Onwards(1)
  PROVE  EmitInv'
<1>1. /\ Active /\ VisitLeaf(n) /\ Put(g) /\ locals' = childDone(locals, g.b) /\ Room(n)
  BY DEF GenLeaf, VisitLeaf
<1>2. builder.at \in builder.open
  BY <1>1, ActiveOpen
<1>3. /\ builder' = g.b /\ emitted'.edges = g.edges /\ stage' = stage
  BY <1>1, PutFlows
<1>4. On(g, {builder.at}, InUse) /\ From(g, builder.at, 3)
  <2>1. From(Gen, builder.at, 0)
    BY <1>2, GenOn
  <2>2. From(g, builder.at, 0 + 1)
    BY <2>1, PassesFrom
  <2>3. 0 + 1 = 1 /\ 1 \in Nat /\ 3 \in Nat /\ 1 <= 3
    OBVIOUS
  <2> QED BY <2>2, <2>3, FromMore DEF Passes
<1>5. pc' = Follow(g.edges, pc, 1)
  BY <1>3 DEF Onwards
<1>6. /\ builder'.at \in builder'.open /\ ~builder'.mid
      /\ builder'.open \subseteq {builder.at} \cup (Nat \ InUse)
  BY <1>2, <1>3, <1>4, OnOpens
<1>7. /\ status = "live" => pc' = builder'.at
      /\ status # "live" => pc' = pc /\ pc' \notin builder'.open
      /\ pc' \in Nat
  <2>1. /\ status = "live" => Follow(g.edges, pc, 1) = g.b.at
        /\ status # "live" => Follow(g.edges, pc, 1) = pc /\ pc \notin g.b.open
        /\ Follow(g.edges, pc, 1) \in Nat
    BY <1>2, <1>4, RunFlows
  <2> QED BY <1>3, <1>5, <2>1
<1>8. StoppedAt(locals', locals, cursor, builder')
  BY <1>1, <1>3, ChildDoneStops DEF Now
<1>9. cursor = <<>> => stage # "functions"
  BY <1>1 DEF Active
<1>10. ASSUME NEW fr, Same(fr, Frames, Len(cursor))
       PROVE  Agrees(fr, Len(cursor), pc', status', builder'.at, builder'.open)
  <2>1. /\ Len(cursor) \in Nat /\ Apart(Frames, Len(cursor), builder.open) /\ 0 \notin builder.open
        /\ Agrees(Frames, Len(cursor), pc, status, builder.at, builder.open)
    BY DEF Now
  <2>2. /\ status = "live" => pc' = builder'.at /\ builder'.at \in builder'.open
        /\ status # "live" => pc' = pc /\ pc' \notin builder'.open
    BY <1>6, <1>7
  <2>3. Agrees(fr, Len(cursor), pc', status, builder'.at, builder'.open)
    BY <1>10, <2>1, <2>2, RunStays
  <2> QED BY <2>3
<1>11. status' \in Run!Statuses
  BY DEF Now, FlowTypes
<1>12. Halts(cursor, locals, builder')
  BY <1>2, OpenHalts
<1> QED BY <1>1, <1>2, <1>3, <1>6, <1>7, <1>8, <1>9, <1>10, <1>11, <1>12, LeafEnds

\* The terminator of a jump, h from g: it leads to x, where a run with status s
\* waits.
LEMMA LeafJumps ==
  ASSUME Now, NEW n, NEW h, GenLeaf(n, h), Flowing',
         NEW g, On(g, {builder.at}, InUse), From(g, builder.at, 3),
         NEW targets, h.edges = Recorded(g.edges, g.b.at, targets),
         h.b.open = {}, ~h.b.mid,
         NEW x \in Nat, (x = 0 /\ targets = <<>>) \/ (x \in InUse /\ targets = <<x>>),
         x # builder.at,
         NEW s \in Run!Statuses, s # "live", WaitsFor(Frames, x, s, Len(cursor)),
         status' = (IF status = "live" THEN s ELSE status), runs' = runs, exits' = exits, Onwards(1)
  PROVE  EmitInv'
<1>1. /\ Active /\ VisitLeaf(n) /\ Put(h) /\ locals' = childDone(locals, h.b) /\ Room(n)
  BY DEF GenLeaf, VisitLeaf
<1>2. builder.at \in builder.open
  BY <1>1, ActiveOpen
<1>3. /\ builder' = h.b /\ emitted'.edges = h.edges /\ stage' = stage
  BY <1>1, PutFlows
<1>4. pc' = Follow(h.edges, pc, 1)
  BY <1>3 DEF Onwards
<1>5. pc \in Nat /\ (status = "live" => pc = builder.at)
  BY DEF Now, FlowTypes, Agrees
<1>6. status = "live" => pc' = x
  <2>1. x \notin DOMAIN g.edges /\ x # g.b.at
    BY DEF On, Builders, Blocks
  <2>2. LeadsTo(targets, 1, x)
    BY DEF LeadsTo
  <2>3. Follow(Recorded(g.edges, g.b.at, targets), builder.at, 1) = x
    BY <2>1, <2>2, FollowOn
  <2> QED BY <1>4, <1>5, <2>3
<1>7. status # "live" => pc' = pc
  <2>1. SUFFICES ASSUME status # "live" PROVE pc \notin DOMAIN h.edges
    BY <1>4, <1>5, FollowStays
  <2>2. pc \notin DOMAIN g.edges /\ pc # g.b.at
    BY <1>2, <2>1, WaitsElsewhere
  <2> QED BY <2>2 DEF Recorded
<1>8. StoppedAt(locals', locals, cursor, builder')
  BY <1>1, <1>3, ChildDoneStops DEF Now
<1>9. cursor = <<>> => stage # "functions"
  BY <1>1 DEF Active
<1>10. ASSUME NEW fr, Same(fr, Frames, Len(cursor))
       PROVE  Agrees(fr, Len(cursor), pc', status', builder'.at, builder'.open)
  <2>1. /\ Len(cursor) \in Nat /\ Apart(Frames, Len(cursor), builder.open) /\ 0 \notin builder.open
        /\ Agrees(Frames, Len(cursor), pc, status, builder.at, builder.open)
    BY DEF Now
  <2>2. pc' \notin builder'.open
    BY <1>3
  <2>3. CASE status = "live"
    <3>1. WaitsFor(fr, x, s, Len(cursor))
      BY <1>10, <2>1, WaitsSame
    <3>2. Agrees(Frames, Len(cursor), pc, "live", builder.at, builder.open)
      BY <2>1, <2>3
    <3>3. Agrees(fr, Len(cursor), x, s, builder'.at, builder'.open)
      BY <1>3, <1>10, <2>1, <3>1, <3>2, RunJumps
    <3> QED BY <1>6, <2>3, <3>3
  <2>4. CASE status # "live"
    <3>1. Agrees(fr, Len(cursor), pc', status, builder'.at, builder'.open)
      BY <1>7, <1>10, <2>1, <2>2, <2>4, RunStays
    <3> QED BY <2>4, <3>1
  <2> QED BY <2>3, <2>4
<1>11. status' \in Run!Statuses /\ pc' \in Nat
  BY <1>5, <1>6, <1>7 DEF Now, FlowTypes
<1>12. Halts(cursor, locals, builder')
  BY <1>2, OpenHalts
<1>13. /\ ~builder'.mid /\ builder'.open \subseteq {builder.at} \cup (Nat \ InUse)
  BY <1>3
<1> QED BY <1>1, <1>2, <1>3, <1>8, <1>9, <1>10, <1>11, <1>12, <1>13, LeafEnds

LEMMA SkipLeafFlows ==
  ASSUME Now, NEW n, SkipLeaf(n), status' = status, runs' = runs, exits' = exits, Onwards(1)
  PROVE  EmitInv'
<1>1. /\ Stopped /\ VisitLeaf(n) /\ locals' = locals /\ Room(n)
      /\ stage' = stage /\ builder' = builder /\ emitted' = Nothing
  BY DEF SkipLeaf, NotGenerated, VisitLeaf
<1>2. builder.at \notin builder.open /\ status # "live"
  BY <1>1, StoppedShut
<1>3. pc \notin builder.open /\ pc \in Nat
  BY <1>2, WaitsApart DEF Now, FlowTypes
<1>4. pc' = pc
  <2>1. DOMAIN emitted'.edges = {}
    BY <1>1 DEF Nothing
  <2> QED BY <1>3, <2>1, FollowStays DEF Onwards
<1>5. ~builder.mid /\ Halts(cursor, locals, builder)
  BY OrderlyHalts DEF Now
<1>6. StoppedAt(locals', locals, cursor, builder')
  <2>1. SameLocals(locals, locals) /\ Len(locals) = Len(cursor)
    BY DEF Now, SameLocals
  <2>2. ASSUME NEW i \in 1 .. Len(locals), i = Len(locals), ~locals[i].skip PROVE locals[i].stopped
    <3>1. cursor # <<>> /\ Last(locals) = locals[i]
      BY <2>2 DEF Now, Last
    <3> QED BY <1>1, <2>2, <3>1 DEF Stopped, Local
  <2> QED BY <1>1, <2>1, <2>2 DEF StoppedAt
<1>7. cursor = <<>> => stage # "functions"
  BY <1>1 DEF Stopped
<1>8. ASSUME NEW fr, Same(fr, Frames, Len(cursor))
      PROVE  Agrees(fr, Len(cursor), pc', status', builder'.at, builder'.open)
  <2>1. /\ Len(cursor) \in Nat /\ Apart(Frames, Len(cursor), builder.open) /\ 0 \notin builder.open
        /\ Agrees(Frames, Len(cursor), pc, status, builder.at, builder.open)
    BY DEF Now
  <2>2. Agrees(fr, Len(cursor), pc', status, builder'.at, builder'.open)
    BY <1>1, <1>2, <1>3, <1>4, <1>8, <2>1, RunStays
  <2> QED BY <2>2
<1>9. status' \in Run!Statuses /\ pc' \in Nat
  BY <1>3, <1>4 DEF Now, FlowTypes
<1>10. builder'.open \subseteq {builder.at} \cup (Nat \ InUse) /\ builder.at \notin builder'.open
  BY <1>1, <1>2 DEF Now
<1> QED BY <1>1, <1>5, <1>6, <1>7, <1>8, <1>9, <1>10, LeafEnds

LEMMA TerminatedAt ==
  ASSUME NEW g, NEW S, NEW T, On(g, S, T), NEW targets
  PROVE  LET h == Terminate(g, targets)
         IN /\ h.edges = Recorded(g.edges, g.b.at, targets) /\ h.code = g.code
            /\ h.b.open = {} /\ ~h.b.mid /\ h.b.at = g.b.at /\ h.aborted = g.aborted
            /\ h.taken = g.taken
BY DEF On, Terminate, Reject, GenFields, Builders

\* Every expression has a value: a return is generated.
LEMMA ReturnIs ==
  ASSUME NEW g, NEW S, NEW T, On(g, S, T), NEW n, IsStatement(n), HasValues(n), n.kind = "ret"
  PROVE  \E e : Passes(e, g, S, T) /\ codegenReturn(g, n) = Terminate(e, <<>>)
<1> DEFINE v == Eval(g, n.expr)
           w == v.type # ReturnType \/ (n.expr # <<>> /\ ReturnType = "void")
           e == Reject(v, w)
<1>1. Passes(v, g, S, T)
  BY EvalPasses
<1>2. HasValue(v)
  <2>1. v.type = IF n.expr = <<>> THEN "void" ELSE codegenExpr[n.expr[1]].type
    BY EvalPasses
  <2>2. n.expr # <<>> => 1 \in DOMAIN n.expr
    BY DEF IsStatement, IsOptional
  <2>3. n.expr # <<>> => codegenExpr[n.expr[1]].type # "none"
    BY <2>2 DEF HasValues, ExprHasValue
  <2> HIDE DEF v
  <2> QED BY <2>1, <2>3 DEF HasValue
<1> HIDE DEF v
<1>3. Sound(v) /\ v.b.at \in Blocks
  BY <1>1, PassesSound
<1>4. KeepsFlow(e, v)
  BY <1>3, SmallSteps
<1>5. Passes(e, g, S, T)
  BY <1>1, <1>4, PassesKeeps
<1>6. codegenReturn(g, n) = Terminate(e, <<>>)
  BY <1>2 DEF codegenReturn, CreateReturn, v
<1> QED BY <1>5, <1>6

LEMMA GenPasses ==
  ASSUME Now, builder.at \in builder.open
  PROVE  Passes(Gen, Gen, {builder.at}, InUse)
<1>1. On(Gen, {builder.at}, InUse)
  BY GenOn
<1>2. KeepsFlow(Gen, Gen)
  BY <1>1 DEF On, KeepsFlow
<1> QED BY <1>1, <1>2, KeepsPasses

LEMMA ReturnFlows ==
  ASSUME Now, NEW n \in Statements, HasValues(n), GenReturn(n), Run!RunJump(n), Flowing',
         Onwards(1), exits' = exits
  PROVE  EmitInv'
<1>1. n.kind = "ret" /\ GenLeaf(n, codegenReturn(Gen, n)) /\ IsStatement(n)
  BY AstAssumption DEF GenReturn
<1>2. builder.at \in builder.open
  <2>1. Active /\ Room(n)
    BY <1>1 DEF GenLeaf, VisitLeaf
  <2> QED BY <2>1, ActiveOpen
<1>3. On(Gen, {builder.at}, InUse) /\ From(Gen, builder.at, 0)
  BY <1>2, GenOn
<1>4. PICK e : /\ Passes(e, Gen, {builder.at}, InUse)
               /\ codegenReturn(Gen, n) = Terminate(e, <<>>)
  BY <1>1, <1>3, ReturnIs
<1>5. On(e, {builder.at}, InUse) /\ From(e, builder.at, 3)
  <2>1. From(e, builder.at, 0 + 1)
    BY <1>3, <1>4, PassesFrom
  <2>2. 0 + 1 = 1 /\ 1 \in Nat /\ 3 \in Nat /\ 1 <= 3
    OBVIOUS
  <2> QED BY <1>4, <2>1, <2>2, FromMore DEF Passes
<1> DEFINE h == Terminate(e, <<>>)
<1>6. h.edges = Recorded(e.edges, e.b.at, <<>>) /\ h.b.open = {} /\ ~h.b.mid
  BY <1>5, TerminatedAt
<1>7. GenLeaf(n, h)
  BY <1>1, <1>4
<1> HIDE DEF h
<1>8. WaitsFor(Frames, 0, "returned", Len(cursor))
  BY DEF WaitsFor
<1>9. "returned" \in Run!Statuses /\ "returned" # "live" /\ 0 \in Nat /\ 0 # builder.at
  BY StatusKinds DEF Now, Builders, Blocks
<1>10. status' = (IF status = "live" THEN "returned" ELSE status) /\ runs' = runs
  BY <1>1 DEF Run!RunJump, Run!JumpStatus
<1> QED BY <1>5, <1>6, <1>7, <1>8, <1>9, <1>10, LeafJumps

\* A break or continue leads to where the innermost loop goes on.
LEMMA JumpFlows ==
  ASSUME Now, NEW n, NEW target, NEW s \in {"broke", "continued"},
         GenLeaf(n, Jump(Gen, target)), Flowing',
         target = (IF s = "broke" THEN getCurrentLoopEnd ELSE getCurrentLoopContinue),
         status' = (IF status = "live" THEN s ELSE status), runs' = runs,
         Onwards(1), exits' = exits
  PROVE  EmitInv'
<1>1. builder.at \in builder.open /\ Put(Jump(Gen, target))
  <2>1. Active /\ Room(n) /\ Put(Jump(Gen, target))
    BY DEF GenLeaf, VisitLeaf
  <2> QED BY <2>1, ActiveOpen
<1>2. On(Gen, {builder.at}, InUse) /\ From(Gen, builder.at, 3)
  <2>1. On(Gen, {builder.at}, InUse) /\ From(Gen, builder.at, 0)
    BY <1>1, GenOn
  <2>2. 0 \in Nat /\ 3 \in Nat /\ 0 <= 3
    OBVIOUS
  <2> QED BY <2>1, <2>2, FromMore
<1>3. loopStack # <<>>
  <2>1. SUFFICES ASSUME loopStack = <<>> PROVE FALSE
    OBVIOUS
  <2>2. Jump(Gen, target) = Abort(Gen, TRUE)
    BY <2>1 DEF Jump
  <2>3. Abort(Gen, TRUE).aborted
    BY DEF Abort, Gen, GenWith
  <2>4. stage' = "aborted"
    BY <1>1, <2>2, <2>3 DEF Put
  <2> QED BY <2>4 DEF Flowing
<1>4. PICK i \in 1 .. Len(cursor) :
        /\ IsInnermost(Frames, i, Len(cursor)) /\ ~Frames[i].skip
        /\ Last(loopStack).breakBB = JumpTarget(Frames[i], "broke")
        /\ Last(loopStack).continueBB = JumpTarget(Frames[i], "continued")
  BY <1>1, <1>3, LastLoop
<1>5. target = JumpTarget(Frames[i], s)
  BY <1>4 DEF getCurrentLoopEnd, getCurrentLoopContinue
<1>6. target \in Own(Frames[i]) /\ target \in Nat
  <2>1. FrameOK(Frames[i]) /\ Frames[i].kind \in LoopKinds /\ ~Frames[i].skip
    BY <1>4 DEF Now, Apart, IsInnermost
  <2> QED BY <1>5, <2>1 DEF FrameOK, JumpTarget, Own
<1>7. target \in InUse /\ target # builder.at
  BY <1>1, <1>6, OwnTaken DEF Now, Apart
<1>8. WaitsFor(Frames, target, s, Len(cursor))
  BY <1>4, <1>5 DEF WaitsFor
<1> DEFINE h == Terminate(Gen, <<target>>)
<1>9. GenLeaf(n, h)
  BY <1>3 DEF Jump
<1>10. h.edges = Recorded(Gen.edges, Gen.b.at, <<target>>) /\ h.b.open = {} /\ ~h.b.mid
  BY <1>2, TerminatedAt
<1> HIDE DEF h
<1>11. s \in Run!Statuses /\ s # "live"
  BY StatusKinds
<1> QED BY <1>2, <1>6, <1>7, <1>8, <1>9, <1>10, <1>11, LeafJumps

\* What the run does next to a statement without children.
LEMMA LeafRuns ==
  ASSUME NEW n, FlowLeaf(n)
  PROVE  /\ runs' = runs /\ exits' = exits /\ Onwards(1)
         /\ n.kind \in SimpleKinds \cup {"null"} => status' = status
         /\ n.kind = "ret" => Run!RunJump(n)
         /\ n.kind = "break" => status' = IF status = "live" THEN "broke" ELSE status
         /\ n.kind = "continue" => status' = IF status = "live" THEN "continued" ELSE status
         /\ status # "live" => status' = status
<1>1. Run!RunSimple(n) \/ Run!RunJump(n) \/ Run!RunNull(n)
  BY DEF FlowLeaf
<1>2. exits' = exits /\ Onwards(1)
  BY DEF FlowLeaf
<1>3. CASE Run!RunSimple(n)
  BY <1>2, <1>3 DEF Run!RunSimple, Run!SimpleKinds
<1>4. CASE Run!RunJump(n)
  <2>1. /\ n.kind \in {"ret", "break", "continue"} /\ runs' = runs
        /\ status' = IF status = "live" THEN Run!JumpStatus[n.kind] ELSE status
    BY <1>4 DEF Run!RunJump, Run!JumpKinds
  <2>2. Run!JumpStatus["break"] = "broke" /\ Run!JumpStatus["continue"] = "continued"
    BY DEF Run!JumpStatus
  <2>3. n.kind \notin SimpleKinds \cup {"null"}
    BY <2>1 DEF SimpleKinds
  <2> QED BY <1>2, <1>4, <2>1, <2>2, <2>3
<1>5. CASE Run!RunNull(n)
  BY <1>2, <1>5 DEF Run!RunNull
<1> QED BY <1>1, <1>3, <1>4, <1>5

LEMMA FlowLeafKeeps ==
  ASSUME Now, NEW n \in Statements, FlowLeaf(n), Flowing'
  PROVE  EmitInv'
<1>1. HasValues(n) /\ Leaf(n)
  BY DEF FlowLeaf
<1>2. /\ runs' = runs /\ exits' = exits /\ Onwards(1)
      /\ n.kind \in SimpleKinds \cup {"null"} => status' = status
      /\ n.kind = "ret" => Run!RunJump(n)
      /\ n.kind = "break" => status' = IF status = "live" THEN "broke" ELSE status
      /\ n.kind = "continue" => status' = IF status = "live" THEN "continued" ELSE status
      /\ status # "live" => status' = status
  BY LeafRuns
<1>3. ASSUME NEW g, GenLeaf(n, g) PROVE builder.at \in builder.open
  BY <1>3, ActiveOpen DEF GenLeaf, VisitLeaf
<1>4. CASE GenSimple(n)
  <2>1. n.kind \in SimpleKinds /\ GenLeaf(n, codegenSimple(Gen, n))
    BY <1>4 DEF GenSimple
  <2>2. On(Gen, {builder.at}, InUse)
    BY <1>3, <2>1, GenOn
  <2>3. Passes(codegenSimple(Gen, n), Gen, {builder.at}, InUse)
    BY <2>1, <2>2, SimplePasses
  <2> QED BY <1>2, <2>1, <2>3, LeafStays
<1>5. CASE GenReturn(n)
  BY <1>1, <1>2, <1>5, ReturnFlows DEF GenReturn
<1>6. CASE GenBreak(n)
  <2>1. n.kind = "break" /\ GenLeaf(n, Jump(Gen, getCurrentLoopEnd))
    BY <1>6 DEF GenBreak
  <2> QED BY <1>2, <2>1, JumpFlows
<1>7. CASE GenContinue(n)
  <2>1. n.kind = "continue" /\ GenLeaf(n, Jump(Gen, getCurrentLoopContinue))
    BY <1>7 DEF GenContinue
  <2> QED BY <1>2, <2>1, JumpFlows
<1>8. CASE GenNull(n)
  <2>1. n.kind = "null" /\ GenLeaf(n, Gen)
    BY <1>8 DEF GenNull
  <2>2. Passes(Gen, Gen, {builder.at}, InUse)
    BY <1>3, <2>1, GenPasses
  <2> QED BY <1>2, <2>1, <2>2, LeafStays
<1>9. CASE SkipLeaf(n)
  <2>1. status # "live"
    BY <1>9, StoppedShut DEF SkipLeaf
  <2> QED BY <1>2, <1>9, <2>1, SkipLeafFlows
<1> QED BY <1>1, <1>4, <1>5, <1>6, <1>7, <1>8, <1>9 DEF Leaf

--------------------------------------------------------------------------------
(***************************************************************************)
(* Statements entered.                                                     *)
(***************************************************************************)
LEMMA FramesMore ==
  ASSUME Now, NEW n, cursor' = Append(cursor, n), n \in Entries,
         NEW l, locals' = Append(locals, l), NEW r, runs' = Append(runs, r),
         NEW x, exits' = Append(exits, x)
  PROVE  Same(Frames', Frames, Len(cursor)) /\ Frames'[Len(cursor) + 1] = Frame(n, l, r, x)
<1>1. /\ Len(cursor) \in Nat /\ cursor \in Seq(Entries) /\ locals \in Seq(Locals)
      /\ Len(locals) = Len(cursor) /\ runs \in Seq(Run!Runs) /\ Len(runs) = Len(cursor)
      /\ exits \in Seq(Nat) /\ Len(exits) = Len(cursor)
  BY DEF Now, FlowTypes
<1>2. cursor' \in Seq(Entries) /\ Len(cursor') = Len(cursor) + 1
  BY <1>1
<1>3. /\ \A i \in 1 .. Len(cursor) : /\ cursor'[i] = cursor[i] /\ locals'[i] = locals[i]
                                     /\ runs'[i] = runs[i] /\ exits'[i] = exits[i]
      /\ cursor'[Len(cursor) + 1] = n /\ locals'[Len(cursor) + 1] = l
      /\ runs'[Len(cursor) + 1] = r /\ exits'[Len(cursor) + 1] = x
  BY <1>1
<1>4. Same(Frames', Frames, Len(cursor))
  <2>1. Len(cursor) <= Len(cursor) /\ Len(cursor) <= Len(cursor')
    BY <1>1, <1>2
  <2>2. \A i \in 1 .. Len(cursor) :
          /\ cursor'[i].node = cursor[i].node /\ SameLocal(locals'[i], locals[i])
          /\ runs'[i].parked = runs[i].parked /\ exits'[i] = exits[i]
    BY <1>3 DEF SameLocal
  <2> QED BY <1>1, <1>2, <2>1, <2>2, FramesSame
<1>5. Len(cursor) + 1 \in 1 .. Len(cursor')
  BY <1>1, <1>2
<1> QED BY <1>3, <1>4, <1>5 DEF Frames

LEMMA DownEnds ==
  ASSUME Now, NEW n \in Statements, Open(n), stage' = stage,
         NEW l \in Locals, locals' = Append(locals, l),
         NEW r \in Run!Runs, runs' = Append(runs, r),
         NEW x \in Nat, exits' = Append(exits, x),
         ~l.stopped, n.kind = "if" => l.after = 0, cursor = <<>> => stage # "functions",
         ~builder'.mid,
         IF l.skip THEN builder'.at \notin builder'.open
                   ELSE builder.at \in builder.open /\ builder'.at \in builder'.open,
         status' \in Run!Statuses, pc' \in Nat,
         builder'.open \subseteq {builder.at} \cup (Nat \ InUse),
         builder.at \in builder.open \/ builder.at \notin builder'.open,
         NEW f, f = Frame([node |-> n, slot |-> FirstSlot(n)], l, r, x),
         FrameOK(f), Own(f) \cap InUse = {}, builder'.open \cap Own(f) = {},
         \A fr : Same(fr, Frames, Len(cursor)) /\ fr[Len(cursor) + 1] = f
                   => Agrees(fr, Len(cursor) + 1, pc', status', builder'.at, builder'.open)
  PROVE  EmitInv'
<1> DEFINE e == [node |-> n, slot |-> FirstSlot(n)]
<1>1. /\ Len(cursor) \in Nat /\ cursor \in Seq(Entries) /\ locals \in Seq(Locals)
      /\ Len(locals) = Len(cursor) /\ runs \in Seq(Run!Runs) /\ Len(runs) = Len(cursor)
      /\ exits \in Seq(Nat) /\ Len(exits) = Len(cursor)
      /\ Apart(Frames, Len(cursor), builder.open)
      /\ Orderly(cursor, locals, builder, stage)
  BY DEF Now, FlowTypes
<1>2. e \in Entries /\ e.node = n /\ n.kind \in CompoundKinds /\ cursor' = Append(cursor, e)
  BY DEF Open, Entries, FirstSlot, Slots
<1> HIDE DEF e
<1>3. /\ cursor' \in Seq(Entries) /\ Len(cursor') = Len(cursor) + 1
      /\ runs' \in Seq(Run!Runs) /\ Len(runs') = Len(cursor) + 1
      /\ exits' \in Seq(Nat) /\ Len(exits') = Len(cursor) + 1
  BY <1>1, <1>2
<1>4. Same(Frames', Frames, Len(cursor)) /\ Frames'[Len(cursor) + 1] = f
  BY <1>2, FramesMore DEF e
<1>5. Agrees(Frames', Len(cursor'), pc', status', builder'.at, builder'.open)
  BY <1>3, <1>4
<1>6. \A i \in 1 .. Len(cursor) : /\ builder'.open \cap Own(Frames[i]) = {}
                                  /\ Own(Frames[i]) \cap Own(f) = {}
  BY OpenApart, OwnTaken
<1>7. Apart(Frames', Len(cursor'), builder'.open)
  <2>1. /\ FrameOK(Frames'[Len(cursor) + 1])
        /\ builder'.open \cap Own(Frames'[Len(cursor) + 1]) = {}
        /\ \A i \in 1 .. Len(cursor) : Own(Frames[i]) \cap Own(Frames'[Len(cursor) + 1]) = {}
    BY <1>4, <1>6
  <2>2. \A i \in 1 .. Len(cursor) : builder'.open \cap Own(Frames[i]) = {}
    BY <1>6
  <2>3. Apart(Frames', Len(cursor) + 1, builder'.open)
    BY <1>1, <1>4, <2>1, <2>2, ApartMore
  <2> QED BY <1>3, <2>3
<1>8. Orderly(cursor', locals', builder', stage')
  <2>1. cursor = <<>> => (e.node.kind = "func" <=> stage = "functions")
    BY <1>2 DEF CompoundKinds, LoopKinds
  <2> QED BY <1>1, <1>2, <2>1, OrderlyPushed
<1>9. FlowTypes'
  BY <1>3 DEF FlowTypes
<1>10. cursor' # <<>>
  BY <1>1, <1>3
<1> QED BY <1>5, <1>7, <1>8, <1>9, <1>10 DEF EmitInv

\* The run enters the statement, or parks in front of it.
Entered(n, r) ==
  \/ n.kind = "block" /\ r.parked = "none" /\ status' = status
  \/ /\ n.kind \in {"if", "while", "for"}
     /\ \/ status = "live" /\ status' = "live" /\ r.parked = "none"
        \/ status' = "skipped" /\ r.parked = status

LEMMA DownRuns ==
  ASSUME NEW n, FlowDown(n), status \in Run!Statuses
  PROVE  \E r \in Run!Runs : runs' = Append(runs, r) /\ Entered(n, r)
<1> DEFINE R(p) == [parked |-> p, globals |-> {}]
<1>1. Run!RunBlock(n) \/ Run!RunCondition(n) \/ Run!RunFor(n)
  BY DEF FlowDown
<1>2. \A p \in Run!Statuses \cup {"none"} : R(p) \in Run!Runs /\ R(p).parked = p
  BY DEF Run!Runs
<1>3. CASE Run!RunBlock(n)
  <2>1. n.kind = "block" /\ runs' = Append(runs, R("none")) /\ status' = status
    BY <1>3 DEF Run!RunBlock
  <2> HIDE DEF R
  <2> QED BY <1>2, <2>1 DEF Entered
<1>4. ASSUME n.kind \in {"if", "while", "for"}, NEW m, Run!Branch(n, m)
      PROVE  \E r \in Run!Runs : runs' = Append(runs, r) /\ Entered(n, r)
  <2>1. PICK taken \in BOOLEAN :
          /\ taken => status = "live"
          /\ status' = IF taken THEN "live" ELSE "skipped"
          /\ runs' = Append(runs, R(IF taken THEN "none" ELSE status))
    BY <1>4 DEF Run!Branch
  <2> HIDE DEF R
  <2>2. CASE taken
    BY <1>2, <1>4, <2>1, <2>2 DEF Entered
  <2>3. CASE ~taken
    BY <1>2, <1>4, <2>1, <2>3 DEF Entered
  <2> QED BY <2>2, <2>3
<1>5. CASE Run!RunCondition(n)
  <2>1. PICK m : Run!Branch(n, m) /\ n.kind \in {"if", "while"}
    BY <1>5 DEF Run!RunCondition
  <2>2. n.kind \in {"if", "while", "for"}
    BY <2>1
  <2> QED BY <1>4, <2>1, <2>2
<1>6. CASE Run!RunFor(n)
  <2>1. Run!Branch(n, Run!Header(Run!Memory, n)) /\ n.kind \in {"if", "while", "for"}
    BY <1>6 DEF Run!RunFor
  <2> QED BY <1>4, <2>1
<1> QED BY <1>1, <1>3, <1>5, <1>6

\* The statements with no blocks of their own.
LEMMA BareFrame ==
  ASSUME NEW n, n.kind \in CompoundKinds, NEW l \in {Plain, Skipping}, NEW r \in Run!Runs,
         IF n.kind = "block" THEN r.parked = "none" ELSE l.skip /\ r.parked # "none"
  PROVE  LET f == Frame([node |-> n, slot |-> FirstSlot(n)], l, r, 0)
         IN /\ FrameOK(f) /\ Own(f) = {} /\ f.kind = n.kind /\ f.skip = l.skip
            /\ f.parked = r.parked
<1> DEFINE f == Frame([node |-> n, slot |-> FirstSlot(n)], l, r, 0)
<1>1. /\ f.kind = n.kind /\ f.skip = l.skip /\ f.other = l.other /\ f.after = l.after
      /\ f.again = l.again /\ f.inc = l.inc /\ f.parked = r.parked /\ f.exit = 0
  BY DEF Frame
<1> HIDE DEF f
<1>2. l.other = 0 /\ l.after = 0 /\ l.again = 0 /\ l.inc = 0
  BY DEF Plain, Skipping
<1>3. Own(f) = {}
  BY <1>1, <1>2 DEF Own
<1>4. r.parked \in Run!Statuses \cup {"none"}
  BY DEF Run!Runs
<1>5. n.kind # "func"
  BY StatusKinds
<1>6. FrameOK(f)
  BY <1>1, <1>2, <1>4, <1>5, StatusKinds DEF FrameOK
<1> QED BY <1>1, <1>3, <1>6 DEF f

LEMMA BlockFlows ==
  ASSUME Now, NEW n \in Statements, EnterBlock(n), Flowing', FlowDown(n)
  PROVE  EmitInv'
<1> DEFINE g == pushScope(Gen)
           f(r) == Frame([node |-> n, slot |-> FirstSlot(n)], Plain, r, 0)
<1>1. /\ n.kind = "block" /\ Active /\ Open(n) /\ Room(n) /\ Put(g)
      /\ locals' = Append(locals, Plain)
  BY DEF EnterBlock, GenOpen, GenDown, Open
<1>2. builder.at \in builder.open
  BY <1>1, ActiveOpen
<1>3. Passes(g, Gen, {builder.at}, InUse)
  <2>1. On(Gen, {builder.at}, InUse)
    BY <1>2, GenOn
  <2>2. KeepsFlow(g, Gen)
    BY <2>1, OnSound, SmallSteps
  <2> QED BY <2>1, <2>2, KeepsPasses
<1> HIDE DEF g
<1>4. On(g, {builder.at}, InUse) /\ From(g, builder.at, 3)
  <2>1. From(Gen, builder.at, 0)
    BY <1>2, GenOn
  <2>2. From(g, builder.at, 0 + 1)
    BY <1>3, <2>1, PassesFrom
  <2>3. 0 + 1 = 1 /\ 1 \in Nat /\ 3 \in Nat /\ 1 <= 3
    OBVIOUS
  <2> QED BY <1>3, <2>2, <2>3, FromMore DEF Passes
<1>5. builder' = g.b /\ emitted'.edges = g.edges /\ stage' = stage
  BY <1>1, PutFlows
<1>6. PICK r \in Run!Runs : runs' = Append(runs, r) /\ Entered(n, r)
  BY DownRuns DEF Now, FlowTypes
<1>7. r.parked = "none" /\ status' = status
  BY <1>1, <1>6 DEF Entered
<1>8. /\ status = "live" => pc' = builder'.at
      /\ status # "live" => pc' = pc /\ pc' \notin builder'.open
      /\ pc' \in Nat
  <2>1. PICK o : pc' = Follow(g.edges, pc, o)
    BY <1>5 DEF FlowDown, Onwards
  <2> QED BY <1>2, <1>4, <1>5, <2>1, RunFlows
<1>9. /\ builder'.at \in builder'.open /\ ~builder'.mid
      /\ builder'.open \subseteq {builder.at} \cup (Nat \ InUse)
  BY <1>2, <1>4, <1>5, OnOpens
<1>10. exits' = Append(exits, 0)
  <2>1. Last(locals').again = 0
    BY <1>1 DEF Now, Last, Plain
  <2> QED BY <2>1 DEF FlowDown
<1>11. /\ FrameOK(f(r)) /\ Own(f(r)) = {} /\ f(r).kind = "block" /\ f(r).parked = "none"
  BY <1>1, <1>7, BareFrame, StatusKinds
<1>12. ASSUME NEW fr, Same(fr, Frames, Len(cursor)), fr[Len(cursor) + 1] = f(r)
       PROVE  Agrees(fr, Len(cursor) + 1, pc', status', builder'.at, builder'.open)
  <2>1. /\ Len(cursor) \in Nat /\ Apart(Frames, Len(cursor), builder.open) /\ 0 \notin builder.open
        /\ Agrees(Frames, Len(cursor), pc, status, builder.at, builder.open)
    BY DEF Now
  <2>2. fr[Len(cursor) + 1].kind = "block" /\ fr[Len(cursor) + 1].parked = "none"
    BY <1>11, <1>12
  <2> HIDE DEF f
  <2>3. Agrees(fr, Len(cursor) + 1, pc', status, builder'.at, builder'.open)
    BY <1>8, <1>9, <1>12, <2>1, <2>2, BlockOpened
  <2> QED BY <1>7, <2>3
<1>13. status' \in Run!Statuses /\ (cursor = <<>> => stage # "functions")
  BY <1>1, <1>7 DEF Now, FlowTypes, Active
<1>14. Plain \in Locals /\ ~Plain.stopped /\ ~Plain.skip /\ Plain.after = 0 /\ 0 \in Nat
  BY PlainLocals DEF Plain
<1>15. Own(f(r)) \cap InUse = {} /\ builder'.open \cap Own(f(r)) = {}
  BY <1>11
<1>16. f(r) = Frame([node |-> n, slot |-> FirstSlot(n)], Plain, r, 0)
  OBVIOUS
<1> HIDE DEF f
<1>17. n.kind = "if" => Plain.after = 0
  BY <1>14
<1> QED BY <1>1, <1>2, <1>5, <1>6, <1>8, <1>9, <1>10, <1>11, <1>12, <1>13, <1>14, <1>15, <1>16,
           <1>17, DownEnds

\* A statement is left out.
LEMMA SkipEnterFlows ==
  ASSUME Now, NEW n \in Statements, SkipEnter(n), FlowDown(n)
  PROVE  EmitInv'
<1> DEFINE f(r) == Frame([node |-> n, slot |-> FirstSlot(n)], Skipping, r, 0)
<1>1. /\ Stopped /\ Open(n) /\ n.kind \in CompoundKinds
      /\ locals' = Append(locals, Skipping)
      /\ stage' = stage /\ builder' = builder /\ emitted' = Nothing
  BY DEF SkipEnter, NotGenerated, Open
<1>2. builder.at \notin builder.open /\ status # "live"
  BY <1>1, StoppedShut
<1>3. pc \notin builder.open /\ pc \in Nat
  BY <1>2, WaitsApart DEF Now, FlowTypes
<1>4. pc' = pc
  <2>1. DOMAIN emitted'.edges = {}
    BY <1>1 DEF Nothing
  <2> QED BY <1>3, <2>1, FollowStays DEF Onwards, FlowDown
<1>5. PICK r \in Run!Runs : runs' = Append(runs, r) /\ Entered(n, r)
  BY DownRuns DEF Now, FlowTypes
<1>6. exits' = Append(exits, 0)
  <2>1. Last(locals').again = 0
    BY <1>1 DEF Now, Last, Skipping, Plain
  <2> QED BY <2>1 DEF FlowDown
<1>7. /\ IF n.kind = "block" THEN r.parked = "none" /\ status' = status
                             ELSE r.parked = status /\ status' = "skipped"
      /\ status \in Run!Statuses /\ status' \in Run!Statuses
  BY <1>1, <1>2, <1>5, StatusKinds DEF Entered, Now, FlowTypes
<1>8. IF n.kind = "block" THEN r.parked = "none" ELSE Skipping.skip /\ r.parked # "none"
  BY <1>7, StatusKinds, PlainLocals
<1>9. /\ FrameOK(f(r)) /\ Own(f(r)) = {} /\ f(r).kind = n.kind /\ f(r).parked = r.parked
  BY <1>1, <1>8, BareFrame
<1>10. f(r) = Frame([node |-> n, slot |-> FirstSlot(n)], Skipping, r, 0)
  OBVIOUS
<1> HIDE DEF f
<1>11. ASSUME NEW fr, Same(fr, Frames, Len(cursor)), fr[Len(cursor) + 1] = f(r)
       PROVE  Agrees(fr, Len(cursor) + 1, pc', status', builder'.at, builder'.open)
  <2>1. /\ Len(cursor) \in Nat /\ Apart(Frames, Len(cursor), builder.open) /\ 0 \notin builder.open
        /\ Agrees(Frames, Len(cursor), pc, status, builder.at, builder.open)
    BY DEF Now
  <2>2. /\ fr[Len(cursor) + 1].kind = n.kind /\ fr[Len(cursor) + 1].parked = r.parked
        /\ pc' \notin builder'.open
    BY <1>1, <1>3, <1>4, <1>9, <1>11
  <2>3. CASE n.kind = "block"
    <3>1. fr[Len(cursor) + 1].kind = "block" /\ fr[Len(cursor) + 1].parked = "none"
      BY <1>7, <2>2, <2>3
    <3>2. Agrees(fr, Len(cursor) + 1, pc', status, builder'.at, builder'.open)
      BY <1>2, <1>4, <1>11, <2>1, <2>2, <3>1, BlockOpened
    <3> QED BY <1>7, <2>3, <3>2
  <2>4. CASE n.kind # "block"
    <3>1. fr[Len(cursor) + 1].kind # "func" /\ fr[Len(cursor) + 1].parked = status
      BY <1>1, <1>7, <2>2, <2>4, StatusKinds
    <3>2. Agrees(fr, Len(cursor) + 1, pc', "skipped", builder'.at, builder'.open)
      BY <1>2, <1>4, <1>7, <1>11, <2>1, <2>2, <3>1, BranchPassed
    <3> QED BY <1>7, <2>4, <3>2
  <2> QED BY <2>3, <2>4
<1>12. cursor = <<>> => stage # "functions"
  BY <1>1 DEF Stopped
<1>13. Skipping \in Locals /\ ~Skipping.stopped /\ Skipping.skip /\ Skipping.after = 0 /\ 0 \in Nat
  BY PlainLocals DEF Skipping, Plain
<1>14. Own(f(r)) \cap InUse = {} /\ builder'.open \cap Own(f(r)) = {}
  BY <1>9
<1>15. n.kind = "if" => Skipping.after = 0
  BY <1>13
<1>16. ~builder'.mid /\ builder'.at \notin builder'.open /\ pc' \in Nat
  BY <1>1, <1>2, <1>3, <1>4 DEF Now, Orderly
<1>17. builder'.open \subseteq {builder.at} \cup (Nat \ InUse) /\ builder.at \notin builder'.open
  BY <1>1, <1>2 DEF Now
<1> QED BY <1>1, <1>5, <1>6, <1>7, <1>9, <1>10, <1>11, <1>12, <1>13, <1>14, <1>15, <1>16, <1>17,
           DownEnds

\* The names of the blocks after a branch are new.
LEMMA NewTargets ==
  ASSUME NEW g, NEW S, NEW T, On(g, S, T), NEW x \in Blocks, x \notin g.taken
  PROVE  x \notin DOMAIN g.edges /\ x # g.b.at /\ x \notin T
BY DEF On

\* Statement n, with locals l, goes on to new blocks, but not to y; past a part
\* that is not taken, to z.
Fits(n, l, x, y, z) ==
  \A r \in Run!Runs :
    LET f == Frame([node |-> n, slot |-> FirstSlot(n)], l, r, x)
    IN FrameOK(f) /\ Own(f) \cap InUse = {} /\ y \notin Own(f) /\ Untaken(f) = z

\* A branch to y, where the builder goes on, and to z.
LEMMA BranchFlows ==
  ASSUME Now, NEW n \in Statements, n.kind \in {"if", "while", "for"}, FlowDown(n), Open(n),
         builder.at \in builder.open, Flowing', cursor = <<>> => stage # "functions",
         NEW g, On(g, {builder.at}, InUse), From(g, builder.at, 3),
         NEW y \in Blocks, NEW z \in Blocks, y \notin g.taken, z \notin g.taken, y # z,
         NEW h, On(h, {builder.at}, InUse), h.b.at = y,
         h.edges = Recorded(g.edges, g.b.at, <<y, z>>),
         NEW l \in Locals, GenDown(h, l), ~l.stopped, ~l.skip, n.kind = "if" => l.after = 0,
         NEW x \in Nat, exits' = Append(exits, x), Fits(n, l, x, y, z)
  PROVE  EmitInv'
<1> DEFINE f(r) == Frame([node |-> n, slot |-> FirstSlot(n)], l, r, x)
<1>1. /\ Put(h) /\ locals' = Append(locals, l)
  BY DEF GenDown
<1>2. builder' = h.b /\ emitted'.edges = h.edges /\ stage' = stage
  BY <1>1, PutFlows
<1>3. PICK r \in Run!Runs : runs' = Append(runs, r) /\ Entered(n, r)
  BY DownRuns DEF Now, FlowTypes
<1>4. /\ \/ status = "live" /\ status' = "live" /\ r.parked = "none"
         \/ status' = "skipped" /\ r.parked = status
      /\ status \in Run!Statuses /\ status' \in Run!Statuses
  BY <1>3, StatusKinds DEF Entered, Now, FlowTypes
<1>5. /\ FrameOK(f(r)) /\ Own(f(r)) \cap InUse = {} /\ y \notin Own(f(r)) /\ Untaken(f(r)) = z
      /\ f(r).kind = n.kind /\ f(r).parked = r.parked /\ f(r).skip = l.skip
  BY DEF Fits, Frame
<1>6. f(r) = Frame([node |-> n, slot |-> FirstSlot(n)], l, r, x)
  OBVIOUS
<1> HIDE DEF f
<1>7. pc' = Follow(h.edges, pc, IF status' = "live" THEN 1 ELSE 2)
  BY <1>2 DEF FlowDown, Onwards
<1>8. pc \in Nat /\ (status = "live" => pc = builder.at)
  BY DEF Now, FlowTypes, Agrees
<1>9. status = "live" => pc' = IF status' = "live" THEN y ELSE z
  <2>1. y \notin DOMAIN g.edges /\ y # g.b.at /\ z \notin DOMAIN g.edges /\ z # g.b.at
    BY NewTargets
  <2>2. LeadsTo(<<y, z>>, 1, y) /\ LeadsTo(<<y, z>>, 2, z)
    BY DEF LeadsTo
  <2>3. Follow(h.edges, builder.at, 1) = y
    BY <2>1, <2>2, FollowOn
  <2>4. Follow(h.edges, builder.at, 2) = z
    BY <2>1, <2>2, FollowOn
  <2> QED BY <1>7, <1>8, <2>3, <2>4
<1>10. status # "live" => pc' = pc /\ pc \notin h.b.open
  <2>1. status # "live" => pc \notin DOMAIN h.edges /\ pc \notin h.b.open
    BY WaitsElsewhere
  <2> QED BY <1>7, <1>8, <2>1, FollowStays
<1>11. /\ h.b.open = {y} /\ builder'.at = y /\ builder'.open = {y} /\ ~builder'.mid
       /\ builder'.open \subseteq {builder.at} \cup (Nat \ InUse)
  BY <1>2, OnOpens DEF On
<1>12. ASSUME NEW fr, Same(fr, Frames, Len(cursor)), fr[Len(cursor) + 1] = f(r)
       PROVE  Agrees(fr, Len(cursor) + 1, pc', status', builder'.at, builder'.open)
  <2>1. /\ Len(cursor) \in Nat /\ Apart(Frames, Len(cursor), builder.open) /\ 0 \notin builder.open
        /\ Agrees(Frames, Len(cursor), pc, status, builder.at, builder.open)
    BY DEF Now
  <2>2. CASE status = "live" /\ status' = "live" /\ r.parked = "none"
    <3>1. fr[Len(cursor) + 1].parked = "none" /\ y \in {y}
      BY <1>5, <1>12, <2>2
    <3>2. Agrees(Frames, Len(cursor), pc, "live", builder.at, builder.open)
      BY <2>1, <2>2
    <3>3. Agrees(fr, Len(cursor) + 1, y, "live", y, {y})
      BY <1>12, <2>1, <3>1, <3>2, BranchTaken
    <3> QED BY <1>9, <1>11, <2>2, <3>3
  <2>3. CASE status' = "skipped" /\ r.parked = status
    <3>1. /\ fr[Len(cursor) + 1].kind # "func" /\ fr[Len(cursor) + 1].parked = status
          /\ ~fr[Len(cursor) + 1].skip /\ Untaken(fr[Len(cursor) + 1]) = z
      BY <1>5, <1>12, <2>3
    <3>2. /\ pc' \notin builder'.open
          /\ status = "live" => ~fr[Len(cursor) + 1].skip /\ pc' = Untaken(fr[Len(cursor) + 1])
          /\ status # "live" => pc' = pc
      BY <1>9, <1>10, <1>11, <2>3, <3>1
    <3>3. Agrees(fr, Len(cursor) + 1, pc', "skipped", builder'.at, builder'.open)
      BY <1>4, <1>12, <2>1, <3>1, <3>2, BranchPassed
    <3> QED BY <2>3, <3>3
  <2> QED BY <1>4, <2>2, <2>3
<1>13. pc' \in Nat /\ builder'.at \in builder'.open
  BY <1>8, <1>9, <1>10, <1>11 DEF Blocks
<1>14. builder'.open \cap Own(f(r)) = {}
  BY <1>5, <1>11
<1> QED BY <1>1, <1>2, <1>3, <1>4, <1>5, <1>6, <1>11, <1>12, <1>13, <1>14, DownEnds

\* New blocks y, where the builder goes on, and z.
LEMMA TwoTargets ==
  ASSUME NEW y \in Blocks, NEW z \in Blocks
  PROVE  Range(<<y, z>>) \subseteq Blocks
BY DEF Range

LEMMA ValueOf ==
  ASSUME NEW g, NEW S, NEW T, On(g, S, T), NEW xs,
         xs # <<>> => ExprHasValue(xs[1])
  PROVE  Passes(Condition(g, xs), g, S, T) /\ HasValue(Condition(g, xs))
<1> DEFINE c == Condition(g, xs)
<1>1. Passes(c, g, S, T) /\ c.type = IF xs = <<>> THEN "void" ELSE codegenExpr[xs[1]].type
  BY ConditionPasses
<1> HIDE DEF c
<1>2. HasValue(c)
  BY <1>1 DEF HasValue, ExprHasValue
<1> QED BY <1>1, <1>2 DEF c

LEMMA IfFlows ==
  ASSUME Now, NEW n \in Statements, EnterIf(n), FlowDown(n), Flowing'
  PROVE  EmitInv'
<1> DEFINE g == Condition(Gen, <<n.cond>>)
           y == NewBlock(g, 1)
           z == NewBlock(g, 2)
           h == StartBlock(Terminate(Take(g, {y, z}), <<y, z>>), y)
           known == Usable(g)
           l == [Plain EXCEPT !.other = z, !.known = known]
<1>1. /\ n.kind = "if" /\ Active /\ Open(n) /\ Room(n) /\ HasValues(n)
      /\ n.kind \in {"if", "while", "for"}
  BY DEF EnterIf, GenOpen, Open, FlowDown
<1>2. builder.at \in builder.open
  BY <1>1, ActiveOpen
<1>3. On(Gen, {builder.at}, InUse) /\ From(Gen, builder.at, 0)
  BY <1>2, GenOn
<1>4. Passes(g, Gen, {builder.at}, InUse) /\ HasValue(g)
  <2>1. ExprHasValue(<<n.cond>>[1])
    BY <1>1 DEF HasValues
  <2> QED BY <1>3, <2>1, ValueOf
<1>5. GenDown(h, l)
  BY <1>4 DEF EnterIf, EnterThen
<1>6. n.cond \in Exprs /\ GenOK(g, AllDue(locals), Depth(locals, cursor))
  <2>1. GenOK(Gen, AllDue(locals), Depth(locals, cursor))
    BY GenStarts DEF Now
  <2>2. GenOK(g, AllDue(locals), Depth(locals, cursor))
    BY <2>1, ConditionOK
  <2> QED BY <1>1, <2>2, AstAssumption DEF IsStatement
<1>7. known \in SUBSET Name
  BY <1>6, UsableNames, DepthNat DEF Now
<1> HIDE DEF g, known
<1>8. On(g, {builder.at}, InUse) /\ From(g, builder.at, 3)
  <2>1. From(g, builder.at, 0 + 1)
    BY <1>3, <1>4, PassesFrom
  <2>2. 0 + 1 = 1 /\ 1 \in Nat /\ 3 \in Nat /\ 1 <= 3
    OBVIOUS
  <2> QED BY <1>4, <2>1, <2>2, FromMore DEF Passes
<1>9. /\ y \in Blocks /\ y \notin g.taken /\ z \in Blocks /\ z \notin g.taken /\ y # z
  BY <1>8, NewOn, NewBlocksDiffer DEF On
<1> HIDE DEF y, z
<1>10. On(h, {builder.at}, InUse) /\ h.b.at = y /\ h.edges = Recorded(g.edges, g.b.at, <<y, z>>)
  <2>1. {y, z} \in SUBSET Nat /\ IsFiniteSet({y, z}) /\ y \in {y, z}
    <3>1. IsFiniteSet({y}) /\ IsFiniteSet({z})
      BY FS_Singleton
    <3>2. IsFiniteSet({y} \cup {z}) /\ {y} \cup {z} = {y, z}
      BY <3>1, FS_Union
    <3> QED BY <1>9, <3>2 DEF Blocks
  <2>2. Range(<<y, z>>) \subseteq Blocks
    BY <1>9, TwoTargets
  <2> QED BY <1>8, <1>9, <2>1, <2>2, BranchOn
<1> HIDE DEF h
<1>11. /\ l \in Locals /\ ~l.stopped /\ ~l.skip /\ l.after = 0 /\ l.again = 0 /\ l.inc = 0
       /\ l.other = z
  BY <1>7, <1>9 DEF Plain, Locals
<1>12. exits' = Append(exits, 0)
  <2>1. Last(locals').again = 0
    BY <1>5, <1>11 DEF Now, Last, GenDown
  <2> QED BY <2>1 DEF FlowDown
<1> HIDE DEF l
<1>13. Fits(n, l, 0, y, z)
  <2> SUFFICES ASSUME NEW r \in Run!Runs
               PROVE  LET f == Frame([node |-> n, slot |-> FirstSlot(n)], l, r, 0)
                      IN /\ FrameOK(f) /\ Own(f) \cap InUse = {} /\ y \notin Own(f)
                         /\ Untaken(f) = z
    BY DEF Fits
  <2> DEFINE f == Frame([node |-> n, slot |-> FirstSlot(n)], l, r, 0)
  <2>1. /\ f.kind = "if" /\ ~f.skip /\ f.other = z /\ f.after = 0
        /\ f.again = 0 /\ f.inc = 0 /\ f.parked = r.parked
    BY <1>1, <1>11 DEF Frame
  <2> HIDE DEF f
  <2>2. Own(f) = {z} /\ Untaken(f) = z /\ z # 0 /\ z \in Nat
    BY <1>9, <2>1 DEF Own, Untaken, Blocks
  <2>3. r.parked \in Run!Statuses \cup {"none"} /\ "if" \notin LoopKinds
    BY StatusKinds DEF Run!Runs
  <2>4. FrameOK(f)
    BY <2>1, <2>2, <2>3, StatusKinds DEF FrameOK
  <2>5. z \notin InUse
    BY <1>8, <1>9 DEF On
  <2> QED BY <1>9, <2>2, <2>4, <2>5 DEF f
<1>14. cursor = <<>> => stage # "functions"
  BY <1>1 DEF Active
<1>15. (n.kind = "if" => l.after = 0) /\ 0 \in Nat
  BY <1>11
<1> QED BY <1>1, <1>2, <1>5, <1>8, <1>9, <1>10, <1>11, <1>12, <1>13, <1>14, <1>15, BranchFlows

\* The body of a loop is entered, after the condition.
LEMMA LoopFlows ==
  ASSUME Now, NEW n \in Statements, n.kind \in {"while", "for"}, FlowDown(n), Open(n),
         builder.at \in builder.open, Flowing', cursor = <<>> => stage # "functions",
         NEW g, On(g, {builder.at}, InUse), From(g, builder.at, 3), HasValue(g),
         NEW again \in Blocks, again \in g.taken, again \notin InUse, From(g, again, 3),
         NEW left, NEW known \in SUBSET Name, EnterLoop(n, g, left, again, known)
  PROVE  EmitInv'
<1> DEFINE y == NewBlock(g, 1)
           z == NewBlock(g, 2)
           i == IF n.kind = "for" THEN NewBlock(g, 3) ELSE 0
           h == StartBlock(Terminate(Take(g, {y, z, i}), <<y, z>>), y)
           l == [Plain EXCEPT !.after = z, !.again = again, !.inc = i, !.known = known]
<1>1. GenDown(h, l)
  BY DEF EnterLoop
<1>2. /\ y \in Blocks /\ y \notin g.taken /\ z \in Blocks /\ z \notin g.taken /\ y # z
      /\ IF n.kind = "for" THEN i \in Blocks /\ i \notin g.taken /\ i # y /\ i # z ELSE i = 0
      /\ y \in Nat /\ z \in Nat /\ i \in Nat
  <2>1. /\ NewBlock(g, 1) # NewBlock(g, 2) /\ NewBlock(g, 1) # NewBlock(g, 3)
        /\ NewBlock(g, 2) # NewBlock(g, 3)
    BY NewBlocksDiffer DEF On
  <2>2. \A j \in {1, 2, 3} : /\ NewBlock(g, j) \in Blocks /\ NewBlock(g, j) \notin g.taken
                             /\ NewBlock(g, j) \in Nat
    BY NewOn DEF Blocks
  <2> QED BY <2>1, <2>2
<1> HIDE DEF y, z, i
<1>3. On(h, {builder.at}, InUse) /\ h.b.at = y /\ h.edges = Recorded(g.edges, g.b.at, <<y, z>>)
  <2>1. {y, z, i} \in SUBSET Nat /\ IsFiniteSet({y, z, i}) /\ y \in {y, z, i}
    <3>1. IsFiniteSet({y}) /\ IsFiniteSet({z}) /\ IsFiniteSet({i})
      BY FS_Singleton
    <3>2. IsFiniteSet({y} \cup {z})
      BY <3>1, FS_Union
    <3>3. IsFiniteSet(({y} \cup {z}) \cup {i})
      BY <3>1, <3>2, FS_Union
    <3>4. ({y} \cup {z}) \cup {i} = {y, z, i}
      OBVIOUS
    <3> QED BY <1>2, <3>3, <3>4
  <2>2. Range(<<y, z>>) \subseteq Blocks
    BY <1>2, TwoTargets
  <2> QED BY <1>2, <2>1, <2>2, BranchOn
<1> HIDE DEF h
<1>4. /\ l \in Locals /\ ~l.stopped /\ ~l.skip /\ l.after = z /\ l.again = again /\ l.inc = i
      /\ l.other = 0
  BY <1>2 DEF Plain, Locals
<1> HIDE DEF l
<1>5. exits' = Append(exits, z)
  <2>1. Last(locals').again = again /\ again # 0
    BY <1>1, <1>4 DEF Now, Last, GenDown, Blocks
  <2>2. emitted'.edges = h.edges
    BY <1>1, PutFlows DEF GenDown
  <2>3. z \notin DOMAIN g.edges /\ z # g.b.at
    BY <1>2, NewTargets
  <2>4. LeadsTo(<<y, z>>, 2, z)
    BY DEF LeadsTo
  <2>5. Follow(h.edges, again, 2) = z
    BY <1>3, <2>3, <2>4, FollowOn
  <2> QED BY <2>1, <2>2, <2>5 DEF FlowDown
<1>6. Fits(n, l, z, y, z)
  <2> SUFFICES ASSUME NEW r \in Run!Runs
               PROVE  LET f == Frame([node |-> n, slot |-> FirstSlot(n)], l, r, z)
                      IN /\ FrameOK(f) /\ Own(f) \cap InUse = {} /\ y \notin Own(f)
                         /\ Untaken(f) = z
    BY DEF Fits
  <2> DEFINE f == Frame([node |-> n, slot |-> FirstSlot(n)], l, r, z)
  <2>1. /\ f.kind = n.kind /\ ~f.skip /\ f.other = 0 /\ f.after = z
        /\ f.again = again /\ f.inc = i /\ f.parked = r.parked /\ f.exit = z
    BY <1>4 DEF Frame
  <2> HIDE DEF f
  <2>2. z # 0 /\ again # 0 /\ {z, again, i, 0} \subseteq Nat /\ again # z /\ again # i /\ y # again
    BY <1>2 DEF Blocks
  <2>3. r.parked \in Run!Statuses \cup {"none"}
    BY DEF Run!Runs
  <2>4. f.kind = "for" => f.inc \notin {0, f.after}
    BY <1>2, <2>1 DEF Blocks
  <2>5. FrameOK(f)
    BY <2>1, <2>2, <2>3, <2>4, StatusKinds DEF FrameOK
  <2>6. Own(f) \subseteq {z, again, i} /\ 0 \notin Own(f) /\ Untaken(f) = z
    BY <2>1, <2>2 DEF Own, Untaken
  <2>7. y \notin {z, again, i} /\ {z, again, i} \cap InUse \subseteq {0}
    BY <1>2, <2>2 DEF On, Blocks
  <2> QED BY <2>5, <2>6, <2>7 DEF f
<1>7. z \in Nat /\ (n.kind = "if" => l.after = 0) /\ n.kind \in {"if", "while", "for"}
  BY <1>2 DEF Blocks
<1> QED BY <1>1, <1>2, <1>3, <1>4, <1>5, <1>6, <1>7, BranchFlows

\* The condition of a loop, in a new block.
LEMMA ConditionFlows ==
  ASSUME NEW g, NEW S, NEW T, On(g, S, T), NEW p, From(g, p, 1),
         NEW again, again = NewBlock(g, 1), NEW xs, xs # <<>> => ExprHasValue(xs[1]),
         NEW h, h = Condition(StartCondition(g, again), xs)
  PROVE  /\ On(h, S, T) /\ From(h, p, 3) /\ HasValue(h)
         /\ again \in Blocks /\ again \in h.taken /\ again \notin T /\ From(h, again, 3)
<1> DEFINE c == StartCondition(g, again)
<1>1. again \in Blocks /\ again \notin g.taken
  BY NewOn
<1>2. On(c, S, T) /\ Goes(c, g, 1) /\ again \in c.taken /\ From(c, again, 0)
  BY <1>1, ConditionStarts
<1> HIDE DEF c
<1>3. Passes(h, c, S, T) /\ HasValue(h)
  BY <1>2, ValueOf DEF c
<1>4. On(h, S, T) /\ Goes(h, c, 1) /\ again \in h.taken
  BY <1>2, <1>3 DEF Passes
<1>5. From(c, p, 1 + 1) /\ 1 \in Nat /\ 0 \in Nat /\ 2 \in Nat /\ 3 \in Nat
  BY <1>2 DEF Goes
<1>6. 1 + 1 = 2 /\ 2 + 1 = 3 /\ 0 + 1 = 1 /\ 1 <= 3
  OBVIOUS
<1>7. From(h, p, 2 + 1)
  BY <1>4, <1>5, <1>6 DEF Goes
<1>8. From(h, again, 0 + 1)
  BY <1>2, <1>4, <1>5 DEF Goes
<1>9. From(h, p, 3)
  BY <1>6, <1>7
<1>10. From(h, again, 1)
  BY <1>6, <1>8
<1>11. From(h, again, 3)
  BY <1>5, <1>6, <1>10, FromMore
<1>12. again \notin T
  BY <1>1 DEF On
<1> QED BY <1>1, <1>3, <1>4, <1>9, <1>11, <1>12

LEMMA WhileFlows ==
  ASSUME Now, NEW n \in Statements, EnterWhile(n), FlowDown(n), Flowing'
  PROVE  EmitInv'
<1> DEFINE again == NewBlock(Gen, 1)
           c == StartCondition(Gen, again)
           g == Condition(c, <<n.cond>>)
           known == Usable(g)
<1>1. /\ n.kind = "while" /\ Active /\ Open(n) /\ Room(n) /\ HasValues(n)
      /\ EnterLoop(n, g, g, again, known)
  BY DEF EnterWhile, WhileBody, GenOpen, Open, FlowDown
<1>2. builder.at \in builder.open
  BY <1>1, ActiveOpen
<1>3. On(Gen, {builder.at}, InUse) /\ From(Gen, builder.at, 1)
  <2>1. On(Gen, {builder.at}, InUse) /\ From(Gen, builder.at, 0)
    BY <1>2, GenOn
  <2>2. 0 \in Nat /\ 1 \in Nat /\ 0 <= 1
    OBVIOUS
  <2> QED BY <2>1, <2>2, FromMore
<1>4. known \in SUBSET Name
  <2>1. GenOK(Gen, AllDue(locals), Depth(locals, cursor))
    BY GenStarts DEF Now
  <2>2. GenOK(c, AllDue(locals), Depth(locals, cursor))
    BY <2>1, StartConditionOK
  <2> HIDE DEF c
  <2>3. GenOK(g, AllDue(locals), Depth(locals, cursor))
    BY <2>2, ConditionOK
  <2> QED BY <2>3, UsableNames, DepthNat DEF Now
<1>5. <<n.cond>> # <<>> => ExprHasValue(<<n.cond>>[1])
  BY <1>1 DEF HasValues
<1>6. g = Condition(StartCondition(Gen, again), <<n.cond>>) /\ again = NewBlock(Gen, 1)
  OBVIOUS
<1> HIDE DEF known, g, c, again
<1>7. /\ On(g, {builder.at}, InUse) /\ From(g, builder.at, 3) /\ HasValue(g)
      /\ again \in Blocks /\ again \in g.taken /\ again \notin InUse /\ From(g, again, 3)
  BY <1>3, <1>5, <1>6, ConditionFlows
<1>8. cursor = <<>> => stage # "functions"
  BY <1>1 DEF Active
<1>9. n.kind \in {"while", "for"}
  BY <1>1
<1> QED BY <1>1, <1>2, <1>4, <1>7, <1>8, <1>9, LoopFlows

LEMMA ForFlows ==
  ASSUME Now, NEW n \in Statements, EnterFor(n), FlowDown(n), Flowing'
  PROVE  EmitInv'
<1> DEFINE s == pushScope(Gen)
           i == codegenOptional(s, n.init)
           again == NewBlock(i, 1)
           g == Condition(StartCondition(i, again), n.cond)
<1>1. /\ n.kind = "for" /\ Active /\ Open(n) /\ Room(n) /\ HasValues(n)
      /\ EnterLoop(n, g, popScope(g), again, {})
  BY DEF EnterFor, StartFor, ForCondition, ForBody, GenOpen, Open, FlowDown
<1>2. builder.at \in builder.open
  BY <1>1, ActiveOpen
<1>3. On(Gen, {builder.at}, InUse) /\ From(Gen, builder.at, 0)
  BY <1>2, GenOn
<1>4. IsStatement(n)
  BY AstAssumption
<1>5. n.cond # <<>> => ExprHasValue(n.cond[1])
  <2>1. n.cond # <<>> => 1 \in DOMAIN n.cond
    BY <1>1, <1>4 DEF IsStatement, IsOptional
  <2> QED BY <1>1, <2>1 DEF HasValues
<1>6. KeepsFlow(s, Gen)
  BY <1>3, OnSound, SmallSteps
<1> HIDE DEF s
<1>7. On(s, {builder.at}, InUse)
  BY <1>3, <1>6, KeepsOn
<1>8. n.init # <<>> => n.init[1].kind \in SimpleKinds
  BY <1>1, <1>4 DEF IsStatement, IsSimple
<1>9. Passes(i, s, {builder.at}, InUse)
  BY <1>7, <1>8, OptionalPasses
<1>10. Passes(i, Gen, {builder.at}, InUse)
  BY <1>3, <1>6, <1>9, KeepsThenPasses
<1>11. g = Condition(StartCondition(i, again), n.cond) /\ again = NewBlock(i, 1)
  OBVIOUS
<1> HIDE DEF g, again, i
<1>12. On(i, {builder.at}, InUse) /\ From(i, builder.at, 1)
  <2>1. From(i, builder.at, 0 + 1)
    BY <1>3, <1>10, PassesFrom
  <2>2. 0 + 1 = 1
    OBVIOUS
  <2> QED BY <1>10, <2>1, <2>2 DEF Passes
<1>13. /\ On(g, {builder.at}, InUse) /\ From(g, builder.at, 3) /\ HasValue(g)
       /\ again \in Blocks /\ again \in g.taken /\ again \notin InUse /\ From(g, again, 3)
  BY <1>5, <1>11, <1>12, ConditionFlows
<1>14. cursor = <<>> => stage # "functions"
  BY <1>1 DEF Active
<1>15. n.kind \in {"while", "for"} /\ {} \in SUBSET Name
  BY <1>1
<1> QED BY <1>1, <1>2, <1>13, <1>14, <1>15, LoopFlows

LEMMA FlowDownKeeps ==
  ASSUME Now, NEW n \in Statements, FlowDown(n), Flowing'
  PROVE  EmitInv'
<1>1. Down(n)
  BY DEF FlowDown
<1> QED BY <1>1, BlockFlows, IfFlows, WhileFlows, ForFlows, SkipEnterFlows DEF Down

--------------------------------------------------------------------------------
(***************************************************************************)
(* Statements left.                                                        *)
(***************************************************************************)
LEMMA Tops ==
  ASSUME Now, cursor # <<>>
  PROVE  LET n == Len(cursor)
         IN /\ n \in Nat \ {0} /\ n \in 1 .. n /\ n - 1 \in Nat /\ n - 1 \in 0 .. n
            /\ Parent = cursor[n] /\ Local = locals[n] /\ Run!Parked = runs[n].parked
            /\ Last(exits) = exits[n] /\ Local \in Locals
            /\ Front(cursor) \in Seq(Entries) /\ Len(Front(cursor)) = n - 1
            /\ Front(locals) \in Seq(Locals) /\ Len(Front(locals)) = n - 1
            /\ Front(runs) \in Seq(Run!Runs) /\ Len(Front(runs)) = n - 1
            /\ Front(exits) \in Seq(Nat) /\ Len(Front(exits)) = n - 1
            /\ \A i \in 1 .. n - 1 :
                 /\ Front(cursor)[i] = cursor[i] /\ Front(locals)[i] = locals[i]
                 /\ Front(runs)[i] = runs[i] /\ Front(exits)[i] = exits[i]
<1>1. /\ Len(cursor) \in Nat /\ cursor \in Seq(Entries) /\ locals \in Seq(Locals)
      /\ Len(locals) = Len(cursor) /\ runs \in Seq(Run!Runs) /\ Len(runs) = Len(cursor)
      /\ exits \in Seq(Nat) /\ Len(exits) = Len(cursor)
  BY DEF Now, FlowTypes
<1>2. Len(cursor) # 0 /\ locals # <<>> /\ runs # <<>> /\ exits # <<>>
  BY <1>1
<1>3. /\ Front(cursor) \in Seq(Entries) /\ Len(Front(cursor)) = Len(cursor) - 1
      /\ Last(cursor) = cursor[Len(cursor)]
      /\ \A i \in 1 .. Len(cursor) - 1 : Front(cursor)[i] = cursor[i]
  BY <1>1, FrontShape
<1>4. /\ Front(locals) \in Seq(Locals) /\ Len(Front(locals)) = Len(cursor) - 1
      /\ Last(locals) = locals[Len(cursor)] /\ Last(locals) \in Locals
      /\ \A i \in 1 .. Len(cursor) - 1 : Front(locals)[i] = locals[i]
  BY <1>1, <1>2, FrontShape
<1>5. /\ Front(runs) \in Seq(Run!Runs) /\ Len(Front(runs)) = Len(cursor) - 1
      /\ Last(runs) = runs[Len(cursor)]
      /\ \A i \in 1 .. Len(cursor) - 1 : Front(runs)[i] = runs[i]
  BY <1>1, <1>2, FrontShape
<1>6. /\ Front(exits) \in Seq(Nat) /\ Len(Front(exits)) = Len(cursor) - 1
      /\ Last(exits) = exits[Len(cursor)]
      /\ \A i \in 1 .. Len(cursor) - 1 : Front(exits)[i] = exits[i]
  BY <1>1, <1>2, FrontShape
<1>7. Parent = cursor[Len(cursor)]
  BY <1>3 DEF Parent
<1>8. Local = locals[Len(cursor)] /\ Local \in Locals
  BY <1>4 DEF Local
<1>9. Run!Parked = runs[Len(cursor)].parked
  <2>1. Run!Parked = Last(runs).parked
    BY DEF Run!Parked, Run!Last, Last
  <2> QED BY <1>5, <2>1
<1>10. LET n == Len(cursor)
       IN n \in Nat \ {0} /\ n \in 1 .. n /\ n - 1 \in Nat /\ n - 1 \in 0 .. n
  BY <1>1, <1>2
<1> QED BY <1>3, <1>4, <1>5, <1>6, <1>7, <1>8, <1>9, <1>10

LEMMA UpEnds ==
  ASSUME Now, cursor # <<>>, Parent.node.kind # "func", cursor' = Advance(Front(cursor)),
         stage' = stage, locals' = childDone(Front(locals), builder'),
         runs' = Front(runs), exits' = Front(exits),
         ~builder'.mid, Halts(Front(cursor), Front(locals), builder'),
         status' \in Run!Statuses, pc' \in Nat,
         \A i \in 1 .. Len(cursor) - 1 : builder'.open \cap Own(Frames[i]) = {},
         \A fr : Same(fr, Frames, Len(cursor) - 1)
                   => Agrees(fr, Len(cursor) - 1, pc', status', builder'.at, builder'.open)
  PROVE  EmitInv'
<1> DEFINE n == Len(cursor)
           path == Front(cursor)
           ls == Front(locals)
<1>1. /\ n \in Nat \ {0} /\ n \in 1 .. n /\ n - 1 \in Nat /\ n - 1 \in 0 .. n
      /\ Parent = cursor[n]
      /\ path \in Seq(Entries) /\ Len(path) = n - 1
      /\ ls \in Seq(Locals) /\ Len(ls) = n - 1
      /\ Front(runs) \in Seq(Run!Runs) /\ Len(Front(runs)) = n - 1
      /\ Front(exits) \in Seq(Nat) /\ Len(Front(exits)) = n - 1
      /\ \A i \in 1 .. n - 1 :
           /\ path[i] = cursor[i] /\ ls[i] = locals[i]
           /\ Front(runs)[i] = runs[i] /\ Front(exits)[i] = exits[i]
  BY Tops
<1>2. /\ Walk(cursor) /\ cursor \in Seq(Entries) /\ Apart(Frames, n, builder.open)
      /\ Orderly(cursor, locals, builder, stage)
  BY DEF Now
<1> HIDE DEF path, ls
<1>3. Walk(path)
  BY <1>1, <1>2, WalkFront
<1>4. Advanced(cursor', path)
  BY <1>1, AdvanceAdvances DEF path
<1>5. /\ cursor' \in Seq(Entries) /\ Len(cursor') = n - 1
      /\ \A i \in 1 .. n - 1 : cursor'[i].node = cursor[i].node
  BY <1>1, <1>4 DEF Advanced, SameNodes
<1>6. StoppedAt(locals', ls, path, builder')
  <2>1. \A i \in 1 .. Len(ls) : path[i].node = cursor[i].node
    BY <1>1
  <2>2. Len(path) = Len(ls)
    BY <1>1
  <2> QED BY <1>1, <2>1, <2>2, ChildDoneStops DEF ls
<1>7. Same(Frames', Frames, n - 1)
  <2>1. \A i \in 1 .. n - 1 :
          /\ cursor'[i].node = cursor[i].node /\ SameLocal(locals'[i], locals[i])
          /\ runs'[i].parked = runs[i].parked /\ exits'[i] = exits[i]
    BY <1>1, <1>5, <1>6 DEF StoppedAt, SameLocals, SameLocal
  <2>2. n - 1 <= Len(cursor) /\ n - 1 <= Len(cursor')
    BY <1>1, <1>5
  <2> QED BY <1>1, <1>2, <1>5, <2>1, <2>2, FramesSame
<1>8. Apart(Frames', Len(cursor'), builder'.open)
  <2>1. Apart(Frames', n - 1, builder'.open)
    BY <1>1, <1>2, <1>7, ApartKept
  <2> QED BY <1>5, <2>1
<1>9. Agrees(Frames', Len(cursor'), pc', status', builder'.at, builder'.open)
  BY <1>5, <1>7
<1>10. stage # "functions" \/ path # <<>>
  <2>1. CASE n = 1
    BY <1>1, <1>2, <2>1 DEF Orderly
  <2>2. CASE n # 1
    BY <1>1, <2>2
  <2> QED BY <2>1, <2>2
<1>11. Orderly(cursor', locals', builder', stage')
  <2>1. path # <<>> => (path[1].node.kind = "func" <=> stage = "functions")
    <3>1. path # <<>> => path[1] = cursor[1]
      BY <1>1
    <3> QED BY <1>2, <3>1 DEF Orderly
  <2>2. Halts(path, ls, builder')
    BY DEF path, ls
  <2> QED BY <1>3, <1>4, <1>6, <1>10, <2>1, <2>2, OrderlyAdvanced
<1>12. FlowTypes'
  BY <1>1, <1>5 DEF FlowTypes
<1>13. cursor' = <<>> => stage' # "functions"
  <2>1. cursor' = <<>> => n - 1 = 0
    BY <1>5
  <2>2. n - 1 = 0 => path = <<>>
    <3>1. n - 1 = 0 => Len(path) = 0
      BY <1>1
    <3>2. path \in Seq(Entries)
      BY <1>1
    <3> QED BY <3>1, <3>2
  <2> QED BY <1>10, <2>1, <2>2
<1> QED BY <1>8, <1>9, <1>11, <1>12, <1>13 DEF EmitInv

\* Code is generated for all the statements around one it is generated for.
LEMMA UnskippedHalts ==
  ASSUME Now, cursor # <<>>, ~Local.skip, NEW b
  PROVE  Halts(Front(cursor), Front(locals), b)
<1>1. /\ Len(cursor) \in Nat \ {0} /\ Local = locals[Len(cursor)]
      /\ Len(Front(cursor)) = Len(cursor) - 1
      /\ \A i \in 1 .. Len(cursor) - 1 :
           Front(cursor)[i] = cursor[i] /\ Front(locals)[i] = locals[i]
  BY Tops
<1>2. Halts(cursor, locals, builder)
  BY OrderlyHalts DEF Now
<1>3. ASSUME NEW i \in 1 .. Len(cursor) - 1
      PROVE  /\ ~locals[i].skip /\ ~locals[i].stopped
             /\ cursor[i].node.kind = "if" /\ cursor[i].slot \notin {"else", "done"}
                  => locals[i].after = 0
  <2>1. i \in 1 .. Len(cursor) /\ Len(cursor) \in i + 1 .. Len(cursor)
    BY <1>1
  <2> QED BY <1>1, <1>2, <2>1 DEF Halts
<1> QED BY <1>1, <1>3 DEF Halts

\* Once the statement ends, a run that goes on elsewhere waits elsewhere too.
LEMMA LeftAway ==
  ASSUME NEW fr, NEW n \in Nat \ {0}, NEW open, Apart(fr, n, open), NEW p,
         NEW s \in Run!Statuses, s # "live", NEW at, Agrees(fr, n, p, s, at, open),
         fr[n].kind # "func",
         NEW s2, s2 # "live",
         s2 = IF fr[n].parked # "none" THEN fr[n].parked
              ELSE IF fr[n].kind \in LoopKinds /\ s \in {"broke", "continued"} THEN "live" ELSE s
  PROVE  p = 0 \/ p \notin Own(fr[n])
<1>1. n \in 1 .. n /\ n - 1 \in Nat /\ \A i \in 1 .. n - 1 : i \in 1 .. n /\ i # n
  OBVIOUS
<1>2. \A i \in 1 .. n - 1 : FrameOK(fr[i]) /\ Parks(fr, p, i)
  BY <1>1 DEF Apart, Agrees
<1>3. s2 \in Run!Statuses
  BY <1>1 DEF Apart, FrameOK
<1>4. WaitsFor(fr, p, s2, n - 1)
  BY LastWaits
<1>5. Held(fr, p, n - 1)
  BY <1>1, <1>2, <1>3, <1>4, WaitsHeld
<1> QED BY <1>1, <1>5 DEF Held, Apart

\* Control comes to the merge block of an if-statement.
LEMMA IfLeft ==
  ASSUME NEW fr, NEW n \in Nat \ {0}, NEW open, Apart(fr, n, open), 0 \notin open, NEW p,
         NEW s \in Run!Statuses, NEW at, Agrees(fr, n, p, s, at, open),
         fr[n].kind = "if", ~fr[n].skip,
         NEW fr2, Same(fr2, fr, n - 1), NEW s2,
         s2 = IF fr[n].parked # "none" THEN fr[n].parked ELSE s,
         NEW q, s = "live" => q = Untaken(fr[n]), s # "live" => q = p
  PROVE  Agrees(fr2, n - 1, q, s2, Untaken(fr[n]), {Untaken(fr[n])})
<1> DEFINE top == fr[n]
           merge == Untaken(top)
<1>1. n \in 1 .. n /\ n \in Nat /\ n \in 0 .. n
  OBVIOUS
<1>2. FrameOK(top) /\ top.kind # "func" /\ top.kind \notin LoopKinds
  BY <1>1, StatusKinds DEF Apart
<1>3. merge # 0 /\ merge \in Own(top)
  BY <1>2 DEF FrameOK, Untaken, Own
<1>4. s2 = IF fr[n].parked # "none" THEN fr[n].parked
           ELSE IF fr[n].kind \in LoopKinds /\ s \in {"broke", "continued"} THEN "live" ELSE s
  BY <1>2
<1>5. s = "live" => top.parked = "none"
  <2>1. s = "live" => ~Held(fr, p, n)
    BY <1>1, LiveNotHeld
  <2>2. \A i \in 1 .. n : FrameOK(fr[i]) /\ Parks(fr, p, i)
    BY DEF Apart, Agrees
  <2> QED BY <1>1, <1>2, <2>1, <2>2, Unparked
<1>6. s # "live" /\ s2 = "live" => p = merge
  BY <1>2, LastWaits
<1>7. s # "live" /\ s2 # "live" => p # merge
  <2>1. s # "live" /\ s2 # "live" => p = 0 \/ p \notin Own(top)
    BY <1>2, <1>4, LeftAway
  <2> QED BY <1>3, <2>1
<1>8. s = "live" => s2 = "live"
  BY <1>5
<1> HIDE DEF merge
<1>9. s2 = "live" => q = merge /\ merge \in {merge}
  BY <1>6 DEF merge
<1>10. s2 # "live" => q = p /\ q \notin {merge}
  BY <1>7, <1>8
<1>11. q = p \/ s = "live" \/ p \in Own(fr[n])
  OBVIOUS
<1>12. Agrees(fr2, n - 1, q, s2, merge, {merge})
  BY <1>2, <1>4, <1>9, <1>10, <1>11, StatementEnded
<1> QED BY <1>12 DEF merge

\* Back at the condition of a loop, control leaves it.
BackOut(next, f) == IF next # 0 /\ next = f.again THEN f.exit ELSE next

\* ... and to the block after a loop: at its end by way of the condition, after
\* a continue by way of the increment.
LEMMA LoopLeft ==
  ASSUME NEW fr, NEW n \in Nat \ {0}, NEW open, Apart(fr, n, open), 0 \notin open, NEW p,
         NEW s \in Run!Statuses, NEW at, Agrees(fr, n, p, s, at, open),
         fr[n].kind \in LoopKinds, ~fr[n].skip,
         NEW fr2, Same(fr2, fr, n - 1), NEW s2,
         s2 = IF fr[n].parked # "none" THEN fr[n].parked
              ELSE IF s \in {"broke", "continued"} THEN "live" ELSE s,
         NEW next, s = "live" => next = fr[n].again,
         s # "live" /\ fr[n].kind = "for" /\ p = fr[n].inc => next = fr[n].again,
         s # "live" /\ ~(fr[n].kind = "for" /\ p = fr[n].inc) => next = p,
         NEW q, q = BackOut(next, fr[n])
  PROVE  Agrees(fr2, n - 1, q, s2, fr[n].after, {fr[n].after})
<1> DEFINE top == fr[n]
           after == top.after
<1>1. n \in 1 .. n /\ n \in Nat /\ n \in 0 .. n
  OBVIOUS
<1>2. FrameOK(top) /\ top.kind # "func"
  BY <1>1, StatusKinds DEF Apart
<1>3. /\ top.exit = after /\ after # 0 /\ top.again # 0 /\ top.again # after
      /\ after \in Own(top) /\ top.again \in Own(top)
      /\ top.kind = "for" => top.inc \in Own(top) /\ top.inc # after
  BY <1>2 DEF FrameOK, Own
<1>4. s2 = IF fr[n].parked # "none" THEN fr[n].parked
           ELSE IF fr[n].kind \in LoopKinds /\ s \in {"broke", "continued"} THEN "live" ELSE s
  OBVIOUS
<1>5. s = "live" => top.parked = "none"
  <2>1. s = "live" => ~Held(fr, p, n)
    BY <1>1, LiveNotHeld
  <2>2. \A i \in 1 .. n : FrameOK(fr[i]) /\ Parks(fr, p, i)
    BY DEF Apart, Agrees
  <2> QED BY <1>1, <1>2, <2>1, <2>2, Unparked
<1>6. s # "live" /\ s2 = "live" =>
        \/ p = after
        \/ IF top.kind = "for" THEN p = top.inc ELSE p = top.again
  <2>1. CASE top.parked = "none"
    <3>1. s # "live" /\ s2 = "live" => s \in {"broke", "continued"}
      BY <2>1
    <3>2. ASSUME s \in {"broke", "continued"} PROVE p = JumpTarget(top, s)
      BY <3>2, JumpLands DEF Agrees
    <3> QED BY <3>1, <3>2 DEF JumpTarget
  <2>2. CASE top.parked # "none"
    <3>1. s # "live" /\ s2 = "live" => p = Untaken(top)
      BY <1>2, <2>2, LastWaits
    <3> QED BY <1>3, <3>1 DEF Untaken
  <2> QED BY <2>1, <2>2
<1>7. s # "live" /\ s2 # "live" =>
        p # after /\ p # top.again /\ ~(top.kind = "for" /\ p = top.inc)
  <2>1. s # "live" /\ s2 # "live" => p = 0 \/ p \notin Own(top)
    BY <1>2, <1>4, LeftAway
  <2>2. top.kind = "for" => top.inc # 0
    BY <1>2 DEF FrameOK
  <2> QED BY <1>3, <2>1, <2>2
<1>8. s = "live" => s2 = "live"
  BY <1>5
<1>9. s2 = "live" => q = after /\ after \in {after}
  <2>1. s2 = "live" => next = top.again \/ next = after
    BY <1>6
  <2> QED BY <1>3, <2>1 DEF BackOut
<1>10. s2 # "live" => q = p /\ q \notin {after}
  BY <1>7, <1>8 DEF BackOut
<1>11. q = p \/ s = "live" \/ p \in Own(fr[n])
  <2>1. s # "live" /\ s2 = "live" => p \in Own(top)
    BY <1>3, <1>6
  <2> QED BY <1>10, <2>1
<1> HIDE DEF after
<1>12. Agrees(fr2, n - 1, q, s2, after, {after})
  BY <1>2, <1>4, <1>9, <1>10, <1>11, StatementEnded
<1> QED BY <1>12 DEF after

\* What the run and the control have when a statement is left.
LEMMA UpRuns ==
  ASSUME Now, FlowUp
  PROVE  LET n == Len(cursor)
             top == Frames[n]
             next == Follow(emitted'.edges, pc, 1)
         IN /\ cursor # <<>> /\ cursor' = Advance(Front(cursor)) /\ Parent.node.kind # "func"
            /\ top.kind = Parent.node.kind /\ top.skip = Local.skip /\ top.kind # "func"
            /\ top.other = Local.other /\ top.after = Local.after
            /\ top.again = Local.again /\ top.inc = Local.inc
            /\ runs' = Front(runs) /\ exits' = Front(exits)
            /\ status' = IF top.parked # "none" THEN top.parked
                         ELSE IF top.kind \in LoopKinds /\ status \in {"broke", "continued"}
                              THEN "live" ELSE status
            /\ status' \in Run!Statuses
            /\ pc' = IF next # 0 /\ next = top.again THEN top.exit ELSE next
<1> DEFINE n == Len(cursor)
           top == Frames[n]
           Ends(kind, after) == /\ Parent.node.kind = kind /\ runs' = Front(runs)
                                /\ status' = IF Run!Parked # "none" THEN Run!Parked ELSE after
<1>0. ASSUME NEW kind, NEW after, Run!Resume(kind, after) PROVE Ends(kind, after)
  BY <1>0 DEF Run!Resume, Run!Close, Run!Last, Last, Run!Front, Front, Parent
<1>1. \/ Ends("block", status) \/ Ends("if", status)
      \/ Ends("while", Run!AfterLoop) \/ Ends("for", Run!AfterLoop)
  BY <1>0 DEF FlowUp, Run!RunEndBlock, Run!RunEndIf, Run!RunEndWhile, Run!RunEndFor
<1>2. /\ cursor # <<>> /\ cursor' = Advance(Front(cursor)) /\ runs' = Front(runs)
      /\ Parent.node.kind \in {"block", "if", "while", "for"}
  <2>1. \E kind : Close(kind)
    BY DEF FlowUp, Up, LeaveBlock, LeaveIf, LeaveWhile, LeaveFor, SkipLeave, GenUp
  <2> QED BY <1>1, <2>1 DEF Close
<1>3. /\ n \in 1 .. n /\ Parent = cursor[n] /\ Local = locals[n] /\ Run!Parked = runs[n].parked
      /\ Last(exits) = exits[n]
  BY <1>2, Tops
<1>4. /\ top.kind = Parent.node.kind /\ top.skip = Local.skip
      /\ top.other = Local.other /\ top.after = Local.after
      /\ top.again = Local.again /\ top.inc = Local.inc
      /\ top.parked = Run!Parked /\ top.exit = Last(exits)
  BY <1>3, FrameIs
<1>5. status' = IF top.parked # "none" THEN top.parked
                ELSE IF top.kind \in LoopKinds /\ status \in {"broke", "continued"}
                     THEN "live" ELSE status
  <2>1. CASE Ends("block", status) \/ Ends("if", status)
    <3>1. Parent.node.kind \in {"block", "if"}
      BY <2>1
    <3> QED BY <1>4, <2>1, <3>1, StatusKinds
  <2>2. CASE Ends("while", Run!AfterLoop) \/ Ends("for", Run!AfterLoop)
    <3>1. Parent.node.kind \in {"while", "for"}
      BY <2>2
    <3> QED BY <1>4, <2>2, <3>1, StatusKinds DEF Run!AfterLoop
  <2> QED BY <1>1, <2>1, <2>2
<1>6. status' \in Run!Statuses
  <2>1. FrameOK(top) /\ status \in Run!Statuses
    BY <1>3 DEF Now, Apart, FlowTypes
  <2>2. top.parked \in Run!Statuses \cup {"none"}
    BY <2>1 DEF FrameOK
  <2> QED BY <1>5, <2>1, <2>2, StatusKinds
<1>7. exits' = Front(exits)
  BY DEF FlowUp
<1>8. LET next == Follow(emitted'.edges, pc, 1)
      IN pc' = IF next # 0 /\ next = top.again THEN top.exit ELSE next
  BY <1>4 DEF FlowUp
<1> HIDE DEF top
<1>9. Parent.node.kind # "func"
  BY <1>2
<1> QED BY <1>2, <1>4, <1>5, <1>6, <1>7, <1>8, <1>9 DEF top

LEMMA UpFlows ==
  ASSUME Now, FlowUp, Flowing', NEW kind, NEW g, GenUp(kind, g), ~g.b.mid,
         \A i \in 1 .. Len(cursor) - 1 : g.b.open \cap Own(Frames[i]) = {},
         pc' \in Nat,
         \A fr : Same(fr, Frames, Len(cursor) - 1)
                   => Agrees(fr, Len(cursor) - 1, pc', status', g.b.at, g.b.open)
  PROVE  EmitInv'
<1>1. /\ ~Local.skip /\ Put(g) /\ locals' = childDone(Front(locals), g.b)
  BY DEF GenUp
<1>2. builder' = g.b /\ stage' = stage
  BY <1>1, PutFlows
<1>3. /\ cursor # <<>> /\ cursor' = Advance(Front(cursor)) /\ Parent.node.kind # "func"
      /\ runs' = Front(runs) /\ exits' = Front(exits) /\ status' \in Run!Statuses
  BY UpRuns
<1>4. Halts(Front(cursor), Front(locals), builder')
  BY <1>1, <1>3, UnskippedHalts
<1>5. ~builder'.mid /\ locals' = childDone(Front(locals), builder')
  BY <1>1, <1>2
<1>6. \A i \in 1 .. Len(cursor) - 1 : builder'.open \cap Own(Frames[i]) = {}
  BY <1>2
<1>7. \A fr : Same(fr, Frames, Len(cursor) - 1)
                => Agrees(fr, Len(cursor) - 1, pc', status', builder'.at, builder'.open)
  BY <1>2
<1> QED BY <1>2, <1>3, <1>4, <1>5, <1>6, <1>7, UpEnds

LEMMA GenSound ==
  ASSUME Now
  PROVE  /\ Sound(Gen) /\ Gen.b.at = builder.at /\ Gen.b.open = builder.open /\ ~Gen.b.mid
         /\ Gen.taken = InUse /\ Gen.edges = <<>> /\ Gen.code = {} /\ Gen.b.at \in Blocks
<1>1. GenOK(Gen, AllDue(locals), Depth(locals, cursor))
  BY GenStarts DEF Now
<1>2. /\ DOMAIN Gen = GenFields /\ Gen.b \in Builders
  BY <1>1 DEF GenOK, BlocksOK
<1>3. /\ Gen.b.at = builder.at /\ Gen.b.open = builder.open /\ ~Gen.b.mid
      /\ Gen.taken = InUse /\ Gen.edges = <<>> /\ Gen.code = {}
  BY DEF Gen, GenWith, Now, Builders, Orderly
<1>4. Gen.b.at \in Blocks
  BY <1>2 DEF Builders
<1> QED BY <1>2, <1>3, <1>4 DEF Sound

\* The end of a branch or loop body is led on, if control can get there.
LEMMA LedOnFrom ==
  ASSUME NEW g, Sound(g), g.b.open \subseteq {g.b.at}, ~g.b.mid, g.edges = <<>>, g.code = {},
         NEW x \in Blocks, NEW y \in Blocks
  PROVE  LET h == StartBlock(BranchIfOpen(g, x), y)
         IN /\ Sound(h) /\ h.b.at = y /\ h.b.open = {y} /\ ~h.b.mid
            /\ h.edges = IF g.b.at \in g.b.open
                         THEN Recorded(<<>>, g.b.at, <<x>>) ELSE <<>>
            /\ h.code = {} /\ h.taken = g.taken
<1> DEFINE i == BranchIfOpen(g, x)
           h == StartBlock(i, y)
<1>2. /\ DOMAIN g = GenFields /\ g.b \in Builders
  BY DEF Sound
<1> HIDE DEF h
<1>5. /\ DOMAIN i = GenFields /\ i.b \in Builders /\ i.b.open = {} /\ ~i.b.mid
      /\ i.edges = IF g.b.at \in g.b.open
                   THEN Recorded(<<>>, g.b.at, <<x>>) ELSE <<>>
      /\ i.code = {} /\ i.taken = g.taken
  <2>1. CASE g.b.at \in g.b.open
    <3>1. i = Terminate(g, <<x>>)
      BY <2>1 DEF BranchIfOpen, HasTerminator
    <3> DEFINE t == Terminate(g, <<x>>)
    <3>2. Range(<<x>>) \subseteq Blocks
      BY OneTarget
    <3>3. /\ DOMAIN t = GenFields /\ t.b \in Builders /\ t.b.open = {} /\ ~t.b.mid
          /\ t.edges = Recorded(g.edges, g.b.at, <<x>>) /\ t.code = {} /\ t.taken = g.taken
      BY <1>2, <3>2 DEF Terminate, Reject, GenFields, Builders
    <3> HIDE DEF t
    <3>4. t.edges = Recorded(<<>>, g.b.at, <<x>>)
      BY <3>3
    <3> QED BY <2>1, <3>1, <3>3, <3>4 DEF t
  <2>2. CASE g.b.at \notin g.b.open
    <3>1. i = g /\ g.b.open = {}
      BY <2>2 DEF BranchIfOpen, HasTerminator
    <3> QED BY <1>2, <2>2, <3>1
  <2> QED BY <2>1, <2>2
<1> HIDE DEF i
<1>6. /\ DOMAIN h = GenFields /\ h.b \in Builders /\ h.b.open = {y} /\ ~h.b.mid /\ h.b.at = y
      /\ h.edges = i.edges /\ h.code = i.code /\ h.taken = i.taken
  BY <1>5 DEF h, StartBlock, GenFields, Builders
<1> QED BY <1>5, <1>6 DEF Sound, i, h

LEMMA LedOn ==
  ASSUME Now, NEW x \in Blocks, NEW y \in Blocks
  PROVE  LET h == StartBlock(BranchIfOpen(Gen, x), y)
         IN /\ Sound(h) /\ h.b.at = y /\ h.b.open = {y} /\ ~h.b.mid
            /\ h.edges = IF builder.at \in builder.open
                         THEN Recorded(<<>>, builder.at, <<x>>) ELSE <<>>
            /\ h.code = {} /\ h.taken = InUse
<1>1. Gen.b.open \subseteq {Gen.b.at}
  BY GenSound DEF Now
<1> HIDE DEF Gen
<1> QED BY <1>1, GenSound, LedOnFrom

LEMMA LedOnFollows ==
  ASSUME Now, NEW x, NEW edges,
         edges = IF builder.at \in builder.open
                 THEN Recorded(<<>>, builder.at, <<x>>) ELSE <<>>,
         builder.at \in builder.open => x # builder.at
  PROVE  /\ status = "live" => Follow(edges, pc, 1) = x
         /\ status # "live" => Follow(edges, pc, 1) = pc
<1>1. status = "live" => pc = builder.at /\ builder.at \in builder.open
  BY DEF Now, Agrees
<1>2. CASE status = "live"
  <2>1. /\ On(Gen, {builder.at}, InUse) /\ From(Gen, builder.at, 0) /\ Gen.b.at = builder.at
    BY <1>1, <1>2, GenOn
  <2>2. Gen.edges = <<>> /\ DOMAIN <<>> = {}
    BY DEF Gen, GenWith
  <2>3. From(Gen, builder.at, 3)
    <3>1. 0 \in Nat /\ 3 \in Nat /\ 0 <= 3
      OBVIOUS
    <3> QED BY <2>1, <3>1, FromMore
  <2>4. LeadsTo(<<x>>, 1, x)
    BY DEF LeadsTo
  <2>5. x \notin DOMAIN Gen.edges /\ x # Gen.b.at
    BY <1>1, <1>2, <2>1, <2>2
  <2>6. Follow(Recorded(Gen.edges, Gen.b.at, <<x>>), builder.at, 1) = x
    BY <2>1, <2>3, <2>4, <2>5, FollowOn
  <2> QED BY <1>1, <1>2, <2>1, <2>2, <2>6
<1>3. CASE status # "live"
  <2>1. pc \notin builder.open /\ pc \in Nat
    BY <1>3, WaitsApart DEF Now, FlowTypes
  <2>2. pc \notin DOMAIN edges
    <3>1. CASE builder.at \in builder.open
      <4>1. DOMAIN edges = {builder.at}
        BY <3>1 DEF Recorded
      <4> QED BY <2>1, <3>1, <4>1
    <3>2. CASE builder.at \notin builder.open
      BY <3>2
    <3> QED BY <3>1, <3>2
  <2> QED BY <1>3, <2>1, <2>2, FollowStays
<1> QED BY <1>2, <1>3

\* What the generator keeps for the statement it leaves.
LEMMA TopFrame ==
  ASSUME Now, FlowUp, ~Local.skip
  PROVE  LET n == Len(cursor)
             top == Frames[n]
         IN /\ n \in Nat \ {0} /\ n \in 1 .. n /\ FrameOK(top) /\ ~top.skip
            /\ Apart(Frames, n, builder.open) /\ 0 \notin builder.open
            /\ Agrees(Frames, n, pc, status, builder.at, builder.open)
            /\ status \in Run!Statuses /\ pc \in Nat
            /\ Own(top) \subseteq InUse /\ builder.open \cap Own(top) = {}
            /\ Own(top) \subseteq Blocks
            /\ \A x \in Own(top) : \A i \in 1 .. n - 1 : {x} \cap Own(Frames[i]) = {}
<1>1. cursor # <<>> /\ Frames[Len(cursor)].skip = Local.skip
  BY UpRuns
<1>2. LET n == Len(cursor) IN n \in Nat \ {0} /\ n \in 1 .. n
  BY <1>1, Tops
<1>3. LET n == Len(cursor)
      IN /\ Apart(Frames, n, builder.open) /\ 0 \notin builder.open
         /\ Agrees(Frames, n, pc, status, builder.at, builder.open)
         /\ status \in Run!Statuses /\ pc \in Nat
  BY DEF Now, FlowTypes
<1>4. LET top == Frames[Len(cursor)]
      IN FrameOK(top) /\ builder.open \cap Own(top) = {} /\ Own(top) \subseteq InUse
  BY <1>2, <1>3, OwnTaken DEF Apart
<1>5. Own(Frames[Len(cursor)]) \subseteq Blocks
  BY <1>4 DEF FrameOK, Own, Blocks
<1>6. LET n == Len(cursor)
      IN \A x \in Own(Frames[n]) : \A i \in 1 .. n - 1 : {x} \cap Own(Frames[i]) = {}
  <2>1. \A i \in 1 .. Len(cursor) - 1 : i \in 1 .. Len(cursor) /\ i # Len(cursor)
    BY <1>2
  <2> QED BY <1>2, <1>3, <2>1 DEF Apart
<1> QED BY <1>1, <1>2, <1>3, <1>4, <1>5, <1>6

LEMMA LeaveBlockFlows ==
  ASSUME Now, FlowUp, LeaveBlock, Flowing'
  PROVE  EmitInv'
<1> DEFINE n == Len(cursor)
           top == Frames[n]
           g == popScope(Gen)
           next == Follow(emitted'.edges, pc, 1)
<1>1. GenUp("block", g) /\ ~Local.skip /\ Put(g) /\ Parent.node.kind = "block"
  BY DEF LeaveBlock, GenUp, Close, Parent
<1>2. g.b.at = builder.at /\ g.b.open = builder.open /\ ~g.b.mid /\ DOMAIN g.edges = {}
  <2>1. KeepsFlow(g, Gen)
    BY GenSound, SmallSteps
  <2>2. DOMAIN <<>> = {}
    OBVIOUS
  <2> QED BY <2>1, <2>2, GenSound DEF KeepsFlow
<1>3. /\ n \in Nat \ {0} /\ n \in 1 .. n /\ FrameOK(top) /\ ~top.skip
      /\ Apart(Frames, n, builder.open) /\ 0 \notin builder.open
      /\ Agrees(Frames, n, pc, status, builder.at, builder.open)
      /\ status \in Run!Statuses /\ pc \in Nat
  BY <1>1, TopFrame
<1>4. top.kind = "block" /\ top.parked = "none" /\ top.again = 0 /\ top.kind \notin LoopKinds
      /\ top.kind # "func"
  <2>1. top.kind = "block"
    BY <1>1, UpRuns
  <2>2. "block" \notin LoopKinds
    BY StatusKinds
  <2> QED BY <1>3, <2>1, <2>2 DEF FrameOK
<1>5. emitted'.edges = g.edges
  BY <1>1, PutFlows
<1>6. next = pc
  BY <1>2, <1>3, <1>5, FollowStays
<1>7. pc' = pc /\ status' = status
  BY <1>3, <1>4, <1>6, UpRuns
<1>8. ASSUME NEW fr, Same(fr, Frames, n - 1)
      PROVE  Agrees(fr, n - 1, pc', status', g.b.at, g.b.open)
  <2>1. status = "live" => pc = builder.at /\ builder.at \in builder.open
    BY <1>3 DEF Agrees
  <2>2. status # "live" => pc = pc /\ pc \notin builder.open
    BY WaitsApart
  <2>3. status = IF Frames[n].parked # "none" THEN Frames[n].parked
                 ELSE IF Frames[n].kind \in LoopKinds /\ status \in {"broke", "continued"}
                      THEN "live" ELSE status
    BY <1>4
  <2> HIDE DEF n
  <2>4. Agrees(fr, n - 1, pc, status, builder.at, builder.open)
    BY <1>3, <1>4, <1>8, <2>1, <2>2, <2>3, StatementEnded
  <2> QED BY <1>2, <1>7, <2>4
<1>9. \A i \in 1 .. n - 1 : g.b.open \cap Own(Frames[i]) = {}
  <2>1. \A i \in 1 .. n - 1 : i \in 1 .. n
    BY <1>3
  <2> QED BY <1>2, <1>3, <2>1 DEF Apart
<1>10. pc' \in Nat
  BY <1>3, <1>7
<1> QED BY <1>1, <1>2, <1>8, <1>9, <1>10, UpFlows

LEMMA LeaveIfFlows ==
  ASSUME Now, FlowUp, LeaveIf, Flowing'
  PROVE  EmitInv'
<1> DEFINE n == Len(cursor)
           top == Frames[n]
           merge == Untaken(top)
           h == StartBlock(BranchIfOpen(Gen, merge), merge)
           g == LeaveRegion(h, Local.known)
           next == Follow(emitted'.edges, pc, 1)
<1>1. GenUp("if", g) /\ ~Local.skip /\ Put(g) /\ Parent.node.kind = "if"
  <2>1. Untaken(top) = IF Local.after = 0 THEN Local.other ELSE Local.after
    BY UpRuns DEF Untaken
  <2> QED BY <2>1 DEF LeaveIf, GenUp, Close, Parent
<1>2. /\ n \in Nat \ {0} /\ n \in 1 .. n /\ FrameOK(top) /\ ~top.skip
      /\ Apart(Frames, n, builder.open) /\ 0 \notin builder.open
      /\ Agrees(Frames, n, pc, status, builder.at, builder.open)
      /\ status \in Run!Statuses /\ pc \in Nat
      /\ Own(top) \subseteq InUse /\ builder.open \cap Own(top) = {} /\ Own(top) \subseteq Blocks
      /\ \A x \in Own(top) : \A i \in 1 .. n - 1 : {x} \cap Own(Frames[i]) = {}
  BY <1>1, TopFrame
<1>3. top.kind = "if" /\ top.again = 0 /\ top.kind \notin LoopKinds
  <2>1. top.kind = "if"
    BY <1>1, UpRuns
  <2>2. "if" \notin LoopKinds
    BY StatusKinds
  <2> QED BY <1>2, <2>1, <2>2 DEF FrameOK
<1>4. merge \in Own(top) /\ merge \in Blocks /\ merge \in InUse /\ merge \in Nat
  <2>1. merge # 0
    BY <1>2, <1>3 DEF FrameOK
  <2>2. merge \in Own(top)
    BY <2>1 DEF Own, Untaken
  <2> QED BY <1>2, <2>2 DEF Blocks
<1> HIDE DEF merge
<1>5. /\ Sound(h) /\ h.b.at = merge /\ h.b.open = {merge} /\ ~h.b.mid
      /\ h.edges = IF builder.at \in builder.open
                   THEN Recorded(<<>>, builder.at, <<merge>>) ELSE <<>>
  BY <1>4, LedOn
<1>6. KeepsFlow(g, h)
  BY <1>4, <1>5, SmallSteps
<1>7. g.b.at = merge /\ g.b.open = {merge} /\ ~g.b.mid /\ g.edges = h.edges
  BY <1>5, <1>6 DEF KeepsFlow
<1> HIDE DEF g, h
<1>8. emitted'.edges = h.edges
  BY <1>1, <1>7, PutFlows
<1>9. (status = "live" => next = merge) /\ (status # "live" => next = pc)
  <2>1. builder.at \in builder.open => merge # builder.at
    BY <1>2, <1>4
  <2> QED BY <1>4, <1>5, <1>8, <2>1, LedOnFollows
<1>10. /\ pc' = next
       /\ status' = IF top.parked # "none" THEN top.parked ELSE status
  BY <1>3, UpRuns
<1>11. ASSUME NEW fr, Same(fr, Frames, n - 1)
       PROVE  Agrees(fr, n - 1, pc', status', g.b.at, g.b.open)
  <2> HIDE DEF n, next
  <2> USE DEF merge
  <2>1. Agrees(fr, n - 1, pc', status', merge, {merge})
    BY <1>2, <1>3, <1>9, <1>10, <1>11, IfLeft
  <2> QED BY <1>7, <2>1
<1>12. \A i \in 1 .. n - 1 : g.b.open \cap Own(Frames[i]) = {}
  BY <1>2, <1>4, <1>7
<1>13. pc' \in Nat
  BY <1>2, <1>4, <1>9, <1>10
<1> QED BY <1>1, <1>7, <1>11, <1>12, <1>13, UpFlows

\* A loop is left for the block after it, however its body and header end.
LEMMA LoopEnds ==
  ASSUME Now, FlowUp, Flowing', NEW kind \in {"while", "for"}, NEW g, GenUp(kind, g),
         g.b.at = Local.after, g.b.open = {Local.after}, ~g.b.mid,
         LET next == Follow(g.edges, pc, 1)
         IN /\ status = "live" => next = Local.again
            /\ status # "live" /\ kind = "for" /\ pc = Local.inc => next = Local.again
            /\ status # "live" /\ ~(kind = "for" /\ pc = Local.inc) => next = pc
  PROVE  EmitInv'
<1> DEFINE n == Len(cursor)
           top == Frames[n]
           next == Follow(g.edges, pc, 1)
<1>1. ~Local.skip /\ Put(g) /\ Parent.node.kind = kind
  BY DEF GenUp, Close, Parent
<1>2. /\ n \in Nat \ {0} /\ n \in 1 .. n /\ FrameOK(top) /\ ~top.skip
      /\ Apart(Frames, n, builder.open) /\ 0 \notin builder.open
      /\ Agrees(Frames, n, pc, status, builder.at, builder.open)
      /\ status \in Run!Statuses /\ pc \in Nat
      /\ \A x \in Own(top) : \A i \in 1 .. n - 1 : {x} \cap Own(Frames[i]) = {}
  BY <1>1, TopFrame
<1>3. /\ top.kind = kind /\ top.kind \in LoopKinds
      /\ top.after = Local.after /\ top.again = Local.again /\ top.inc = Local.inc
  BY <1>1, UpRuns, StatusKinds
<1>4. top.after \in Own(top) /\ top.exit = top.after /\ top.after \in Nat /\ top.again \in Nat
  BY <1>2, <1>3 DEF FrameOK, Own
<1>5. emitted'.edges = g.edges
  BY <1>1, PutFlows
<1>6. /\ status = "live" => next = top.again
      /\ status # "live" /\ top.kind = "for" /\ pc = top.inc => next = top.again
      /\ status # "live" /\ ~(top.kind = "for" /\ pc = top.inc) => next = pc
  BY <1>3
<1>7. /\ pc' = BackOut(next, top)
      /\ status' = IF top.parked # "none" THEN top.parked
                   ELSE IF status \in {"broke", "continued"} THEN "live" ELSE status
  BY <1>3, <1>5, UpRuns DEF BackOut
<1> HIDE DEF next
<1>8. ASSUME NEW fr, Same(fr, Frames, n - 1)
      PROVE  Agrees(fr, n - 1, pc', status', g.b.at, g.b.open)
  <2> HIDE DEF n
  <2>1. Agrees(fr, n - 1, pc', status', Frames[n].after, {Frames[n].after})
    BY <1>2, <1>3, <1>6, <1>7, <1>8, LoopLeft
  <2> QED BY <1>3, <2>1
<1>9. \A i \in 1 .. n - 1 : g.b.open \cap Own(Frames[i]) = {}
  BY <1>2, <1>3, <1>4
<1>10. pc' \in Nat
  BY <1>2, <1>4, <1>6, <1>7 DEF BackOut
<1> QED BY <1>1, <1>8, <1>9, <1>10, UpFlows

LEMMA LoopBlocks ==
  ASSUME Now, FlowUp, ~Local.skip, Parent.node.kind \in {"while", "for"}
  PROVE  /\ Local.after \in Blocks /\ Local.after \in InUse /\ Local.again \in Blocks
         /\ Local.again \in InUse /\ Local.again # Local.after
         /\ Local.after \notin builder.open /\ Local.again \notin builder.open
         /\ Parent.node.kind = "for" =>
              /\ Local.inc \in Blocks /\ Local.inc \in InUse /\ Local.inc \notin builder.open
              /\ Local.inc # Local.after /\ Local.inc # Local.again
<1> DEFINE top == Frames[Len(cursor)]
<1>1. /\ FrameOK(top) /\ ~top.skip /\ Own(top) \subseteq InUse /\ builder.open \cap Own(top) = {}
      /\ Own(top) \subseteq Blocks
  BY TopFrame
<1>2. /\ top.kind = Parent.node.kind /\ top.kind \in LoopKinds
      /\ top.after = Local.after /\ top.again = Local.again /\ top.inc = Local.inc
  BY UpRuns, StatusKinds
<1> HIDE DEF top
<1>3. /\ top.after \in Own(top) /\ top.again \in Own(top) /\ top.again # top.after
      /\ top.kind = "for" => top.inc \in Own(top) /\ top.inc # top.after /\ top.inc # top.again
  BY <1>1, <1>2 DEF FrameOK, Own
<1> QED BY <1>1, <1>2, <1>3

LEMMA LeaveWhileFlows ==
  ASSUME Now, FlowUp, LeaveWhile, Flowing'
  PROVE  EmitInv'
<1> DEFINE h == StartBlock(BranchIfOpen(Gen, Local.again), Local.after)
           g == LeaveRegion(h, Local.known)
<1>1. GenUp("while", g) /\ ~Local.skip /\ Parent.node.kind = "while"
  BY DEF LeaveWhile, GenUp, Close, Parent
<1>2. /\ Local.after \in Blocks /\ Local.again \in Blocks /\ Local.again \in InUse
      /\ Local.again \notin builder.open
  BY <1>1, LoopBlocks
<1>3. /\ Sound(h) /\ h.b.at = Local.after /\ h.b.open = {Local.after} /\ ~h.b.mid
      /\ h.edges = IF builder.at \in builder.open
                   THEN Recorded(<<>>, builder.at, <<Local.again>>) ELSE <<>>
  BY <1>2, LedOn
<1>4. KeepsFlow(g, h)
  BY <1>2, <1>3, SmallSteps
<1>5. /\ g.b.at = Local.after /\ g.b.open = {Local.after} /\ ~g.b.mid /\ g.edges = h.edges
  BY <1>3, <1>4 DEF KeepsFlow
<1> HIDE DEF g, h
<1>6. /\ status = "live" => Follow(g.edges, pc, 1) = Local.again
      /\ status # "live" => Follow(g.edges, pc, 1) = pc
  BY <1>2, <1>3, <1>5, LedOnFollows
<1>7. "while" \in {"while", "for"} /\ "while" # "for"
  OBVIOUS
<1> QED BY <1>1, <1>5, <1>6, <1>7, LoopEnds

\* The increment of a for-statement is in a block of its own, which the end of
\* the body and a continue lead to, and leads back to the condition.
LEMMA IncrementOn ==
  ASSUME Now, FlowUp, ~Local.skip, Parent.node.kind = "for"
  PROVE  LET inInc == StartBlock(BranchIfOpen(Gen, Local.inc), Local.inc)
             S == builder.open \cup {Local.inc}
         IN /\ On(inInc, S, InUse) /\ inInc.code = {}
            /\ From(inInc, Local.inc, 0)
            /\ status = "live" => From(inInc, pc, 1)
<1> DEFINE inc == Local.inc
           g == StartBlock(BranchIfOpen(Gen, inc), inc)
           S == builder.open \cup {inc}
<1>1. inc \in Blocks /\ inc \in InUse /\ inc \notin builder.open /\ inc \in Nat
  BY LoopBlocks DEF Blocks
<1>2. /\ Sound(g) /\ g.b.at = inc /\ g.b.open = {inc} /\ ~g.b.mid
      /\ g.edges = IF builder.at \in builder.open
                   THEN Recorded(<<>>, builder.at, <<inc>>) ELSE <<>>
      /\ g.code = {} /\ g.taken = InUse
  BY <1>1, LedOn
<1>3. InUse \in SUBSET Nat /\ IsFiniteSet(InUse) /\ builder.at \in InUse /\ builder.at \in Blocks
  <2>1. GenOK(Gen, AllDue(locals), Depth(locals, cursor))
    BY GenStarts DEF Now
  <2>2. Gen.taken \in SUBSET Nat /\ IsFiniteSet(Gen.taken) /\ Gen.b.at \in Gen.taken
    BY <2>1 DEF GenOK, BlocksOK
  <2> QED BY <2>2, GenSound
<1>4. DOMAIN g.edges \subseteq {builder.at} \cap builder.open
  <2>1. CASE builder.at \in builder.open
    <3>1. DOMAIN g.edges = {builder.at}
      BY <1>2, <2>1 DEF Recorded
    <3> QED BY <2>1, <3>1
  <2>2. CASE builder.at \notin builder.open
    <3>1. g.edges = <<>> /\ DOMAIN <<>> = {}
      BY <1>2, <2>2
    <3> QED BY <3>1
  <2> QED BY <2>1, <2>2
<1> HIDE DEF g, inc
<1>5. On(g, S, InUse)
  <2>1. DOMAIN g.edges \subseteq InUse \ {0, inc}
    BY <1>1, <1>3, <1>4 DEF Blocks
  <2>2. {g.b.at} \cup DOMAIN g.edges \cup g.code \subseteq S \cup (Nat \ InUse)
    BY <1>2, <1>4
  <2> HIDE DEF S
  <2> QED BY <1>1, <1>2, <1>3, <2>1, <2>2 DEF On, Sound
<1>6. From(g, inc, 0)
  <2>1. Lead(g.edges, inc, inc, 0) /\ 0 \in 0 .. 0
    BY <1>1, LeadNone
  <2> QED BY <1>2, <2>1 DEF From
<1>7. ASSUME status = "live" PROVE From(g, pc, 1)
  <2>1. pc = builder.at /\ builder.at \in builder.open
    BY <1>7 DEF Now, Agrees
  <2>2. /\ On(Gen, {builder.at}, InUse) /\ From(Gen, pc, 0) /\ Gen.b.at = builder.at
    BY <2>1, GenOn
  <2>3. g.edges = Recorded(Gen.edges, Gen.b.at, <<inc>>) /\ g.code = Gen.code
    BY <1>2, <2>1, GenSound
  <2>4. Goes(g, Gen, 1)
    BY <1>1, <1>2, <2>2, <2>3, JumpGoes
  <2>5. From(g, pc, 0 + 1) /\ 0 + 1 = 1
    <3>1. 0 \in Nat
      OBVIOUS
    <3> QED BY <2>2, <2>4, <3>1 DEF Goes
  <2> QED BY <2>5
<1> QED BY <1>2, <1>5, <1>6, <1>7 DEF g, inc

LEMMA LeaveForFlows ==
  ASSUME Now, FlowUp, LeaveFor, Flowing'
  PROVE  EmitInv'
<1> DEFINE inc == Local.inc
           again == Local.again
           after == Local.after
           S == builder.open \cup {inc}
           inInc == StartBlock(BranchIfOpen(Gen, inc), inc)
           h == codegenOptional(inInc, Parent.node.inc)
           b == BranchIfOpen(h, again)
           a == StartBlock(b, after)
           g == popScope(a)
<1>1. GenUp("for", g) /\ ~Local.skip /\ Parent.node.kind = "for"
  BY DEF LeaveFor, GenUp, Close, Parent
<1>2. Parent.node.inc # <<>> => Parent.node.inc[1].kind \in SimpleKinds
  <2>1. Parent \in Entries /\ IsStatement(Parent.node)
    <3>1. cursor # <<>>
      BY UpRuns
    <3>2. Parent = cursor[Len(cursor)] /\ Len(cursor) \in 1 .. Len(cursor)
      BY <3>1, Tops
    <3>3. Parent \in Entries
      BY <3>2 DEF Now
    <3>4. Parent.node \in Statements \cup Functions
      BY <3>3 DEF Entries
    <3>5. Parent.node \notin Functions
      BY <1>1, AstAssumption DEF IsFunction
    <3> QED BY <3>3, <3>4, <3>5, AstAssumption
  <2> QED BY <1>1, <2>1 DEF IsStatement, IsSimple
<1>3. /\ after \in Blocks /\ after \in InUse /\ again \in Blocks /\ again \in InUse
      /\ again # after /\ again \notin S /\ after \notin S
      /\ inc \in Blocks /\ inc \in InUse
  BY <1>1, LoopBlocks
<1>4. /\ On(inInc, S, InUse) /\ From(inInc, inc, 0) /\ (status = "live" => From(inInc, pc, 1))
  BY <1>1, IncrementOn
<1>5. Passes(h, inInc, S, InUse)
  <2> HIDE DEF inInc, S
  <2> QED BY <1>2, <1>4, OptionalPasses
<1> HIDE DEF inInc, h
<1>6. On(h, S, InUse) /\ From(h, inc, 3) /\ (status = "live" => From(h, pc, 3))
  <2>1. 0 \in Nat /\ 1 \in Nat /\ 2 \in Nat /\ 3 \in Nat /\ 1 <= 3 /\ 2 <= 3 /\ 0 + 1 = 1 /\ 1 + 1 = 2
    OBVIOUS
  <2>2. From(h, inc, 0 + 1)
    BY <1>4, <1>5, <2>1, PassesFrom
  <2>3. status = "live" => From(h, pc, 1 + 1)
    BY <1>4, <1>5, <2>1, PassesFrom
  <2>4. From(h, inc, 3) /\ (status = "live" => From(h, pc, 3))
    BY <2>1, <2>2, <2>3, FromMore
  <2> QED BY <1>5, <2>4 DEF Passes
<1>7. b = Terminate(h, <<again>>)
  BY <1>6 DEF On, BranchIfOpen, HasTerminator
<1>8. /\ DOMAIN b = GenFields /\ b.b \in Builders /\ b.b.open = {} /\ ~b.b.mid
      /\ b.edges = Recorded(h.edges, h.b.at, <<again>>)
  <2>1. Range(<<again>>) \subseteq Blocks
    BY <1>3, OneTarget
  <2> HIDE DEF b, again
  <2> QED BY <1>6, <1>7, <2>1 DEF On, Terminate, Reject, GenFields, Builders
<1> HIDE DEF b
<1>9. /\ DOMAIN a = GenFields /\ a.b \in Builders /\ a.b.at = after /\ a.b.open = {after}
      /\ ~a.b.mid /\ a.edges = b.edges
  <2> HIDE DEF after
  <2> QED BY <1>3, <1>8 DEF StartBlock, GenFields, Builders
<1> HIDE DEF a
<1>10. KeepsFlow(g, a)
  <2>1. Sound(a) /\ a.b.at \in Blocks
    BY <1>3, <1>9 DEF Sound
  <2> QED BY <2>1, SmallSteps
<1>11. /\ g.b.at = after /\ g.b.open = {after} /\ ~g.b.mid
       /\ g.edges = Recorded(h.edges, h.b.at, <<again>>)
  BY <1>8, <1>9, <1>10 DEF KeepsFlow
<1> HIDE DEF g
<1>12. again \notin DOMAIN h.edges /\ again # h.b.at
  BY <1>3, <1>6 DEF On
<1>13. ASSUME NEW p, From(h, p, 3) PROVE Follow(g.edges, p, 1) = again
  <2>1. LeadsTo(<<again>>, 1, again)
    BY DEF LeadsTo
  <2> HIDE DEF again, S
  <2> QED BY <1>6, <1>11, <1>12, <1>13, <2>1, FollowOn
<1>14. ASSUME status # "live", pc # inc PROVE Follow(g.edges, pc, 1) = pc
  <2>1. pc \notin builder.open /\ pc \in InUse \cup {0} /\ pc \in Nat
    BY <1>14, WaitsApart DEF Now, FlowTypes
  <2>2. DOMAIN g.edges = DOMAIN h.edges \cup {h.b.at}
    BY <1>11 DEF Recorded
  <2>3. pc \notin DOMAIN g.edges
    BY <1>6, <1>14, <2>1, <2>2 DEF On, Builders, Blocks
  <2> QED BY <2>1, <2>3, FollowStays
<1>15. /\ status = "live" => Follow(g.edges, pc, 1) = Local.again
       /\ status # "live" /\ pc = Local.inc => Follow(g.edges, pc, 1) = Local.again
       /\ status # "live" /\ pc # Local.inc => Follow(g.edges, pc, 1) = pc
  BY <1>6, <1>13, <1>14
<1>16. "for" \in {"while", "for"}
  OBVIOUS
<1> QED BY <1>1, <1>11, <1>15, <1>16, LoopEnds

\* Nothing is generated at the end of a statement that was left out.
LEMMA SkipLeaveFlows ==
  ASSUME Now, FlowUp, SkipLeave
  PROVE  EmitInv'
<1> DEFINE n == Len(cursor)
           top == Frames[n]
           next == Follow(emitted'.edges, pc, 1)
<1>1. /\ Local.skip /\ builder' = builder /\ stage' = stage /\ emitted' = Nothing
      /\ locals' = childDone(Front(locals), builder')
  BY DEF SkipLeave, NotGenerated
<1>2. /\ cursor # <<>> /\ cursor' = Advance(Front(cursor)) /\ Parent.node.kind # "func"
      /\ top.kind = Parent.node.kind /\ top.skip /\ top.kind # "func"
      /\ top.other = Local.other /\ top.after = Local.after
      /\ top.again = Local.again /\ top.inc = Local.inc
      /\ runs' = Front(runs) /\ exits' = Front(exits)
      /\ status' = IF top.parked # "none" THEN top.parked
                   ELSE IF top.kind \in LoopKinds /\ status \in {"broke", "continued"}
                        THEN "live" ELSE status
      /\ status' \in Run!Statuses
      /\ pc' = IF next # 0 /\ next = top.again THEN top.exit ELSE next
  BY <1>1, UpRuns
<1>3. /\ n \in Nat \ {0} /\ n \in 1 .. n /\ n \in Nat
      /\ Local = locals[n] /\ Len(Front(cursor)) = n - 1
      /\ \A i \in 1 .. n - 1 : Front(cursor)[i] = cursor[i] /\ Front(locals)[i] = locals[i]
  BY <1>2, Tops
<1>4. /\ Apart(Frames, n, builder.open) /\ 0 \notin builder.open
      /\ Agrees(Frames, n, pc, status, builder.at, builder.open)
      /\ status \in Run!Statuses /\ pc \in Nat
  BY DEF Now, FlowTypes
<1>5. Halts(cursor, locals, builder) /\ ~builder.mid
  BY OrderlyHalts DEF Now
<1>6. builder.at \notin builder.open /\ status # "live"
  <2>1. builder.at \notin builder.open
    BY <1>1, <1>3, <1>5 DEF Halts, Now
  <2> QED BY <1>4, <2>1 DEF Agrees
<1>7. FrameOK(top) /\ builder.open = {}
  BY <1>3, <1>4, <1>6 DEF Apart, Now
<1>8. top.again = 0
  BY <1>2, <1>7 DEF FrameOK
<1>9. next = pc
  <2>1. DOMAIN emitted'.edges = {}
    BY <1>1 DEF Nothing
  <2> QED BY <1>4, <2>1, FollowStays
<1>10. pc' = pc
  BY <1>2, <1>8, <1>9
<1>11. status' # "live"
  <2>1. CASE top.parked = "live"
    <3>1. ~top.skip
      BY <1>2, <1>3, <1>4, <1>6, <2>1, LastWaits
    <3> QED BY <1>2, <3>1
  <2>2. CASE top.parked \notin {"none", "live"}
    BY <1>2, <2>2
  <2>3. CASE top.parked = "none"
    <3>1. ~(top.kind \in LoopKinds /\ status \in {"broke", "continued"})
      BY <1>2, <1>3, <1>4, JumpLands DEF Agrees
    <3> QED BY <1>2, <1>6, <2>3, <3>1
  <2> QED BY <2>1, <2>2, <2>3
<1>12. Halts(Front(cursor), Front(locals), builder')
  <2>1. ASSUME NEW i \in 1 .. n - 1
        PROVE  /\ locals[i].skip \/ locals[i].stopped =>
                    builder.at \notin builder.open /\ \A j \in i + 1 .. n - 1 : locals[j].skip
               /\ locals[i].stopped => cursor[i].node.kind = "block"
               /\ cursor[i].node.kind = "if" /\ cursor[i].slot \notin {"else", "done"}
                    => locals[i].after = 0
    <3>1. i \in 1 .. n /\ i + 1 .. n - 1 \subseteq i + 1 .. n
      BY <1>3
    <3> QED BY <1>5, <3>1 DEF Halts
  <2>2. \A i \in 1 .. n - 1 : \A j \in i + 1 .. n - 1 : j \in 1 .. n - 1
    BY <1>3
  <2> HIDE DEF n
  <2> QED BY <1>1, <1>3, <2>1, <2>2 DEF Halts
<1>13. ASSUME NEW fr, Same(fr, Frames, n - 1)
       PROVE  Agrees(fr, n - 1, pc', status', builder'.at, builder'.open)
  <2>1. pc \notin builder'.open
    BY <1>1, <1>7
  <2> HIDE DEF n
  <2>2. Agrees(fr, n - 1, pc, status', builder'.at, builder'.open)
    BY <1>2, <1>3, <1>4, <1>11, <1>13, <2>1, StatementEnded
  <2> QED BY <1>10, <2>2
<1>14. \A i \in 1 .. n - 1 : builder'.open \cap Own(Frames[i]) = {}
  BY <1>1, <1>7
<1>15. ~builder'.mid /\ pc' \in Nat
  BY <1>1, <1>4, <1>5, <1>10
<1> QED BY <1>1, <1>2, <1>12, <1>13, <1>14, <1>15, UpEnds

LEMMA FlowUpKeeps ==
  ASSUME Now, FlowUp, Flowing'
  PROVE  EmitInv'
<1>1. Up
  BY DEF FlowUp
<1> QED BY <1>1, LeaveBlockFlows, LeaveIfFlows, LeaveWhileFlows, LeaveForFlows, SkipLeaveFlows
        DEF Up

--------------------------------------------------------------------------------
(***************************************************************************)
(* Else branches.                                                          *)
(***************************************************************************)
LEMMA ElseRuns ==
  ASSUME Now, FlowElse
  PROVE  LET n == Len(cursor)
             top == Frames[n]
             r == IF top.parked = "none" THEN status ELSE "none"
         IN /\ cursor # <<>> /\ cursor' = [cursor EXCEPT ![n].slot = "else"]
            /\ top.kind = "if" /\ Parent.node.kind = "if" /\ Parent.slot = "thenDone"
            /\ top.skip = Local.skip
            /\ top.other = Local.other /\ top.after = Local.after
            /\ top.again = Local.again /\ top.inc = Local.inc
            /\ runs' = [runs EXCEPT ![n].parked = r] /\ exits' = exits
            /\ status' = IF top.parked = "none" THEN "skipped" ELSE top.parked
            /\ status' \in Run!Statuses /\ r \in Run!Statuses \cup {"none"}
            /\ Onwards(1)
<1> DEFINE n == Len(cursor)
           top == Frames[n]
<1>1. OpenElse /\ exits' = exits /\ Onwards(1) /\ Run!RunElse
  BY DEF FlowElse, ElseBranch, SkipElse
<1>2. cursor # <<>> /\ cursor' = [cursor EXCEPT ![n].slot = "else"]
  BY <1>1 DEF OpenElse
<1>3. Parent.node.kind = "if" /\ Parent.slot = "thenDone"
  BY <1>1, ElseFacts DEF Now
<1>4. /\ n \in 1 .. n /\ Parent = cursor[n] /\ Local = locals[n] /\ Run!Parked = runs[n].parked
      /\ Len(runs) = n
  BY <1>2, Tops DEF Now, FlowTypes
<1>5. /\ top.kind = Parent.node.kind /\ top.skip = Local.skip
      /\ top.other = Local.other /\ top.after = Local.after
      /\ top.again = Local.again /\ top.inc = Local.inc /\ top.parked = Run!Parked
  BY <1>4, FrameIs
<1>6. /\ status' = IF Run!Parked = "none" THEN "skipped" ELSE Run!Parked
      /\ runs' = [runs EXCEPT ![Len(runs)].parked =
                    IF Run!Parked = "none" THEN status ELSE "none"]
  BY <1>1 DEF Run!RunElse
<1>7. status \in Run!Statuses /\ top.parked \in Run!Statuses \cup {"none"}
  BY <1>4 DEF Now, Apart, FrameOK, FlowTypes
<1>8. status' \in Run!Statuses
  BY <1>5, <1>6, <1>7, StatusKinds
<1> HIDE DEF top
<1> QED BY <1>1, <1>2, <1>3, <1>4, <1>5, <1>6, <1>7, <1>8 DEF top

LEMMA ElseEnds ==
  ASSUME Now, FlowElse, stage' = stage,
         NEW l \in Locals, Replaced(locals', locals, l), l.skip = Local.skip,
         l.stopped = Local.stopped, ~builder'.mid,
         IF l.skip THEN builder'.at \notin builder'.open ELSE builder'.at \in builder'.open,
         pc' \in Nat, NEW f,
         f = Frame(Parent, l,
                   [parked |-> IF Frames[Len(cursor)].parked = "none" THEN status ELSE "none"],
                   exits[Len(cursor)]),
         FrameOK(f), builder'.open \cap Own(f) = {},
         \A i \in 1 .. Len(cursor) - 1 : /\ builder'.open \cap Own(Frames[i]) = {}
                                         /\ Own(Frames[i]) \cap Own(f) = {},
         \A fr : Same(fr, Frames, Len(cursor) - 1) /\ fr[Len(cursor)] = f
                   => Agrees(fr, Len(cursor), pc', status', builder'.at, builder'.open)
  PROVE  EmitInv'
<1> DEFINE n == Len(cursor)
           r == IF Frames[n].parked = "none" THEN status ELSE "none"
<1>1. /\ cursor # <<>> /\ cursor' = [cursor EXCEPT ![n].slot = "else"]
      /\ Parent.node.kind = "if" /\ runs' = [runs EXCEPT ![n].parked = r] /\ exits' = exits
      /\ status' \in Run!Statuses /\ r \in Run!Statuses \cup {"none"}
  BY ElseRuns
<1>2. /\ n \in Nat \ {0} /\ n \in 1 .. n /\ n - 1 \in Nat /\ n - 1 \in 0 .. n
      /\ Parent = cursor[n] /\ Local = locals[n]
  BY <1>1, Tops
<1>3. /\ cursor \in Seq(Entries) /\ locals \in Seq(Locals) /\ Len(locals) = n
      /\ runs \in Seq(Run!Runs) /\ Len(runs) = n /\ exits \in Seq(Nat) /\ Len(exits) = n
      /\ Apart(Frames, n, builder.open) /\ Orderly(cursor, locals, builder, stage)
  BY DEF Now, FlowTypes
<1> HIDE DEF r
<1>4. /\ cursor' \in Seq(Entries) /\ Len(cursor') = n
      /\ \A i \in 1 .. n : /\ cursor'[i].node = cursor[i].node
                           /\ cursor'[i].slot = IF i = n THEN "else" ELSE cursor[i].slot
  <2> DEFINE e == [cursor[n] EXCEPT !.slot = "else"]
  <2>0. cursor[n] \in Entries
    BY <1>2, <1>3
  <2>1. e \in Entries /\ e.node = cursor[n].node /\ e.slot = "else"
    BY <2>0 DEF Entries, Slots
  <2>2. cursor' = [cursor EXCEPT ![n] = e]
    BY <1>1
  <2> HIDE DEF e
  <2>3. cursor' \in Seq(Entries) /\ Len(cursor') = n
    BY <1>2, <1>3, <2>1, <2>2
  <2>4. \A i \in 1 .. n : cursor'[i] = IF i = n THEN e ELSE cursor[i]
    BY <1>3, <2>2
  <2> HIDE DEF n
  <2> QED BY <2>1, <2>3, <2>4
<1>5. /\ runs' \in Seq(Run!Runs) /\ Len(runs') = n
      /\ \A i \in 1 .. n : runs'[i].parked = IF i = n THEN r ELSE runs[i].parked
  <2> DEFINE e == [runs[n] EXCEPT !.parked = r]
  <2>0. runs[n] \in Run!Runs
    BY <1>2, <1>3
  <2>1. e \in Run!Runs /\ e.parked = r
    BY <1>1, <2>0 DEF Run!Runs
  <2>2. runs' = [runs EXCEPT ![n] = e]
    BY <1>1
  <2> HIDE DEF e
  <2>3. runs' \in Seq(Run!Runs) /\ Len(runs') = n
    BY <1>2, <1>3, <2>1, <2>2
  <2>4. \A i \in 1 .. n : runs'[i] = IF i = n THEN e ELSE runs[i]
    BY <1>3, <2>2
  <2> HIDE DEF n
  <2> QED BY <2>1, <2>3, <2>4
<1>6. /\ locals' \in Seq(Locals) /\ Len(locals') = n /\ locals'[n] = l
      /\ \A i \in 1 .. n - 1 : locals'[i] = locals[i]
  BY <1>3 DEF Replaced
<1>7. Same(Frames', Frames, n - 1)
  <2>1. \A i \in 1 .. n - 1 :
          /\ cursor'[i].node = cursor[i].node /\ SameLocal(locals'[i], locals[i])
          /\ runs'[i].parked = runs[i].parked /\ exits'[i] = exits[i]
    <3>1. \A i \in 1 .. n - 1 : i \in 1 .. n /\ i # n
      BY <1>2
    <3> QED BY <1>1, <1>4, <1>5, <1>6, <3>1 DEF SameLocal
  <2>2. n - 1 <= Len(cursor) /\ n - 1 <= Len(cursor')
    BY <1>2, <1>4
  <2> QED BY <1>2, <1>3, <1>4, <2>1, <2>2, FramesSame
<1>8. Frames'[n] = f
  <2>1. n \in 1 .. Len(cursor')
    BY <1>2, <1>4
  <2>2. Frames'[n] = Frame(cursor'[n], locals'[n], runs'[n], exits'[n])
    BY <2>1 DEF Frames
  <2>3. /\ cursor'[n].node = Parent.node /\ locals'[n] = l /\ runs'[n].parked = r
        /\ exits'[n] = exits[n]
    BY <1>1, <1>2, <1>4, <1>5, <1>6
  <2> QED BY <2>2, <2>3 DEF Frame, r
<1>9. Apart(Frames', n, builder'.open)
  <2>1. Apart(Frames, n - 1, builder'.open)
    <3>1. Same(Frames, Frames, n - 1)
      BY DEF Same
    <3>2. \A i \in 1 .. n - 1 : builder'.open \cap Own(Frames[i]) = {}
      OBVIOUS
    <3>3. n \in Nat
      BY <1>2
    <3> QED BY <1>2, <1>3, <3>1, <3>2, <3>3, ApartKept
  <2>2. (n - 1) + 1 = n
    BY <1>2
  <2> HIDE DEF n
  <2>3. FrameOK(Frames'[(n - 1) + 1]) /\ builder'.open \cap Own(Frames'[(n - 1) + 1]) = {}
    BY <1>8, <2>2
  <2>4. \A i \in 1 .. n - 1 : Own(Frames[i]) \cap Own(Frames'[(n - 1) + 1]) = {}
    BY <1>8, <2>2 DEF n
  <2>5. \A i \in 1 .. n - 1 : builder'.open \cap Own(Frames[i]) = {}
    BY DEF n
  <2>6. Apart(Frames', (n - 1) + 1, builder'.open)
    BY <1>2, <1>7, <2>1, <2>3, <2>4, <2>5, ApartMore
  <2> QED BY <2>2, <2>6
<1>10. Orderly(cursor', locals', builder', stage')
  <2>1. \A i \in 1 .. n : locals'[i].skip = locals[i].skip /\ locals'[i].stopped = locals[i].stopped
    <3>1. \A i \in 1 .. n : i # n => i \in 1 .. n - 1
      BY <1>2
    <3> QED BY <1>2, <1>6, <3>1
  <2>2. \A i \in 1 .. n - 1 : locals'[i].after = locals[i].after
    BY <1>6
  <2>3. IF locals[n].skip THEN builder'.at \notin builder'.open ELSE builder'.at \in builder'.open
    BY <1>2
  <2>4. cursor[n].node.kind = "if"
    BY <1>1, <1>2
  <2> QED BY <1>1, <1>3, <1>4, <2>1, <2>2, <2>3, <2>4, OrderlyElse
<1>11. FlowTypes'
  BY <1>1, <1>3, <1>4, <1>5 DEF FlowTypes
<1>12. cursor' # <<>>
  BY <1>2, <1>4
<1>13. Agrees(Frames', n, pc', status', builder'.at, builder'.open)
  BY <1>7, <1>8
<1> QED BY <1>4, <1>9, <1>10, <1>11, <1>12, <1>13 DEF EmitInv

LEMMA ElseBranchFlows ==
  ASSUME Now, FlowElse, ElseBranch, Flowing'
  PROVE  EmitInv'
<1> DEFINE n == Len(cursor)
           top == Frames[n]
           merge == NewBlock(Gen, 1)
           other == Local.other
           t == Take(Gen, {merge})
           h == StartBlock(BranchIfOpen(t, merge), other)
           g == LeaveRegion(h, Local.known)
           l == [Local EXCEPT !.other = 0, !.after = merge]
           f == Frame(Parent, l,
                      [parked |-> IF top.parked = "none" THEN status ELSE "none"], exits[n])
           next == Follow(emitted'.edges, pc, 1)
<1>1. /\ ~Local.skip /\ Put(g) /\ OpenElse
      /\ locals' = [locals EXCEPT ![Len(locals)] = [@ EXCEPT !.other = 0, !.after = merge]]
  BY DEF ElseBranch
<1>2. /\ cursor # <<>> /\ cursor' = [cursor EXCEPT ![n].slot = "else"]
      /\ top.kind = "if" /\ Parent.node.kind = "if" /\ Parent.slot = "thenDone"
      /\ top.skip = Local.skip
      /\ top.other = Local.other /\ top.after = Local.after
      /\ top.again = Local.again /\ top.inc = Local.inc
      /\ status' = IF top.parked = "none" THEN "skipped" ELSE top.parked
      /\ status' \in Run!Statuses /\ Onwards(1)
  BY ElseRuns
<1>3. /\ n \in Nat \ {0} /\ n \in 1 .. n /\ n \in 0 .. n /\ n \in Nat /\ Local \in Locals
      /\ Local = locals[n] /\ Parent = cursor[n] /\ Len(locals) = n /\ locals \in Seq(Locals)
  BY <1>2, Tops DEF Now
<1>4. /\ Apart(Frames, n, builder.open) /\ 0 \notin builder.open
      /\ Agrees(Frames, n, pc, status, builder.at, builder.open)
      /\ status \in Run!Statuses /\ pc \in Nat
  BY DEF Now, FlowTypes
<1>5. /\ FrameOK(top) /\ builder.open \cap Own(top) = {} /\ Own(top) \subseteq InUse
      /\ \A i \in 1 .. n - 1 : FrameOK(Frames[i]) /\ Own(Frames[i]) \subseteq InUse
                               /\ Own(Frames[i]) \cap Own(top) = {}
  <2>1. \A i \in 1 .. n - 1 : i \in 1 .. n /\ i # n
    BY <1>3
  <2> QED BY <1>3, <1>4, <2>1, OwnTaken DEF Apart
<1>6. top.after = 0
  <2>1. Halts(cursor, locals, builder)
    BY OrderlyHalts DEF Now
  <2>2. cursor[n].node.kind = "if" /\ cursor[n].slot \notin {"else", "done"}
    BY <1>2, <1>3
  <2>3. locals[n].after = 0
    BY <1>3, <2>1, <2>2 DEF Halts
  <2> QED BY <1>2, <1>3, <2>3
<1>7. top.other # 0 /\ Untaken(top) = top.other /\ top.inc = 0 /\ top.again = 0
  <2>1. "if" \notin LoopKinds
    BY StatusKinds
  <2> QED BY <1>1, <1>2, <1>5, <1>6, <2>1 DEF FrameOK, Untaken
<1>8. other \in Own(top) /\ other \in Blocks /\ other \in InUse
  BY <1>2, <1>5, <1>7 DEF Own, FrameOK, Blocks
<1>9. merge \in Blocks /\ merge \notin InUse /\ merge \in Nat
  <2>1. GenOK(Gen, AllDue(locals), Depth(locals, cursor))
    BY GenStarts DEF Now
  <2>2. Gen.taken \in SUBSET Nat /\ IsFiniteSet(Gen.taken)
    BY <2>1 DEF GenOK, BlocksOK
  <2>3. 1 \in Nat \ {0}
    OBVIOUS
  <2>4. merge \in Blocks /\ merge \notin Gen.taken
    BY <2>2, <2>3, NewBlockIsNew
  <2> HIDE DEF merge
  <2> QED BY <2>4, GenSound DEF Blocks
<1> HIDE DEF merge
<1>10. /\ Sound(t) /\ t.b = Gen.b /\ t.edges = <<>> /\ t.code = {}
  BY GenSound DEF Sound, Take, GenFields
<1>11. /\ Sound(h) /\ h.b.at = other /\ h.b.open = {other} /\ ~h.b.mid
       /\ h.edges = IF builder.at \in builder.open
                    THEN Recorded(<<>>, builder.at, <<merge>>) ELSE <<>>
  <2>1. t.b.open \subseteq {t.b.at} /\ ~t.b.mid
    BY <1>10, GenSound DEF Now
  <2>2. t.b.at = builder.at /\ t.b.open = builder.open
    BY <1>10, GenSound
  <2> HIDE DEF t, other
  <2> QED BY <1>8, <1>9, <1>10, <2>1, <2>2, LedOnFrom
<1> HIDE DEF h
<1>12. g.b.at = other /\ g.b.open = {other} /\ ~g.b.mid /\ g.edges = h.edges
  <2>1. KeepsFlow(g, h)
    BY <1>8, <1>11, SmallSteps
  <2> QED BY <1>11, <2>1 DEF KeepsFlow
<1> HIDE DEF g
<1>13. builder' = g.b /\ stage' = stage /\ emitted'.edges = h.edges
  BY <1>1, <1>12, PutFlows
<1>14. (status = "live" => next = merge) /\ (status # "live" => next = pc) /\ pc' = next
  <2>1. builder.at \in builder.open => merge # builder.at
    BY <1>9 DEF InUse
  <2>2. (status = "live" => next = merge) /\ (status # "live" => next = pc)
    BY <1>11, <1>13, <2>1, LedOnFollows
  <2> QED BY <1>2, <2>2 DEF Onwards
<1>15. l \in Locals /\ Replaced(locals', locals, l) /\ l.skip = Local.skip
       /\ l.stopped = Local.stopped /\ ~l.skip
       /\ l.other = 0 /\ l.after = merge /\ l.again = Local.again /\ l.inc = Local.inc
  <2>1. /\ l \in Locals /\ l.skip = Local.skip /\ l.stopped = Local.stopped
        /\ l.other = 0 /\ l.after = merge /\ l.again = Local.again /\ l.inc = Local.inc
    BY <1>3, <1>9 DEF Locals
  <2>2. locals' = [locals EXCEPT ![n] = l]
    BY <1>1, <1>3
  <2> HIDE DEF l
  <2>3. /\ locals' \in Seq(Locals) /\ Len(locals') = n /\ locals'[n] = l
        /\ \A i \in 1 .. n - 1 : locals'[i] = locals[i]
    BY <1>3, <2>1, <2>2
  <2> HIDE DEF n
  <2> QED BY <1>1, <1>3, <2>1, <2>3 DEF Replaced
<1> HIDE DEF l
<1>16. /\ f.kind = "if" /\ ~f.skip /\ f.other = 0 /\ f.after = merge /\ f.again = 0 /\ f.inc = 0
       /\ f.parked = IF top.parked = "none" THEN status ELSE "none"
  BY <1>1, <1>2, <1>7, <1>15 DEF Frame
<1> HIDE DEF f
<1>17. Own(f) = {merge} /\ Untaken(f) = merge /\ merge # 0
  BY <1>9, <1>16 DEF Own, Untaken, Blocks
<1>18. FrameOK(f)
  <2>1. f.parked \in Run!Statuses \cup {"none"}
    BY <1>4, <1>16
  <2>2. f.kind \in CompoundKinds /\ f.kind \notin LoopKinds /\ f.kind # "func" /\ f.kind # "block"
    BY <1>16, StatusKinds
  <2> QED BY <1>9, <1>16, <1>17, <2>1, <2>2 DEF FrameOK
<1>19. ASSUME NEW fr, Same(fr, Frames, n - 1), fr[n] = f
       PROVE  Agrees(fr, n, pc', status', builder'.at, builder'.open)
  <2>1. status # "live" => pc \notin builder'.open \/ status' = "live"
    <3>1. ASSUME status # "live", status' # "live" PROVE pc = 0 \/ pc \notin Own(top)
      <4> DEFINE s2 == IF top.parked # "none" THEN top.parked
                       ELSE IF top.kind \in LoopKinds /\ status \in {"broke", "continued"}
                            THEN "live" ELSE status
      <4>1. s2 # "live"
        BY <1>2, <3>1, StatusKinds
      <4>2. top.kind # "func"
        BY <1>2
      <4> HIDE DEF n
      <4> QED BY <1>3, <1>4, <3>1, <4>1, <4>2, LeftAway
    <3> QED BY <1>8, <1>12, <1>13, <3>1 DEF Blocks
  <2>2. status # "live" /\ status' = "live" => pc = other
    <3>1. status' = "live" => top.parked = "live"
      BY <1>2
    <3>2. ASSUME status # "live", top.parked = "live" PROVE pc = Untaken(top)
      <4>1. top.kind # "func"
        BY <1>2
      <4> HIDE DEF n
      <4> QED BY <1>3, <1>4, <3>2, <4>1, LastWaits
    <3> QED BY <1>2, <1>7, <3>1, <3>2
  <2>3. status = "live" => status' = "skipped"
    <3>1. status = "live" => ~Held(Frames, pc, n)
      <4> HIDE DEF n
      <4> QED BY <1>3, <1>4, LiveNotHeld
    <3>2. \A i \in 1 .. n : FrameOK(Frames[i]) /\ Parks(Frames, pc, i)
      BY <1>4 DEF Apart, Agrees
    <3>3. top.kind # "func"
      BY <1>2
    <3>4. status = "live" => top.parked = "none"
      <4> HIDE DEF n
      <4> QED BY <1>3, <3>1, <3>2, <3>3, Unparked
    <3> QED BY <1>2, <3>4
  <2>4. merge # other
    BY <1>8, <1>9
  <2>5. status' = "live" => pc' = builder'.at /\ builder'.at \in builder'.open
    BY <1>12, <1>13, <1>14, <2>2, <2>3
  <2>6. status' # "live" => pc' \notin builder'.open
    BY <1>12, <1>13, <1>14, <2>1, <2>4
  <2>7. status # "live" => pc' = pc
    BY <1>14
  <2>8. status = "live" => ~fr[n].skip /\ pc' = Untaken(fr[n])
    BY <1>14, <1>16, <1>17, <1>19
  <2>9. fr[n].kind = "if"
    BY <1>16, <1>19
  <2>10. Turned(fr[n], status', Frames[n], status)
    BY <1>2, <1>16, <1>19 DEF Turned
  <2>12. Frames[n].kind = "if"
    BY <1>2
  <2> HIDE DEF n
  <2> QED BY <1>3, <1>4, <1>19, <2>5, <2>6, <2>7, <2>8, <2>9, <2>10, <2>12, ElseTurned
<1>20. builder'.open \cap Own(f) = {}
  BY <1>8, <1>9, <1>12, <1>13, <1>17
<1>21. \A i \in 1 .. n - 1 : /\ builder'.open \cap Own(Frames[i]) = {}
                             /\ Own(Frames[i]) \cap Own(f) = {}
  BY <1>5, <1>8, <1>9, <1>12, <1>13, <1>17
<1>22. ~builder'.mid /\ pc' \in Nat /\ builder'.at \in builder'.open
  BY <1>4, <1>9, <1>12, <1>13, <1>14
<1>23. EmitInv'
  <2> USE DEF f
  <2> QED BY <1>13, <1>15, <1>18, <1>19, <1>20, <1>21, <1>22, ElseEnds
<1> QED BY <1>23

\* Nothing is generated between the branches of a statement that is left out.
LEMMA SkipElseFlows ==
  ASSUME Now, FlowElse, SkipElse
  PROVE  EmitInv'
<1> DEFINE n == Len(cursor)
           top == Frames[n]
           r == IF top.parked = "none" THEN status ELSE "none"
           f == Frame(Parent, Local, [parked |-> r], exits[n])
           next == Follow(emitted'.edges, pc, 1)
<1>1. /\ Local.skip /\ builder' = builder /\ stage' = stage /\ emitted' = Nothing
      /\ locals' = locals
  BY DEF SkipElse, NotGenerated
<1>2. /\ cursor # <<>> /\ Parent.node.kind = "if" /\ top.kind = "if" /\ top.skip
      /\ top.other = Local.other /\ top.after = Local.after
      /\ top.again = Local.again /\ top.inc = Local.inc
      /\ status' = IF top.parked = "none" THEN "skipped" ELSE top.parked
      /\ status' \in Run!Statuses /\ r \in Run!Statuses \cup {"none"} /\ Onwards(1)
  BY <1>1, ElseRuns
<1>3. /\ n \in Nat \ {0} /\ n \in 1 .. n /\ n \in Nat /\ Local \in Locals
      /\ Local = locals[n] /\ Len(locals) = n /\ locals \in Seq(Locals)
  BY <1>2, Tops DEF Now
<1>4. /\ Apart(Frames, n, builder.open) /\ 0 \notin builder.open
      /\ Agrees(Frames, n, pc, status, builder.at, builder.open)
      /\ status \in Run!Statuses /\ pc \in Nat
  BY DEF Now, FlowTypes
<1>5. Halts(cursor, locals, builder) /\ ~builder.mid
  BY OrderlyHalts DEF Now
<1>6. builder.at \notin builder.open /\ status # "live"
  <2>1. builder.at \notin builder.open
    BY <1>1, <1>3, <1>5 DEF Halts, Now
  <2> QED BY <1>4, <2>1 DEF Agrees
<1>7. /\ FrameOK(top) /\ builder.open = {}
      /\ \A i \in 1 .. n - 1 : Own(Frames[i]) \cap Own(top) = {}
  <2>1. \A i \in 1 .. n - 1 : i \in 1 .. n /\ i # n
    BY <1>3
  <2> QED BY <1>3, <1>4, <1>6, <2>1 DEF Apart, Now
<1>8. next = pc /\ pc' = pc
  <2>1. DOMAIN emitted'.edges = {}
    BY <1>1 DEF Nothing
  <2> QED BY <1>2, <1>4, <2>1, FollowStays DEF Onwards
<1>9. top.parked # "live"
  <2>1. top.kind # "func"
    BY <1>2
  <2> HIDE DEF n
  <2> QED BY <1>2, <1>3, <1>4, <1>6, <2>1, LastWaits
<1>10. status' # "live"
  BY <1>2, <1>9
<1> HIDE DEF r
<1>11. /\ f.kind = "if" /\ f.skip /\ f.other = top.other /\ f.after = top.after
       /\ f.again = top.again /\ f.inc = top.inc /\ f.parked = r
  BY <1>1, <1>2 DEF Frame
<1>12. f = Frame(Parent, Local, [parked |-> r], exits[n])
  OBVIOUS
<1> HIDE DEF f
<1>13. FrameOK(f) /\ Own(f) = Own(top)
  <2>1. "if" \in CompoundKinds /\ "if" \notin LoopKinds
    BY StatusKinds
  <2> QED BY <1>2, <1>7, <1>11, <2>1 DEF FrameOK, Own
<1>14. Replaced(locals', locals, Local)
  BY <1>1, <1>2, <1>3 DEF Replaced
<1>15. ASSUME NEW fr, Same(fr, Frames, n - 1), fr[n] = f
       PROVE  Agrees(fr, n, pc', status', builder'.at, builder'.open)
  <2>1. Turned(fr[n], status', Frames[n], status)
    BY <1>2, <1>11, <1>15 DEF Turned, r
  <2>2. pc' \notin builder'.open
    BY <1>1, <1>7
  <2>3. fr[n].kind = "if" /\ Frames[n].kind = "if"
    BY <1>2, <1>11, <1>15
  <2> HIDE DEF n
  <2> QED BY <1>3, <1>4, <1>6, <1>8, <1>10, <1>15, <2>1, <2>2, <2>3, ElseTurned
<1>16. builder'.open \cap Own(f) = {} /\ ~builder'.mid /\ pc' \in Nat
       /\ builder'.at \notin builder'.open
  BY <1>1, <1>4, <1>5, <1>6, <1>7, <1>8
<1>17. \A i \in 1 .. n - 1 : /\ builder'.open \cap Own(Frames[i]) = {}
                             /\ Own(Frames[i]) \cap Own(f) = {}
  BY <1>1, <1>7, <1>13
<1>18. FlowElse /\ Local.skip
  BY <1>1
<1>19. f = Frame(Parent, Local,
                 [parked |-> IF Frames[n].parked = "none" THEN status ELSE "none"], exits[n])
  BY <1>12 DEF r
<1> QED BY <1>1, <1>3, <1>13, <1>14, <1>15, <1>16, <1>17, <1>18, <1>19, ElseEnds

LEMMA FlowElseKeeps ==
  ASSUME Now, FlowElse, Flowing'
  PROVE  EmitInv'
BY ElseBranchFlows, SkipElseFlows DEF FlowElse

--------------------------------------------------------------------------------
(***************************************************************************)
(* Functions, and the start of main.                                       *)
(***************************************************************************)
LEMMA FlowFunctionKeeps ==
  ASSUME Now, pending # <<>>, FlowFunction(Head(pending))
  PROVE  EmitInv'
<1> DEFINE g == Head(pending)
           e == [node |-> g, slot |-> FirstSlot(g)]
           r == Last(runs')
           f == Frame(e, Plain, r, 0)
<1>1. /\ OpenFunction(g) /\ stage = "functions" /\ stage' = stage /\ builder' = Entry
      /\ locals' = Append(locals, Plain) /\ exits' = Append(exits, 0) /\ pc' = builder'.at
      /\ Run!RunFunction(g)
  BY DEF FlowFunction, EnterFunction
<1>2. /\ cursor = <<>> /\ g.kind = "func" /\ cursor' = Append(cursor, e) /\ Len(cursor) = 0
  BY <1>1 DEF OpenFunction, Room
<1>3. g \in Functions
  <2>1. pending \in Seq(Functions)
    BY GenInvIs DEF Now
  <2> QED BY <2>1
<1>4. e \in Entries /\ e.node = g
  BY <1>2, <1>3 DEF Entries, FirstSlot, Slots
<1>5. /\ Len(cursor) \in Nat /\ cursor \in Seq(Entries) /\ locals \in Seq(Locals)
      /\ Len(locals) = Len(cursor) /\ runs \in Seq(Run!Runs) /\ Len(runs) = Len(cursor)
      /\ exits \in Seq(Nat) /\ Len(exits) = Len(cursor)
      /\ Apart(Frames, Len(cursor), builder.open)
      /\ Orderly(cursor, locals, builder, stage) /\ status = "live" /\ builder = Entry
  BY <1>1, <1>2 DEF Now, FlowTypes, Orderly
<1>6. r \in Run!Runs /\ r.parked = "live" /\ runs' = Append(runs, r) /\ status' = "live"
  <2>1. PICK globals \in SUBSET Name :
          runs' = Append(runs, [parked |-> status, globals |-> globals])
    BY <1>1 DEF Run!RunFunction
  <2> DEFINE q == [parked |-> status, globals |-> globals]
  <2>2. q \in Run!Runs /\ q.parked = "live"
    BY <1>5 DEF Run!Runs, Run!Statuses
  <2> HIDE DEF q
  <2>3. runs' = Append(runs, q) /\ Last(runs') = q
    BY <1>5, <2>1, <2>2 DEF q, Last
  <2>4. status' = "live"
    BY <1>1 DEF Run!RunFunction
  <2> QED BY <2>2, <2>3, <2>4
<1> HIDE DEF r, e
<1>7. /\ cursor' \in Seq(Entries) /\ Len(cursor') = Len(cursor) + 1
      /\ runs' \in Seq(Run!Runs) /\ Len(runs') = Len(cursor) + 1
      /\ exits' \in Seq(Nat) /\ Len(exits') = Len(cursor) + 1
  BY <1>1, <1>2, <1>4, <1>5, <1>6
<1>8. Same(Frames', Frames, Len(cursor)) /\ Frames'[Len(cursor) + 1] = f
  BY <1>1, <1>2, <1>4, <1>6, FramesMore
<1>9. /\ f.kind = "func" /\ ~f.skip /\ f.other = 0 /\ f.after = 0 /\ f.again = 0 /\ f.inc = 0
      /\ f.parked = "live"
  BY <1>2, <1>4, <1>6 DEF Frame, Plain
<1> HIDE DEF f
<1>10. FrameOK(f) /\ Own(f) = {}
  BY <1>9, StatusKinds DEF FrameOK, Own
<1>11. /\ builder'.at = 1 /\ builder'.open = {1} /\ ~builder'.mid /\ builder.at \in builder.open
  BY <1>1, <1>5 DEF Entry
<1>12. Apart(Frames', Len(cursor'), builder'.open)
  <2>1. /\ FrameOK(Frames'[Len(cursor) + 1])
        /\ builder'.open \cap Own(Frames'[Len(cursor) + 1]) = {}
        /\ \A i \in 1 .. Len(cursor) : Own(Frames[i]) \cap Own(Frames'[Len(cursor) + 1]) = {}
        /\ \A i \in 1 .. Len(cursor) : builder'.open \cap Own(Frames[i]) = {}
    BY <1>2, <1>8, <1>10
  <2>2. Apart(Frames', Len(cursor) + 1, builder'.open)
    BY <1>5, <1>8, <2>1, ApartMore
  <2> QED BY <1>7, <2>2
<1>13. Orderly(cursor', locals', builder', stage')
  <2>1. Plain \in Locals /\ ~Plain.stopped /\ ~Plain.skip /\ Plain.after = 0
    BY PlainLocals DEF Plain
  <2>2. cursor = <<>> => (e.node.kind = "func" <=> stage = "functions")
    BY <1>1, <1>2, <1>4
  <2> QED BY <1>1, <1>2, <1>4, <1>5, <1>11, <2>1, <2>2, OrderlyPushed
<1>14. Agrees(Frames', Len(cursor'), pc', status', builder'.at, builder'.open)
  <2>1. Len(cursor') = 1 /\ \A i \in 1 .. 1 : i = Len(cursor) + 1
    BY <1>2, <1>7
  <2>2. \A i \in 1 .. 1 : Frames'[i].kind = "func"
    BY <1>8, <1>9, <2>1
  <2> QED BY <1>1, <1>6, <1>11, <2>1, <2>2 DEF Agrees, WaitsFor, Parks
<1>15. FlowTypes' /\ cursor' # <<>>
  <2>1. status' \in Run!Statuses /\ pc' \in Nat
    BY <1>1, <1>6, <1>11 DEF Run!Statuses
  <2> QED BY <1>2, <1>5, <1>7, <2>1 DEF FlowTypes
<1> QED BY <1>12, <1>13, <1>14, <1>15 DEF EmitInv

\* Where a function or main starts.
LEMMA TopFlows ==
  ASSUME cursor' = <<>>, builder' = Entry, pc' = builder'.at, status' = "live",
         runs' \in Seq(Run!Runs), Len(runs') = 0, exits' \in Seq(Nat), Len(exits') = 0
  PROVE  EmitInv'
<1>1. Len(cursor') = 0 /\ 1 .. 0 = {}
  OBVIOUS
<1>2. builder'.at = 1 /\ builder'.open = {1} /\ ~builder'.mid
  BY DEF Entry
<1>3. FlowTypes'
  BY <1>1, <1>2 DEF FlowTypes, Run!Statuses
<1>4. Orderly(cursor', locals', builder', stage')
  BY <1>1, <1>2 DEF Orderly
<1>5. Apart(Frames', Len(cursor'), builder'.open)
  BY <1>1 DEF Apart
<1>6. Agrees(Frames', Len(cursor'), pc', status', builder'.at, builder'.open)
  BY <1>1, <1>2 DEF Agrees, WaitsFor
<1> QED BY <1>3, <1>4, <1>5, <1>6 DEF EmitInv

LEMMA FlowEndFunctionKeeps ==
  ASSUME Now, FlowEndFunction
  PROVE  EmitInv'
<1>1. /\ Close("func") /\ builder' = Entry /\ pc' = builder'.at /\ exits' = Front(exits)
      /\ runs' = Front(runs) /\ status' = Run!Parked
  BY DEF FlowEndFunction, LeaveFunction, Run!RunEndFunction, Run!Front, Front
<1>2. cursor # <<>> /\ Parent.node.kind = "func" /\ cursor' = Advance(Front(cursor))
  BY <1>1 DEF Close, Parent
<1>3. /\ Len(cursor) \in Nat \ {0} /\ Len(cursor) \in 1 .. Len(cursor)
      /\ Parent = cursor[Len(cursor)] /\ Run!Parked = runs[Len(cursor)].parked
      /\ Len(Front(cursor)) = Len(cursor) - 1 /\ Front(cursor) \in Seq(Entries)
      /\ Front(runs) \in Seq(Run!Runs) /\ Len(Front(runs)) = Len(cursor) - 1
      /\ Front(exits) \in Seq(Nat) /\ Len(Front(exits)) = Len(cursor) - 1
  BY <1>2, Tops
<1>4. Len(cursor) = 1
  BY <1>2, <1>3 DEF Now, Walk
<1>5. Front(cursor) = <<>> /\ cursor' = <<>>
  BY <1>2, <1>3, <1>4 DEF Advance
<1>6. Frames[Len(cursor)].kind = "func" /\ FrameOK(Frames[Len(cursor)])
  BY <1>2, <1>3, FrameIs DEF Now, Apart
<1>7. Run!Parked = "live"
  BY <1>3, <1>6, FrameIs DEF FrameOK
<1> QED BY <1>1, <1>3, <1>4, <1>5, <1>7, TopFlows

LEMMA FlowStartMainKeeps ==
  ASSUME Now, StartMain, pc' = builder'.at, UNCHANGED <<status, runs, store, obs, exits>>, Flowing'
  PROVE  EmitInv'
<1>1. stage = "functions" /\ cursor = <<>> /\ cursor' = <<>> /\ Len(cursor) = 0
  BY DEF StartMain, treeVars
<1>2. builder' = Entry
  BY DEF StartMain, Flowing
<1>3. /\ status = "live" /\ runs \in Seq(Run!Runs) /\ Len(runs) = 0
      /\ exits \in Seq(Nat) /\ Len(exits) = 0
  BY <1>1 DEF Now, FlowTypes
<1> QED BY <1>1, <1>2, <1>3, TopFlows

--------------------------------------------------------------------------------
(***************************************************************************)
(* The code of a step.                                                     *)
(***************************************************************************)
\* The step's code is run as the statement is.
RunsCode == Executes <=> Visited(emitted'.edges, pc) \cap emitted'.code # {}

\* The step adds code in blocks.
Codes == emitted'.code # {} /\ 0 \notin emitted'.code

LEMMA ExecutesIfLive ==
  ASSUME Now, Len(cursor') >= Len(cursor)
  PROVE  Executes <=> status = "live"
<1>1. SUFFICES ASSUME cursor # <<>> PROVE cursor' # Advance(Front(cursor))
  BY DEF Executes
<1>2. Front(cursor) \in Seq(Entries) /\ Len(Front(cursor)) = Len(cursor) - 1 /\ Len(cursor) \in Nat
  BY <1>1, Tops DEF Now
<1>3. Len(Advance(Front(cursor))) = Len(cursor) - 1
  BY <1>2, AdvanceShape DEF SameNodes
<1> QED BY <1>2, <1>3

LEMMA GoesThrough ==
  ASSUME NEW g, NEW h, NEW m \in Nat, Goes(h, g, m), NEW p, NEW k \in Nat, From(g, p, k),
         Through(g, p, k)
  PROVE  From(h, p, k + m) /\ Through(h, p, k + m)
BY DEF Goes

LEMMA ThroughMore ==
  ASSUME NEW g, NEW p, NEW k \in Nat, NEW m \in Nat, k <= m, Through(g, p, k)
  PROVE  Through(g, p, m)
<1>1. 0 .. k \subseteq 0 .. m
  OBVIOUS
<1> QED BY <1>1 DEF Through

\* g is the builder at the end of the code, and a terminator may follow.
LEMMA LiveRunsCode ==
  ASSUME Now, builder.at \in builder.open, Len(cursor') >= Len(cursor), Codes,
         NEW g, On(g, {builder.at}, InUse), Through(g, builder.at, 3), emitted'.code = g.code,
         \/ emitted'.edges = g.edges
         \/ \E targets : emitted'.edges = Recorded(g.edges, g.b.at, targets)
  PROVE  RunsCode
<1> DEFINE edges == emitted'.edges
<1>1. Executes <=> status = "live"
  BY ExecutesIfLive
<1>2. CASE status = "live"
  <2>1. pc = builder.at
    BY <1>2 DEF Now, Agrees
  <2>2. Visited(edges, pc) \cap g.code # {}
    BY <2>1, CodeVisited DEF Codes
  <2> QED BY <1>1, <1>2, <2>2 DEF RunsCode
<1>3. CASE status # "live"
  <2>1. pc \notin DOMAIN g.edges /\ pc # g.b.at /\ pc \notin g.code
    BY <1>3, WaitsElsewhere DEF Codes
  <2>2. pc \notin DOMAIN edges
    BY <2>1 DEF Recorded
  <2>3. Visited(edges, pc) = {pc}
    BY <2>2, VisitedAlone
  <2> QED BY <1>1, <1>3, <2>1, <2>3 DEF RunsCode
<1> QED BY <1>2, <1>3

\* One operator, from the start of the step.
LEMMA PassesThrough ==
  ASSUME Now, builder.at \in builder.open, NEW g, Passes(g, Gen, {builder.at}, InUse)
  PROVE  On(g, {builder.at}, InUse) /\ From(g, builder.at, 1) /\ Through(g, builder.at, 1)
<1>1. From(Gen, builder.at, 0) /\ Through(Gen, builder.at, 0) /\ Goes(g, Gen, 1)
  BY GenOn DEF Passes
<1>2. 0 \in Nat /\ 1 \in Nat /\ 0 + 1 = 1
  OBVIOUS
<1>3. From(g, builder.at, 0 + 1) /\ Through(g, builder.at, 0 + 1)
  BY <1>1, <1>2, GoesThrough
<1> QED BY <1>2, <1>3 DEF Passes

LEMMA PassesRunsCode ==
  ASSUME Now, builder.at \in builder.open, Len(cursor') >= Len(cursor), Codes,
         NEW g, Passes(g, Gen, {builder.at}, InUse), emitted'.code = g.code,
         \/ emitted'.edges = g.edges
         \/ \E targets : emitted'.edges = Recorded(g.edges, g.b.at, targets)
  PROVE  RunsCode
<1>1. On(g, {builder.at}, InUse) /\ Through(g, builder.at, 1)
  BY PassesThrough
<1>2. Through(g, builder.at, 3)
  <2>1. 1 \in Nat /\ 3 \in Nat /\ 1 <= 3
    OBVIOUS
  <2> QED BY <1>1, <2>1, ThroughMore
<1> QED BY <1>1, <1>2, LiveRunsCode

LEMMA FlowLeafCode ==
  ASSUME Now, NEW n \in Statements, FlowLeaf(n), Codes
  PROVE  RunsCode
<1>1. HasValues(n) /\ Leaf(n)
  BY DEF FlowLeaf
<1>2. Len(cursor') >= Len(cursor)
  <2>1. cursor' = Advance(cursor)
    BY <1>1 DEF Leaf, GenSimple, GenReturn, GenBreak, GenContinue, GenNull, GenLeaf, SkipLeaf,
                VisitLeaf
  <2>2. Len(cursor') = Len(cursor) /\ Len(cursor) \in Nat
    BY <2>1, AdvanceShape DEF Now, SameNodes
  <2> QED BY <2>2
<1>3. ASSUME NEW g, GenLeaf(n, g)
      PROVE  /\ builder.at \in builder.open
             /\ emitted'.edges = g.edges /\ emitted'.code = g.code
  BY <1>3, ActiveOpen DEF GenLeaf, VisitLeaf, Put
<1>4. Gen.code = {}
  BY GenSound
<1>5. CASE GenSimple(n)
  <2>1. n.kind \in SimpleKinds /\ GenLeaf(n, codegenSimple(Gen, n))
    BY <1>5 DEF GenSimple
  <2>2. On(Gen, {builder.at}, InUse)
    BY <1>3, <2>1, GenOn
  <2>3. Passes(codegenSimple(Gen, n), Gen, {builder.at}, InUse)
    BY <2>1, <2>2, SimplePasses
  <2> QED BY <1>2, <1>3, <2>1, <2>3, PassesRunsCode
<1>6. CASE GenReturn(n)
  <2>1. n.kind = "ret" /\ GenLeaf(n, codegenReturn(Gen, n)) /\ IsStatement(n)
    BY <1>6, AstAssumption DEF GenReturn
  <2>2. On(Gen, {builder.at}, InUse)
    BY <1>3, <2>1, GenOn
  <2>3. PICK e : /\ Passes(e, Gen, {builder.at}, InUse)
                 /\ codegenReturn(Gen, n) = Terminate(e, <<>>)
    BY <1>1, <2>1, <2>2, ReturnIs
  <2> DEFINE h == Terminate(e, <<>>)
  <2>4. h.edges = Recorded(e.edges, e.b.at, <<>>) /\ h.code = e.code
    BY <2>3, TerminatedAt DEF Passes
  <2>5. GenLeaf(n, h)
    BY <2>1, <2>3
  <2> HIDE DEF h
  <2>6. emitted'.edges = Recorded(e.edges, e.b.at, <<>>) /\ emitted'.code = e.code
    BY <1>3, <2>4, <2>5
  <2> QED BY <1>2, <1>3, <2>3, <2>5, <2>6, PassesRunsCode
<1>7. ASSUME NEW target, GenLeaf(n, Jump(Gen, target)) PROVE FALSE
  <2>1. On(Gen, {builder.at}, InUse)
    BY <1>3, <1>7, GenOn
  <2>2. Terminate(Gen, <<target>>).code = {}
    BY <1>4, <2>1, TerminatedAt
  <2>3. Abort(Gen, TRUE).code = {}
    BY <1>4 DEF Abort, Gen, GenWith
  <2>4. Jump(Gen, target).code = {}
    BY <2>2, <2>3 DEF Jump
  <2> QED BY <1>3, <1>7, <2>4 DEF Codes
<1>8. ~GenBreak(n) /\ ~GenContinue(n)
  BY <1>7 DEF GenBreak, GenContinue
<1>9. ~GenNull(n)
  BY <1>3, <1>4 DEF GenNull, Codes
<1>10. ~SkipLeaf(n)
  BY DEF SkipLeaf, NotGenerated, Nothing, Codes
<1> QED BY <1>1, <1>5, <1>6, <1>8, <1>9, <1>10 DEF Leaf

\* A branch after the condition, g, to new blocks.
LEMMA BranchRunsCode ==
  ASSUME Now, builder.at \in builder.open, Len(cursor') >= Len(cursor), Codes,
         NEW g, On(g, {builder.at}, InUse), Through(g, builder.at, 3),
         NEW bs, NEW y, NEW z, NEW l,
         GenDown(StartBlock(Terminate(Take(g, bs), <<y, z>>), y), l)
  PROVE  RunsCode
<1> DEFINE t == Take(g, bs)
           h == Terminate(t, <<y, z>>)
<1>1. /\ emitted'.edges = StartBlock(h, y).edges /\ emitted'.code = StartBlock(h, y).code
  BY DEF GenDown, Put
<1>2. t.edges = g.edges /\ t.code = g.code /\ t.b = g.b /\ DOMAIN t = GenFields
  BY DEF On, Take, GenFields
<1> HIDE DEF t
<1>3. h.edges = Recorded(g.edges, g.b.at, <<y, z>>) /\ h.code = g.code /\ DOMAIN h = GenFields
  BY <1>2 DEF On, Terminate, Reject, GenFields, Builders
<1> HIDE DEF h
<1>4. StartBlock(h, y).edges = h.edges /\ StartBlock(h, y).code = h.code
  BY <1>3 DEF StartBlock, GenFields
<1>5. /\ emitted'.code = g.code
      /\ \E targets : emitted'.edges = Recorded(g.edges, g.b.at, targets)
  BY <1>1, <1>3, <1>4
<1> QED BY <1>5, LiveRunsCode

\* The code in front of a loop and that of its condition.
LEMMA ConditionThrough ==
  ASSUME NEW g, NEW S, NEW T, On(g, S, T), NEW p, From(g, p, 1), Through(g, p, 1),
         NEW xs, xs # <<>> => ExprHasValue(xs[1]),
         NEW h, h = Condition(StartCondition(g, NewBlock(g, 1)), xs)
  PROVE  On(h, S, T) /\ HasValue(h) /\ Through(h, p, 3)
<1> DEFINE again == NewBlock(g, 1)
           c == StartCondition(g, again)
<1>1. again \in Blocks /\ again \notin g.taken
  BY NewOn
<1> HIDE DEF again
<1>2. On(c, S, T) /\ Goes(c, g, 1)
  BY <1>1, ConditionStarts
<1> HIDE DEF c
<1>3. Passes(h, c, S, T) /\ HasValue(h)
  BY <1>2, ValueOf DEF c, again
<1>4. On(h, S, T) /\ Goes(h, c, 1)
  BY <1>3 DEF Passes
<1>5. 1 \in Nat /\ 2 \in Nat /\ 1 + 1 = 2 /\ 2 + 1 = 3
  OBVIOUS
<1>6. From(c, p, 1 + 1) /\ Through(c, p, 1 + 1)
  BY <1>2, <1>5, GoesThrough
<1>7. Through(h, p, 2 + 1)
  BY <1>4, <1>5, <1>6, GoesThrough
<1> QED BY <1>3, <1>4, <1>5, <1>7

LEMMA FlowDownCode ==
  ASSUME Now, NEW n \in Statements, FlowDown(n), Codes
  PROVE  RunsCode
<1>1. HasValues(n) /\ Down(n) /\ IsStatement(n)
  BY AstAssumption DEF FlowDown
<1>2. Room(n) /\ Len(cursor') >= Len(cursor)
  <2>1. Open(n)
    BY <1>1 DEF Down, EnterBlock, EnterIf, EnterWhile, EnterFor, GenOpen, SkipEnter
  <2>2. cursor \in Seq(Entries) /\ Len(cursor) \in Nat
    BY DEF Now
  <2>3. cursor' = Append(cursor, [node |-> n, slot |-> FirstSlot(n)])
    BY <2>1 DEF Open
  <2>4. Len(cursor') = Len(cursor) + 1
    BY <2>2, <2>3
  <2> QED BY <2>1, <2>2, <2>4 DEF Open
<1>3. 0 \in Nat /\ 1 \in Nat /\ 3 \in Nat /\ 0 <= 1 /\ 1 <= 3
  OBVIOUS
<1>4. ASSUME Active
      PROVE  /\ builder.at \in builder.open /\ On(Gen, {builder.at}, InUse)
             /\ From(Gen, builder.at, 1) /\ Through(Gen, builder.at, 1)
  <2>1. builder.at \in builder.open
    BY <1>2, <1>4, ActiveOpen
  <2> QED BY <1>3, <2>1, GenOn, FromMore, ThroughMore
<1>5. ~EnterBlock(n)
  <2>1. ASSUME EnterBlock(n) PROVE emitted'.code = pushScope(Gen).code
    BY <2>1 DEF EnterBlock, GenDown, Put
  <2>2. pushScope(Gen).code = {}
    BY DEF pushScope, Gen, GenWith
  <2> QED BY <2>1, <2>2 DEF Codes
<1>6. CASE EnterIf(n)
  <2> DEFINE g == Condition(Gen, <<n.cond>>)
             y == NewBlock(g, 1)
             z == NewBlock(g, 2)
             l == [Plain EXCEPT !.other = z, !.known = Usable(g)]
  <2>1. n.kind = "if" /\ Active /\ EnterThen(g)
    BY <1>6 DEF EnterIf, GenOpen
  <2>2. Passes(g, Gen, {builder.at}, InUse) /\ HasValue(g)
    <3>1. ExprHasValue(<<n.cond>>[1])
      BY <1>1, <2>1 DEF HasValues
    <3> QED BY <1>4, <2>1, <3>1, ValueOf
  <2>3. GenDown(StartBlock(Terminate(Take(g, {y, z}), <<y, z>>), y), l)
    BY <2>1, <2>2 DEF EnterThen
  <2> HIDE DEF g, y, z, l
  <2>4. On(g, {builder.at}, InUse) /\ Through(g, builder.at, 3)
    BY <1>3, <1>4, <2>1, <2>2, PassesThrough, ThroughMore
  <2> QED BY <1>2, <1>4, <2>1, <2>3, <2>4, BranchRunsCode
<1>7. ASSUME Active, NEW g, On(g, {builder.at}, InUse), HasValue(g), Through(g, builder.at, 3),
             NEW left, NEW again, NEW known, EnterLoop(n, g, left, again, known)
      PROVE  RunsCode
  <2> DEFINE y == NewBlock(g, 1)
             z == NewBlock(g, 2)
             i == IF n.kind = "for" THEN NewBlock(g, 3) ELSE 0
             l == [Plain EXCEPT !.after = z, !.again = again, !.inc = i, !.known = known]
  <2>1. GenDown(StartBlock(Terminate(Take(g, {y, z, i}), <<y, z>>), y), l)
    BY <1>7 DEF EnterLoop
  <2> HIDE DEF y, z, i, l
  <2> QED BY <1>2, <1>4, <1>7, <2>1, BranchRunsCode
<1>8. CASE EnterWhile(n)
  <2> DEFINE again == NewBlock(Gen, 1)
             g == Condition(StartCondition(Gen, again), <<n.cond>>)
  <2>1. n.kind = "while" /\ Active /\ EnterLoop(n, g, g, again, Usable(g))
    BY <1>8 DEF EnterWhile, WhileBody, GenOpen
  <2>2. <<n.cond>> # <<>> => ExprHasValue(<<n.cond>>[1])
    BY <1>1, <2>1 DEF HasValues
  <2>3. g = Condition(StartCondition(Gen, NewBlock(Gen, 1)), <<n.cond>>)
    OBVIOUS
  <2> HIDE DEF g, again
  <2>4. On(g, {builder.at}, InUse) /\ HasValue(g) /\ Through(g, builder.at, 3)
    BY <1>4, <2>1, <2>2, <2>3, ConditionThrough
  <2> QED BY <1>7, <2>1, <2>4
<1>9. CASE EnterFor(n)
  <2> DEFINE s == pushScope(Gen)
             i == codegenOptional(s, n.init)
             again == NewBlock(i, 1)
             g == Condition(StartCondition(i, again), n.cond)
  <2>1. n.kind = "for" /\ Active /\ EnterLoop(n, g, popScope(g), again, {})
    BY <1>9 DEF EnterFor, StartFor, ForCondition, ForBody, GenOpen
  <2>2. n.cond # <<>> => ExprHasValue(n.cond[1])
    <3>1. n.cond # <<>> => 1 \in DOMAIN n.cond
      BY <1>1, <2>1 DEF IsStatement, IsOptional
    <3> QED BY <1>1, <2>1, <3>1 DEF HasValues
  <2>3. KeepsFlow(s, Gen)
    BY <1>4, <2>1, OnSound, SmallSteps
  <2> HIDE DEF s
  <2>4. On(s, {builder.at}, InUse)
    BY <1>4, <2>1, <2>3, KeepsOn
  <2>5. n.init # <<>> => n.init[1].kind \in SimpleKinds
    BY <1>1, <2>1 DEF IsStatement, IsSimple
  <2>6. Passes(i, Gen, {builder.at}, InUse)
    <3>1. Passes(i, s, {builder.at}, InUse)
      BY <2>4, <2>5, OptionalPasses
    <3> QED BY <1>4, <2>1, <2>3, <3>1, KeepsThenPasses
  <2>7. g = Condition(StartCondition(i, NewBlock(i, 1)), n.cond)
    OBVIOUS
  <2> HIDE DEF g, again, i
  <2>8. On(i, {builder.at}, InUse) /\ From(i, builder.at, 1) /\ Through(i, builder.at, 1)
    BY <1>4, <2>1, <2>6, PassesThrough
  <2>9. On(g, {builder.at}, InUse) /\ HasValue(g) /\ Through(g, builder.at, 3)
    BY <2>2, <2>7, <2>8, ConditionThrough
  <2> QED BY <1>7, <2>1, <2>9
<1>10. ~SkipEnter(n)
  BY DEF SkipEnter, NotGenerated, Nothing, Codes
<1> QED BY <1>1, <1>5, <1>6, <1>8, <1>9, <1>10 DEF Down

\* A branch at the end of a block, and another block to go on in, are no code.
LEMMA NoCode ==
  ASSUME Now, NEW x, NEW y, NEW known
  PROVE  LET g == StartBlock(BranchIfOpen(Gen, x), y)
         IN /\ DOMAIN g = GenFields /\ g.code = {}
            /\ LeaveRegion(g, known).code = {}
<1> DEFINE b == BranchIfOpen(Gen, x)
           g == StartBlock(b, y)
<1>1. Sound(Gen) /\ Gen.code = {}
  BY GenSound
<1>2. DOMAIN b = GenFields /\ b.code = {}
  <2> DEFINE t == Terminate(Gen, <<x>>)
  <2>1. DOMAIN t = GenFields /\ t.code = {}
    <3> HIDE DEF Gen
    <3> QED BY <1>1 DEF Sound, Terminate, Reject, GenFields, Builders
  <2> HIDE DEF t
  <2> QED BY <1>1, <2>1 DEF BranchIfOpen, Sound, t
<1> HIDE DEF b
<1>3. DOMAIN g = GenFields /\ g.code = {}
  BY <1>2 DEF StartBlock, GenFields
<1> HIDE DEF g
<1>4. LeaveRegion(g, known).code = {}
  BY <1>3 DEF LeaveRegion, GenFields
<1> QED BY <1>3, <1>4 DEF g, b

\* At the end of a for-statement: its run is at the end of the body or waits
\* where the increment is, and otherwise elsewhere.
LEMMA IncrementIsDue ==
  ASSUME Now, FlowUp, ~Local.skip, Parent.node.kind = "for"
  PROVE  /\ Executes <=> status = "live" \/ pc = Local.inc
         /\ Local.inc \in Blocks
<1> DEFINE n == Len(cursor)
           top == Frames[n]
<1>1. /\ n \in Nat \ {0} /\ n \in 1 .. n /\ n \in 0 .. n /\ FrameOK(top) /\ ~top.skip
      /\ Apart(Frames, n, builder.open) /\ 0 \notin builder.open
      /\ Agrees(Frames, n, pc, status, builder.at, builder.open)
      /\ status \in Run!Statuses
  BY TopFrame
<1>2. /\ top.kind = "for" /\ top.kind \in LoopKinds /\ top.kind # "func"
      /\ top.after = Local.after /\ top.inc = Local.inc
      /\ cursor # <<>> /\ cursor' = Advance(Front(cursor))
  BY UpRuns, StatusKinds
<1>3. top.parked = Run!Parked
  <2>1. Run!Parked = runs[n].parked
    BY <1>2, Tops
  <2> QED BY <1>1, <2>1, FrameIs
<1>4. top.inc \in Own(top) /\ top.inc # 0 /\ top.inc # top.after /\ top.after # 0
  BY <1>1, <1>2 DEF FrameOK, Own
<1>5. Executes <=> top.parked = "none" /\ status \in {"live", "continued"}
  BY <1>2, <1>3 DEF Executes
<1> HIDE DEF n, top
<1>6. ASSUME status = "live" PROVE top.parked = "none"
  <2>1. Agrees(Frames, n, pc, "live", builder.at, builder.open)
    BY <1>1, <1>6
  <2>2. ~Held(Frames, pc, n)
    BY <1>1, <2>1, LiveNotHeld
  <2>3. \A i \in 1 .. n : FrameOK(Frames[i]) /\ Parks(Frames, pc, i)
    BY <1>1 DEF Apart, Agrees
  <2>4. Frames[n].kind # "func" /\ n \in Nat
    BY <1>1, <1>2 DEF top
  <2>5. Frames[n].parked = "none"
    BY <1>1, <2>2, <2>3, <2>4, Unparked
  <2> QED BY <2>5 DEF top
<1>7. ASSUME status \in {"broke", "continued"} PROVE pc = JumpTarget(top, status)
  <2>1. WaitsFor(Frames, pc, status, n)
    BY <1>1 DEF Agrees
  <2> QED BY <1>1, <1>2, <1>7, <2>1, JumpLands DEF top
<1>8. ASSUME status # "live", pc = top.inc PROVE top.parked = "none" /\ status = "continued"
  <2> DEFINE s2 == IF top.parked # "none" THEN top.parked
                   ELSE IF top.kind \in LoopKinds /\ status \in {"broke", "continued"} THEN "live"
                   ELSE status
  <2>1. s2 = "live"
    <3>1. SUFFICES ASSUME s2 # "live" PROVE FALSE
      OBVIOUS
    <3>2. pc = 0 \/ pc \notin Own(top)
      BY <1>1, <1>2, <1>8, <3>1, LeftAway DEF top
    <3> QED BY <1>4, <1>8, <3>2
  <2>2. top.parked # "live"
    <3>1. top.parked = "live" => pc = Untaken(top)
      BY <1>1, <1>2, <1>8, LastWaits DEF top
    <3> QED BY <1>4, <1>8, <3>1 DEF Untaken
  <2>3. top.parked = "none" /\ status \in {"broke", "continued"}
    BY <1>8, <2>1, <2>2
  <2>4. status # "broke"
    BY <1>4, <1>7, <1>8 DEF JumpTarget
  <2> QED BY <2>3, <2>4
<1>9. status = "continued" => pc = top.inc
  BY <1>2, <1>7 DEF JumpTarget
<1>10. Local.inc \in Blocks
  BY LoopBlocks
<1> QED BY <1>2, <1>5, <1>6, <1>8, <1>9, <1>10

LEMMA LeaveForCode ==
  ASSUME Now, FlowUp, LeaveFor, Codes
  PROVE  RunsCode
<1> DEFINE inc == Local.inc
           again == Local.again
           after == Local.after
           S == builder.open \cup {inc}
           inInc == StartBlock(BranchIfOpen(Gen, inc), inc)
           h == codegenOptional(inInc, Parent.node.inc)
           b == BranchIfOpen(h, again)
           a == StartBlock(b, after)
           g == popScope(a)
<1>1. /\ GenUp("for", g) /\ ~Local.skip /\ Parent.node.kind = "for"
      /\ emitted'.edges = g.edges /\ emitted'.code = g.code
  BY DEF LeaveFor, GenUp, Close, Parent, Put
<1>2. Parent.node.inc # <<>> => Parent.node.inc[1].kind \in SimpleKinds
  <2>1. IsStatement(Parent.node)
    <3>1. cursor # <<>>
      BY UpRuns
    <3>2. Parent = cursor[Len(cursor)] /\ Len(cursor) \in 1 .. Len(cursor)
      BY <3>1, Tops
    <3>3. Parent \in Entries
      BY <3>2 DEF Now
    <3>4. Parent.node \in Statements \cup Functions
      BY <3>3 DEF Entries
    <3>5. Parent.node \notin Functions
      BY <1>1, AstAssumption DEF IsFunction
    <3> QED BY <3>4, <3>5, AstAssumption
  <2> QED BY <1>1, <2>1 DEF IsStatement, IsSimple
<1>3. /\ On(inInc, S, InUse) /\ From(inInc, inc, 0) /\ (status = "live" => From(inInc, pc, 1))
      /\ inInc.code = {}
  BY <1>1, IncrementOn
<1>4. Executes <=> status = "live" \/ pc = inc
  BY <1>1, IncrementIsDue
<1>5. Passes(h, inInc, S, InUse)
  <2> HIDE DEF inInc, S
  <2> QED BY <1>2, <1>3, OptionalPasses
<1> HIDE DEF inInc, h
<1>6. On(h, S, InUse) /\ Through(h, inc, 3) /\ (status = "live" => Through(h, pc, 3))
  <2>1. 0 \in Nat /\ 1 \in Nat /\ 2 \in Nat /\ 3 \in Nat /\ 1 <= 3 /\ 2 <= 3 /\ 0 + 1 = 1 /\ 1 + 1 = 2
    OBVIOUS
  <2>2. Goes(h, inInc, 1) /\ Through(inInc, inc, 0) /\ Through(inInc, pc, 1)
    BY <1>3, <1>5 DEF Passes, Through
  <2>3. Through(h, inc, 0 + 1)
    BY <1>3, <2>1, <2>2, GoesThrough
  <2>4. status = "live" => Through(h, pc, 1 + 1)
    BY <1>3, <2>1, <2>2, GoesThrough
  <2> QED BY <1>5, <2>1, <2>3, <2>4, ThroughMore DEF Passes
<1>7. b = Terminate(h, <<again>>)
  BY <1>6 DEF On, BranchIfOpen, HasTerminator
<1>8. /\ b.edges = Recorded(h.edges, h.b.at, <<again>>) /\ b.code = h.code
      /\ DOMAIN b = GenFields
  <2> HIDE DEF b, again
  <2> QED BY <1>6, <1>7 DEF On, Terminate, Reject, GenFields, Builders
<1> HIDE DEF b
<1>9. a.edges = b.edges /\ a.code = b.code /\ DOMAIN a = GenFields
  <2> HIDE DEF after
  <2> QED BY <1>8 DEF StartBlock, GenFields
<1> HIDE DEF a
<1>10. g.edges = a.edges /\ g.code = a.code
  BY <1>9 DEF popScope, GenFields
<1> HIDE DEF g
<1>11. emitted'.edges = Recorded(h.edges, h.b.at, <<again>>) /\ emitted'.code = h.code
  BY <1>1, <1>8, <1>9, <1>10
<1>12. ASSUME NEW p, Through(h, p, 3) PROVE Visited(emitted'.edges, p) \cap emitted'.code # {}
  <2>1. h.code # {}
    BY <1>11 DEF Codes
  <2> HIDE DEF S
  <2>2. Visited(emitted'.edges, p) \cap h.code # {}
    BY <1>6, <1>11, <1>12, <2>1, CodeVisited
  <2> QED BY <1>11, <2>2
<1>13. ASSUME status # "live", pc # inc
       PROVE  Visited(emitted'.edges, pc) \cap emitted'.code = {}
  <2>1. pc \notin builder.open /\ pc \in InUse \cup {0} /\ pc \in Nat
    BY <1>13, WaitsApart DEF Now, FlowTypes
  <2>2. pc \notin DOMAIN h.edges /\ pc # h.b.at /\ (pc \in h.code => pc = 0)
    BY <1>6, <1>13, <2>1 DEF On, Builders, Blocks
  <2>3. pc \notin DOMAIN emitted'.edges
    BY <1>11, <2>2 DEF Recorded
  <2>4. Visited(emitted'.edges, pc) = {pc}
    BY <2>3, VisitedAlone
  <2> QED BY <1>11, <2>2, <2>4 DEF Codes
<1> QED BY <1>4, <1>6, <1>12, <1>13 DEF RunsCode

LEMMA FlowUpCode ==
  ASSUME Now, FlowUp, Codes
  PROVE  RunsCode
<1>1. ASSUME NEW kind, NEW g, GenUp(kind, g) PROVE emitted'.code = g.code
  BY <1>1 DEF GenUp, Put
<1>2. ~LeaveBlock
  <2>1. popScope(Gen).code = {}
    BY DEF popScope, Gen, GenWith
  <2> QED BY <1>1, <2>1 DEF LeaveBlock, Codes
<1>3. ~LeaveIf
  BY <1>1, NoCode DEF LeaveIf, Codes
<1>4. ~LeaveWhile
  BY <1>1, NoCode DEF LeaveWhile, Codes
<1>5. ~SkipLeave
  BY DEF SkipLeave, NotGenerated, Nothing, Codes
<1> QED BY <1>2, <1>3, <1>4, <1>5, LeaveForCode DEF FlowUp, Up

\* The other steps: only the start of a function is code.
LEMMA FlowElseCode ==
  ASSUME Now, FlowElse, Codes
  PROVE  FALSE
<1>1. ~SkipElse
  BY DEF SkipElse, NotGenerated, Nothing, Codes
<1>2. ~ElseBranch
  <2> DEFINE merge == NewBlock(Gen, 1)
             t == Take(Gen, {merge})
             b == BranchIfOpen(t, merge)
             g == StartBlock(b, Local.other)
             l == LeaveRegion(g, Local.known)
  <2>1. ElseBranch => emitted'.code = l.code
    BY DEF ElseBranch, Put
  <2>2. DOMAIN t = GenFields /\ t.code = {} /\ t.b \in Builders
    <3>1. Sound(Gen) /\ Gen.code = {}
      BY GenSound
    <3> HIDE DEF Gen, merge
    <3> QED BY <3>1 DEF Sound, Take, GenFields
  <2> HIDE DEF merge, t
  <2>3. DOMAIN b = GenFields /\ b.code = {}
    <3> DEFINE e == Terminate(t, <<merge>>)
    <3>1. DOMAIN e = GenFields /\ e.code = {}
      BY <2>2 DEF Terminate, Reject, GenFields, Builders
    <3> HIDE DEF e
    <3> QED BY <2>2, <3>1 DEF BranchIfOpen, e
  <2> HIDE DEF b
  <2>4. DOMAIN g = GenFields /\ g.code = {}
    BY <2>3 DEF StartBlock, GenFields
  <2> HIDE DEF g
  <2>5. l.code = {}
    BY <2>4 DEF LeaveRegion, GenFields
  <2> QED BY <2>1, <2>5 DEF Codes
<1> QED BY <1>1, <1>2 DEF FlowElse

LEMMA FlowFunctionCode ==
  ASSUME Now, NEW f, FlowFunction(f)
  PROVE  RunsCode
<1>1. /\ cursor = <<>> /\ stage = "functions"
      /\ emitted'.edges = <<>> /\ emitted'.code = {Entry.at}
  BY DEF FlowFunction, EnterFunction, OpenFunction, Room, Nothing
<1>2. status = "live" /\ builder = Entry /\ pc = builder.at
  BY <1>1 DEF Now, Orderly, Agrees
<1>3. Visited(<<>>, pc) = {pc}
  <2>1. DOMAIN <<>> = {}
    OBVIOUS
  <2> QED BY <2>1, VisitedAlone
<1>4. Executes
  BY <1>1, <1>2 DEF Executes
<1> QED BY <1>1, <1>2, <1>3, <1>4 DEF RunsCode

\* A return at the end of a function or of main is no code either.
LEMMA EndsCode ==
  ASSUME Now, LeaveFunction \/ StartMain \/ FinishMain, Codes
  PROVE  FALSE
<1> DEFINE t == Terminate(Gen, <<>>)
           g == ReturnIfOpen(Gen)
<1>1. Sound(Gen) /\ Gen.code = {}
  BY GenSound
<1>2. DOMAIN g = GenFields /\ g.code = {}
  <2>1. DOMAIN t = GenFields /\ t.code = {}
    <3> HIDE DEF Gen
    <3> QED BY <1>1 DEF Sound, Terminate, Reject, GenFields, Builders
  <2> HIDE DEF t
  <2> QED BY <1>1, <2>1 DEF ReturnIfOpen, Sound, t
<1> HIDE DEF g
<1>3. popScope(g).code = {}
  BY <1>2 DEF popScope, GenFields
<1>4. LeaveFunction => emitted'.code = popScope(g).code
  BY DEF LeaveFunction, g
<1>5. FinishMain => emitted'.code = g.code \/ emitted' = Nothing
  BY DEF FinishMain, g
<1>6. StartMain => emitted' = Nothing
  BY DEF StartMain
<1> QED BY <1>2, <1>3, <1>4, <1>5, <1>6 DEF Nothing, Codes

--------------------------------------------------------------------------------
(***************************************************************************)
(* The invariant, and what it is for.                                      *)
(***************************************************************************)
LEMMA FlowStarts == FlowInit => Init /\ EmitInv
<1> SUFFICES ASSUME FlowInit PROVE Init /\ EmitInv
  OBVIOUS
<1>1. /\ Init /\ cursor = <<>> /\ builder = Entry /\ pc = builder.at /\ status = "live"
      /\ runs = <<>> /\ exits = <<>>
  BY DEF FlowInit, Init, TreeInit, GenInit, Run!RunInit
<1>2. Len(cursor) = 0 /\ 1 .. 0 = {} /\ builder.at = 1 /\ builder.open = {1} /\ ~builder.mid
  BY <1>1 DEF Entry
<1>3. FlowTypes
  BY <1>1, <1>2 DEF FlowTypes, Run!Statuses
<1>4. Orderly(cursor, locals, builder, stage)
  BY <1>1, <1>2 DEF Orderly
<1>5. Apart(Frames, Len(cursor), builder.open)
  BY <1>2 DEF Apart
<1>6. Agrees(Frames, Len(cursor), pc, status, builder.at, builder.open)
  BY <1>1, <1>2 DEF Agrees, WaitsFor
<1> QED BY <1>1, <1>3, <1>4, <1>5, <1>6 DEF EmitInv

\* A step of the two together is a step of the generator.
LEMMA FlowGenerates == FlowNext => Next
<1>1. ASSUME NEW n \in Statements, FlowLeaf(n) \/ FlowDown(n) PROVE Next
  BY <1>1 DEF FlowLeaf, FlowDown, Next
<1>2. ASSUME pending # <<>>, FlowFunction(Head(pending)) PROVE Next
  BY <1>2 DEF FlowFunction, Next
<1>3. FlowElse \/ FlowUp \/ FlowEndFunction => Next
  BY DEF FlowElse, FlowUp, FlowEndFunction, Next
<1>4. stage \notin Generating /\ UNCHANGED flowVars => Terminating
  BY DEF flowVars, Terminating, treeVars, genVars
<1> QED BY <1>1, <1>2, <1>3, <1>4 DEF FlowNext, Next

\* Statements are generated in functions and main first, or not at all.
LEMMA FlowingBefore ==
  ASSUME FlowNext, Flowing'
  PROVE  Flowing
<1>1. stage' \in {"functions", "main"}
  BY DEF Flowing
<1>2. ASSUME NEW g, Put(g) PROVE stage' = stage
  BY <1>1, <1>2 DEF Put
<1>3. NotGenerated => stage' = stage
  BY DEF NotGenerated
<1>4. ASSUME NEW n, Leaf(n) PROVE stage' = stage
  BY <1>2, <1>3, <1>4 DEF Leaf, GenSimple, GenReturn, GenBreak, GenContinue, GenNull, SkipLeaf, GenLeaf
<1>5. ASSUME NEW n, Down(n) PROVE stage' = stage
  <2>1. ASSUME NEW g, NEW l, GenDown(g, l) PROVE stage' = stage
    BY <1>2, <2>1 DEF GenDown
  <2>2. ASSUME NEW g, EnterThen(g) PROVE stage' = stage
    BY <2>1, <2>2 DEF EnterThen
  <2>3. ASSUME NEW g, NEW left, NEW again, NEW known, EnterLoop(n, g, left, again, known)
        PROVE  stage' = stage
    BY <2>1, <2>3 DEF EnterLoop
  <2> QED BY <1>3, <1>5, <2>1, <2>2, <2>3
          DEF Down, EnterBlock, EnterIf, EnterWhile, WhileBody, EnterFor, StartFor, ForCondition,
              ForBody, SkipEnter
<1>6. Up => stage' = stage
  BY <1>2, <1>3 DEF Up, LeaveBlock, LeaveIf, LeaveWhile, LeaveFor, GenUp, SkipLeave
<1>7. ElseBranch \/ SkipElse => stage' = stage
  BY <1>2, <1>3 DEF ElseBranch, SkipElse
<1>8. /\ \A f : EnterFunction(f) => stage = "functions"
      /\ LeaveFunction \/ StartMain => stage = "functions"
  BY DEF EnterFunction, LeaveFunction, StartMain
<1>9. ~FinishMain /\ ~Terminating
  BY <1>1 DEF FinishMain, Terminating, Generating, genVars
<1>10. Next
  BY FlowGenerates
<1> QED BY <1>1, <1>4, <1>5, <1>6, <1>7, <1>8, <1>9, <1>10 DEF Next, Flowing

LEMMA FlowKeeps ==
  ASSUME GenInv, EmitInv, [FlowNext]_flowVars
  PROVE  EmitInv'
<1> SUFFICES ASSUME Flowing' PROVE EmitInv'
  BY DEF EmitInv
<1>1. CASE FlowNext
  <2>1. Now
    BY <1>1, FlowingBefore, NowIs
  <2>2. ASSUME NEW n \in Statements, FlowLeaf(n) PROVE EmitInv'
    BY <2>1, <2>2, FlowLeafKeeps
  <2>3. ASSUME NEW n \in Statements, FlowDown(n) PROVE EmitInv'
    BY <2>1, <2>3, FlowDownKeeps
  <2>4. ASSUME StartMain /\ pc' = builder'.at /\ UNCHANGED <<status, runs, store, obs, exits>>
        PROVE  EmitInv'
    BY <2>1, <2>4, FlowStartMainKeeps
  <2>5. ~FinishMain
    BY DEF FinishMain, Flowing
  <2>6. ~(stage \notin Generating /\ UNCHANGED flowVars)
    BY DEF Flowing, flowVars, genVars, Generating
  <2> QED BY <1>1, <2>1, <2>2, <2>3, <2>4, <2>5, <2>6, FlowFunctionKeeps, FlowElseKeeps, FlowUpKeeps,
             FlowEndFunctionKeeps DEF FlowNext
<1>2. CASE UNCHANGED flowVars
  <2>1. /\ cursor' = cursor /\ locals' = locals /\ builder' = builder /\ stage' = stage
        /\ status' = status /\ runs' = runs /\ pc' = pc /\ exits' = exits
    BY <1>2 DEF flowVars, treeVars, genVars
  <2>2. Frames' = Frames
    BY <2>1 DEF Frames
  <2> QED BY <2>1, <2>2 DEF EmitInv, Flowing, FlowTypes
<1> QED BY <1>1, <1>2

\* The generator goes through a program next to a run just as it does alone.
THEOREM FlowIsGeneration == FlowSpec => GenSpec
<1>1. FlowInit => Init
  BY FlowStarts
<1>2. [FlowNext]_flowVars => [Next]_<<treeVars, genVars>>
  BY FlowGenerates DEF flowVars
<1> QED BY <1>1, <1>2, PTL DEF FlowSpec, GenSpec

LEMMA EmitInvariant == FlowSpec => [](GenInv /\ EmitInv)
<1>1. FlowInit => EmitInv
  BY FlowStarts
<1>2. GenInv /\ EmitInv /\ [FlowNext]_flowVars => EmitInv'
  BY FlowKeeps
<1> QED BY <1>1, <1>2, FlowIsGeneration, GenInvariant, PTL DEF FlowSpec

\* Whatever the program and whichever way its conditions come out, control in
\* the emitted code comes to the insertion point exactly when the run comes to
\* the statement that is generated there.
THEOREM BranchesFollowTheRun == FlowSpec => []RunIsAtBuilder
<1>1. GenInv /\ EmitInv => RunIsAtBuilder
  <2> SUFFICES ASSUME GenInv, EmitInv, Flowing
               PROVE  status = "live" <=> pc = builder.at /\ ~HasTerminator(builder)
    BY DEF RunIsAtBuilder
  <2>1. /\ status = "live" <=> pc = builder.at /\ builder.at \in builder.open
        /\ ~builder.mid
    BY DEF EmitInv, Agrees, Orderly
  <2> QED BY <2>1 DEF HasTerminator
<1> QED BY <1>1, EmitInvariant, PTL

\* The code of a step is on the way of the runs that execute it, and of no others.
LEMMA FlowRunsCode ==
  ASSUME GenInv, EmitInv, GenInv', FlowNext, Flowing, emitted'.code # {}
  PROVE  RunsCode
<1>1. Now
  BY NowIs
<1>2. Codes
  <2>1. GenInv' => emitted'.code \subseteq Blocks
    BY DEF GenInv, GenTypeOK
  <2> QED BY <2>1 DEF Codes, Blocks
<1>3. ASSUME NEW n \in Statements, FlowLeaf(n) \/ FlowDown(n) PROVE RunsCode
  BY <1>1, <1>2, <1>3, FlowLeafCode, FlowDownCode
<1>4. ~FlowElse
  BY <1>1, <1>2, FlowElseCode
<1>5. FlowEndFunction => LeaveFunction
  BY DEF FlowEndFunction
<1>6. ~LeaveFunction /\ ~StartMain /\ ~FinishMain
  BY <1>1, <1>2, EndsCode
<1>7. ~(stage \notin Generating /\ UNCHANGED flowVars)
  BY DEF Flowing, Generating
<1> QED BY <1>1, <1>2, <1>3, <1>4, <1>5, <1>6, <1>7, FlowUpCode, FlowFunctionCode DEF FlowNext

\* Whatever the program and whichever way its conditions come out, the code
\* emitted for a statement is executed by exactly the runs that execute the
\* statement, the increment of a for-statement after a continue included.
THEOREM CodeFollowsTheRun == FlowSpec => CodeRunExactly
<1>1. GenInv /\ EmitInv /\ GenInv' /\ [FlowNext]_flowVars
        => [Flowing /\ emitted'.code # {}
              => (Executes <=> Visited(emitted'.edges, pc) \cap emitted'.code # {})]_flowVars
  BY FlowRunsCode DEF RunsCode
<1> QED BY <1>1, EmitInvariant, PTL DEF FlowSpec, CodeRunExactly
================================================================================
