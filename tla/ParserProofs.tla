------------------------------ MODULE ParserProofs -----------------------------
(***************************************************************************)
(* Proofs about the parser's error recovery and about where it says errors *)
(* are, for texts of any length, with any number of errors, nested as      *)
(* deep as one likes.                                                      *)
(***************************************************************************)
EXTENDS Parser, SequenceLemmas

Phrases == Terminals \cup {"body", "error"}

\* Phrases that are complete but for their children.
Compound == Lists \cup Dependent

\* Only the last phrase may be one that takes no children, and none is when a
\* statement has just been completed.
StackInv ==
  /\ stack \in Seq(Phrases)
  /\ \A i \in 1 .. Len(stack) - 1 : stack[i] \in Compound
  /\ stack # <<>> =>
       stack[Len(stack)] \in Compound \cup (IF closed THEN {} ELSE {"simple", "func", "error"})

CountInv ==
  /\ errors \in Nat /\ nulls \in Nat /\ nulls <= errors
  /\ braces \in Int /\ skipped \in Int
  /\ closed \in BOOLEAN
  /\ outcome \in {"reading", "accepted", "rejected"}

\* The scanner's line is right, and its column as long as no lexeme of several
\* lines has ended on the line.
PlaceInv ==
  /\ {yylineno, yycolumn, row, column} \subseteq Nat \ {0}
  /\ yylineno = row
  /\ shifted \in BOOLEAN
  /\ ~shifted => yycolumn = column

IInv == /\ StackInv /\ CountInv /\ PlaceInv
        /\ NothingDroppedSilently /\ NestingAsWritten

--------------------------------------------------------------------------------
(***************************************************************************)
(* The stack.                                                              *)
(***************************************************************************)
USE DEF Terminals, Phrases, Lists, Dependent, Compound

\* A stack as Bison leaves it between two lexemes.
Shaped(s) ==
  /\ s \in Seq(Phrases)
  /\ \A i \in 1 .. Len(s) - 1 : s[i] \in Compound
  /\ s # <<>> => s[Len(s)] \in Compound \cup {"simple", "func", "error"}

LEMMA OpenListsArePositions == OpenLists = Positions(stack, Lists)
BY DEF OpenLists, Positions

\* The level reductions go down to is a position, and all lists are below it.
LEMMA ListLevelType ==
  ASSUME StackInv
  PROVE  /\ ListLevel \in 0 .. Len(stack)
         /\ \A i \in Positions(stack, Lists) : i <= ListLevel
<1>1. OpenLists \in SUBSET (1 .. Len(stack)) /\ Len(stack) \in Nat
  BY DEF OpenLists, StackInv
<1>2. CASE OpenLists = {}
  BY <1>1, <1>2, OpenListsArePositions DEF ListLevel
<1>3. CASE OpenLists # {}
  <2>1. Max(OpenLists) \in OpenLists /\ \A i \in OpenLists : i <= Max(OpenLists)
    BY <1>1, <1>3, MaxOfPositions
  <2> QED BY <1>1, <1>3, <2>1, OpenListsArePositions DEF ListLevel
<1> QED BY <1>2, <1>3

\* Reductions close statements, but no list, and forget no error.
LEMMA ReducedShape ==
  ASSUME StackInv, closed \in BOOLEAN, NEW t
  PROVE  /\ Shaped(Reduced(t))
         /\ Positions(Reduced(t), Lists) = OpenLists
         /\ Top(Reduced(t)) = "error" <=> Top(stack) = "error"
<1>1. CASE ~closed
  BY <1>1, OpenListsArePositions DEF Reduced, Shaped, StackInv
<1>2. CASE closed
  <2>1. PICK k \in 0 .. Len(stack) :
          /\ Reduced(t) = SubSeq(stack, 1, k)
          /\ ListLevel <= k
    <3>1. CASE t = "else" /\ OpenIfs # {}
      <4>1. OpenIfs \in SUBSET (1 .. Len(stack)) /\ Len(stack) \in Nat
        BY DEF OpenIfs, StackInv
      <4>2. Max(OpenIfs) \in OpenIfs
        BY <3>1, <4>1, MaxOfPositions
      <4>3. Max(OpenIfs) \in 0 .. Len(stack) /\ Max(OpenIfs) > ListLevel
        BY <4>1, <4>2 DEF OpenIfs
      <4> QED BY <1>2, <3>1, <4>3, ListLevelType DEF Reduced
    <3>2. CASE ~(t = "else" /\ OpenIfs # {})
      BY <1>2, <3>2, ListLevelType DEF Reduced
    <3> QED BY <3>1, <3>2
  <2>2. \A i \in Positions(stack, Lists) : i <= k
    BY <2>1, ListLevelType DEF Positions, StackInv
  <2> DEFINE s == SubSeq(stack, 1, k)
  <2>3. /\ s \in Seq(Phrases) /\ Len(s) = k /\ Len(stack) \in Nat
        /\ \A i \in 1 .. k : s[i] = stack[i]
    BY <2>1, PrefixShape DEF StackInv
  <2>4. Positions(s, Lists) = OpenLists
    BY <2>1, <2>2, PositionsPrefix, OpenListsArePositions DEF StackInv
  <2> HIDE DEF s
  <2>5. \A i \in 1 .. Len(stack) : stack[i] \in Compound
    BY <1>2, <2>3 DEF StackInv
  <2>6. Shaped(s) /\ Top(s) # "error" /\ Top(stack) # "error"
    BY <2>1, <2>3, <2>5 DEF Shaped, Top, Last
  <2> QED BY <2>1, <2>4, <2>6 DEF s
<1> QED BY <1>1, <1>2

\* Beginning a phrase opens a list exactly for an opening brace.
LEMMA BeginShape ==
  ASSUME NEW s, Shaped(s), NEW t, Fits(s, t), Begin(s, t)
  PROVE  /\ StackInv' /\ Top(s) # "error" /\ Top(stack') # "error"
         /\ Cardinality(Positions(stack', Lists))
              = Cardinality(Positions(s, Lists)) + Brace(t)
<1>1. /\ t \in {"simple", "lbrace", "if", "else", "loop", "func"} /\ closed' = FALSE
      /\ s \in Seq(Phrases) /\ Len(s) \in Nat
  BY DEF Begin, Shaped
<1>2. Cardinality(Positions(s, Lists)) \in Nat
  BY <1>1, PositionsFinite
<1>3. Top(s) # "error" /\ Top(s) # "simple"
  BY <1>1 DEF Fits
<1>4. CASE t = "else" \/ (t = "lbrace" /\ Top(s) = "func")
  <2>1. s # <<>> /\ Top(s) = s[Len(s)]
    BY <1>1, <1>4 DEF Top, Last, Fits
  <2>2. Top(s) \in {"if", "func"}
    BY <1>4, <1>3 DEF Fits
  <2> DEFINE e == IF t = "else" THEN "else" ELSE "body"
             b == Front(s)
  <2>3. /\ b \in Seq(Phrases) /\ Len(b) = Len(s) - 1 /\ Len(b) \in Nat
        /\ \A i \in 1 .. Len(b) : b[i] \in Compound
    <3> HIDE DEF Phrases
    <3>1. /\ Front(s) \in Seq(Phrases) /\ Len(Front(s)) = Len(s) - 1
          /\ Len(s) \in Nat \ {0}
          /\ \A i \in 1 .. Len(s) - 1 : Front(s)[i] = s[i]
      BY <2>1, FrontShape DEF Shaped
    <3> QED BY <3>1 DEF Shaped
  <2>4. Positions(b, Lists) = Positions(s, Lists)
    <3> HIDE DEF Phrases
    <3>1. Last(s) \notin Lists
      BY <2>1, <2>2 DEF Last
    <3>2. s \in Seq(Phrases)
      BY DEF Shaped
    <3> QED BY <2>1, <3>1, <3>2, PositionsFront
  <2>5. /\ stack' = Append(b, e) /\ e \in Compound /\ e # "error"
        /\ (e \in Lists <=> t = "lbrace")
    BY <1>4 DEF Begin
  <2> HIDE DEF e, b
  <2>6. /\ StackInv' /\ Top(stack') # "error"
    BY <1>1, <2>3, <2>5 DEF StackInv, Top, Last
  <2>7. Cardinality(Positions(stack', Lists))
          = Cardinality(Positions(s, Lists)) + Brace(t)
    BY <1>1, <1>2, <1>4, <2>3, <2>4, <2>5, PositionsAppend DEF Brace
  <2> QED BY <1>3, <2>6, <2>7
<1>5. CASE ~(t = "else" \/ (t = "lbrace" /\ Top(s) = "func"))
  <2>1. stack' = Append(s, t) /\ t # "error" /\ (t \in Lists <=> t = "lbrace")
    BY <1>1, <1>5 DEF Begin
  <2>2. \A i \in 1 .. Len(s) : s[i] \in Compound
    <3>1. s # <<>> => s[Len(s)] \in Compound
      BY <1>1, <1>3, <1>5 DEF Fits, Top, Last, Shaped
    <3> QED BY <1>1, <3>1 DEF Shaped
  <2>3. /\ StackInv' /\ Top(stack') # "error"
    BY <1>1, <2>1, <2>2 DEF StackInv, Top, Last
  <2>4. Cardinality(Positions(stack', Lists))
          = Cardinality(Positions(s, Lists)) + Brace(t)
    BY <1>1, <1>2, <2>1, PositionsAppend DEF Brace
  <2> QED BY <1>3, <2>3, <2>4
<1> QED BY <1>4, <1>5

\* Completing a statement closes a list exactly for a closing brace.
LEMMA CompleteShape ==
  ASSUME NEW s, Shaped(s), s # <<>>, NEW t, Complete(s, t),
         t = "rbrace" => Top(s) \in Lists, t = "semicolon" => Top(s) \notin Lists
  PROVE  /\ StackInv' /\ Top(stack') # "error" /\ closed' = TRUE
         /\ nulls' = nulls + (IF Top(s) = "error" THEN 1 ELSE 0)
         /\ Cardinality(Positions(stack', Lists))
              = Cardinality(Positions(s, Lists)) + Brace(t)
<1>1. /\ t \in {"semicolon", "rbrace"} /\ stack' = Front(s) /\ closed' = TRUE
      /\ nulls' = nulls + (IF Top(s) = "error" THEN 1 ELSE 0)
      /\ Top(s) = Last(s)
  BY DEF Complete, Top
<1>2. /\ stack' \in Seq(Phrases) /\ Len(stack') \in Nat
      /\ \A i \in 1 .. Len(stack') : stack'[i] \in Compound
  <2> HIDE DEF Phrases
  <2>1. /\ Front(s) \in Seq(Phrases) /\ Len(Front(s)) = Len(s) - 1
        /\ Len(s) \in Nat \ {0}
        /\ \A i \in 1 .. Len(s) - 1 : Front(s)[i] = s[i]
    BY FrontShape DEF Shaped
  <2> QED BY <1>1, <2>1 DEF Shaped
<1>3. StackInv' /\ Top(stack') # "error"
  BY <1>1, <1>2 DEF StackInv, Top, Last
<1>4. /\ Cardinality(Positions(s, Lists)) \in Nat
      /\ Cardinality(Positions(stack', Lists)) \in Nat
  BY <1>2, PositionsFinite DEF Shaped
<1>5. Cardinality(Positions(stack', Lists))
        = Cardinality(Positions(s, Lists)) + Brace(t)
  BY <1>1, <1>4, PositionsFront DEF Brace, Shaped
<1> QED BY <1>1, <1>3, <1>5

\* What recovery leaves: the phrases below the one dropped, and `error'.
LEMMA DropShape ==
  ASSUME NEW s, Shaped(s), Top(s) # "error", NEW r, r = Append(DropPhrase(s), "error")
  PROVE  /\ Shaped(r) /\ r # <<>> /\ Top(r) = "error"
         /\ Positions(r, Lists) = Positions(s, Lists)
<1>1. s \in Seq(Phrases) /\ Len(s) \in Nat /\ (s # <<>> => Top(s) = s[Len(s)])
  BY DEF Shaped, Top, Last
<1> DEFINE b == DropPhrase(s)
<1>2. /\ b \in Seq(Phrases) /\ Positions(b, Lists) = Positions(s, Lists)
      /\ \A i \in 1 .. Len(b) : b[i] \in Compound
  <2>1. CASE Top(s) \in {"simple", "func"}
    <3>1. s # <<>> /\ Last(s) \notin Lists
      BY <2>1 DEF Top
    <3>2. b = Front(s)
      BY <2>1 DEF DropPhrase
    <3> HIDE DEF Phrases, b
    <3>3. /\ Front(s) \in Seq(Phrases) /\ Len(Front(s)) = Len(s) - 1
          /\ Len(s) \in Nat \ {0}
          /\ \A i \in 1 .. Len(s) - 1 : Front(s)[i] = s[i]
      BY <1>1, <3>1, FrontShape
    <3>4. Positions(Front(s), Lists) = Positions(s, Lists)
      BY <1>1, <3>1, PositionsFront
    <3> QED BY <3>2, <3>3, <3>4 DEF Shaped
  <2>2. CASE Top(s) \notin {"simple", "func"}
    <3>1. b = s
      BY <2>2 DEF DropPhrase
    <3>2. s # <<>> => s[Len(s)] \in Compound
      BY <1>1, <2>2 DEF Shaped
    <3> HIDE DEF b
    <3> QED BY <1>1, <3>1, <3>2 DEF Shaped
  <2> QED BY <2>1, <2>2
<1>3. r = Append(b, "error")
  OBVIOUS
<1> HIDE DEF b
<1>4. ASSUME NEW c \in Seq(Phrases), NEW e \in Phrases, e \notin Lists
      PROVE  /\ Positions(Append(c, e), Lists) = Positions(c, Lists)
             /\ Append(c, e) \in Seq(Phrases) /\ Len(Append(c, e)) = Len(c) + 1
             /\ Append(c, e)[Len(Append(c, e))] = e
             /\ Len(c) \in Nat /\ \A i \in 1 .. Len(c) : Append(c, e)[i] = c[i]
  <2> HIDE DEF Phrases, Lists
  <2>1. Positions(Append(c, e), Lists) = Positions(c, Lists)
    BY <1>4, PositionsAppend
  <2> QED BY <1>4, <2>1
<1>5. /\ Positions(r, Lists) = Positions(b, Lists)
      /\ r \in Seq(Phrases) /\ Len(r) = Len(b) + 1 /\ r[Len(r)] = "error"
      /\ Len(b) \in Nat /\ \A i \in 1 .. Len(b) : r[i] = b[i]
  <2>1. "error" \in Phrases /\ "error" \notin Lists
    OBVIOUS
  <2>2. b \in Seq(Phrases) /\ r = Append(b, "error")
    BY <1>2, <1>3
  <2> HIDE DEF Phrases, Lists
  <2>3. /\ Positions(Append(b, "error"), Lists) = Positions(b, Lists)
        /\ Append(b, "error") \in Seq(Phrases)
        /\ Len(Append(b, "error")) = Len(b) + 1
        /\ Append(b, "error")[Len(Append(b, "error"))] = "error"
        /\ Len(b) \in Nat /\ \A i \in 1 .. Len(b) : Append(b, "error")[i] = b[i]
    BY <2>1, <2>2, <1>4, Zenon
  <2> QED BY <2>2, <2>3
<1>6. Shaped(r) /\ r # <<>> /\ Top(r) = "error"
  BY <1>2, <1>5 DEF Shaped, Top, Last
<1> QED BY <1>2, <1>5, <1>6

--------------------------------------------------------------------------------
(***************************************************************************)
(* One lexeme.                                                             *)
(***************************************************************************)
\* The error that s is recovering from.
Pending(s) == IF Top(s) = "error" THEN 1 ELSE 0

Depth(s) == Cardinality(Positions(s, Lists))

\* What a step that reads t in the state of s keeps: the errors that have not
\* become a null statement, and the lists that are open but for the brace read.
Balanced(s, t) ==
  /\ StackInv' /\ closed' \in BOOLEAN
  /\ errors' \in Nat /\ nulls' \in Nat /\ skipped' \in Int
  /\ errors' - nulls' - Pending(stack') = errors - nulls - Pending(s)
  /\ Depth(stack') + skipped' - Brace(t) = Depth(s) + skipped

LEMMA BraceType == \A t : Brace(t) \in Int
BY DEF Brace

LEMMA DepthType == ASSUME NEW s \in Seq(Phrases) PROVE Depth(s) \in Nat
BY PositionsFinite DEF Depth

\* A token that fits begins or completes a statement.
LEMMA ShiftBalanced ==
  ASSUME CountInv, NEW s, Shaped(s), NEW t, Shift(s, t)
  PROVE  Balanced(s, t)
<1>1. Fits(s, t) /\ errors' = errors /\ skipped' = skipped
      /\ errors \in Nat /\ nulls \in Nat /\ skipped \in Int
      /\ Depth(s) \in Nat /\ Brace(t) \in Int
  BY DepthType, BraceType DEF Shift, CountInv, Shaped
<1>2. CASE Begin(s, t)
  <2>1. /\ StackInv' /\ Pending(s) = 0 /\ Pending(stack') = 0
        /\ Depth(stack') = Depth(s) + Brace(t)
    BY <1>1, <1>2, BeginShape DEF Pending, Depth
  <2>2. closed' \in BOOLEAN /\ nulls' = nulls
    BY <1>2 DEF Begin
  <2> QED BY <1>1, <2>1, <2>2 DEF Balanced
<1>3. CASE Complete(s, t)
  <2>1. /\ s # <<>> /\ (t = "rbrace" => Top(s) \in Lists)
        /\ (t = "semicolon" => Top(s) \notin Lists)
    BY <1>1, <1>3 DEF Fits, Complete, Top
  <2>2. /\ StackInv' /\ Pending(stack') = 0 /\ closed' = TRUE
        /\ nulls' = nulls + Pending(s)
        /\ Depth(stack') = Depth(s) + Brace(t)
    BY <1>3, <2>1, CompleteShape DEF Pending, Depth
  <2>3. Pending(s) \in {0, 1}
    BY DEF Pending
  <2> QED BY <1>1, <2>2, <2>3 DEF Balanced
<1> QED BY <1>2, <1>3 DEF Shift

\* A token that does not fit is reported; a semicolon ends the recovery at once.
LEMMA RecoverBalanced ==
  ASSUME CountInv, NEW s, Shaped(s), NEW t, Recover(s, t)
  PROVE  Balanced(s, t)
<1> DEFINE r == Append(DropPhrase(s), "error")
<1>1. /\ errors' = errors + 1 /\ Pending(s) = 0
      /\ errors \in Nat /\ nulls \in Nat /\ skipped \in Int
      /\ Depth(s) \in Nat /\ Brace(t) \in Int
  BY DepthType, BraceType DEF Recover, yyerror, CountInv, Shaped, Pending
<1>2. \/ t = "semicolon" /\ Complete(r, t) /\ skipped' = skipped
      \/ /\ t # "semicolon" /\ stack' = r /\ closed' = FALSE
         /\ skipped' = skipped + Brace(t) /\ nulls' = nulls
  BY DEF Recover
<1>3. /\ Shaped(r) /\ r # <<>> /\ Top(r) = "error"
      /\ Depth(r) = Depth(s)
  BY DropShape DEF Recover, Depth
<1> HIDE DEF r
<1>4. Pending(r) = 1
  BY <1>3 DEF Pending
<1>5. CASE t = "semicolon"
  <2>1. /\ StackInv' /\ Pending(stack') = 0 /\ closed' = TRUE
        /\ nulls' = nulls + 1
        /\ Depth(stack') = Depth(s) + Brace(t)
    BY <1>2, <1>3, <1>5, CompleteShape DEF Pending, Depth
  <2>2. skipped' = skipped
    BY <1>2, <1>5
  <2> QED BY <1>1, <2>1, <2>2 DEF Balanced
<1>6. CASE t # "semicolon"
  <2>1. /\ stack' = r /\ closed' = FALSE
        /\ skipped' = skipped + Brace(t) /\ nulls' = nulls
    BY <1>2, <1>6
  <2>2. StackInv'
    BY <1>3, <2>1 DEF StackInv, Shaped
  <2>3. closed' \in BOOLEAN
    BY <2>1
  <2>4. /\ Pending(stack') = 1 /\ Depth(stack') = Depth(s)
        /\ skipped' = skipped + Brace(t) /\ nulls' = nulls
    BY <1>3, <1>4, <2>1
  <2> QED BY <1>1, <2>2, <2>3, <2>4 DEF Balanced
<1> QED BY <1>5, <1>6

\* A token discarded during recovery takes its brace with it.
LEMMA DiscardBalanced ==
  ASSUME StackInv, CountInv, NEW s, NEW t, Discard(s, t),
         Depth(s) = Depth(stack), Top(s) = "error" <=> Top(stack) = "error"
  PROVE  Balanced(s, t)
<1>1. /\ errors' = errors /\ nulls' = nulls /\ stack' = stack /\ closed' = closed
      /\ skipped' = skipped + Brace(t)
  BY DEF Discard
<1>2. /\ errors \in Nat /\ nulls \in Nat /\ skipped \in Int /\ closed \in BOOLEAN
      /\ Brace(t) \in Int /\ Depth(stack) \in Nat
  BY DepthType, BraceType DEF CountInv, StackInv
<1>3. StackInv' /\ Pending(stack') = Pending(s) /\ Depth(stack') = Depth(s)
  BY <1>1 DEF StackInv, Pending
<1>4. Pending(s) \in {0, 1}
  BY DEF Pending
<1> QED BY <1>1, <1>2, <1>3, <1>4 DEF Balanced

\* A token, whichever way it is taken, keeps the balance of the whole parser.
LEMMA TokenBalanced ==
  ASSUME IInv, NEW l, Token(l)
  PROVE  Balanced(stack, l.token) /\ braces' = braces + Brace(l.token)
<1> DEFINE t == l.token
           s == Reduced(t)
<1>1. StackInv /\ CountInv /\ closed \in BOOLEAN
  BY DEF IInv, CountInv
<1>2. /\ Shaped(s) /\ Positions(s, Lists) = OpenLists
      /\ (Top(s) = "error" <=> Top(stack) = "error")
  BY <1>1, ReducedShape
<1>3. Depth(s) = Depth(stack) /\ Pending(s) = Pending(stack)
  BY <1>2, OpenListsArePositions DEF Depth, Pending
<1>4. Shift(s, t) \/ Recover(s, t) \/ Discard(s, t)
  BY DEF Token
<1>5. braces' = braces + Brace(t)
  BY DEF Token
<1> HIDE DEF s, t
<1>6. Balanced(s, t)
  BY <1>1, <1>2, <1>3, <1>4, ShiftBalanced, RecoverBalanced, DiscardBalanced
<1>7. Balanced(stack, t)
  BY <1>3, <1>6 DEF Balanced
<1> QED BY <1>5, <1>7 DEF t

\* What the two safety invariants say of a parser that is reading.
LEMMA BalanceIsKept ==
  ASSUME IInv, outcome = "reading", NEW t, Balanced(stack, t),
         braces' = braces + Brace(t), outcome' = "reading"
  PROVE  /\ StackInv' /\ CountInv'
         /\ NothingDroppedSilently' /\ NestingAsWritten'
<1>1. /\ errors = nulls + Pending(stack) /\ Depth(stack) = braces - skipped
      /\ errors \in Nat /\ nulls \in Nat /\ braces \in Int /\ skipped \in Int
  BY OpenListsArePositions
     DEF IInv, NothingDroppedSilently, NestingAsWritten, Pending, Depth, CountInv
<1>2. /\ errors' \in Nat /\ nulls' \in Nat /\ skipped' \in Int
      /\ errors' - nulls' - Pending(stack') = errors - nulls - Pending(stack)
      /\ Depth(stack') + skipped' - Brace(t) = Depth(stack) + skipped
  BY DEF Balanced
<1>3. StackInv' /\ closed' \in BOOLEAN
  BY DEF Balanced
<1>4. /\ Brace(t) \in Int /\ Pending(stack) \in {0, 1} /\ Pending(stack') \in {0, 1}
      /\ Depth(stack) \in Nat
  BY BraceType, DepthType DEF Pending, IInv, StackInv
<1>5. Depth(stack') \in Nat
  BY <1>3, DepthType DEF StackInv
<1>6. errors' = nulls' + Pending(stack') /\ Depth(stack') = braces' - skipped'
  <2>1. errors' = nulls' + Pending(stack')
    BY <1>1, <1>2, <1>4
  <2>2. Depth(stack') = braces' - skipped'
    BY <1>1, <1>2, <1>4, <1>5
  <2> QED BY <2>1, <2>2
<1>7. CountInv'
  <2>1. braces' \in Int
    BY <1>1, <1>4
  <2>2. nulls' <= errors'
    BY <1>2, <1>4, <1>6
  <2> QED BY <1>2, <1>3, <2>1, <2>2 DEF CountInv
<1>8. NothingDroppedSilently'
  BY <1>6 DEF NothingDroppedSilently, Pending
<1>9. NestingAsWritten'
  <2>1. OpenLists' = Positions(stack', Lists)
    BY DEF OpenLists, Positions
  <2> QED BY <1>6, <2>1 DEF NestingAsWritten, Depth
<1> QED BY <1>3, <1>7, <1>8, <1>9

\* The scanner's counters.
LEMMA ScanPlaces ==
  ASSUME PlaceInv, NEW l \in Lexemes, Scan(l)
  PROVE  /\ PlaceInv'
         /\ yylloc'.line = row \/ row' > row
         /\ yylloc'.col = column \/ shifted
<1>1. /\ l.kind \in LexemeKinds
      /\ l.len \in Nat \ {0} /\ l.lines \in Nat /\ l.tail \in 0 .. l.len
      /\ (l.kind = "newline" => l.lines = 1 /\ l.tail = 0)
      /\ (l.kind \in {"token", "blank"} => l.lines = 0)
  BY LexemeAssumption
<1>2. /\ yylineno' = yylineno + l.lines /\ yylloc' = [line |-> yylineno', col |-> yycolumn]
      /\ yycolumn' = IF l.kind = "newline" \/ (l.kind = "comment" /\ l.lines > 0) THEN 1
                     ELSE yycolumn + l.len
      /\ row' = row + l.lines
      /\ column' = IF l.lines > 0 THEN l.tail + 1 ELSE column + l.len
      /\ shifted' = (l.kind # "newline" /\ (shifted \/ l.lines > 0))
  BY DEF Scan, YY_USER_ACTION, columnAfter
<1>3. /\ {yylineno, yycolumn, row, column} \subseteq Nat \ {0}
      /\ yylineno = row /\ shifted \in BOOLEAN /\ (~shifted => yycolumn = column)
  BY DEF PlaceInv
<1>4. yylineno' = row' /\ {yylineno', yycolumn', row', column'} \subseteq Nat \ {0}
  BY <1>1, <1>2, <1>3
<1>5. shifted' \in BOOLEAN
  BY <1>2
<1>6. ~shifted' => yycolumn' = column'
  <2>1. CASE l.kind = "newline"
    BY <1>1, <1>2, <2>1
  <2>2. CASE l.kind # "newline"
    BY <1>1, <1>2, <1>3, <2>2
  <2> QED BY <2>1, <2>2
<1>7. yylloc'.line = row' /\ yylloc'.col = yycolumn
  BY <1>2, <1>4
<1>8. row' = row \/ row' > row
  BY <1>1, <1>2, <1>3
<1> QED BY <1>3, <1>4, <1>5, <1>6, <1>7, <1>8 DEF PlaceInv

--------------------------------------------------------------------------------
(***************************************************************************)
(* The invariant.                                                          *)
(***************************************************************************)
LEMMA ParseInitInv == ParseInit => IInv
<1> SUFFICES ASSUME ParseInit PROVE IInv
  OBVIOUS
<1>1. /\ stack = <<>> /\ closed = FALSE /\ outcome = "reading"
      /\ errors = 0 /\ nulls = 0 /\ braces = 0 /\ skipped = 0
  BY DEF ParseInit
<1>2. StackInv
  BY <1>1 DEF StackInv
<1>3. CountInv
  <2>1. closed \in BOOLEAN
    BY <1>1, Zenon
  <2> QED BY <1>1, <2>1 DEF CountInv
<1>4. PlaceInv
  <2>1. {yylineno, yycolumn, row, column} \subseteq Nat \ {0} /\ yylineno = row
        /\ yycolumn = column
    BY DEF ParseInit, LexInit
  <2>2. shifted \in BOOLEAN
    BY Zenon DEF ParseInit, LexInit
  <2> QED BY <2>1, <2>2 DEF PlaceInv
<1>5. NothingDroppedSilently
  BY <1>1 DEF NothingDroppedSilently, Top
<1>6. NestingAsWritten
  <2>1. OpenLists = {}
    BY <1>1 DEF OpenLists
  <2> QED BY <1>1, <2>1, FS_EmptySet DEF NestingAsWritten
<1> QED BY <1>2, <1>3, <1>4, <1>5, <1>6 DEF IInv

\* One lexeme, blank or not.
LEMMA LexemeStep ==
  ASSUME IInv, outcome = "reading", NEW l \in Lexemes,
         Scan(l), UNCHANGED outcome, Blank(l) \/ Token(l)
  PROVE  /\ IInv'
         /\ yylloc'.line = row \/ row' > row
         /\ yylloc'.col = column \/ shifted
<1>1. /\ PlaceInv'
      /\ yylloc'.line = row \/ row' > row
      /\ yylloc'.col = column \/ shifted
  BY ScanPlaces DEF IInv
<1>2. CASE Blank(l)
  <2>1. UNCHANGED <<stack, closed, errors, nulls, braces, skipped, outcome>>
    BY <1>2 DEF Blank
  <2>2. StackInv' /\ CountInv' /\ NothingDroppedSilently' /\ NestingAsWritten'
    BY <2>1 DEF IInv, StackInv, CountInv, NothingDroppedSilently, NestingAsWritten,
                OpenLists, Top
  <2> QED BY <1>1, <2>2 DEF IInv
<1>3. CASE Token(l)
  <2>1. Balanced(stack, l.token) /\ braces' = braces + Brace(l.token)
    BY <1>3, TokenBalanced
  <2>2. StackInv' /\ CountInv' /\ NothingDroppedSilently' /\ NestingAsWritten'
    BY <2>1, BalanceIsKept
  <2> QED BY <1>1, <2>2 DEF IInv
<1> QED BY <1>2, <1>3

\* The end of the text: an accepted program has no error pending.
LEMMA EndStep ==
  ASSUME IInv, outcome = "reading", EndOfFile
  PROVE  IInv' /\ outcome' # "reading"
<1>1. /\ stack' = stack /\ closed' = closed /\ nulls' = nulls
      /\ braces' = braces /\ skipped' = skipped /\ lexVars' = lexVars
      /\ outcome' \in {"accepted", "rejected"}
      /\ errors' \in {errors, errors + 1}
      /\ (outcome' = "accepted" => errors' = errors)
  BY DEF EndOfFile
<1>2. StackInv' /\ PlaceInv'
  BY <1>1 DEF IInv, StackInv, PlaceInv, lexVars
<1>3. CountInv'
  BY <1>1 DEF IInv, CountInv
<1>4. NothingDroppedSilently' /\ NestingAsWritten'
  BY <1>1 DEF IInv, NothingDroppedSilently, NestingAsWritten, Top, OpenLists
<1> QED BY <1>1, <1>2, <1>3, <1>4 DEF IInv

LEMMA StutterStep == IInv /\ UNCHANGED parseVars => IInv'
BY DEF parseVars, lexVars, IInv, StackInv, CountInv, PlaceInv,
       NothingDroppedSilently, NestingAsWritten, OpenLists, Top

LEMMA ParseNextInv == IInv /\ [ParseNext]_parseVars => IInv'
<1> SUFFICES ASSUME IInv, [ParseNext]_parseVars PROVE IInv'
  OBVIOUS
<1>1. ASSUME outcome = "reading", NEW l \in Lexemes,
             Scan(l), UNCHANGED outcome, Blank(l) \/ Token(l)
      PROVE  IInv'
  BY <1>1, LexemeStep
<1>2. ASSUME outcome = "reading", EndOfFile PROVE IInv'
  BY <1>2, EndStep
<1>3. CASE UNCHANGED parseVars
  BY <1>3, StutterStep
<1> QED BY <1>1, <1>2, <1>3 DEF ParseNext

\* The invariant: the shape of the stack, the counters and the scanner's place,
\* with the two balances that recovery keeps.
THEOREM ParserInvariant == ParseSpec => []IInv
BY ParseInitInv, ParseNextInv, PTL DEF ParseSpec

--------------------------------------------------------------------------------
(***************************************************************************)
(* What it shows.                                                          *)
(***************************************************************************)
\* The parser's variables have their types, and only the last phrase on the
\* stack is one without children.
THEOREM ParseTypes == ParseSpec => []ParseTypeOK
<1>1. IInv => ParseTypeOK
  <2> SUFFICES ASSUME IInv PROVE ParseTypeOK
    OBVIOUS
  <2>1. {yylineno, yycolumn, row, column} \subseteq Nat \ {0}
    BY DEF IInv, PlaceInv
  <2>2. \A i \in DOMAIN stack :
          stack[i] \in Lists \cup Dependent
            \/ (i = Len(stack) /\ stack[i] \in {"simple", "func", "error"})
    BY DEF IInv, StackInv
  <2>3. closed => Top(stack) \notin {"simple", "func", "error"}
    BY DEF IInv, StackInv, Top, Last
  <2>4. outcome \in {"reading", "accepted", "rejected"} /\ nulls \in 0 .. errors
    BY DEF IInv, CountInv
  <2> QED BY <2>1, <2>2, <2>3, <2>4 DEF ParseTypeOK
<1> QED BY <1>1, ParserInvariant, PTL

\* However many errors a text has and however deep they are: each statement that
\* recovery loses has been reported by an error of its own.
THEOREM EveryLossIsReported == ParseSpec => []NothingDroppedSilently
<1>1. IInv => NothingDroppedSilently
  BY DEF IInv
<1> QED BY <1>1, ParserInvariant, PTL

\* The lists open in the parser are those of the text, but for discarded braces.
THEOREM NestingIsWritten == ParseSpec => []NestingAsWritten
<1>1. IInv => NestingAsWritten
  BY DEF IInv
<1> QED BY <1>1, ParserInvariant, PTL

\* A syntax error is reported where its token is, unless a lexeme of several
\* lines has ended on that line.
THEOREM ErrorsAreAtTokens == ParseSpec => ErrorsArePlaced
<1>1. IInv /\ [ParseNext]_parseVars
        => [errors' > errors /\ outcome' = "reading"
              => /\ yylloc'.line = row \/ row' > row
                 /\ yylloc'.col = column \/ shifted]_parseVars
  <2> SUFFICES ASSUME IInv, ParseNext, errors' > errors, outcome' = "reading"
               PROVE  /\ yylloc'.line = row \/ row' > row
                      /\ yylloc'.col = column \/ shifted
    OBVIOUS
  <2>1. ASSUME outcome = "reading", NEW l \in Lexemes,
               Scan(l), UNCHANGED outcome, Blank(l) \/ Token(l)
        PROVE  /\ yylloc'.line = row \/ row' > row
               /\ yylloc'.col = column \/ shifted
    BY <2>1, LexemeStep
  <2>2. ASSUME outcome = "reading", EndOfFile PROVE FALSE
    BY <2>2, EndStep
  <2>3. outcome = "reading"
    BY DEF ParseNext, parseVars
  <2> QED BY <2>1, <2>2, <2>3 DEF ParseNext
<1> QED BY <1>1, ParserInvariant, PTL DEF ParseSpec, ErrorsArePlaced
================================================================================
