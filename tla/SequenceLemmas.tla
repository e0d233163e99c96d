----------------------------- MODULE SequenceLemmas ----------------------------
(***************************************************************************)
(* Facts about sequences used as stacks, and about how many of their       *)
(* entries are of some kind, for the proofs about the passes.              *)
(***************************************************************************)
EXTENDS Integers, FiniteSets, SequencesExt, FiniteSetTheorems,
        WellFoundedInduction, TLAPS

\* The positions of s that hold a member of K.
Positions(s, K) == {i \in DOMAIN s : s[i] \in K}

\* A nonempty set of positions has a last one.
LEMMA MaxOfPositions ==
  ASSUME NEW n \in Nat, NEW S \in SUBSET (1 .. n), S # {}
  PROVE  Max(S) \in S /\ \A i \in S : i <= Max(S)
<1> DEFINE R == {ss \in Nat \X Nat : ss[1] < ss[2]}
           T == {n - i : i \in S}
<1>1. IsWellFoundedOn(R, Nat)
  BY NatLessThanWellFounded DEF OpToRel
<1>2. T \in SUBSET Nat /\ T # {}
  <2>1. ASSUME NEW i \in S PROVE n - i \in Nat
    OBVIOUS
  <2> QED BY <2>1
<1>3. PICK x \in T : \A y \in T : <<y, x>> \notin R
  <2> HIDE DEF R, T
  <2> QED BY <1>1, <1>2, WFMin
<1>4. PICK m \in S : x = n - m
  BY <1>3
<1>5. ASSUME NEW i \in S PROVE i <= m
  <2>1. n - i \in T /\ n - i \in Nat /\ x \in Nat
    BY <1>3, <1>2
  <2>2. <<n - i, x>> \notin R
    BY <1>3, <2>1
  <2>3. n - i < x => <<n - i, x>> \in R
    BY <2>1
  <2> QED BY <1>4, <2>1, <2>2, <2>3
<1>6. \E k \in S : \A i \in S : k >= i
  BY <1>5
<1> QED BY <1>6 DEF Max

\* What is left of a stack without its entries above position k.
LEMMA PrefixShape ==
  ASSUME NEW T, NEW s \in Seq(T), NEW k \in 0 .. Len(s)
  PROVE  /\ SubSeq(s, 1, k) \in Seq(T) /\ Len(SubSeq(s, 1, k)) = k
         /\ \A i \in 1 .. k : SubSeq(s, 1, k)[i] = s[i]
OBVIOUS

\* What is left of a stack without its top.
LEMMA FrontShape ==
  ASSUME NEW T, NEW s \in Seq(T), s # <<>>
  PROVE  /\ Front(s) \in Seq(T) /\ Len(Front(s)) = Len(s) - 1 /\ Len(s) \in Nat \ {0}
         /\ \A i \in 1 .. Len(s) - 1 : Front(s)[i] = s[i]
         /\ Last(s) = s[Len(s)] /\ Last(s) \in T
<1>1. Len(s) \in Nat \ {0} /\ s[Len(s)] \in T
  OBVIOUS
<1>2. /\ SubSeq(s, 1, Len(s) - 1) \in Seq(T)
      /\ Len(SubSeq(s, 1, Len(s) - 1)) = Len(s) - 1
      /\ \A i \in 1 .. Len(s) - 1 : SubSeq(s, 1, Len(s) - 1)[i] = s[i]
  <2>1. Len(s) - 1 \in 0 .. Len(s)
    BY <1>1
  <2> QED BY <2>1, PrefixShape
<1> QED BY <1>1, <1>2 DEF Front, Last

\* The positions of a sequence are finitely many.
LEMMA PositionsFinite ==
  ASSUME NEW T, NEW s \in Seq(T), NEW K
  PROVE  /\ Positions(s, K) \subseteq 1 .. Len(s)
         /\ IsFiniteSet(Positions(s, K))
         /\ Cardinality(Positions(s, K)) \in Nat
<1>1. Positions(s, K) \subseteq 1 .. Len(s)
  BY DEF Positions
<1>2. IsFiniteSet(1 .. Len(s))
  BY FS_Interval
<1> QED BY <1>1, <1>2, FS_Subset, FS_CardinalityType

\* Stacks that agree up to the top of the shorter one agree in what is below.
LEMMA OneMorePosition ==
  ASSUME NEW T, NEW s \in Seq(T), NEW r \in Seq(T), NEW K, Len(r) = Len(s) + 1,
         \A i \in 1 .. Len(s) : r[i] \in K <=> s[i] \in K
  PROVE  /\ r[Len(r)] \in K
              => /\ Positions(r, K) = Positions(s, K) \cup {Len(r)}
                 /\ Cardinality(Positions(r, K)) = Cardinality(Positions(s, K)) + 1
         /\ r[Len(r)] \notin K => Positions(r, K) = Positions(s, K)
<1>1. /\ r[Len(r)] \in K => Positions(r, K) = Positions(s, K) \cup {Len(r)}
      /\ r[Len(r)] \notin K => Positions(r, K) = Positions(s, K)
  BY DEF Positions
<1>2. Len(r) \notin Positions(s, K)
  BY DEF Positions
<1> QED BY <1>1, <1>2, PositionsFinite, FS_AddElement

\* Pushing one entry.
LEMMA PositionsAppend ==
  ASSUME NEW T, NEW s \in Seq(T), NEW e \in T, NEW K
  PROVE  /\ e \in K => Cardinality(Positions(Append(s, e), K))
                         = Cardinality(Positions(s, K)) + 1
         /\ e \notin K => Positions(Append(s, e), K) = Positions(s, K)
<1> DEFINE r == Append(s, e)
<1>1. /\ r \in Seq(T) /\ Len(r) = Len(s) + 1 /\ r[Len(r)] = e
      /\ \A i \in 1 .. Len(s) : r[i] = s[i]
  OBVIOUS
<1> HIDE DEF r
<1>2. /\ e \in K => Cardinality(Positions(r, K)) = Cardinality(Positions(s, K)) + 1
      /\ e \notin K => Positions(r, K) = Positions(s, K)
  BY <1>1, OneMorePosition
<1> QED BY <1>2 DEF r

\* Popping one entry.
LEMMA PositionsFront ==
  ASSUME NEW T, NEW s \in Seq(T), s # <<>>, NEW K
  PROVE  /\ Last(s) \in K => Cardinality(Positions(s, K))
                               = Cardinality(Positions(Front(s), K)) + 1
         /\ Last(s) \notin K => Positions(Front(s), K) = Positions(s, K)
BY FrontShape, OneMorePosition

\* Popping all entries above position k.
LEMMA PositionsPrefix ==
  ASSUME NEW T, NEW s \in Seq(T), NEW K, NEW k \in 0 .. Len(s),
         \A i \in Positions(s, K) : i <= k
  PROVE  Positions(SubSeq(s, 1, k), K) = Positions(s, K)
BY PrefixShape DEF Positions
================================================================================
