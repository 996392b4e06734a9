----------------------------- MODULE SequenceLemmas -----------------------------
(***************************************************************************)
(* Lemmas about the operators on sequences that the models are built from: *)
(* what `list.splice(list.indexOf(e), 1)` leaves of a list (RemoveAt and   *)
(* RemoveFirst of SequencesExt), and what a loop over a list computes      *)
(* (FoldLeft).                                                             *)
(*                                                                         *)
(* The law of a fold needs induction.  A theorem about every predicate     *)
(* cannot be instantiated here, but one about every set can: induction is  *)
(* stated for sets of numbers, and follows from the fact that < is well-   *)
(* founded.  Likewise a fold is that of a function F, not of an operator.  *)
(***************************************************************************)
EXTENDS SequencesExt, SequenceTheorems, FiniteSetTheorems, WellFoundedInduction, TLAPS

(* Lists from which one element is removed.                                *)

Injective(s) == \A i, j \in 1..Len(s) : i # j => s[i] # s[j]

\* Removing position k shifts the later elements down by one.
LEMMA RemoveAtProperties ==
  ASSUME NEW S, NEW s \in Seq(S), NEW k \in 1..Len(s)
  PROVE  /\ RemoveAt(s, k) \in Seq(S)
         /\ Len(RemoveAt(s, k)) = Len(s) - 1
         /\ \A i \in 1..Len(s)-1 : RemoveAt(s, k)[i] = IF i < k THEN s[i] ELSE s[i+1]
<1>1. Len(s) \in Nat /\ (\A i \in 1..Len(s) : s[i] \in S)
  OBVIOUS
<1>2. PICK a \in Seq(S) : /\ a = SubSeq(s, 1, k-1)
                          /\ Len(a) = k-1
                          /\ \A i \in 1..k-1 : a[i] = s[i]
  <2>1. /\ SubSeq(s, 1, k-1) \in Seq(S)
        /\ Len(SubSeq(s, 1, k-1)) = k-1
        /\ \A i \in 1..k-1 : SubSeq(s, 1, k-1)[i] = s[i]
    BY <1>1, SubSeqProperties
  <2> QED BY <2>1
<1>3. PICK b \in Seq(S) : /\ b = SubSeq(s, k+1, Len(s))
                          /\ Len(b) = Len(s) - k
                          /\ \A i \in 1..Len(s)-k : b[i] = s[k+i]
  <2>1. /\ SubSeq(s, k+1, Len(s)) \in Seq(S)
        /\ Len(SubSeq(s, k+1, Len(s))) = Len(s) - k
        /\ \A i \in 1..Len(s)-k : SubSeq(s, k+1, Len(s))[i] = s[k+i]
    BY <1>1, SubSeqProperties
  <2> QED BY <2>1
<1>4. /\ a \o b \in Seq(S)
      /\ Len(a \o b) = Len(a) + Len(b)
      /\ \A i \in 1..Len(a)+Len(b) : (a \o b)[i] = IF i <= Len(a) THEN a[i] ELSE b[i - Len(a)]
  BY ConcatProperties
<1>5. RemoveAt(s, k) = a \o b
  BY <1>2, <1>3 DEF RemoveAt
<1>6. ASSUME NEW i \in 1..Len(s)-1, ~(i < k) PROVE b[i - (k-1)] = s[i+1]
  <2>1. i - (k-1) \in 1..Len(s)-k /\ k + (i - (k-1)) = i + 1
    BY <1>1, <1>6
  <2> QED BY <2>1, <1>3
<1>7. Len(a) = k-1 /\ Len(a) + Len(b) = Len(s) - 1
  <2>1. Len(a) = k-1
    BY <1>2
  <2>2. Len(b) = Len(s) - k
    BY <1>3
  <2> QED BY <2>1, <2>2, <1>1
<1>8. ASSUME NEW i \in 1..Len(s)-1 PROVE (a \o b)[i] = IF i < k THEN s[i] ELSE s[i+1]
  <2>1. (a \o b)[i] = IF i <= k-1 THEN a[i] ELSE b[i - (k-1)]
    BY <1>4, <1>7
  <2>2. CASE i < k
    BY <2>1, <2>2, <1>2
  <2>3. CASE ~(i < k)
    BY <2>1, <2>3, <1>6
  <2> QED BY <2>2, <2>3
<1> QED BY <1>4, <1>5, <1>7, <1>8

\* Without duplicates the first occurrence is the only one.
LEMMA RemoveFirstIsRemoveAt ==
  ASSUME NEW S, NEW s \in Seq(S), NEW k \in 1..Len(s), Injective(s)
  PROVE  RemoveFirst(s, s[k]) = RemoveAt(s, k)
<1> DEFINE I == {i \in 1..Len(s) : s[i] = s[k]}
<1>1. I = {k}
  BY DEF Injective
<1>2. Min(I) = k
  BY <1>1 DEF Min
<1>3. SelectInSeq(s, LAMBDA v : v = s[k]) = k
  BY <1>1, <1>2 DEF SelectInSeq
<1> QED BY <1>3 DEF RemoveFirst

\* The element is gone, every other one stays, and no duplicate appears.
LEMMA RemoveFirstProperties ==
  ASSUME NEW S, NEW s \in Seq(S), NEW e, Injective(s)
  PROVE  /\ RemoveFirst(s, e) \in Seq(S)
         /\ Injective(RemoveFirst(s, e))
         /\ \A x : Contains(RemoveFirst(s, e), x) <=> Contains(s, x) /\ x # e
         /\ Len(RemoveFirst(s, e)) <= Len(s)
<1>1. CASE ~Contains(s, e)
  <2>1. RemoveFirst(s, e) = s
    BY <1>1 DEF RemoveFirst, Contains
  <2> QED BY <1>1, <2>1 DEF Contains
<1>2. CASE Contains(s, e)
  <2>1. PICK k \in 1..Len(s) : s[k] = e
    BY <1>2 DEF Contains
  <2>2. PICK r \in Seq(S) : /\ r = RemoveFirst(s, e)
                            /\ Len(r) = Len(s) - 1
                            /\ \A i \in 1..Len(r) : r[i] = IF i < k THEN s[i] ELSE s[i+1]
    <3>1. RemoveFirst(s, e) = RemoveAt(s, k)
      BY <2>1, RemoveFirstIsRemoveAt
    <3>2. /\ RemoveAt(s, k) \in Seq(S)
          /\ Len(RemoveAt(s, k)) = Len(s) - 1
          /\ \A i \in 1..Len(s)-1 : RemoveAt(s, k)[i] = IF i < k THEN s[i] ELSE s[i+1]
      BY RemoveAtProperties
    <3> QED BY <3>1, <3>2
  <2>3. Len(s) \in Nat
    OBVIOUS
  <2>4. Injective(r)
    BY <2>2, <2>3 DEF Injective
  <2>5. ASSUME NEW x, Contains(r, x) PROVE Contains(s, x) /\ x # e
    <3>1. PICK i \in 1..Len(r) : r[i] = x
      BY <2>5 DEF Contains
    <3> QED BY <3>1, <2>1, <2>2, <2>3 DEF Injective, Contains
  <2>6. ASSUME NEW x, Contains(s, x), x # e PROVE Contains(r, x)
    <3>1. PICK i \in 1..Len(s) : s[i] = x
      BY <2>6 DEF Contains
    <3>2. CASE i < k
      BY <3>1, <3>2, <2>2, <2>3 DEF Contains
    <3>3. CASE i > k
      <4>1. i-1 \in 1..Len(r) /\ r[i-1] = x
        BY <3>1, <3>3, <2>2, <2>3
      <4> QED BY <4>1 DEF Contains
    <3> QED BY <3>1, <3>2, <3>3, <2>6, <2>1, <2>3
  <2> QED BY <2>2, <2>3, <2>4, <2>5, <2>6
<1> QED BY <1>1, <1>2

-----------------------------------------------------------------------------
(* Induction.                                                              *)

\* A set of numbers has a least element ...
LEMMA LeastNumber ==
  ASSUME NEW T, T \subseteq Nat, T # {}
  PROVE  \E x \in T : \A y \in T : x <= y
<1> DEFINE R == {ss \in Nat \X Nat : ss[1] < ss[2]}
<1>1. IsWellFoundedOn(R, Nat)
  BY NatLessThanWellFounded DEF OpToRel
<1>2. PICK x \in T : \A y \in T : <<y, x>> \notin R
  BY <1>1, WFMin
<1>3. \A y \in T : ~(y < x)
  BY <1>2
<1> QED
  BY <1>3

\* ... so that a set with 0 and every successor holds all numbers.
LEMMA SetInduction ==
  ASSUME NEW T, 0 \in T, \A n \in Nat : n \in T => n + 1 \in T
  PROVE  Nat \subseteq T
<1>1. SUFFICES ASSUME Nat \ T # {}
               PROVE  FALSE
  OBVIOUS
<1>2. PICK x \in Nat \ T : \A y \in Nat \ T : x <= y
  BY <1>1, LeastNumber
<1>3. x - 1 \in Nat /\ ~(x <= x - 1)
  BY <1>2
<1> QED
  BY <1>2, <1>3

\* Likewise a set with the empty sequence and every extension holds all sequences.
LEMMA SeqInduction ==
  ASSUME NEW S, NEW T, <<>> \in T, \A s \in T, e \in S : s \in Seq(S) => Append(s, e) \in T
  PROVE  Seq(S) \subseteq T
<1> DEFINE U == {n \in Nat : \A s \in Seq(S) : Len(s) = n => s \in T}
<1>1. 0 \in U
  BY EmptySeq
<1>2. ASSUME NEW n \in Nat, n \in U
      PROVE  n + 1 \in U
  <2>1. SUFFICES ASSUME NEW s \in Seq(S), Len(s) = n + 1
                 PROVE  s \in T
    OBVIOUS
  <2>2. PICK t \in Seq(S), e \in S : s = Append(t, e)
    BY <2>1, SequenceEmptyOrAppend
  <2>3. Len(t) = n
    BY <2>1, <2>2
  <2> QED
    BY <1>2, <2>2, <2>3
<1> HIDE DEF U
<1>3. Nat \subseteq U
  BY <1>1, <1>2, SetInduction
<1> QED
  BY <1>3 DEF U

\* Min and Max of sets of positions.
LEMMA MinProperties ==
  ASSUME NEW T, T \subseteq Nat, T # {}
  PROVE  Min(T) \in T /\ \A x \in T : Min(T) <= x
BY LeastNumber DEF Min

LEMMA MaxOfInterval ==
  ASSUME NEW n \in Nat \ {0}
  PROVE  Max(1..n) = n
<1>1. n \in 1..n /\ \A y \in 1..n : n >= y
  OBVIOUS
<1>2. ASSUME NEW x \in 1..n, \A y \in 1..n : x >= y PROVE x = n
  BY <1>2
<1> QED
  BY <1>1, <1>2 DEF Max

LEMMA MaxBelow ==
  ASSUME NEW n \in Nat, NEW T \in SUBSET (0..n), T # {}
  PROVE  Max(T) \in T /\ \A x \in T : Max(T) >= x
<1> DEFINE U == {n - x : x \in T}
<1>1. U \subseteq Nat /\ U # {}
  <2>1. \A x \in T : x \in 0..n /\ n - x \in Nat
    OBVIOUS
  <2> QED
    BY <2>1
<1>2. PICK u \in U : \A y \in U : u <= y
  BY <1>1, LeastNumber
<1>3. PICK x \in T : u = n - x
  OBVIOUS
<1>4. \A y \in T : x >= y
  <2> TAKE y \in T
  <2>1. n - y \in U
    OBVIOUS
  <2> QED
    BY <1>2, <1>3, <2>1
<1> QED
  BY <1>4 DEF Max

LEMMA MaxProperties ==
  ASSUME NEW n \in Nat, NEW T \in SUBSET (1..n), T # {}
  PROVE  Max(T) \in T
<1>1. T \in SUBSET (0..n)
  OBVIOUS
<1> QED
  BY <1>1, MaxBelow

\* What holds of no elements, and of any with the first one if it holds of them
\* without, holds of all.
LEMMA SubsetInduction ==
  ASSUME NEW D, IsFiniteSet(D), NEW T, {} \in T,
         \A S \in (SUBSET D) \ {{}} : \E x \in S : S \ {x} \in T => S \in T
  PROVE  SUBSET D \subseteq T
<1> DEFINE U == {n \in Nat : \A S \in SUBSET D : Cardinality(S) = n => S \in T}
<1>1. \A S \in SUBSET D : IsFiniteSet(S) /\ Cardinality(S) \in Nat
  BY FS_Subset, FS_CardinalityType
<1>2. 0 \in U
  BY <1>1, FS_EmptySet
<1>3. ASSUME NEW n \in Nat, n \in U
      PROVE  n + 1 \in U
  <2>1. SUFFICES ASSUME NEW S \in SUBSET D, Cardinality(S) = n + 1
                 PROVE  S \in T
    OBVIOUS
  <2>2. S # {} /\ IsFiniteSet(S)
    <3>1. Cardinality({}) = 0 /\ n + 1 # 0
      BY FS_EmptySet
    <3> QED
      BY <1>1, <2>1, <3>1
  <2>3. PICK x \in S : S \ {x} \in T => S \in T
    BY <2>2
  <2>4. Cardinality(S \ {x}) = n /\ S \ {x} \in SUBSET D
    <3>1. Cardinality(S \ {x}) = Cardinality(S) - 1
      BY <2>2, FS_RemoveElement
    <3> QED
      BY <2>1, <3>1
  <2>5. \A R \in SUBSET D : Cardinality(R) = n => R \in T
    BY <1>3
  <2> QED
    BY <2>3, <2>4, <2>5
<1> HIDE DEF U
<1>4. Nat \subseteq U
  BY <1>2, <1>3, SetInduction
<1> QED
  BY <1>1, <1>4 DEF U

-----------------------------------------------------------------------------
(* Folds.                                                                  *)

\* `first` determines in which order the elements of D are taken, F folds them into
\* values of A, from base on.
Foldable(D, A, base, F, first) ==
  /\ IsFiniteSet(D) /\ base \in A /\ F \in [A \X D -> A]
  /\ first \in [(SUBSET D) \ {{}} -> D] /\ \A S \in (SUBSET D) \ {{}} : first[S] \in S

\* g[S] is what the elements of S are folded into.
Folds(g, D, A, base, F, first) ==
  /\ g \in [SUBSET D -> A]
  /\ g[{}] = base
  /\ \A S \in (SUBSET D) \ {{}} : g[S] = F[<<g[S \ {first[S]}], first[S]>>]

\* The recursive definition of a fold (MapThenFoldSet) has a solution, whose values
\* are of the type that F preserves.
LEMMA FoldExists ==
  ASSUME NEW D, NEW A, NEW base, NEW F, NEW first, Foldable(D, A, base, F, first)
  PROVE  \E g : Folds(g, D, A, base, F, first)
<1> DEFINE L(n) == {S \in SUBSET D : Cardinality(S) <= n}
           Solves(g, n) == \A S \in L(n) : g[S] = IF S = {} THEN base ELSE F[<<g[S \ {first[S]}], first[S]>>]
           T == {n \in Nat : \E g \in [L(n) -> A] : Solves(g, n)}
<1> USE DEF Foldable
<1>1. \A S \in SUBSET D : IsFiniteSet(S) /\ Cardinality(S) \in Nat
  BY FS_Subset, FS_CardinalityType
<1>2. ASSUME NEW n \in Nat, NEW S \in L(n+1), S # {}
      PROVE  S \ {first[S]} \in L(n) /\ S \ {first[S]} \in L(n+1)
  <2>1. Cardinality(S \ {first[S]}) = Cardinality(S) - 1
    BY <1>1, <1>2, FS_RemoveElement
  <2> QED
    BY <1>1, <1>2, <2>1
<1>3. ASSUME NEW S \in L(0) PROVE S = {}
  BY <1>1, FS_EmptySet
<1>4. 0 \in T
  <2>1. [S \in L(0) |-> base] \in [L(0) -> A]
    OBVIOUS
  <2>2. Solves([S \in L(0) |-> base], 0)
    BY <1>3
  <2> QED
    BY <2>1, <2>2
<1>5. ASSUME NEW n \in T
      PROVE  n + 1 \in T
  <2>1. PICK g \in [L(n) -> A] : Solves(g, n)
    BY <1>5
  <2> DEFINE h == [S \in L(n+1) |-> IF S = {} THEN base ELSE F[<<g[S \ {first[S]}], first[S]>>]]
  <2>2. ASSUME NEW S \in L(n+1) PROVE h[S] \in A
    <3>1. CASE S = {}
      BY <3>1
    <3>2. CASE S # {}
      <4>1. g[S \ {first[S]}] \in A /\ first[S] \in D
        BY <1>2, <3>2
      <4> QED
        BY <3>2, <4>1
    <3> QED
      BY <3>1, <3>2
  <2>3. h \in [L(n+1) -> A]
    BY <2>2
  <2>4. ASSUME NEW S \in L(n) PROVE h[S] = g[S]
    <3>1. S \in L(n+1)
      BY <1>1
    <3> QED
      BY <2>1, <3>1
  <2>5. Solves(h, n+1)
    <3> TAKE S \in L(n+1)
    <3>1. CASE S = {}
      BY <3>1
    <3>2. CASE S # {}
      <4>1. h[S \ {first[S]}] = g[S \ {first[S]}]
        BY <1>2, <2>4, <3>2
      <4> QED
        BY <3>2, <4>1
    <3> QED
      BY <3>1, <3>2
  <2> HIDE DEF h, L, Solves
  <2>6. \E f \in [L(n+1) -> A] : Solves(f, n+1)
    BY <2>3, <2>5
  <2> QED
    BY <2>6
<1>6. Cardinality(D) \in T
  <2>1. Cardinality(D) \in Nat
    BY FS_CardinalityType
  <2> HIDE DEF T
  <2>2. Nat \subseteq T
    BY <1>4, <1>5, SetInduction
  <2> QED
    BY <2>1, <2>2
<1>7. PICK g \in [L(Cardinality(D)) -> A] : Solves(g, Cardinality(D))
  BY <1>6
<1>8. L(Cardinality(D)) = SUBSET D
  BY <1>1, FS_Subset
<1>9. g \in [SUBSET D -> A]
  BY <1>7, <1>8
<1>10. \A S \in SUBSET D : g[S] = IF S = {} THEN base ELSE F[<<g[S \ {first[S]}], first[S]>>]
  BY <1>7, <1>8
<1> HIDE DEF Solves, L
<1> QED
  BY <1>9, <1>10 DEF Folds
=============================================================================
