---------------------------- MODULE OrderTheorems ----------------------------
(***************************************************************************)
(* Smallest and largest elements, and sizes of sets.  The kernel searches  *)
(* its tables from one end (an empty slot, a free request, a child to      *)
(* collect), which the models write with Min and Max, and counts           *)
(* references, which they write with Cardinality; these are the facts the  *)
(* proofs need of them.  Induction is by a minimal counterexample.         *)
(***************************************************************************)
EXTENDS Integers, FiniteSetsExt, FiniteSetTheorems, WellFoundedInduction, TLAPS

(* Every nonempty set of naturals has a smallest element. *)
LEMMA SmallestExists ==
  ASSUME NEW S \in SUBSET Nat, S # {}
  PROVE  \E x \in S : \A y \in S : x <= y
<1> DEFINE R == OpToRel(<, Nat)
<1>1. \A x, y \in Nat : <<x, y>> \in R <=> x < y
  BY DEF OpToRel
<1>2. IsWellFoundedOn(R, Nat)
  BY NatLessThanWellFounded
<1> HIDE DEF R
<1>3. PICK x \in S : \A y \in S : ~ (<<y, x>> \in R)
  BY <1>2, WFMin
<1>4. \A y \in S : ~ (y < x)
  BY <1>1, <1>3
<1>5. \A y \in S : x <= y
  BY <1>4
<1> QED
  BY <1>5

(* Min is that element. *)
LEMMA MinSmallest ==
  ASSUME NEW S \in SUBSET Nat, S # {}
  PROVE  Min(S) \in S /\ \A y \in S : Min(S) <= y
BY SmallestExists DEF Min

(* Every nonempty finite set of integers has a largest element: a smallest *)
(* set without one would lose it by losing any element.                    *)
LEMMA LargestExists ==
  ASSUME NEW S \in SUBSET Int, S # {}, IsFiniteSet(S)
  PROVE  \E x \in S : \A y \in S : y <= x
<1> DEFINE HasLargest(T) == \E x \in T : \A y \in T : y <= x
           Bad == {T \in SUBSET S : T # {} /\ ~HasLargest(T)}
           R == StrictSubsetOrdering(S)
<1>1. IsWellFoundedOn(R, SUBSET S)
  BY FS_StrictSubsetOrderingWellFounded, FS_FiniteSubsetsOfFinite
<1>2. \A T, U \in SUBSET S : T \subseteq U /\ T # U => <<T, U>> \in R
  BY DEF StrictSubsetOrdering
<1> HIDE DEF R
<1>3. ASSUME Bad # {} PROVE FALSE
  <2>1. Bad \subseteq SUBSET S
    OBVIOUS
  <2>2. PICK T \in Bad : \A U \in Bad : ~ (<<U, T>> \in R)
    <3> HIDE DEF Bad
    <3> QED
      BY <1>1, <1>3, <2>1, WFMin
  <2>3. PICK a \in T : TRUE
    BY <2>2
  <2>4. T \ {a} \in SUBSET S /\ T \ {a} # T /\ T \ {a} \subseteq T
    BY <2>1, <2>3
  <2>5. T \ {a} \notin Bad
    BY <1>2, <2>2, <2>4
  <2>6. CASE T = {a}
    <3>1. a \in Int
      BY <2>2, <2>3
    <3>2. HasLargest(T)
      BY <2>6, <3>1
    <3> QED
      BY <2>2, <3>2
  <2>7. CASE T # {a}
    <3>1. PICK m \in T \ {a} : \A y \in T \ {a} : y <= m
      BY <2>3, <2>4, <2>5, <2>7
    <3>2. a \in Int /\ m \in Int /\ T \subseteq Int
      BY <2>2, <2>3, <3>1
    <3>3. CASE a <= m
      BY <2>2, <3>1, <3>2, <3>3
    <3>4. CASE m <= a
      <4>1. \A y \in T : y <= a
        BY <3>1, <3>2, <3>4
      <4> QED
        BY <2>2, <2>3, <4>1
    <3> QED
      BY <3>2, <3>3, <3>4
  <2> QED
    BY <2>6, <2>7
<1> QED
  BY <1>3

(* Max is that element. *)
LEMMA MaxLargest ==
  ASSUME NEW S \in SUBSET Int, S # {}, IsFiniteSet(S)
  PROVE  Max(S) \in S /\ \A y \in S : y <= Max(S)
BY LargestExists DEF Max

(* A table of the kernel has finitely many entries of any kind. *)
LEMMA IntervalFinite ==
  ASSUME NEW m \in Int, NEW n \in Int, NEW S \in SUBSET (m .. n)
  PROVE  IsFiniteSet(S)
BY FS_Interval, FS_Subset

----------------------------------------------------------------------------
(* The size of a set follows an element b that comes or goes: S and T      *)
(* differ in b at most.                                                    *)
LEMMA SetUpdate ==
  ASSUME NEW S, NEW T, NEW b, IsFiniteSet(S), S \ {b} = T \ {b}
  PROVE  /\ IsFiniteSet(T) /\ Cardinality(S) \in Nat /\ Cardinality(T) \in Nat
         /\ Cardinality(T) + (IF b \in S THEN 1 ELSE 0)
              = Cardinality(S) + (IF b \in T THEN 1 ELSE 0)
<1> DEFINE R == S \ {b}
<1>1. IsFiniteSet(R) /\ Cardinality(R) \in Nat
  BY FS_RemoveElement, FS_CardinalityType
<1>2. Cardinality(S) = Cardinality(R) + (IF b \in S THEN 1 ELSE 0)
  <2>1. CASE b \in S
    BY <2>1, FS_RemoveElement, <1>1, FS_CardinalityType
  <2>2. CASE b \notin S
    <3>1. R = S
      BY <2>2
    <3> HIDE DEF R
    <3> QED
      BY <3>1, <2>2, <1>1
  <2> QED
    BY <2>1, <2>2
<1>3. IsFiniteSet(T) /\ Cardinality(T) = Cardinality(R) + (IF b \in T THEN 1 ELSE 0)
  <2>1. CASE b \in T
    <3>1. T = R \cup {b} /\ b \notin R
      BY <2>1
    <3> QED
      BY <3>1, <2>1, <1>1, FS_AddElement
  <2>2. CASE b \notin T
    <3>1. R = T
      BY <2>2
    <3> HIDE DEF R
    <3> QED
      BY <3>1, <2>2, <1>1
  <2> QED
    BY <2>1, <2>2
<1> QED
  BY <1>1, <1>2, <1>3

(* What a set of pairs has with p, and its pairs without p. *)
With(X, p, B) == {b \in B : <<p, b>> \in X}
Without(X, p) == {x \in X : x[1] # p}

(* A set of pairs counts with and without those of p. *)
LEMMA PairSplit ==
  ASSUME NEW A, IsFiniteSet(A), NEW B, IsFiniteSet(B), NEW p \in A, NEW X \in SUBSET (A \X B)
  PROVE  /\ Cardinality(X) = Cardinality(Without(X, p)) + Cardinality(With(X, p, B))
         /\ Cardinality(Without(X, p)) \in Nat /\ Cardinality(With(X, p, B)) \in Nat
<1> DEFINE R == {b \in B : <<p, b>> \in X}
           Y == {x \in X : x[1] # p}
           Z == {x \in X : x[1] = p}
           h == [b \in R |-> <<p, b>>]
<1>1. IsFiniteSet(X) /\ IsFiniteSet(Y) /\ IsFiniteSet(R) /\ IsFiniteSet(Z)
  <2>1. IsFiniteSet(A \X B)
    BY FS_Product
  <2>2. X \subseteq A \X B /\ Y \subseteq X /\ Z \subseteq X /\ R \subseteq B
    OBVIOUS
  <2> HIDE DEF R, Y, Z
  <2> QED
    BY <2>1, <2>2, FS_Subset
<1>2. h \in Bijection(R, Z)
  <2>1. \A b \in R : <<p, b>> \in Z
    OBVIOUS
  <2>2. \A x \in Z : x[2] \in R /\ x = <<p, x[2]>>
    OBVIOUS
  <2>3. \A a, b \in R : <<p, a>> = <<p, b>> => a = b
    OBVIOUS
  <2> HIDE DEF R, Y, Z
  <2> QED
    <3>1. h \in [R -> Z] /\ \A b \in R : h[b] = <<p, b>>
      BY <2>1
    <3> HIDE DEF h
    <3>2. \A a, b \in R : h[a] = h[b] => a = b
      BY <2>3, <3>1
    <3>3. \A x \in Z : \E b \in R : h[b] = x
      BY <2>2, <3>1
    <3> QED
      BY <3>1, <3>2, <3>3 DEF Bijection, Injection, Surjection, IsInjective
<1>3. Cardinality(Z) = Cardinality(R)
  <2> HIDE DEF R, Z, h
  <2> QED
    BY <1>1, <1>2, FS_Bijection DEF ExistsBijection
<1>4. X = Y \cup Z /\ Y \cap Z = {}
  OBVIOUS
<1>5. /\ Cardinality(X) = Cardinality(Y) + Cardinality(R)
      /\ Cardinality(Y) \in Nat /\ Cardinality(R) \in Nat
  <2> HIDE DEF R, Y, Z
  <2>1. Cardinality(X) = Cardinality(Y) + Cardinality(Z) - Cardinality({})
    BY <1>1, <1>4, FS_Union
  <2>2. /\ Cardinality(Y) \in Nat /\ Cardinality(R) \in Nat
        /\ Cardinality({}) = 0
    BY <1>1, FS_CardinalityType, FS_EmptySet
  <2> QED
    BY <1>3, <2>1, <2>2
<1> QED
  BY <1>5 DEF With, Without
=============================================================================
