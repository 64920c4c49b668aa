------------------------------- MODULE SetFacts -------------------------------
(***************************************************************************)
(* What several proofs need of finite sets and numbers: that a set of      *)
(* naturals has a least element, which the earliest of some times is       *)
(* chosen by, and how a weighted count of a set splits, which a sum of     *)
(* bytes is.                                                               *)
(***************************************************************************)
EXTENDS Integers, FiniteSetTheorems, WellFoundedInduction, TLAPS

\* A set of naturals has a least element: the elements below each of them are
\* finite sets, and strict inclusion of finite sets is well-founded.
LEMMA LeastNatural ==
    ASSUME NEW T \in SUBSET Nat, T # {}
    PROVE  \E x \in T : \A y \in T : x <= y
<1> DEFINE Below(x) == { y \in T : y < x }
<1>1. PICK n \in T : TRUE
  OBVIOUS
<1> DEFINE Lower == { Below(x) : x \in { y \in T : y <= n } }
<1>2. IsFiniteSet(0 .. n)
  BY <1>1, FS_Interval
<1>3. ASSUME NEW x \in T, x <= n
      PROVE  Below(x) \in FiniteSubsetsOf(0 .. n)
  <2>1. \A y \in T : y < x => y \in 0 .. n
    BY <1>1, <1>3
  <2>2. Below(x) \in SUBSET (0 .. n)
    BY <2>1
  <2> QED
    BY <1>2, <2>2, FS_Subset DEF FiniteSubsetsOf
<1>4. Lower \subseteq FiniteSubsetsOf(0 .. n)
  <2> HIDE DEF Below
  <2> QED
    BY <1>3
<1>5. Below(n) \in Lower
  <2> HIDE DEF Below
  <2> QED
    BY <1>1
<1>6. PICK U \in Lower : \A V \in Lower : ~ (<<V, U>> \in StrictSubsetOrdering(0 .. n))
  <2> HIDE DEF Lower
  <2> QED
    BY <1>4, <1>5, FS_StrictSubsetOrderingWellFounded, WFMin
<1>7. PICK x \in T : x <= n /\ U = Below(x)
  BY <1>6
<1>8. ASSUME NEW y \in T, y < x
      PROVE  FALSE
  <2>1. y <= n
    BY <1>1, <1>7, <1>8
  <2>2. Below(y) \in Lower
    BY <2>1
  <2>3. \A z \in Below(y) : z \in Below(x)
    BY <1>7, <1>8
  <2>4. y \in Below(x) /\ y \notin Below(y)
    BY <1>8
  <2>5. Below(x) \in SUBSET (0 .. n) /\ Below(y) \in SUBSET (0 .. n)
    BY <1>3, <1>7, <2>1 DEF FiniteSubsetsOf
  <2> HIDE DEF Below, Lower
  <2>6. <<Below(y), Below(x)>> \in StrictSubsetOrdering(0 .. n)
    BY <2>3, <2>4, <2>5 DEF StrictSubsetOrdering
  <2> QED
    BY <1>6, <1>7, <2>2, <2>6
<1> QED
  BY <1>7, <1>8

\* As many units of each element as it weighs.
Units(S, w) == UNION { {x} \X (1 .. w[x]) : x \in S }

LEMMA UnitsFinite ==
    ASSUME NEW S, IsFiniteSet(S), NEW w, \A x \in S : w[x] \in Nat
    PROVE  IsFiniteSet(Units(S, w)) /\ Cardinality(Units(S, w)) \in Nat
<1> DEFINE part == [x \in S |-> {x} \X (1 .. w[x])]
           T == { {x} \X (1 .. w[x]) : x \in S }
<1>1. part \in Surjection(S, T)
  BY DEF Surjection
<1>2. IsFiniteSet(T)
  BY <1>1, FS_Surjection
<1>3. ASSUME NEW x \in S PROVE IsFiniteSet({x} \X (1 .. w[x]))
  <2> HIDE DEF part, T
  <2>1. w[x] \in Int /\ 1 \in Int
    OBVIOUS
  <2>2. IsFiniteSet(1 .. w[x])
    BY <2>1, FS_Interval
  <2> QED
    BY <2>2, FS_Singleton, FS_Product, Zenon
<1>4. IsFiniteSet(UNION T)
  BY <1>2, <1>3, FS_UNION
<1> QED
  BY <1>4, FS_CardinalityType DEF Units

\* Counted apart, the elements of a part and the rest make up the whole.
LEMMA UnitsSplit ==
    ASSUME NEW S, IsFiniteSet(S), NEW w, \A x \in S : w[x] \in Nat, NEW T \in SUBSET S
    PROVE  /\ Cardinality(Units(S, w)) = Cardinality(Units(S \ T, w)) + Cardinality(Units(T, w))
           /\ Cardinality(Units(S, w)) \in Nat
           /\ Cardinality(Units(S \ T, w)) \in Nat /\ Cardinality(Units(T, w)) \in Nat
<1>1. IsFiniteSet(T) /\ IsFiniteSet(S \ T)
  BY FS_Subset
<1>2. /\ IsFiniteSet(Units(S, w)) /\ Cardinality(Units(S, w)) \in Nat
      /\ IsFiniteSet(Units(T, w)) /\ Cardinality(Units(T, w)) \in Nat
      /\ IsFiniteSet(Units(S \ T, w)) /\ Cardinality(Units(S \ T, w)) \in Nat
  BY <1>1, UnitsFinite
<1>3. Units(S, w) = Units(S \ T, w) \cup Units(T, w)
  BY DEF Units
<1>4. Units(S \ T, w) \cap Units(T, w) = {}
  BY DEF Units
<1>5. Cardinality(Units(S, w)) =
        Cardinality(Units(S \ T, w)) + Cardinality(Units(T, w)) - Cardinality({})
  BY <1>2, <1>3, <1>4, FS_Union
<1> QED
  BY <1>2, <1>5, FS_EmptySet

\* One element counts for its weight, none for nothing.
LEMMA UnitsOne ==
    ASSUME NEW x, NEW w, w[x] \in Nat
    PROVE  Cardinality(Units({x}, w)) = w[x] /\ Cardinality(Units({}, w)) = 0
<1>1. Units({x}, w) = {x} \X (1 .. w[x]) /\ Units({}, w) = {}
  BY DEF Units
<1>2. Cardinality({x}) = 1 /\ IsFiniteSet({x})
  BY FS_Singleton
<1>3. IsFiniteSet(1 .. w[x]) /\ Cardinality(1 .. w[x]) = w[x]
  BY FS_Interval
<1>4. Cardinality({x} \X (1 .. w[x])) = Cardinality({x}) * Cardinality(1 .. w[x])
  BY <1>2, <1>3, FS_Product, Zenon
<1>5. Cardinality({x}) * Cardinality(1 .. w[x]) = w[x]
  BY <1>2, <1>3
<1> QED
  BY <1>1, <1>4, <1>5, FS_EmptySet, Zenon
===============================================================================
