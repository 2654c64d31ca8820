------------------------------ MODULE FoldFacts ------------------------------
(***************************************************************************)
(* What FoldLeft computes.  The induction theorems of the library take the *)
(* predicate as a parameter, and no prover at hand can instantiate it; a   *)
(* set of numbers can be handed over, so induction is stated about sets.   *)
(* FoldLeft takes an operator, which here is the module's parameter: a     *)
(* module that folds Op instantiates this one, and cites facts about Fold. *)
(***************************************************************************)
EXTENDS Naturals, SequencesExt, FiniteSetTheorems, WellFoundedInduction, TLAPS

CONSTANT Op(_, _)   \* what is folded: result so far, next element

-----------------------------------------------------------------------------

\* A non-empty set of numbers has a least one.
LEMMA LeastNumber ==
    ASSUME NEW S \in SUBSET Nat, S # {}
    PROVE  \E m \in S : \A k \in S : m <= k
<1> DEFINE R == StrictSubsetOrdering(Nat)
           T == {1..k : k \in S}
<1>1. IsWellFoundedOn(R, FiniteSubsetsOf(Nat))
  BY FS_StrictSubsetOrderingWellFounded
<1>2. \A k \in S : IsFiniteSet(1..k) /\ 1..k \in SUBSET Nat
  BY FS_Interval
<1>3. T \subseteq FiniteSubsetsOf(Nat) /\ T # {}
  BY <1>2 DEF FiniteSubsetsOf
<1>4. PICK t \in T : \A u \in T : ~(<<u, t>> \in R)
  <2> HIDE DEF R, T
  <2> QED BY <1>1, <1>3, WFMin
<1>5. PICK m \in S : t = 1..m
  BY <1>4
<1>6. ASSUME NEW k \in S, k < m PROVE FALSE
  <2>1. 1..k \subseteq 1..m /\ 1..k # 1..m
    BY <1>6
  <2>2. 1..k \in SUBSET Nat /\ 1..m \in SUBSET Nat
    OBVIOUS
  <2>3. <<1..k, 1..m>> \in R
    BY <2>1, <2>2 DEF StrictSubsetOrdering
  <2> QED BY <1>4, <1>5, <2>3
<1> QED BY <1>6

\* A set with zero, and with n + 1 if with n, is the set of all numbers.
LEMMA NumbersInduction ==
    ASSUME NEW S \in SUBSET Nat, 0 \in S, \A n \in S : n + 1 \in S
    PROVE  S = Nat
<1> SUFFICES ASSUME Nat \ S # {} PROVE FALSE
  OBVIOUS
<1>1. PICK m \in Nat \ S : \A k \in Nat \ S : m <= k
  BY LeastNumber
<1>2. m # 0 /\ m - 1 \in Nat
  BY <1>1
<1>3. m - 1 \in S
  BY <1>1, <1>2
<1>4. (m - 1) + 1 = m
  BY <1>1
<1> QED BY <1>1, <1>3, <1>4

\* What has a pre-image each in a finite set is a finite set, and not a larger one.
LEMMA ImageOfFinite ==
    ASSUME NEW S, IsFiniteSet(S), NEW f, NEW T, \A y \in T : \E x \in S : y = f[x]
    PROVE  IsFiniteSet(T) /\ Cardinality(T) <= Cardinality(S)
<1> DEFINE U == {x \in S : f[x] \in T}
           g == [x \in U |-> f[x]]
<1>1. g \in Surjection(U, T)
  BY DEF Surjection
<1>2. U \in SUBSET S
  OBVIOUS
<1> HIDE DEF g, U
<1>3. IsFiniteSet(U) /\ Cardinality(U) <= Cardinality(S)
  BY <1>2, FS_Subset
<1>4. IsFiniteSet(T) /\ Cardinality(T) <= Cardinality(U)
  BY <1>1, <1>3, FS_Surjection
<1> QED BY <1>3, <1>4, FS_CardinalityType

\* A finite, non-empty set of numbers has a greatest one.
LEMMA GreatestNumber ==
    ASSUME NEW S \in SUBSET Nat, IsFiniteSet(S), S # {}
    PROVE  \E m \in S : \A k \in S : k <= m
<1> DEFINE HasGreatest(T) == \E m \in T : \A k \in T : k <= m
           Good == {n \in Nat : \A T \in SUBSET Nat :
                        IsFiniteSet(T) /\ Cardinality(T) = n + 1 => HasGreatest(T)}
<1>1. 0 \in Good
  <2> SUFFICES ASSUME NEW T \in SUBSET Nat, IsFiniteSet(T), Cardinality(T) = 1
               PROVE  HasGreatest(T)
    OBVIOUS
  <2>1. PICK x : T = {x}
    BY FS_Singleton
  <2> QED BY <2>1
<1>2. ASSUME NEW n \in Good PROVE n + 1 \in Good
  <2> SUFFICES ASSUME NEW T \in SUBSET Nat, IsFiniteSet(T), Cardinality(T) = (n + 1) + 1
               PROVE  HasGreatest(T)
    OBVIOUS
  <2>0. T # {}
    BY FS_EmptySet
  <2>1. PICK x \in T : TRUE
    BY <2>0
  <2>2. IsFiniteSet(T \ {x}) /\ Cardinality(T \ {x}) = n + 1 /\ T \ {x} \in SUBSET Nat
    BY FS_RemoveElement
  <2>3. PICK m \in T \ {x} : \A k \in T \ {x} : k <= m
    BY <2>2
  <2>4. CASE x <= m
    BY <2>3, <2>4
  <2>5. CASE m <= x
    <3>1. \A k \in T : k <= x
      BY <2>3, <2>5
    <3> QED BY <3>1
  <2> QED BY <2>4, <2>5
<1> HIDE DEF Good
<1>3. Good = Nat
  <2>1. Good \in SUBSET Nat
    BY DEF Good
  <2> QED BY <1>1, <1>2, <2>1, NumbersInduction
<1>4. Cardinality(S) \in Nat /\ Cardinality(S) # 0
  BY FS_CardinalityType, FS_EmptySet
<1>5. Cardinality(S) - 1 \in Good /\ (Cardinality(S) - 1) + 1 = Cardinality(S)
  BY <1>3, <1>4
<1> QED BY <1>5 DEF Good

\* Max returns the greatest number of a bounded set.
LEMMA MaxIn ==
    ASSUME NEW m \in Nat, NEW T \in SUBSET (0..m), T # {}
    PROVE  Max(T) \in T /\ \A y \in T : y <= Max(T)
<1> DEFINE S == {m - y : y \in T}
<1>1. S \in SUBSET Nat /\ S # {}
  <2>1. \A y \in T : m - y \in Nat
    OBVIOUS
  <2> QED BY <2>1
<1>2. PICK k \in S : \A l \in S : k <= l
  BY <1>1, LeastNumber
<1>3. PICK x \in T : k = m - x
  BY <1>2
<1>4. \A y \in T : m - x <= m - y
  BY <1>2, <1>3
<1>5. \A y \in T : x >= y
  BY <1>4
<1> QED BY <1>5 DEF Max

-----------------------------------------------------------------------------
\* The equation of the recursive function inside FoldLeft, on the numbers up to m.
Unfolds(g, base, s, m) ==
    g = [T \in SUBSET (1..m) |->
            IF T = {} THEN base ELSE Op(g[T \ {Max(T)}], s[Max(T)])]

\* The greatest number of a set that has the bound.
LEMMA MaxOf ==
    ASSUME NEW m \in Nat, NEW T \in SUBSET (1..(m+1)), m+1 \in T
    PROVE  Max(T) = m+1
<1>1. \A y \in T : m+1 >= y
  OBVIOUS
<1>2. \A x \in T : (\A y \in T : x >= y) => x = m+1
  OBVIOUS
<1> QED BY <1>1, <1>2 DEF Max

\* There is such a function, one number at a time.
LEMMA FoldExists ==
    ASSUME NEW base, NEW s, NEW n \in Nat
    PROVE  \E g : Unfolds(g, base, s, n)
<1> DEFINE Good == {m \in Nat : \E g : Unfolds(g, base, s, m)}
<1>1. 0 \in Good
  <2> DEFINE g == [T \in SUBSET (1..0) |-> base]
  <2>1. \A T \in SUBSET (1..0) : T = {}
    OBVIOUS
  <2>2. Unfolds(g, base, s, 0)
    BY <2>1 DEF Unfolds
  <2> QED BY <2>2
<1>2. ASSUME NEW m \in Good PROVE m + 1 \in Good
  <2>1. PICK g : Unfolds(g, base, s, m)
    OBVIOUS
  <2> DEFINE h == [T \in SUBSET (1..(m+1)) |->
                     IF m+1 \in T THEN Op(g[T \ {m+1}], s[m+1]) ELSE g[T]]
  <2>2. ASSUME NEW T \in SUBSET (1..(m+1))
        PROVE  h[T] = IF T = {} THEN base ELSE Op(h[T \ {Max(T)}], s[Max(T)])
    <3>1. CASE m+1 \in T
      <4>1. Max(T) = m+1
        BY <3>1, MaxOf
      <4>2. T \ {m+1} \in SUBSET (1..(m+1)) /\ m+1 \notin T \ {m+1}
        OBVIOUS
      <4>3. h[T \ {m+1}] = g[T \ {m+1}]
        BY <4>2
      <4> QED BY <3>1, <4>1, <4>3
    <3>2. CASE m+1 \notin T
      <4>1. T \in SUBSET (1..m)
        BY <3>2
      <4>2. g[T] = IF T = {} THEN base ELSE Op(g[T \ {Max(T)}], s[Max(T)])
        BY <2>1, <4>1 DEF Unfolds
      <4>3. h[T] = g[T]
        BY <3>2
      <4>4. CASE T = {}
        BY <4>2, <4>3, <4>4
      <4>5. CASE T # {}
        <5>1. Max(T) \in T
          <6>1. T \in SUBSET (0..m)
            BY <4>1
          <6> QED BY <6>1, <4>5, MaxIn
        <5>2. h[T \ {Max(T)}] = g[T \ {Max(T)}]
          BY <4>1, <3>2
        <5> QED BY <4>2, <4>3, <4>5, <5>2
      <4> QED BY <4>4, <4>5
    <3> QED BY <3>1, <3>2
  <2>3. Unfolds(h, base, s, m+1)
    BY <2>2 DEF Unfolds
  <2> QED BY <2>3
<1> HIDE DEF Good
<1>3. Good = Nat
  <2>1. Good \in SUBSET Nat BY DEF Good
  <2> QED BY <1>1, <1>2, <2>1, NumbersInduction
<1> QED BY <1>3 DEF Good

\* FoldLeft itself.  (The provers do not reason about an operator given as an argument.)
Fold(base, s) == FoldLeft(Op, base, s)

\* The fold of a sequence by its partial results.
LEMMA PartialResults ==
    ASSUME NEW base, NEW s, NEW n \in Nat, DOMAIN s = 1..n
    PROVE  \E f : /\ f[0] = base
                  /\ \A i \in 1..n : f[i] = Op(f[i - 1], s[i])
                  /\ Fold(base, s) = f[n]
<1> DEFINE it == CHOOSE g : Unfolds(g, base, s, n)
<1>1. Fold(base, s) = it[1..n]
  BY DEF Fold, FoldLeft, MapThenFoldSet, Unfolds
<1>2. Unfolds(it, base, s, n)
  BY FoldExists
<1> HIDE DEF it
<1> DEFINE f == [i \in 0..n |-> it[1..i]]
<1>3. f[0] = base
  BY <1>2 DEF Unfolds
<1>4. ASSUME NEW i \in 1..n PROVE f[i] = Op(f[i - 1], s[i])
  <2>1. 1..i \in SUBSET (1..n) /\ 1..i # {} /\ Max(1..i) = i
    <3>1. i - 1 \in Nat /\ i = (i - 1) + 1 /\ 1..i \in SUBSET (1..((i - 1) + 1))
      OBVIOUS
    <3>2. Max(1..i) = (i - 1) + 1
      <4> DEFINE m == i - 1
                 T == 1..i
      <4>1. m \in Nat /\ T \in SUBSET (1..(m + 1)) /\ m + 1 \in T
        BY <3>1
      <4> HIDE DEF m, T
      <4>2. Max(T) = m + 1
        BY <4>1, MaxOf
      <4> QED BY <4>2 DEF m, T
    <3> QED BY <3>1, <3>2
  <2>2. it[1..i] = Op(it[(1..i) \ {i}], s[i])
    BY <1>2, <2>1 DEF Unfolds
  <2>3. (1..i) \ {i} = 1..(i - 1)
    OBVIOUS
  <2>4. i \in 0..n /\ i - 1 \in 0..n
    OBVIOUS
  <2> QED BY <2>2, <2>3, <2>4
<1>5. Fold(base, s) = f[n]
  BY <1>1
<1> QED BY <1>3, <1>4, <1>5

\* Nothing is folded.
THEOREM FoldOfNothing ==
    ASSUME NEW base, NEW s, DOMAIN s = {}
    PROVE  Fold(base, s) = base
<1>1. DOMAIN s = 1..0
  OBVIOUS
<1> QED BY <1>1, PartialResults

\* The last element is folded last.
THEOREM FoldOfLast ==
    ASSUME NEW base, NEW n \in Nat, NEW s, DOMAIN s = 1..(n + 1),
           NEW r, DOMAIN r = 1..n, \A i \in 1..n : r[i] = s[i]
    PROVE  Fold(base, s) = Op(Fold(base, r), s[n + 1])
<1>1. PICK f : /\ f[0] = base
               /\ \A i \in 1..(n + 1) : f[i] = Op(f[i - 1], s[i])
               /\ Fold(base, s) = f[n + 1]
  BY PartialResults
<1>2. PICK g : /\ g[0] = base
               /\ \A i \in 1..n : g[i] = Op(g[i - 1], r[i])
               /\ Fold(base, r) = g[n]
  BY PartialResults, SMTT(60)
<1> DEFINE Same == {m \in Nat : m <= n => f[m] = g[m]}
<1>3. 0 \in Same
  BY <1>1, <1>2
<1>4. ASSUME NEW m \in Same PROVE m + 1 \in Same
  <2> SUFFICES ASSUME m + 1 <= n PROVE f[m + 1] = g[m + 1]
    OBVIOUS
  <2>1. m + 1 \in 1..n /\ m + 1 \in 1..(n + 1) /\ (m + 1) - 1 = m
    OBVIOUS
  <2>2. f[m] = g[m]
    OBVIOUS
  <2> QED BY <1>1, <1>2, <2>1, <2>2
<1>5. Same = Nat
  <2>1. Same \in SUBSET Nat
    OBVIOUS
  <2> HIDE DEF Same
  <2> QED BY <1>3, <1>4, <2>1, NumbersInduction
<1>6. f[n] = g[n]
  BY <1>5
<1>7. n + 1 \in 1..(n + 1) /\ (n + 1) - 1 = n
  OBVIOUS
<1> QED BY <1>1, <1>2, <1>6, <1>7

\* The results along a sequence: of its prefixes, each from the one before.
THEOREM FoldOfPrefix ==
    ASSUME NEW base, NEW E, NEW s \in Seq(E), NEW i \in 0..Len(s)
    PROVE  /\ i = 0 => Fold(base, SubSeq(s, 1, i)) = base
           /\ i > 0 => Fold(base, SubSeq(s, 1, i)) =
                           Op(Fold(base, SubSeq(s, 1, i - 1)), s[i])
           /\ i = Len(s) => SubSeq(s, 1, i) = s
<1>1. CASE i = 0
  <2> DEFINE none == SubSeq(s, 1, i)
  <2>1. DOMAIN none = {}
    BY <1>1
  <2>2. i = Len(s) => none = s
    BY <1>1
  <2> HIDE DEF none
  <2>3. Fold(base, none) = base
    BY <2>1, FoldOfNothing
  <2> QED BY <1>1, <2>2, <2>3 DEF none
<1>2. CASE i > 0
  <2> DEFINE n == i - 1
             longer  == SubSeq(s, 1, i)
             shorter == SubSeq(s, 1, i - 1)
  <2>1. /\ n \in Nat /\ i = n + 1 /\ longer[n + 1] = s[i]
        /\ DOMAIN longer = 1..(n + 1) /\ DOMAIN shorter = 1..n
        /\ \A j \in 1..n : shorter[j] = longer[j]
    BY <1>2
  <2>2. i = Len(s) => longer = s
    OBVIOUS
  <2> HIDE DEF n, longer, shorter
  <2>3. Fold(base, longer) = Op(Fold(base, shorter), longer[n + 1])
    BY <2>1, FoldOfLast
  <2> QED BY <1>2, <2>1, <2>2, <2>3 DEF longer, shorter
<1> QED BY <1>1, <1>2
=============================================================================
