----------------------------- MODULE FiniteSums -----------------------------
(***************************************************************************)
(* Sums over finite sets: what the folds that the models use compute, for  *)
(* every finite set.                                                       *)
(*                                                                         *)
(* The library's induction theorems take a predicate as a parameter; the   *)
(* induction is done here on the set of the instances that hold, from the  *)
(* fact that strict inclusion of finite sets is well-founded.              *)
(***************************************************************************)
EXTENDS Integers, FiniteSets, FiniteSetsExt, FiniteSetTheorems, WellFoundedInduction, TLAPS

\* A set F of subsets of S that has a subset whenever it has all smaller ones has all.
LEMMA SubsetInduction ==
  ASSUME NEW S, IsFiniteSet(S), NEW F,
         \A T \in SUBSET S : (\A U \in SUBSET T : U # T => U \in F) => T \in F
  PROVE  \A T \in SUBSET S : T \in F
<1> DEFINE Bad == {T \in SUBSET S : T \notin F}
           R   == StrictSubsetOrdering(S)
<1> SUFFICES ASSUME Bad # {} PROVE FALSE
  OBVIOUS
<1>1. IsWellFoundedOn(R, FiniteSubsetsOf(S))
  BY FS_StrictSubsetOrderingWellFounded
<1>2. Bad \subseteq FiniteSubsetsOf(S)
  BY FS_Subset DEF FiniteSubsetsOf
<1>3. PICK T \in Bad : \A U \in Bad : <<U, T>> \notin R
  <2> HIDE DEF Bad, R
  <2> QED BY <1>1, <1>2, WFMin
<1>4. \A U \in SUBSET T : U # T => U \in F
  BY <1>3 DEF StrictSubsetOrdering
<1> QED BY <1>3, <1>4

\* A set of numbers that has zero and the successor of each of its members has all.
LEMMA NumberInduction ==
  ASSUME NEW N, 0 \in N, \A n \in Nat : n \in N => n + 1 \in N
  PROVE  \A n \in Nat : n \in N
<1> DEFINE Bad == {n \in Nat : n \notin N}
           R   == OpToRel(<, Nat)
<1> SUFFICES ASSUME Bad # {} PROVE FALSE
  OBVIOUS
<1>1. PICK n \in Bad : \A m \in Bad : <<m, n>> \notin R
  <2>1. IsWellFoundedOn(R, Nat)
    BY NatLessThanWellFounded
  <2>2. Bad \subseteq Nat
    OBVIOUS
  <2> HIDE DEF Bad, R
  <2> QED BY <2>1, <2>2, WFMin
<1>2. n # 0 /\ n \in Nat
  OBVIOUS
<1>3. n - 1 \in Nat /\ n - 1 < n
  BY <1>2
<1>4. <<n - 1, n>> \in R
  BY <1>2, <1>3 DEF OpToRel
<1>5. n - 1 \in N
  BY <1>1, <1>3, <1>4
<1> QED BY <1>3, <1>5

-----------------------------------------------------------------------------
(***************************************************************************)
(* The recursive function of MapThenSumSet.                                *)
(***************************************************************************)

\* The element MapThenSumSet takes next.
Some(s) == CHOOSE x \in s : TRUE

\* The sum of the numbers f[x] over a set.
Sum(f, S) == MapThenSumSet(LAMBDA x : f[x], S)

\* g is a function on D that satisfies the equation of the sum.
SumsOn(g, f, D) ==
  g = [s \in D |-> IF s = {} THEN 0 ELSE f[Some(s)] + g[s \ {Some(s)}]]

\* A set without one of its elements is a smaller set.
LEMMA SomeOf ==
  ASSUME NEW s, s # {} PROVE Some(s) \in s /\ s \ {Some(s)} # s /\ s \ {Some(s)} \subseteq s
BY DEF Some

\* The equation has a solution on the subsets of a finite set.
LEMMA SumsExist ==
  ASSUME NEW f, NEW S, IsFiniteSet(S) PROVE \E g : SumsOn(g, f, SUBSET S)
<1> DEFINE D(n) == {s \in SUBSET S : Cardinality(s) <= n}
           N    == {n \in Nat : \E g : SumsOn(g, f, D(n))}
<1>0. \A s \in SUBSET S : Cardinality(s) \in Nat /\ Cardinality(s) <= Cardinality(S)
  BY FS_Subset, FS_CardinalityType
<1>1. 0 \in N
  <2>1. \A s \in D(0) : s = {}
    BY <1>0, FS_Subset, FS_EmptySet
  <2>2. SumsOn([s \in D(0) |-> 0], f, D(0))
    BY <2>1 DEF SumsOn
  <2> HIDE DEF D
  <2> QED BY <2>2
<1>2. \A n \in Nat : n \in N => n + 1 \in N
  <2> HIDE DEF D
  <2> SUFFICES ASSUME NEW n \in Nat, NEW g, SumsOn(g, f, D(n))
               PROVE  \E h : SumsOn(h, f, D(n + 1))
    OBVIOUS
  <2> USE DEF D
  <2> DEFINE h == [s \in D(n + 1) |-> IF s = {} THEN 0 ELSE f[Some(s)] + g[s \ {Some(s)}]]
  <2>1. \A s \in D(n) : s \in D(n + 1) /\ h[s] = g[s]
    <3>1. \A s \in D(n) : s \in D(n + 1)
      BY <1>0
    <3>2. \A s \in D(n) : g[s] = IF s = {} THEN 0 ELSE f[Some(s)] + g[s \ {Some(s)}]
      <4> HIDE DEF D
      <4> QED BY DEF SumsOn
    <3> HIDE DEF D
    <3> QED BY <3>1, <3>2
  <2>2. \A s \in D(n + 1) : s # {} => s \ {Some(s)} \in D(n)
    <3> SUFFICES ASSUME NEW s \in D(n + 1), s # {} PROVE s \ {Some(s)} \in D(n)
      OBVIOUS
    <3>1. IsFiniteSet(s) /\ Some(s) \in s
      BY FS_Subset, SomeOf
    <3>2. Cardinality(s \ {Some(s)}) = Cardinality(s) - 1
      BY <3>1, FS_RemoveElement
    <3> QED BY <1>0, <3>2
  <2>3. \A s \in D(n + 1) : s # {} => h[s \ {Some(s)}] = g[s \ {Some(s)}]
    <3> HIDE DEF D, h
    <3> QED BY <2>1, <2>2
  <2>4. SumsOn(h, f, D(n + 1))
    <3> HIDE DEF D
    <3> QED BY <2>3 DEF SumsOn
  <2> HIDE DEF h
  <2> QED BY <2>4
<1>3. Cardinality(S) \in N
  <2> HIDE DEF N
  <2> QED BY <1>0, <1>1, <1>2, NumberInduction
<1>4. D(Cardinality(S)) = SUBSET S
  BY <1>0
<1> QED BY <1>3, <1>4

\* Two solutions agree where both are defined.
LEMMA SumsAgree ==
  ASSUME NEW f, NEW S, IsFiniteSet(S), NEW T \in SUBSET S
  PROVE  \A g, h : SumsOn(g, f, SUBSET S) /\ SumsOn(h, f, SUBSET T) => g[T] = h[T]
<1> SUFFICES ASSUME NEW g, SumsOn(g, f, SUBSET S), NEW h, SumsOn(h, f, SUBSET T)
             PROVE  g[T] = h[T]
  OBVIOUS
<1> DEFINE F == {U \in SUBSET T : g[U] = h[U]}
<1>1. ASSUME NEW U \in SUBSET T, \A V \in SUBSET U : V # U => V \in F
      PROVE  U \in F
  <2>1. CASE U = {}
    BY <2>1 DEF SumsOn
  <2>2. CASE U # {}
    <3>1. U \ {Some(U)} \in F
      BY <1>1, <2>2, SomeOf
    <3> QED BY <2>2, <3>1 DEF SumsOn
  <2> QED BY <2>1, <2>2
<1>2. \A U \in SUBSET T : U \in F
  <2>1. IsFiniteSet(T)
    BY FS_Subset
  <2> HIDE DEF F
  <2> QED BY <2>1, <1>1, SubsetInduction
<1> QED BY <1>2

\* MapThenSumSet computes a solution.
LEMMA SumIsSolution ==
  ASSUME NEW f, NEW S, IsFiniteSet(S)
  PROVE  \E g : SumsOn(g, f, SUBSET S) /\ Sum(f, S) = g[S]
<1> DEFINE P(g) == g = [s \in SUBSET S |-> IF s = {} THEN 0
                          ELSE f[CHOOSE x \in s : TRUE] + g[s \ {CHOOSE x \in s : TRUE}]]
           c    == CHOOSE g : P(g)
<1>1. Sum(f, S) = c[S]
  BY DEF Sum, MapThenSumSet, MapThenFoldSet
<1>2. \E h : P(h)
  <2>1. PICK h : SumsOn(h, f, SUBSET S)
    BY SumsExist
  <2>2. P(h)
    BY <2>1 DEF SumsOn, Some
  <2> HIDE DEF P
  <2> QED BY <2>2
<1>3. P(c)
  <2> HIDE DEF P
  <2> QED BY <1>2
<1> QED BY <1>1, <1>3 DEF SumsOn, Some

\* The sum over no elements.
LEMMA SumEmpty == ASSUME NEW f PROVE Sum(f, {}) = 0
<1>1. PICK g : SumsOn(g, f, SUBSET {}) /\ Sum(f, {}) = g[{}]
  BY SumIsSolution, FS_EmptySet
<1> QED BY <1>1 DEF SumsOn

\* The sum in terms of a smaller one.
LEMMA SumSome ==
  ASSUME NEW f, NEW S, IsFiniteSet(S), S # {}
  PROVE  Sum(f, S) = f[Some(S)] + Sum(f, S \ {Some(S)})
<1> DEFINE T == S \ {Some(S)}
<1>1. T \in SUBSET S /\ IsFiniteSet(T)
  BY FS_Subset
<1>2. PICK g : SumsOn(g, f, SUBSET S) /\ Sum(f, S) = g[S]
  BY SumIsSolution
<1>3. PICK h : SumsOn(h, f, SUBSET T) /\ Sum(f, T) = h[T]
  BY <1>1, SumIsSolution
<1>4. g[T] = h[T]
  <2>1. SumsOn(g, f, SUBSET S) /\ SumsOn(h, f, SUBSET T)
    BY <1>2, <1>3
  <2> HIDE DEF T
  <2> QED BY <1>1, <2>1, SumsAgree
<1>5. g[S] = f[Some(S)] + g[T]
  <2>1. g = [s \in SUBSET S |-> IF s = {} THEN 0 ELSE f[Some(s)] + g[s \ {Some(s)}]]
    BY <1>2 DEF SumsOn
  <2> QED BY <2>1
<1> QED BY <1>2, <1>3, <1>4, <1>5

-----------------------------------------------------------------------------
(***************************************************************************)
(* Facts about sums.                                                       *)
(***************************************************************************)

\* A sum of integers is an integer.
LEMMA SumInt ==
  ASSUME NEW f, NEW S, IsFiniteSet(S), \A x \in S : f[x] \in Int
  PROVE  Sum(f, S) \in Int
<1> DEFINE F == {T \in SUBSET S : Sum(f, T) \in Int}
<1>1. ASSUME NEW T \in SUBSET S, \A U \in SUBSET T : U # T => U \in F
      PROVE  T \in F
  <2>1. CASE T = {}
    BY <2>1, SumEmpty
  <2>2. CASE T # {}
    <3>1. Some(T) \in T /\ T \ {Some(T)} \in F
      BY <1>1, <2>2, SomeOf
    <3>2. Sum(f, T) = f[Some(T)] + Sum(f, T \ {Some(T)})
      BY <2>2, SumSome, FS_Subset
    <3>3. f[Some(T)] \in Int /\ Sum(f, T \ {Some(T)}) \in Int
      BY <3>1
    <3> QED BY <3>2, <3>3
  <2> QED BY <2>1, <2>2
<1>2. \A T \in SUBSET S : T \in F
  <2> HIDE DEF F
  <2> QED BY <1>1, SubsetInduction
<1> QED BY <1>2

\* Any element can be taken out of a sum first.
LEMMA SumRemove ==
  ASSUME NEW f, NEW S, IsFiniteSet(S), \A x \in S : f[x] \in Int, NEW x \in S
  PROVE  Sum(f, S) = f[x] + Sum(f, S \ {x})
<1> DEFINE F == {T \in SUBSET S : \A y \in T : Sum(f, T) = f[y] + Sum(f, T \ {y})}
<1>1. ASSUME NEW T \in SUBSET S, \A U \in SUBSET T : U # T => U \in F
      PROVE  T \in F
  <2> SUFFICES ASSUME NEW y \in T PROVE Sum(f, T) = f[y] + Sum(f, T \ {y})
    OBVIOUS
  <2> DEFINE c == Some(T)
  <2>1. c \in T /\ T # {}
    BY SomeOf
  <2>2. Sum(f, T) = f[c] + Sum(f, T \ {c})
    BY <2>1, SumSome, FS_Subset
  <2>3. CASE y = c
    BY <2>2, <2>3
  <2>4. CASE y # c
    <3>1. T \ {c} \in F /\ y \in T \ {c}
      BY <1>1, <2>1, <2>4
    <3>2. Sum(f, T \ {c}) = f[y] + Sum(f, (T \ {c}) \ {y})
      BY <3>1
    <3>3. T \ {y} \in F /\ c \in T \ {y}
      BY <1>1, <2>1, <2>4
    <3>4. Sum(f, T \ {y}) = f[c] + Sum(f, (T \ {y}) \ {c})
      BY <3>3
    <3> DEFINE R == (T \ {y}) \ {c}
    <3>5. (T \ {c}) \ {y} = R
      OBVIOUS
    <3>6. Sum(f, R) \in Int
      <4>1. R \in SUBSET S
        OBVIOUS
      <4> QED BY <4>1, SumInt, FS_Subset
    <3>7. f[c] \in Int /\ f[y] \in Int
      BY <2>1
    <3>8. /\ Sum(f, T) = f[c] + Sum(f, T \ {c})
          /\ Sum(f, T \ {c}) = f[y] + Sum(f, R)
          /\ Sum(f, T \ {y}) = f[c] + Sum(f, R)
      BY <2>2, <3>2, <3>4, <3>5
    <3> HIDE DEF c, R, F
    <3> QED BY <3>6, <3>7, <3>8
  <2> QED BY <2>3, <2>4
<1>2. \A T \in SUBSET S : T \in F
  <2> HIDE DEF F
  <2> QED BY <1>1, SubsetInduction
<1> QED BY <1>2

\* Sums follow their terms, up to factors.
LEMMA SumScaled ==
  ASSUME NEW f, NEW g, NEW S, IsFiniteSet(S), NEW a \in Int, NEW b \in Int,
         \A x \in S : f[x] \in Int /\ g[x] \in Int /\ a * f[x] <= b * g[x]
  PROVE  a * Sum(f, S) <= b * Sum(g, S)
<1> DEFINE F == {T \in SUBSET S : a * Sum(f, T) <= b * Sum(g, T)}
<1>1. ASSUME NEW T \in SUBSET S, \A U \in SUBSET T : U # T => U \in F
      PROVE  T \in F
  <2>1. CASE T = {}
    <3>1. Sum(f, {}) = 0 /\ Sum(g, {}) = 0
      BY SumEmpty
    <3> QED BY <2>1, <3>1
  <2>2. CASE T # {}
    <3> DEFINE c == Some(T)
               U == T \ {c}
    <3>1. c \in T /\ U \in F /\ IsFiniteSet(T) /\ IsFiniteSet(U)
      BY <1>1, <2>2, SomeOf, FS_Subset
    <3>2. Sum(f, T) = f[c] + Sum(f, U) /\ Sum(g, T) = g[c] + Sum(g, U)
      BY <2>2, <3>1, SumSome
    <3>3. /\ f[c] \in Int /\ g[c] \in Int /\ a * f[c] <= b * g[c]
          /\ a * Sum(f, U) <= b * Sum(g, U)
      BY <3>1
    <3>4. Sum(f, U) \in Int /\ Sum(g, U) \in Int
      <4>1. \A x \in U : f[x] \in Int /\ g[x] \in Int
        OBVIOUS
      <4> HIDE DEF U
      <4> QED BY <3>1, <4>1, SumInt
    <3>5. \A i, j, k, l \in Int : a * i <= b * j /\ a * k <= b * l => a * (i + k) <= b * (j + l)
      OBVIOUS
    <3>6. a * Sum(f, T) <= b * Sum(g, T)
      <4> HIDE DEF c, U, F
      <4> QED BY <3>2, <3>3, <3>4, <3>5
    <3> QED BY <3>6
  <2> QED BY <2>1, <2>2
<1>2. \A T \in SUBSET S : T \in F
  <2> HIDE DEF F
  <2> QED BY <1>1, SubsetInduction
<1> QED BY <1>2

\* Sums follow their terms.
LEMMA SumMonotone ==
  ASSUME NEW f, NEW g, NEW S, IsFiniteSet(S),
         \A x \in S : f[x] \in Int /\ g[x] \in Int /\ f[x] <= g[x]
  PROVE  Sum(f, S) <= Sum(g, S)
<1>1. \A x \in S : f[x] \in Int /\ g[x] \in Int /\ 1 * f[x] <= 1 * g[x]
  OBVIOUS
<1>2. 1 * Sum(f, S) <= 1 * Sum(g, S)
  <2>1. 1 \in Int
    OBVIOUS
  <2> QED BY <1>1, <2>1, SumScaled, Zenon
<1>3. Sum(f, S) \in Int /\ Sum(g, S) \in Int
  BY SumInt
<1> QED BY <1>2, <1>3

\* The sum only depends on the terms.
LEMMA SumEqual ==
  ASSUME NEW f, NEW g, NEW S, IsFiniteSet(S), \A x \in S : f[x] \in Int /\ f[x] = g[x]
  PROVE  Sum(f, S) = Sum(g, S)
<1>1. Sum(f, S) <= Sum(g, S) /\ Sum(g, S) <= Sum(f, S)
  BY SumMonotone
<1>2. Sum(f, S) \in Int /\ Sum(g, S) \in Int
  BY SumInt
<1> QED BY <1>1, <1>2

\* Leaving out terms that are not negative does not raise a sum, which is not negative.
LEMMA SumSubset ==
  ASSUME NEW f, NEW S, IsFiniteSet(S), \A x \in S : f[x] \in Nat, NEW T \in SUBSET S
  PROVE  Sum(f, T) \in Nat /\ Sum(f, T) <= Sum(f, S)
<1> DEFINE F == {U \in SUBSET S : \A V \in SUBSET U : Sum(f, V) \in Nat /\ Sum(f, V) <= Sum(f, U)}
<1>1. ASSUME NEW U \in SUBSET S, \A V \in SUBSET U : V # U => V \in F
      PROVE  U \in F
  <2>0. \A V \in SUBSET S : IsFiniteSet(V) /\ Sum(f, V) \in Int
    BY FS_Subset, SumInt
  <2>1. Sum(f, U) \in Nat
    <3>1. CASE U = {}
      BY <3>1, SumEmpty
    <3>2. CASE U # {}
      <4> DEFINE c == Some(U)
                 V == U \ {c}
      <4>1. c \in U /\ V \in F
        BY <1>1, <3>2, SomeOf
      <4>2. Sum(f, U) = f[c] + Sum(f, V)
        BY <2>0, <3>2, SumSome
      <4>3. f[c] \in Nat /\ Sum(f, V) \in Nat
        BY <4>1
      <4> HIDE DEF c, V
      <4> QED BY <4>2, <4>3
    <3> QED BY <3>1, <3>2
  <2>2. ASSUME NEW V \in SUBSET U, V # U
        PROVE  Sum(f, V) \in Nat /\ Sum(f, V) <= Sum(f, U)
    <3>1. PICK c \in U : c \notin V
      BY <2>2
    <3>2. U \ {c} \in F /\ V \in SUBSET (U \ {c})
      BY <1>1, <3>1
    <3>3. Sum(f, U) = f[c] + Sum(f, U \ {c})
      BY <2>0, SumRemove
    <3>4. f[c] \in Nat /\ Sum(f, U \ {c}) \in Nat /\ Sum(f, V) \in Nat
          /\ Sum(f, V) <= Sum(f, U \ {c})
      BY <3>2
    <3> QED BY <3>3, <3>4
  <2>3. \A V \in SUBSET U : Sum(f, V) \in Nat /\ Sum(f, V) <= Sum(f, U)
    BY <2>1, <2>2
  <2> QED BY <2>3
<1>2. \A U \in SUBSET S : U \in F
  <2> HIDE DEF F
  <2> QED BY <1>1, SubsetInduction
<1> QED BY <1>2

\* Changing one term.
LEMMA SumUpdate ==
  ASSUME NEW f, NEW g, NEW S, IsFiniteSet(S), NEW x \in S,
         \A y \in S : f[y] \in Int /\ g[y] \in Int,
         \A y \in S : y # x => g[y] = f[y]
  PROVE  Sum(g, S) = Sum(f, S) + g[x] - f[x]
<1>1. IsFiniteSet(S \ {x})
  BY FS_RemoveElement
<1>2. Sum(f, S) = f[x] + Sum(f, S \ {x}) /\ Sum(g, S) = g[x] + Sum(g, S \ {x})
  BY SumRemove
<1>3. Sum(g, S \ {x}) = Sum(f, S \ {x}) /\ Sum(f, S \ {x}) \in Int
  BY <1>1, SumEqual, SumInt
<1> QED BY <1>2, <1>3

\* A sum of multiples and rests.
LEMMA SumLinear ==
  ASSUME NEW f, NEW g, NEW h, NEW S, IsFiniteSet(S), NEW a \in Int,
         \A x \in S : g[x] \in Int /\ h[x] \in Int /\ f[x] = a * g[x] + h[x]
  PROVE  Sum(f, S) = a * Sum(g, S) + Sum(h, S)
<1> DEFINE F == {T \in SUBSET S : Sum(f, T) = a * Sum(g, T) + Sum(h, T)}
<1>1. ASSUME NEW T \in SUBSET S, \A U \in SUBSET T : U # T => U \in F
      PROVE  T \in F
  <2>1. CASE T = {}
    <3>1. Sum(f, {}) = 0 /\ Sum(g, {}) = 0 /\ Sum(h, {}) = 0
      BY SumEmpty
    <3> QED BY <2>1, <3>1
  <2>2. CASE T # {}
    <3> DEFINE c == Some(T)
               U == T \ {c}
    <3>1. c \in T /\ U \in F /\ IsFiniteSet(T) /\ IsFiniteSet(U)
      BY <1>1, <2>2, SomeOf, FS_Subset
    <3>2. /\ Sum(f, T) = f[c] + Sum(f, U) /\ Sum(g, T) = g[c] + Sum(g, U)
          /\ Sum(h, T) = h[c] + Sum(h, U)
      BY <2>2, <3>1, SumSome
    <3>3. /\ g[c] \in Int /\ h[c] \in Int /\ f[c] = a * g[c] + h[c]
          /\ Sum(f, U) = a * Sum(g, U) + Sum(h, U)
      BY <3>1
    <3>4. Sum(g, U) \in Int /\ Sum(h, U) \in Int
      <4>1. \A x \in U : g[x] \in Int /\ h[x] \in Int
        OBVIOUS
      <4> HIDE DEF U
      <4> QED BY <3>1, <4>1, SumInt
    <3>5. \A i, j, k, l \in Int : (a * i + j) + (a * k + l) = a * (i + k) + (j + l)
      OBVIOUS
    <3>6. Sum(f, T) = a * Sum(g, T) + Sum(h, T)
      <4> HIDE DEF c, U, F
      <4> QED BY <3>2, <3>3, <3>4, <3>5
    <3> QED BY <3>6
  <2> QED BY <2>1, <2>2
<1>2. \A T \in SUBSET S : T \in F
  <2> HIDE DEF F
  <2> QED BY <1>1, SubsetInduction
<1> QED BY <1>2

\* The sum over two sets that have nothing in common.
LEMMA SumDisjoint ==
  ASSUME NEW f, NEW A, NEW B, IsFiniteSet(A), IsFiniteSet(B), A \cap B = {},
         \A x \in A \cup B : f[x] \in Int
  PROVE  Sum(f, A \cup B) = Sum(f, A) + Sum(f, B)
<1> DEFINE F == {T \in SUBSET A : Sum(f, T \cup B) = Sum(f, T) + Sum(f, B)}
<1>1. ASSUME NEW T \in SUBSET A, \A U \in SUBSET T : U # T => U \in F
      PROVE  T \in F
  <2>0. Sum(f, B) \in Int
    BY SumInt
  <2>1. CASE T = {}
    <3>1. T \cup B = B /\ Sum(f, {}) = 0
      BY <2>1, SumEmpty
    <3> QED BY <2>0, <2>1, <3>1
  <2>2. CASE T # {}
    <3> DEFINE c == Some(T)
               U == T \ {c}
    <3>1. c \in T /\ U \in F /\ IsFiniteSet(T) /\ IsFiniteSet(U)
      BY <1>1, <2>2, SomeOf, FS_Subset
    <3>2. Sum(f, T) = f[c] + Sum(f, U)
      BY <2>2, <3>1, SumSome
    <3>3. IsFiniteSet(T \cup B) /\ c \in T \cup B /\ (T \cup B) \ {c} = U \cup B
      BY <3>1, FS_Union
    <3>4. Sum(f, T \cup B) = f[c] + Sum(f, U \cup B)
      <4>1. \A x \in T \cup B : f[x] \in Int
        OBVIOUS
      <4>2. Sum(f, T \cup B) = f[c] + Sum(f, (T \cup B) \ {c})
        <5> DEFINE W == T \cup B
        <5> HIDE DEF W, c
        <5> QED BY <3>3, <4>1, SumRemove DEF W
      <4> QED BY <3>3, <4>2
    <3>5. Sum(f, U \cup B) = Sum(f, U) + Sum(f, B) /\ f[c] \in Int
      BY <3>1
    <3>6. Sum(f, U) \in Int
      <4>1. \A x \in U : f[x] \in Int
        OBVIOUS
      <4> HIDE DEF U
      <4> QED BY <3>1, <4>1, SumInt
    <3>7. Sum(f, T \cup B) = Sum(f, T) + Sum(f, B)
      <4> HIDE DEF c, U, F
      <4> QED BY <2>0, <3>2, <3>4, <3>5, <3>6
    <3> QED BY <3>7
  <2> QED BY <2>1, <2>2
<1>2. \A T \in SUBSET A : T \in F
  <2> HIDE DEF F
  <2> QED BY <1>1, SubsetInduction
<1> QED BY <1>2

\* The sum of the sums over the parts of a set.
LEMMA SumParts ==
  ASSUME NEW f, NEW S, IsFiniteSet(S), \A x \in S : f[x] \in Int,
         NEW I, IsFiniteSet(I), NEW P, \A i \in I : P[i] \in SUBSET S,
         \A i, j \in I : i # j => P[i] \cap P[j] = {},
         NEW h, \A i \in I : h[i] = Sum(f, P[i])
  PROVE  Sum(h, I) = Sum(f, UNION {P[i] : i \in I})
<1> DEFINE All(J) == UNION {P[i] : i \in J}
           F == {J \in SUBSET I : Sum(h, J) = Sum(f, All(J))}
<1>1. ASSUME NEW J \in SUBSET I, \A K \in SUBSET J : K # J => K \in F
      PROVE  J \in F
  <2>1. CASE J = {}
    <3>1. All(J) = {}
      BY <2>1
    <3> QED BY <2>1, <3>1, SumEmpty
  <2>2. CASE J # {}
    <3> DEFINE c == Some(J)
               K == J \ {c}
    <3>1. c \in J /\ c \in I /\ K \in F /\ IsFiniteSet(J)
      BY <1>1, <2>2, SomeOf, FS_Subset
    <3>2. Sum(h, J) = h[c] + Sum(h, K)
      BY <2>2, <3>1, SumSome
    <3>3. Sum(h, K) = Sum(f, All(K)) /\ h[c] = Sum(f, P[c])
      BY <3>1
    <3>4. All(J) = P[c] \cup All(K) /\ P[c] \cap All(K) = {}
      BY <3>1
    <3>5. P[c] \in SUBSET S /\ All(K) \in SUBSET S
      BY <3>1
    <3>6. IsFiniteSet(P[c]) /\ IsFiniteSet(All(K)) /\ \A x \in P[c] \cup All(K) : f[x] \in Int
      <4> HIDE DEF All, K, c
      <4> QED BY <3>5, FS_Subset
    <3>7. Sum(f, P[c] \cup All(K)) = Sum(f, P[c]) + Sum(f, All(K))
      <4> DEFINE A == P[c]
                 B == All(K)
      <4> HIDE DEF A, B
      <4> QED BY <3>4, <3>6, SumDisjoint DEF A, B
    <3>8. Sum(h, J) = Sum(f, All(J))
      <4> HIDE DEF All, K, c, F
      <4> QED BY <3>2, <3>3, <3>4, <3>7
    <3> QED BY <3>8
  <2> QED BY <2>1, <2>2
<1>2. \A J \in SUBSET I : J \in F
  <2> HIDE DEF F
  <2> QED BY <1>1, SubsetInduction
<1> QED BY <1>2

-----------------------------------------------------------------------------
(***************************************************************************)
(* Products: the recursive function of MapThenFoldSet with multiplication. *)
(***************************************************************************)

\* Products of numbers that are not negative, or positive, are so too.
LEMMA Products ==
  /\ \A a, b \in Nat : a * b \in Nat /\ (a > 0 /\ b > 0 => a * b > 0)
  /\ \A a \in Int : \A b \in Nat : a * b \in Int
OBVIOUS

\* g is a function on D that satisfies the equation of the product.
ProductsOn(g, f, D) ==
  g = [s \in D |-> IF s = {} THEN 1 ELSE f[Some(s)] * g[s \ {Some(s)}]]

\* The equation has a solution on the subsets of a finite set.
LEMMA ProductsExist ==
  ASSUME NEW f, NEW S, IsFiniteSet(S) PROVE \E g : ProductsOn(g, f, SUBSET S)
<1> DEFINE D(n) == {s \in SUBSET S : Cardinality(s) <= n}
           N    == {n \in Nat : \E g : ProductsOn(g, f, D(n))}
<1>0. \A s \in SUBSET S : Cardinality(s) \in Nat /\ Cardinality(s) <= Cardinality(S)
  BY FS_Subset, FS_CardinalityType
<1>1. 0 \in N
  <2>1. \A s \in D(0) : s = {}
    BY <1>0, FS_Subset, FS_EmptySet
  <2>2. ProductsOn([s \in D(0) |-> 1], f, D(0))
    BY <2>1 DEF ProductsOn
  <2> HIDE DEF D
  <2> QED BY <2>2
<1>2. \A n \in Nat : n \in N => n + 1 \in N
  <2> HIDE DEF D
  <2> SUFFICES ASSUME NEW n \in Nat, NEW g, ProductsOn(g, f, D(n))
               PROVE  \E h : ProductsOn(h, f, D(n + 1))
    OBVIOUS
  <2> USE DEF D
  <2> DEFINE h == [s \in D(n + 1) |-> IF s = {} THEN 1 ELSE f[Some(s)] * g[s \ {Some(s)}]]
  <2>1. \A s \in D(n) : s \in D(n + 1) /\ h[s] = g[s]
    <3>1. \A s \in D(n) : s \in D(n + 1)
      BY <1>0
    <3>2. \A s \in D(n) : g[s] = IF s = {} THEN 1 ELSE f[Some(s)] * g[s \ {Some(s)}]
      <4> HIDE DEF D
      <4> QED BY DEF ProductsOn
    <3> HIDE DEF D
    <3> QED BY <3>1, <3>2
  <2>2. \A s \in D(n + 1) : s # {} => s \ {Some(s)} \in D(n)
    <3> SUFFICES ASSUME NEW s \in D(n + 1), s # {} PROVE s \ {Some(s)} \in D(n)
      OBVIOUS
    <3>1. IsFiniteSet(s) /\ Some(s) \in s
      BY FS_Subset, SomeOf
    <3>2. Cardinality(s \ {Some(s)}) = Cardinality(s) - 1
      BY <3>1, FS_RemoveElement
    <3> QED BY <1>0, <3>2
  <2>3. \A s \in D(n + 1) : s # {} => h[s \ {Some(s)}] = g[s \ {Some(s)}]
    <3> HIDE DEF D, h
    <3> QED BY <2>1, <2>2
  <2>4. ProductsOn(h, f, D(n + 1))
    <3> HIDE DEF D
    <3> QED BY <2>3 DEF ProductsOn
  <2> HIDE DEF h
  <2> QED BY <2>4
<1>3. Cardinality(S) \in N
  <2> HIDE DEF N
  <2> QED BY <1>0, <1>1, <1>2, NumberInduction
<1>4. D(Cardinality(S)) = SUBSET S
  BY <1>0
<1> QED BY <1>3, <1>4

\* A product of numbers that are not negative is not negative.
LEMMA ProductsNat ==
  ASSUME NEW f, NEW S, IsFiniteSet(S), \A x \in S : f[x] \in Nat, NEW g, ProductsOn(g, f, SUBSET S)
  PROVE  g[S] \in Nat
<1> DEFINE F == {T \in SUBSET S : g[T] \in Nat}
<1>1. ASSUME NEW T \in SUBSET S, \A U \in SUBSET T : U # T => U \in F
      PROVE  T \in F
  <2>0. g[T] = IF T = {} THEN 1 ELSE f[Some(T)] * g[T \ {Some(T)}]
    <3>1. g = [s \in SUBSET S |-> IF s = {} THEN 1 ELSE f[Some(s)] * g[s \ {Some(s)}]]
      BY DEF ProductsOn
    <3> QED BY <3>1
  <2>1. CASE T = {}
    BY <2>0, <2>1
  <2>2. CASE T # {}
    <3>1. Some(T) \in T /\ T \ {Some(T)} \in F
      BY <1>1, <2>2, SomeOf
    <3>2. f[Some(T)] \in Nat /\ g[T \ {Some(T)}] \in Nat
      BY <3>1
    <3> QED BY <2>0, <2>2, <3>2, Products
  <2> QED BY <2>1, <2>2
<1>2. \A T \in SUBSET S : T \in F
  <2> HIDE DEF F
  <2> QED BY <1>1, SubsetInduction
<1> QED BY <1>2
=============================================================================
