---------------------------- MODULE SumTheorems ----------------------------
(***************************************************************************)
(* Induction on finite sets, and what the sum of a function over a finite  *)
(* set is (SumFunction of the module Functions), whatever order its terms  *)
(* are taken in.                                                           *)
(***************************************************************************)
EXTENDS Integers, FiniteSets, Functions, FiniteSetTheorems, TLAPS

-----------------------------------------------------------------------------
(* A set that has a part of S when it has the smaller parts of that part   *)
(* has all parts of S.                                                     *)
LEMMA PartInduction ==
  ASSUME NEW S, IsFiniteSet(S), NEW Good,
         \A T \in SUBSET S : (\A U \in SUBSET T : U # T => U \in Good) => T \in Good
  PROVE  SUBSET S \subseteq Good
<1>1. SUFFICES ASSUME NEW V \in SUBSET S, V \notin Good PROVE FALSE
  OBVIOUS
<1> DEFINE Bad == (SUBSET S) \ Good
<1>2. FiniteSubsetsOf(S) = SUBSET S
  BY FS_FiniteSubsetsOfFinite
<1>3. IsWellFoundedOn(StrictSubsetOrdering(S), SUBSET S)
  BY <1>2, FS_StrictSubsetOrderingWellFounded
<1>4. Bad # {} /\ Bad \subseteq SUBSET S
  BY <1>1
<1> HIDE DEF Bad
<1>5. PICK T \in Bad : \A U \in Bad : <<U, T>> \notin StrictSubsetOrdering(S)
  BY <1>3, <1>4, WFMin
<1>6. ASSUME NEW U \in SUBSET T, U # T PROVE U \in Good
  <2>1. U \in SUBSET S /\ T \in SUBSET S
    BY <1>4, <1>5
  <2>2. <<U, T>> \in StrictSubsetOrdering(S)
    BY <1>6, <2>1 DEF StrictSubsetOrdering
  <2> QED
    BY <1>5, <2>1, <2>2 DEF Bad
<1> QED
  BY <1>4, <1>5, <1>6 DEF Bad

(* A set that has the empty set, and with a part of S that part and one    *)
(* element more, has S.                                                    *)
LEMMA SetInduction ==
  ASSUME NEW S, IsFiniteSet(S), NEW Good, {} \in Good,
         \A T \in SUBSET S : \A x \in S \ T : T \in Good => T \cup {x} \in Good
  PROVE  S \in Good
<1>1. ASSUME NEW T \in SUBSET S, \A U \in SUBSET T : U # T => U \in Good
      PROVE  T \in Good
  <2>1. CASE T = {}
    BY <2>1
  <2>2. CASE T # {}
    <3>1. PICK x \in T : TRUE
      BY <2>2
    <3>2. T \ {x} \in Good
      BY <1>1
    <3>3. (T \ {x}) \cup {x} \in Good
      BY <3>2
    <3> QED
      BY <3>3
  <2> QED
    BY <2>1, <2>2
<1>2. SUBSET S \subseteq Good
  BY <1>1, PartInduction
<1> QED
  BY <1>2

LEMMA ImageFinite ==
  ASSUME NEW S, IsFiniteSet(S), NEW k
  PROVE  IsFiniteSet({k[x] : x \in S})
<1> DEFINE Image(T) == {k[x] : x \in T}
           Good == {T \in SUBSET S : IsFiniteSet(Image(T))}
<1>1. {} \in Good
  BY FS_EmptySet
<1>2. ASSUME NEW T \in SUBSET S, NEW x \in S \ T, T \in Good
      PROVE  T \cup {x} \in Good
  <2>1. Image(T \cup {x}) = Image(T) \cup {k[x]}
    OBVIOUS
  <2>2. IsFiniteSet(Image(T) \cup {k[x]})
    BY <1>2, FS_AddElement
  <2> QED
    BY <2>1, <2>2
<1> HIDE DEF Good
<1>3. S \in Good
  BY <1>1, <1>2, SetInduction
<1> QED
  BY <1>3 DEF Good

(* A set of numbers that has 0 and with a number the next one has them all. *)
LEMMA NumberInduction ==
  ASSUME NEW Good, 0 \in Good, \A n \in Nat : n \in Good => n + 1 \in Good
  PROVE  Nat \subseteq Good
<1>1. SUFFICES ASSUME NEW k \in Nat \ Good PROVE FALSE
  OBVIOUS
<1> DEFINE Bad == Nat \ Good
           Less == OpToRel(<, Nat)
<1>2. IsWellFoundedOn(Less, Nat)
  BY NatLessThanWellFounded
<1>3. \A m, n \in Nat : m < n => <<m, n>> \in Less
  BY DEF OpToRel
<1> HIDE DEF Less
<1>4. PICK n \in Bad : \A m \in Bad : <<m, n>> \notin Less
  BY <1>2, WFMin
<1>5. n \in Nat /\ n # 0 /\ n - 1 \in Nat /\ n - 1 < n
  OBVIOUS
<1>6. n - 1 \in Good
  BY <1>3, <1>4, <1>5
<1>7. (n - 1) + 1 = n
  BY <1>5
<1> QED
  BY <1>5, <1>6, <1>7

-----------------------------------------------------------------------------
Some(T) == CHOOSE x \in T : TRUE

(* h is the recursion of the fold on the sets of Family. *)
Recursion(h, f, Family) ==
  h = [T \in Family |-> IF T = {} THEN 0 ELSE f[Some(T)] + h[T \ {Some(T)}]]

LEMMA SumUnfolded ==
  ASSUME NEW f, NEW S
  PROVE  SumFunctionOnSet(f, S) = (CHOOSE h : Recursion(h, f, SUBSET S))[S]
BY DEF SumFunctionOnSet, FoldFunctionOnSet, MapThenFoldSet, Recursion, Some

LEMMA SomeElement ==
  ASSUME NEW T, T # {}
  PROVE  Some(T) \in T
BY DEF Some

(* The parts of S with at most n elements. *)
PartsUpTo(S, n) == {T \in SUBSET S : Cardinality(T) <= n}

LEMMA RecursionExists ==
  ASSUME NEW f, NEW S, IsFiniteSet(S)
  PROVE  \E h : Recursion(h, f, SUBSET S)
<1> DEFINE Good == {n \in Nat : \E h : Recursion(h, f, PartsUpTo(S, n))}
           Next(h, T) == IF T = {} THEN 0 ELSE f[Some(T)] + h[T \ {Some(T)}]
<1>0. \A T \in SUBSET S : IsFiniteSet(T) /\ Cardinality(T) \in Nat
  BY FS_Subset, FS_CardinalityType
<1>1. \A n \in Nat : \A T \in PartsUpTo(S, n + 1) :
        T # {} => T \ {Some(T)} \in PartsUpTo(S, n)
  <2> SUFFICES ASSUME NEW n \in Nat, NEW T \in PartsUpTo(S, n + 1), T # {}
               PROVE  T \ {Some(T)} \in PartsUpTo(S, n)
    OBVIOUS
  <2>1. Some(T) \in T
    BY SomeElement
  <2>2. Cardinality(T \ {Some(T)}) = Cardinality(T) - 1
    BY <1>0, <2>1, FS_RemoveElement DEF PartsUpTo
  <2> QED
    BY <1>0, <2>2 DEF PartsUpTo
<1>2. PartsUpTo(S, 0) = {{}}
  <2>1. \A T \in SUBSET S : Cardinality(T) = 0 <=> T = {}
    BY <1>0, FS_EmptySet
  <2> QED
    BY <1>0, <2>1 DEF PartsUpTo
<1>3. 0 \in Good
  <2>1. Recursion([T \in {{}} |-> 0], f, {{}})
    BY DEF Recursion
  <2> QED
    BY <1>2, <2>1
<1>4. ASSUME NEW n \in Nat, n \in Good PROVE n + 1 \in Good
  <2>1. PICK h : Recursion(h, f, PartsUpTo(S, n))
    BY <1>4
  <2> DEFINE g == [T \in PartsUpTo(S, n + 1) |-> Next(h, T)]
  <2>2. PartsUpTo(S, n) \subseteq PartsUpTo(S, n + 1)
    BY <1>0 DEF PartsUpTo
  <2>3. \A T \in PartsUpTo(S, n) : g[T] = h[T]
    BY <2>1, <2>2 DEF Recursion
  <2>4. \A T \in PartsUpTo(S, n + 1) : Next(g, T) = Next(h, T)
    <3> HIDE DEF g
    <3> TAKE T \in PartsUpTo(S, n + 1)
    <3>1. CASE T = {}
      BY <3>1
    <3>2. CASE T # {}
      <4>1. g[T \ {Some(T)}] = h[T \ {Some(T)}]
        BY <1>1, <2>3, <3>2
      <4> QED
        BY <3>2, <4>1
    <3> QED
      BY <3>1, <3>2
  <2>5. g = [T \in PartsUpTo(S, n + 1) |-> Next(g, T)]
    BY <2>4
  <2>6. Recursion(g, f, PartsUpTo(S, n + 1))
    BY <2>5 DEF Recursion
  <2> QED
    BY <2>6
<1>5. Cardinality(S) \in Good
  BY <1>0, <1>3, <1>4, NumberInduction
<1>6. PartsUpTo(S, Cardinality(S)) = SUBSET S
  BY <1>0, FS_Subset DEF PartsUpTo
<1> QED
  BY <1>5, <1>6

LEMMA RecursionUnique ==
  ASSUME NEW f, NEW S, IsFiniteSet(S), NEW T \in SUBSET S, NEW g, NEW h,
         Recursion(g, f, SUBSET S), Recursion(h, f, SUBSET T)
  PROVE  g[T] = h[T]
<1> DEFINE Good == {U \in SUBSET T : g[U] = h[U]}
<1>1. ASSUME NEW U \in SUBSET T, \A V \in SUBSET U : V # U => V \in Good
      PROVE  U \in Good
  <2>1. CASE U = {}
    BY <2>1 DEF Recursion
  <2>2. CASE U # {}
    <3>1. Some(U) \in U
      BY <2>2, SomeElement
    <3>2. g[U \ {Some(U)}] = h[U \ {Some(U)}]
      BY <1>1, <3>1
    <3>3. g[U] = f[Some(U)] + g[U \ {Some(U)}] /\ h[U] = f[Some(U)] + h[U \ {Some(U)}]
      BY <2>2 DEF Recursion
    <3> QED
      BY <3>2, <3>3
  <2> QED
    BY <2>1, <2>2
<1>2. IsFiniteSet(T)
  BY FS_Subset
<1> HIDE DEF Good
<1>3. SUBSET T \subseteq Good
  BY <1>1, <1>2, PartInduction
<1> QED
  BY <1>3 DEF Good

(* One recursion sums over all parts of S. *)
LEMMA SumRecursion ==
  ASSUME NEW f, NEW S, IsFiniteSet(S)
  PROVE  \E h : /\ Recursion(h, f, SUBSET S)
                /\ \A T \in SUBSET S : SumFunctionOnSet(f, T) = h[T]
<1>1. PICK h : Recursion(h, f, SUBSET S)
  BY RecursionExists
<1>2. ASSUME NEW T \in SUBSET S PROVE SumFunctionOnSet(f, T) = h[T]
  <2>1. IsFiniteSet(T)
    BY FS_Subset
  <2> DEFINE g == CHOOSE g : Recursion(g, f, SUBSET T)
  <2>2. Recursion(g, f, SUBSET T)
    BY <2>1, RecursionExists
  <2>3. SumFunctionOnSet(f, T) = g[T]
    BY SumUnfolded
  <2> HIDE DEF g
  <2> QED
    BY <1>1, <2>2, <2>3, RecursionUnique
<1> QED
  BY <1>1, <1>2

-----------------------------------------------------------------------------
LEMMA SumEmpty ==
  ASSUME NEW f
  PROVE  SumFunctionOnSet(f, {}) = 0
<1>1. PICK h : Recursion(h, f, SUBSET {}) /\ \A T \in SUBSET {} : SumFunctionOnSet(f, T) = h[T]
  BY SumRecursion, FS_EmptySet
<1> QED
  BY <1>1 DEF Recursion

LEMMA SumSome ==
  ASSUME NEW f, NEW S, IsFiniteSet(S), S # {}
  PROVE  SumFunctionOnSet(f, S) = f[Some(S)] + SumFunctionOnSet(f, S \ {Some(S)})
<1>1. PICK h : Recursion(h, f, SUBSET S) /\ \A T \in SUBSET S : SumFunctionOnSet(f, T) = h[T]
  BY SumRecursion
<1>2. h[S] = f[Some(S)] + h[S \ {Some(S)}]
  BY <1>1 DEF Recursion
<1>3. SumFunctionOnSet(f, S) = h[S]
  BY <1>1
<1>4. SumFunctionOnSet(f, S \ {Some(S)}) = h[S \ {Some(S)}]
  BY <1>1
<1> QED
  BY <1>2, <1>3, <1>4

(* The sum of numbers is a number. *)
LEMMA SumInt ==
  ASSUME NEW f, NEW S, IsFiniteSet(S), \A x \in S : f[x] \in Int
  PROVE  SumFunctionOnSet(f, S) \in Int
<1> DEFINE Good == {T \in SUBSET S : SumFunctionOnSet(f, T) \in Int}
<1>1. ASSUME NEW T \in SUBSET S, \A U \in SUBSET T : U # T => U \in Good
      PROVE  T \in Good
  <2>1. CASE T = {}
    BY <2>1, SumEmpty
  <2>2. CASE T # {}
    <3>1. Some(T) \in T /\ IsFiniteSet(T)
      BY <2>2, SomeElement, FS_Subset
    <3>2. SumFunctionOnSet(f, T \ {Some(T)}) \in Int
      BY <1>1, <3>1
    <3> QED
      BY <2>2, <3>1, <3>2, SumSome
  <2> QED
    BY <2>1, <2>2
<1> HIDE DEF Good
<1>2. SUBSET S \subseteq Good
  BY <1>1, PartInduction
<1> QED
  BY <1>2 DEF Good

(* Any element may be taken out first. *)
LEMMA SumRemove ==
  ASSUME NEW f, NEW S, IsFiniteSet(S), \A x \in S : f[x] \in Int, NEW x \in S
  PROVE  SumFunctionOnSet(f, S) = f[x] + SumFunctionOnSet(f, S \ {x})
<1> DEFINE Sum(T) == SumFunctionOnSet(f, T)
           Good == {T \in SUBSET S : \A y \in T : Sum(T) = f[y] + Sum(T \ {y})}
<1>1. \A T \in SUBSET S : Sum(T) \in Int /\ IsFiniteSet(T)
  BY SumInt, FS_Subset
<1>2. \A T \in SUBSET S : T # {} => /\ Some(T) \in T
                                    /\ Sum(T) = f[Some(T)] + Sum(T \ {Some(T)})
  BY <1>1, SomeElement, SumSome
<1> HIDE DEF Sum
<1>3. ASSUME NEW T \in SUBSET S, \A U \in SUBSET T : U # T => U \in Good
      PROVE  T \in Good
  <2> SUFFICES ASSUME NEW y \in T, y # Some(T) PROVE Sum(T) = f[y] + Sum(T \ {y})
    BY <1>2
  <2> DEFINE a == Some(T)
             U == (T \ {a}) \ {y}
  <2>1. a \in T /\ Sum(T) = f[a] + Sum(T \ {a})
    BY <1>2
  <2> HIDE DEF a
  <2>2. y # a
    BY DEF a
  <2>3. Sum(T \ {a}) = f[y] + Sum(U)
    BY <1>3, <2>1, <2>2
  <2>4. (T \ {y}) \ {a} = U
    OBVIOUS
  <2>5. Sum(T \ {y}) = f[a] + Sum(U)
    BY <1>3, <2>1, <2>2, <2>4
  <2>6. U \in SUBSET S /\ f[a] \in Int /\ f[y] \in Int
    BY <2>1
  <2>7. Sum(U) \in Int
    BY <1>1, <2>6
  <2> QED
    BY <2>1, <2>3, <2>5, <2>6, <2>7
<1> HIDE DEF Good
<1>4. SUBSET S \subseteq Good
  BY <1>3, PartInduction
<1>5. S \in Good
  BY <1>4
<1> QED
  BY <1>5 DEF Good, Sum

LEMMA SumAdd ==
  ASSUME NEW f, NEW S, IsFiniteSet(S), NEW x, x \notin S,
         \A y \in S \cup {x} : f[y] \in Int
  PROVE  SumFunctionOnSet(f, S \cup {x}) = f[x] + SumFunctionOnSet(f, S)
<1>1. IsFiniteSet(S \cup {x})
  BY FS_AddElement
<1>2. (S \cup {x}) \ {x} = S
  OBVIOUS
<1> QED
  BY <1>1, <1>2, SumRemove

LEMMA SumOne ==
  ASSUME NEW f, NEW x, f[x] \in Int
  PROVE  SumFunctionOnSet(f, {x}) = f[x]
<1>1. IsFiniteSet({}) /\ {} \cup {x} = {x}
  BY FS_EmptySet
<1> QED
  BY <1>1, SumAdd, SumEmpty

(* Only the terms matter. *)
LEMMA SumSame ==
  ASSUME NEW f, NEW g, NEW S, IsFiniteSet(S),
         \A x \in S : f[x] \in Int /\ f[x] = g[x]
  PROVE  SumFunctionOnSet(f, S) = SumFunctionOnSet(g, S)
<1> DEFINE Good == {T \in SUBSET S : SumFunctionOnSet(f, T) = SumFunctionOnSet(g, T)}
<1>1. {} \in Good
  BY SumEmpty
<1>2. ASSUME NEW T \in SUBSET S, NEW x \in S \ T, T \in Good
      PROVE  T \cup {x} \in Good
  <2>1. IsFiniteSet(T)
    BY FS_Subset
  <2>2. SumFunctionOnSet(f, T \cup {x}) = f[x] + SumFunctionOnSet(f, T)
    BY <2>1, SumAdd
  <2>3. SumFunctionOnSet(g, T \cup {x}) = g[x] + SumFunctionOnSet(g, T)
    BY <2>1, SumAdd
  <2> QED
    BY <1>2, <2>2, <2>3
<1> HIDE DEF Good
<1>3. S \in Good
  BY <1>1, <1>2, SetInduction
<1> QED
  BY <1>3 DEF Good

LEMMA SumOfSums ==
  ASSUME NEW f, NEW g, NEW h, NEW S, IsFiniteSet(S),
         \A x \in S : f[x] \in Int /\ g[x] \in Int /\ h[x] = f[x] + g[x]
  PROVE  SumFunctionOnSet(h, S) = SumFunctionOnSet(f, S) + SumFunctionOnSet(g, S)
<1> DEFINE Good == {T \in SUBSET S : SumFunctionOnSet(h, T) =
                                       SumFunctionOnSet(f, T) + SumFunctionOnSet(g, T)}
<1>1. {} \in Good
  BY SumEmpty
<1>2. ASSUME NEW T \in SUBSET S, NEW x \in S \ T, T \in Good
      PROVE  T \cup {x} \in Good
  <2>1. IsFiniteSet(T)
    BY FS_Subset
  <2>2. SumFunctionOnSet(f, T \cup {x}) = f[x] + SumFunctionOnSet(f, T)
    BY <2>1, SumAdd
  <2>3. SumFunctionOnSet(g, T \cup {x}) = g[x] + SumFunctionOnSet(g, T)
    BY <2>1, SumAdd
  <2>4. SumFunctionOnSet(h, T \cup {x}) = h[x] + SumFunctionOnSet(h, T)
    BY <2>1, SumAdd
  <2>5. SumFunctionOnSet(f, T) \in Int /\ SumFunctionOnSet(g, T) \in Int
    BY <2>1, SumInt
  <2> QED
    BY <1>2, <2>2, <2>3, <2>4, <2>5
<1> HIDE DEF Good
<1>3. S \in Good
  BY <1>1, <1>2, SetInduction
<1> QED
  BY <1>3 DEF Good

(* A sum is not smaller than another one with smaller terms, *)
LEMMA SumMonotone ==
  ASSUME NEW f, NEW g, NEW S, IsFiniteSet(S),
         \A x \in S : f[x] \in Int /\ g[x] \in Int /\ f[x] <= g[x]
  PROVE  SumFunctionOnSet(f, S) <= SumFunctionOnSet(g, S)
<1> DEFINE Good == {T \in SUBSET S : SumFunctionOnSet(f, T) <= SumFunctionOnSet(g, T)}
<1>1. {} \in Good
  BY SumEmpty
<1>2. ASSUME NEW T \in SUBSET S, NEW x \in S \ T, T \in Good
      PROVE  T \cup {x} \in Good
  <2>1. IsFiniteSet(T)
    BY FS_Subset
  <2>2. SumFunctionOnSet(f, T \cup {x}) = f[x] + SumFunctionOnSet(f, T)
    BY <2>1, SumAdd
  <2>3. SumFunctionOnSet(g, T \cup {x}) = g[x] + SumFunctionOnSet(g, T)
    BY <2>1, SumAdd
  <2>4. SumFunctionOnSet(f, T) \in Int /\ SumFunctionOnSet(g, T) \in Int
    BY <2>1, SumInt
  <2> QED
    BY <1>2, <2>2, <2>3, <2>4
<1> HIDE DEF Good
<1>3. S \in Good
  BY <1>1, <1>2, SetInduction
<1> QED
  BY <1>3 DEF Good

(* and over nothing but zeros it is 0. *)
LEMMA SumZero ==
  ASSUME NEW f, NEW S, IsFiniteSet(S), \A x \in S : f[x] = 0
  PROVE  SumFunctionOnSet(f, S) = 0
<1> DEFINE Good == {T \in SUBSET S : SumFunctionOnSet(f, T) = 0}
<1>1. {} \in Good
  BY SumEmpty
<1>2. ASSUME NEW T \in SUBSET S, NEW x \in S \ T, T \in Good
      PROVE  T \cup {x} \in Good
  <2>1. IsFiniteSet(T)
    BY FS_Subset
  <2>2. SumFunctionOnSet(f, T \cup {x}) = f[x] + SumFunctionOnSet(f, T)
    BY <2>1, SumAdd
  <2> QED
    BY <1>2, <2>2
<1> HIDE DEF Good
<1>3. S \in Good
  BY <1>1, <1>2, SetInduction
<1> QED
  BY <1>3 DEF Good

LEMMA SumNat ==
  ASSUME NEW f, NEW S, IsFiniteSet(S), \A x \in S : f[x] \in Nat
  PROVE  SumFunctionOnSet(f, S) \in Nat
<1> DEFINE zero == [x \in S |-> 0]
<1>1. SumFunctionOnSet(zero, S) = 0
  BY SumZero
<1>2. SumFunctionOnSet(zero, S) <= SumFunctionOnSet(f, S)
  BY SumMonotone
<1>3. SumFunctionOnSet(f, S) \in Int
  BY SumInt
<1> QED
  BY <1>1, <1>2, <1>3

(* Terms that are 0 can be left out. *)
LEMMA SumSupport ==
  ASSUME NEW f, NEW S, IsFiniteSet(S), \A x \in S : f[x] \in Int,
         NEW T \in SUBSET S, \A x \in S \ T : f[x] = 0
  PROVE  SumFunctionOnSet(f, S) = SumFunctionOnSet(f, T)
<1> DEFINE Good == {U \in SUBSET (S \ T) :
                      SumFunctionOnSet(f, T \cup U) = SumFunctionOnSet(f, T)}
<1>1. {} \in Good
  <2>1. T \cup {} = T
    OBVIOUS
  <2> QED
    BY <2>1
<1>2. ASSUME NEW U \in SUBSET (S \ T), NEW x \in (S \ T) \ U, U \in Good
      PROVE  U \cup {x} \in Good
  <2>1. IsFiniteSet(T \cup U) /\ x \notin T \cup U
    BY FS_Subset
  <2>2. SumFunctionOnSet(f, (T \cup U) \cup {x}) = f[x] + SumFunctionOnSet(f, T \cup U)
    BY <2>1, SumAdd
  <2>3. (T \cup U) \cup {x} = T \cup (U \cup {x})
    OBVIOUS
  <2>4. SumFunctionOnSet(f, T \cup U) \in Int
    BY <2>1, SumInt
  <2>5. SumFunctionOnSet(f, T \cup (U \cup {x})) = SumFunctionOnSet(f, T \cup U)
    <3>1. f[x] = 0
      OBVIOUS
    <3>2. SumFunctionOnSet(f, (T \cup U) \cup {x}) = SumFunctionOnSet(f, T \cup U)
      BY <2>2, <2>4, <3>1
    <3> QED
      BY <2>3, <3>2
  <2> QED
    BY <1>2, <2>5
<1>3. IsFiniteSet(S \ T)
  BY FS_Subset
<1> HIDE DEF Good
<1>4. S \ T \in Good
  BY <1>1, <1>2, <1>3, SetInduction
<1>5. T \cup (S \ T) = S
  OBVIOUS
<1> QED
  BY <1>4, <1>5 DEF Good

(* The sum by groups: k is the key of a term, K the keys. *)
LEMMA SumByKey ==
  ASSUME NEW f, NEW S, IsFiniteSet(S), \A x \in S : f[x] \in Int,
         NEW K, IsFiniteSet(K), NEW k, \A x \in S : k[x] \in K
  PROVE  SumFunctionOnSet(f, S) =
           SumFunctionOnSet([j \in K |-> SumFunctionOnSet(f, {x \in S : k[x] = j})], K)
<1> DEFINE Group(T, j) == {x \in T : k[x] = j}
           Sums(T) == [j \in K |-> SumFunctionOnSet(f, Group(T, j))]
           Good == {T \in SUBSET S : SumFunctionOnSet(f, T) = SumFunctionOnSet(Sums(T), K)}
<1>1. {} \in Good
  <2>1. \A j \in K : Sums({})[j] = 0
    <3>1. \A j \in K : Group({}, j) = {}
      OBVIOUS
    <3> QED
      BY <3>1, SumEmpty
  <2> QED
    BY <2>1, SumEmpty, SumZero
<1>2. ASSUME NEW T \in SUBSET S, NEW x \in S \ T, T \in Good
      PROVE  T \cup {x} \in Good
  <2> DEFINE U == T \cup {x}
  <2>1. IsFiniteSet(T) /\ IsFiniteSet(U)
    BY FS_Subset
  <2>2. \A V \in SUBSET S : \A j \in K : IsFiniteSet(Group(V, j)) /\ Group(V, j) \subseteq S
    BY FS_Subset
  <2>3. \A V \in SUBSET S : \A j \in K : Sums(V)[j] \in Int
    <3> SUFFICES ASSUME NEW V \in SUBSET S, NEW j \in K PROVE Sums(V)[j] \in Int
      OBVIOUS
    <3>1. SumFunctionOnSet(f, Group(V, j)) \in Int
      BY <2>2, SumInt
    <3> QED
      BY <3>1
  <2>4. \A j \in K \ {k[x]} : Sums(U)[j] = Sums(T)[j]
    <3>1. \A j \in K \ {k[x]} : Group(U, j) = Group(T, j)
      OBVIOUS
    <3> QED
      BY <3>1
  <2>5. Sums(U)[k[x]] = f[x] + Sums(T)[k[x]]
    <3>1. Group(U, k[x]) = Group(T, k[x]) \cup {x} /\ x \notin Group(T, k[x])
      OBVIOUS
    <3>2. SumFunctionOnSet(f, Group(T, k[x]) \cup {x}) =
            f[x] + SumFunctionOnSet(f, Group(T, k[x]))
      BY <2>2, <3>1, SumAdd
    <3> QED
      BY <3>1, <3>2
  <2>6. SumFunctionOnSet(f, U) = f[x] + SumFunctionOnSet(f, T)
    BY <2>1, SumAdd
  <2> HIDE DEF Sums
  <2>7. SumFunctionOnSet(Sums(U), K) = Sums(U)[k[x]] + SumFunctionOnSet(Sums(U), K \ {k[x]})
    BY <2>3, SumRemove
  <2>8. SumFunctionOnSet(Sums(T), K) = Sums(T)[k[x]] + SumFunctionOnSet(Sums(T), K \ {k[x]})
    BY <2>3, SumRemove
  <2>9. SumFunctionOnSet(Sums(U), K \ {k[x]}) = SumFunctionOnSet(Sums(T), K \ {k[x]})
    <3>1. IsFiniteSet(K \ {k[x]})
      BY FS_Subset
    <3>2. \A j \in K \ {k[x]} : Sums(U)[j] \in Int /\ Sums(U)[j] = Sums(T)[j]
      BY <2>3, <2>4
    <3> QED
      BY <3>1, <3>2, SumSame
  <2>10. SumFunctionOnSet(Sums(T), K \ {k[x]}) \in Int
    BY <2>3, FS_Subset, SumInt
  <2>11. SumFunctionOnSet(f, U) = SumFunctionOnSet(Sums(U), K)
    BY <1>2, <2>3, <2>5, <2>6, <2>7, <2>8, <2>9, <2>10
  <2> QED
    BY <2>11
<1> HIDE DEF Good
<1>3. S \in Good
  BY <1>1, <1>2, SetInduction
<1> QED
  BY <1>3 DEF Good

(* The terms may be named by the values of an injection k. *)
LEMMA SumRenamed ==
  ASSUME NEW f, NEW S, IsFiniteSet(S), \A x \in S : f[x] \in Int,
         NEW K, NEW k, K = {k[x] : x \in S},
         NEW g, \A x \in S : g[k[x]] = f[x],
         \A x, y \in S : k[x] = k[y] => x = y
  PROVE  SumFunctionOnSet(f, S) = SumFunctionOnSet(g, K)
<1> DEFINE Image(T) == {k[x] : x \in T}
           Good == {T \in SUBSET S : SumFunctionOnSet(f, T) = SumFunctionOnSet(g, Image(T))}
<1>1. {} \in Good
  BY SumEmpty
<1>2. ASSUME NEW T \in SUBSET S, NEW x \in S \ T, T \in Good
      PROVE  T \cup {x} \in Good
  <2>1. IsFiniteSet(T)
    BY FS_Subset
  <2>2. IsFiniteSet(Image(T))
    BY <2>1, ImageFinite
  <2>3. Image(T \cup {x}) = Image(T) \cup {k[x]} /\ k[x] \notin Image(T)
    OBVIOUS
  <2>4. \A y \in Image(T \cup {x}) : g[y] \in Int
    OBVIOUS
  <2>5. SumFunctionOnSet(g, Image(T) \cup {k[x]}) = g[k[x]] + SumFunctionOnSet(g, Image(T))
    BY <2>2, <2>3, <2>4, SumAdd
  <2>6. SumFunctionOnSet(f, T \cup {x}) = f[x] + SumFunctionOnSet(f, T)
    BY <2>1, SumAdd
  <2> QED
    BY <1>2, <2>3, <2>5, <2>6
<1> HIDE DEF Good
<1>3. S \in Good
  BY <1>1, <1>2, SetInduction
<1> QED
  BY <1>3 DEF Good
=============================================================================
