-------------------------------- MODULE Sums --------------------------------
(***************************************************************************)
(* What SumFunctionOnSet of the module Functions computes, for every       *)
(* finite set.  The facts about the recursive definition are proved from a *)
(* least counterexample: a finite set none of whose proper subsets is one. *)
(***************************************************************************)
EXTENDS Functions, FiniteSetTheorems, TLAPS

-----------------------------------------------------------------------------
(* Least elements *)

\* A family of subsets of a finite set has a minimal member.
LEMMA LeastSet ==
  ASSUME NEW S, IsFiniteSet(S), NEW F, F \subseteq SUBSET S, F # {}
  PROVE  \E T \in F : \A U \in F : U \subseteq T => U = T
  <1>1. F \subseteq FiniteSubsetsOf(S)
    BY FS_FiniteSubsetsOfFinite, Zenon
  <1>2. IsWellFoundedOn(StrictSubsetOrdering(S), FiniteSubsetsOf(S))
    BY FS_StrictSubsetOrderingWellFounded, Zenon
  <1>3. PICK T \in F : \A U \in F : ~ (<<U, T>> \in StrictSubsetOrdering(S))
    BY <1>1, <1>2, WFMin, Zenon
  <1>4. ASSUME NEW U \in F, U \subseteq T PROVE U = T
    BY <1>3, <1>4, Zenon DEF StrictSubsetOrdering
  <1> QED
    BY <1>4, Zenon

\* A nonempty set of naturals has a least member.
LEMMA LeastNat ==
  ASSUME NEW N, N \subseteq Nat, N # {}
  PROVE  \E n \in N : \A m \in N : n <= m
  <1>1. PICK top \in N : TRUE
    BY Zenon
  <1> DEFINE F == {1 .. n : n \in {m \in N : m <= top}}
  <1>2. IsFiniteSet(1 .. top) /\ F \subseteq SUBSET (1 .. top) /\ F # {}
    <2>1. top \in Nat
      BY Zenon
    <2>2. IsFiniteSet(1 .. top)
      BY <2>1, FS_Interval
    <2>3. F \subseteq SUBSET (1 .. top)
      BY <2>1
    <2>4. (1 .. top) \in F
      BY <2>1
    <2> QED
      BY <2>2, <2>3, <2>4, Zenon
  <1>3. PICK T \in F : \A U \in F : U \subseteq T => U = T
    <2> DEFINE R == 1 .. top
    <2>1. IsFiniteSet(R) /\ F \subseteq SUBSET R /\ F # {}
      BY <1>2, Zenon
    <2> HIDE DEF F, R
    <2> QED
      BY <2>1, LeastSet
  <1>4. PICK n \in N : n <= top /\ T = 1 .. n
    BY <1>3, Zenon
  <1>5. ASSUME NEW m \in N PROVE n <= m
    <2> SUFFICES ASSUME m < n PROVE FALSE
      BY <1>4
    <2>1. (1 .. m) \in F /\ (1 .. m) \subseteq T
      BY <1>4
    <2>2. (1 .. m) = T
      BY <1>3, <2>1, Zenon
    <2>3. n \in T /\ n \notin 1 .. m
      BY <1>4
    <2> QED
      BY <2>2, <2>3, Zenon
  <1> QED
    BY <1>5, Zenon

-----------------------------------------------------------------------------
(* The recursion of the sum is well defined *)

Pick(s) == CHOOSE x \in s : TRUE

Body(f, g, s) == IF s = {} THEN 0 ELSE f[Pick(s)] + g[s \ {Pick(s)}]

Iter(f, S) == CHOOSE g : g = [s \in SUBSET S |-> Body(f, g, s)]

\* SumFunctionOnSet is this recursion.
LEMMA SumIsIter ==
  ASSUME NEW f, NEW S
  PROVE  SumFunctionOnSet(f, S) = Iter(f, S)[S]
  BY Zenon DEF SumFunctionOnSet, FoldFunctionOnSet, MapThenFoldSet, Iter, Body, Pick

\* A nonempty set is smaller without the element that is picked.
LEMMA PickShrinks ==
  ASSUME NEW s, s # {}
  PROVE  Pick(s) \in s /\ s \ {Pick(s)} \subseteq s /\ s \ {Pick(s)} # s
  <1>1. Pick(s) \in s
    BY Zenon DEF Pick
  <1> QED
    BY <1>1, Zenon

\* The recursion has a solution on the subsets of every size.
LEMMA IterExists ==
  ASSUME NEW f, NEW S, IsFiniteSet(S)
  PROVE  \E g : g = [s \in SUBSET S |-> Body(f, g, s)]
  <1> DEFINE Level(k) == {s \in SUBSET S : Cardinality(s) <= k}
             Solved(k) == \E g : g = [s \in Level(k) |-> Body(f, g, s)]
             Bad == {k \in Nat : ~Solved(k)}
  <1>1. \A s \in SUBSET S : IsFiniteSet(s) /\ Cardinality(s) \in Nat /\ Cardinality(s) <= Cardinality(S)
    BY FS_Subset, FS_CardinalityType, Zenon
  <1>2. Solved(0)
    <2>1. \A s \in Level(0) : s = {}
      BY <1>1, FS_EmptySet
    <2> DEFINE g == [s \in Level(0) |-> 0]
    <2>2. g = [s \in Level(0) |-> Body(f, g, s)]
      BY <2>1, Zenon DEF Body
    <2> QED
      BY <2>2, Zenon
  <1>3. ASSUME NEW k \in Nat, k # 0, Solved(k - 1) PROVE Solved(k)
    <2>1. PICK g : g = [s \in Level(k - 1) |-> Body(f, g, s)]
      BY <1>3, Zenon
    <2> DEFINE h == [s \in Level(k) |-> Body(f, g, s)]
    <2>2. ASSUME NEW s \in Level(k) PROVE Body(f, g, s) = Body(f, h, s)
      <3> SUFFICES ASSUME s # {} PROVE g[s \ {Pick(s)}] = h[s \ {Pick(s)}]
        BY Zenon DEF Body
      <3> DEFINE t == s \ {Pick(s)}
      <3>1. t \in Level(k - 1) /\ t \in Level(k)
        <4>1. Cardinality(t) = Cardinality(s) - 1 /\ t \in SUBSET S
          BY <1>1, PickShrinks, FS_RemoveElement
        <4>2. Cardinality(s) \in Nat /\ Cardinality(s) <= k
          BY <1>1, Zenon
        <4>3. Cardinality(t) <= k - 1 /\ Cardinality(t) <= k
          BY <4>1, <4>2
        <4> QED
          BY <4>1, <4>3, Zenon
      <3>2. g[t] = Body(f, g, t) /\ h[t] = Body(f, g, t)
        BY <2>1, <3>1, Zenon
      <3> QED
        BY <3>2, Zenon
    <2>3. h = [s \in Level(k) |-> Body(f, h, s)]
      BY <2>2, Zenon
    <2> QED
      BY <2>3, Zenon
  <1>4. Bad = {}
    <2> SUFFICES ASSUME Bad # {} PROVE FALSE
      BY Zenon
    <2>1. PICK k \in Bad : \A m \in Bad : k <= m
      <3>1. Bad \subseteq Nat
        BY Zenon
      <3> HIDE DEF Bad
      <3> QED
        BY <3>1, LeastNat, Zenon
    <2> HIDE DEF Solved
    <2>2. k \in Nat /\ k # 0 /\ ~Solved(k)
      BY <1>2, <2>1, Zenon
    <2>3. k - 1 \in Nat /\ ~(k <= k - 1)
      BY <2>2
    <2>4. Solved(k - 1)
      BY <2>1, <2>3, Zenon
    <2> QED
      BY <1>3, <2>2, <2>4, Zenon
  <1>5. Cardinality(S) \in Nat /\ Level(Cardinality(S)) = SUBSET S
    BY <1>1, FS_CardinalityType, Zenon
  <1>6. Solved(Cardinality(S))
    <2> HIDE DEF Solved
    <2> QED
      BY <1>4, <1>5, Zenon
  <1> QED
    BY <1>5, <1>6, Zenon

\* So the chosen function solves it.
LEMMA IterSolves ==
  ASSUME NEW f, NEW S, IsFiniteSet(S)
  PROVE  \A s \in SUBSET S : Iter(f, S)[s] = Body(f, Iter(f, S), s)
  <1>1. \E g : g = [s \in SUBSET S |-> Body(f, g, s)]
    BY IterExists, Zenon
  <1>2. Iter(f, S) = [s \in SUBSET S |-> Body(f, Iter(f, S), s)]
    BY <1>1, Zenon DEF Iter
  <1> QED
    BY <1>2, Zenon

\* A larger set does not change the sums of the smaller ones.
LEMMA IterAgrees ==
  ASSUME NEW f, NEW S, IsFiniteSet(S), NEW T, T \subseteq S
  PROVE  Iter(f, S)[T] = Iter(f, T)[T]
  <1> DEFINE Bad == {s \in SUBSET T : Iter(f, S)[s] # Iter(f, T)[s]}
  <1>1. IsFiniteSet(T)
    BY FS_Subset, Zenon
  <1> SUFFICES ASSUME Bad # {} PROVE FALSE
    BY Zenon
  <1>2. PICK s \in Bad : \A u \in Bad : u \subseteq s => u = s
    <2>1. Bad \subseteq SUBSET T
      BY Zenon
    <2> HIDE DEF Bad
    <2> QED
      BY <1>1, <2>1, LeastSet
  <1>3. /\ Iter(f, S)[s] = Body(f, Iter(f, S), s)
        /\ Iter(f, T)[s] = Body(f, Iter(f, T), s)
    <2>1. s \in SUBSET S /\ s \in SUBSET T
      BY Zenon
    <2> QED
      BY <1>1, <2>1, IterSolves
  <1>4. s # {}
    BY <1>3, Zenon DEF Body
  <1>5. s \ {Pick(s)} \in SUBSET T /\ s \ {Pick(s)} \notin Bad
    BY <1>2, <1>4, PickShrinks, Zenon
  <1>6. Iter(f, S)[s \ {Pick(s)}] = Iter(f, T)[s \ {Pick(s)}]
    BY <1>5, Zenon
  <1> QED
    BY <1>3, <1>6, Zenon DEF Body

-----------------------------------------------------------------------------
(* Sums *)

\* The sum of a set is the picked term and the sum of the rest.
LEMMA SumUnfold ==
  ASSUME NEW f, NEW S, IsFiniteSet(S)
  PROVE  /\ SumFunctionOnSet(f, {}) = 0
         /\ S # {} => SumFunctionOnSet(f, S) = f[Pick(S)] + SumFunctionOnSet(f, S \ {Pick(S)})
  <1>1. SumFunctionOnSet(f, {}) = 0
    BY SumIsIter, IterSolves, FS_EmptySet, Zenon DEF Body
  <1>2. Iter(f, S)[S] = Body(f, Iter(f, S), S)
    BY IterSolves, Zenon
  <1>3. Iter(f, S)[S \ {Pick(S)}] = Iter(f, S \ {Pick(S)})[S \ {Pick(S)}]
    <2>1. S \ {Pick(S)} \subseteq S
      BY Zenon
    <2> QED
      BY <2>1, IterAgrees, Zenon
  <1> QED
    BY <1>1, <1>2, <1>3, SumIsIter, Zenon DEF Body

\* A sum stays in a set that addition does not leave.
LEMMA SumIn ==
  ASSUME NEW R, 0 \in R, \A a, b \in R : a + b \in R,
         NEW f, NEW S, IsFiniteSet(S), \A x \in S : f[x] \in R
  PROVE  SumFunctionOnSet(f, S) \in R
  <1> DEFINE Bad == {s \in SUBSET S : SumFunctionOnSet(f, s) \notin R}
  <1> SUFFICES ASSUME Bad # {} PROVE FALSE
    BY Zenon
  <1>1. PICK s \in Bad : \A u \in Bad : u \subseteq s => u = s
    <2>1. Bad \subseteq SUBSET S
      BY Zenon
    <2> HIDE DEF Bad
    <2> QED
      BY <2>1, LeastSet
  <1>2. IsFiniteSet(s) /\ s \in SUBSET S
    BY FS_Subset, Zenon
  <1>3. s # {}
    <2>1. SumFunctionOnSet(f, {}) = 0
      BY <1>2, SumUnfold, Zenon
    <2> QED
      BY <2>1
  <1>4. s \ {Pick(s)} \in SUBSET S /\ s \ {Pick(s)} \notin Bad /\ Pick(s) \in S
    BY <1>1, <1>2, <1>3, PickShrinks, Zenon
  <1>5. SumFunctionOnSet(f, s \ {Pick(s)}) \in R /\ f[Pick(s)] \in R
    BY <1>4, Zenon
  <1>6. SumFunctionOnSet(f, s) = f[Pick(s)] + SumFunctionOnSet(f, s \ {Pick(s)})
    BY <1>2, <1>3, SumUnfold, Zenon
  <1>7. SumFunctionOnSet(f, s) \in R
    BY <1>5, <1>6
  <1> QED
    BY <1>7, Zenon

\* So a sum of integers is an integer.
LEMMA SumInt ==
  ASSUME NEW f, NEW S, IsFiniteSet(S), \A x \in S : f[x] \in Int
  PROVE  SumFunctionOnSet(f, S) \in Int
  <1>1. 0 \in Int /\ \A a, b \in Int : a + b \in Int
    OBVIOUS
  <1> QED
    BY <1>1, SumIn, Zenon

\* And a sum of natural numbers is a natural number.
LEMMA SumNat ==
  ASSUME NEW f, NEW S, IsFiniteSet(S), \A x \in S : f[x] \in Nat
  PROVE  SumFunctionOnSet(f, S) \in Nat
  <1>1. 0 \in Nat /\ \A a, b \in Nat : a + b \in Nat
    OBVIOUS
  <1> QED
    BY <1>1, SumIn, Zenon

\* Any element may be taken out first.
LEMMA SumRemove ==
  ASSUME NEW f, NEW S, IsFiniteSet(S), \A x \in S : f[x] \in Int, NEW x \in S
  PROVE  SumFunctionOnSet(f, S) = f[x] + SumFunctionOnSet(f, S \ {x})
  <1> DEFINE Sum(s) == SumFunctionOnSet(f, s)
             Bad == {s \in SUBSET S : \E y \in s : Sum(s) # f[y] + Sum(s \ {y})}
  <1> SUFFICES ASSUME Bad # {} PROVE FALSE
    BY Zenon
  <1>1. PICK s \in Bad : \A u \in Bad : u \subseteq s => u = s
    <2>1. Bad \subseteq SUBSET S
      BY Zenon
    <2> HIDE DEF Bad
    <2> QED
      BY <2>1, LeastSet
  <1>2. s \subseteq S /\ \A u \in SUBSET S : IsFiniteSet(u)
    BY FS_Subset, Zenon
  <1>3. PICK y \in s : Sum(s) # f[y] + Sum(s \ {y})
    BY <1>1, Zenon
  <1> DEFINE c == Pick(s)
  <1>4. c \in s /\ Sum(s) = f[c] + Sum(s \ {c})
    BY <1>2, <1>3, PickShrinks, SumUnfold, Zenon
  <1> HIDE DEF c, Sum
  <1>5. c # y
    BY <1>3, <1>4, Zenon
  <1>6. Sum(s \ {c}) = f[y] + Sum((s \ {c}) \ {y})
    <2>1. s \ {c} \in SUBSET S /\ s \ {c} \notin Bad /\ y \in s \ {c}
      BY <1>1, <1>2, <1>4, <1>5, Zenon
    <2> QED
      BY <2>1, Zenon
  <1>7. Sum(s \ {y}) = f[c] + Sum((s \ {c}) \ {y})
    <2>1. s \ {y} \in SUBSET S /\ s \ {y} \notin Bad /\ c \in s \ {y}
      BY <1>1, <1>2, <1>4, <1>5, Zenon
    <2>2. (s \ {y}) \ {c} = (s \ {c}) \ {y}
      BY Zenon
    <2> QED
      BY <2>1, <2>2, Zenon
  <1>8. f[c] \in Int /\ f[y] \in Int /\ Sum((s \ {c}) \ {y}) \in Int
    <2>1. (s \ {c}) \ {y} \in SUBSET S
      BY <1>2, Zenon
    <2>2. \A z \in (s \ {c}) \ {y} : f[z] \in Int
      BY <2>1, Zenon
    <2>3. Sum((s \ {c}) \ {y}) \in Int
      BY <1>2, <2>1, <2>2, SumInt, Zenon DEF Sum
    <2> QED
      BY <1>2, <1>3, <1>4, <2>3, Zenon
  <1> QED
    BY <1>3, <1>4, <1>6, <1>7, <1>8

\* The sum of sums, term by term.
LEMMA SumPlus ==
  ASSUME NEW f, NEW g, NEW h, NEW S, IsFiniteSet(S),
         \A x \in S : f[x] \in Int /\ g[x] \in Int /\ h[x] = f[x] + g[x]
  PROVE  SumFunctionOnSet(h, S) = SumFunctionOnSet(f, S) + SumFunctionOnSet(g, S)
  <1> DEFINE Sum(w, s) == SumFunctionOnSet(w, s)
             Bad == {s \in SUBSET S : Sum(h, s) # Sum(f, s) + Sum(g, s)}
  <1> SUFFICES ASSUME Bad # {} PROVE FALSE
    BY Zenon
  <1>1. PICK s \in Bad : \A u \in Bad : u \subseteq s => u = s
    <2>1. Bad \subseteq SUBSET S
      BY Zenon
    <2> HIDE DEF Bad
    <2> QED
      BY <2>1, LeastSet
  <1>2. s \subseteq S /\ \A u \in SUBSET S : IsFiniteSet(u)
    BY FS_Subset, Zenon
  <1>3. s # {}
    <2>1. Sum(f, {}) = 0 /\ Sum(g, {}) = 0 /\ Sum(h, {}) = 0
      BY <1>2, SumUnfold, Zenon
    <2>2. Sum(f, {}) + Sum(g, {}) = Sum(h, {})
      BY <2>1
    <2> HIDE DEF Sum
    <2> QED
      BY <1>1, <2>2, Zenon
  <1> DEFINE c == Pick(s)
             r == s \ {c}
  <1>4. /\ Sum(f, s) = f[c] + Sum(f, r)
        /\ Sum(g, s) = g[c] + Sum(g, r)
        /\ Sum(h, s) = h[c] + Sum(h, r)
    BY <1>2, <1>3, SumUnfold, Zenon
  <1>5. c \in S /\ r \in SUBSET S /\ r # s /\ r \subseteq s
    BY <1>2, <1>3, PickShrinks, Zenon
  <1>6. Sum(f, r) \in Int /\ Sum(g, r) \in Int
    <2>1. IsFiniteSet(r) /\ \A x \in r : f[x] \in Int /\ g[x] \in Int
      BY <1>2, <1>5, Zenon
    <2> HIDE DEF r
    <2> QED
      BY <2>1, SumInt, Zenon
  <1> HIDE DEF Sum, c, r
  <1>7. Sum(h, r) = Sum(f, r) + Sum(g, r)
    BY <1>1, <1>5, Zenon
  <1>8. f[c] \in Int /\ g[c] \in Int /\ h[c] = f[c] + g[c]
    BY <1>5, Zenon
  <1>9. Sum(h, s) = Sum(f, s) + Sum(g, s)
    BY <1>4, <1>6, <1>7, <1>8
  <1> QED
    BY <1>1, <1>9, Zenon

\* Terms that are zero do not count, and only the terms count.
LEMMA SumExtend ==
  ASSUME NEW f, NEW g, NEW S, IsFiniteSet(S), NEW T, T \subseteq S,
         \A x \in T : f[x] \in Int /\ g[x] = f[x],
         \A x \in S \ T : g[x] = 0
  PROVE  SumFunctionOnSet(g, S) = SumFunctionOnSet(f, T)
  <1> DEFINE Sum(w, s) == SumFunctionOnSet(w, s)
             Bad == {s \in SUBSET S : Sum(g, s) # Sum(f, s \cap T)}
  <1> SUFFICES ASSUME Bad # {} PROVE FALSE
    <2>1. S \cap T = T /\ S \in SUBSET S
      BY Zenon
    <2> QED
      BY <2>1, Zenon
  <1>1. PICK s \in Bad : \A u \in Bad : u \subseteq s => u = s
    <2>1. Bad \subseteq SUBSET S
      BY Zenon
    <2> HIDE DEF Bad
    <2> QED
      BY <2>1, LeastSet
  <1>2. s \subseteq S /\ \A u \in SUBSET S : IsFiniteSet(u)
    BY FS_Subset, Zenon
  <1>3. s # {}
    <2>1. Sum(g, {}) = 0 /\ Sum(f, {}) = 0
      BY <1>2, SumUnfold, Zenon
    <2>2. {} \cap T = {}
      BY Zenon
    <2> HIDE DEF Sum
    <2> QED
      BY <1>1, <2>1, <2>2, Zenon
  <1> DEFINE c == Pick(s)
             r == s \ {c}
  <1>4. Sum(g, s) = g[c] + Sum(g, r)
    BY <1>2, <1>3, SumUnfold, Zenon
  <1>5. c \in s /\ c \in S /\ r \in SUBSET S /\ r # s /\ r \subseteq s
    BY <1>2, <1>3, PickShrinks, Zenon
  <1>6. Sum(f, r \cap T) \in Int
    <2> DEFINE k == r \cap T
    <2>1. IsFiniteSet(k) /\ \A x \in k : f[x] \in Int
      <3>1. k \in SUBSET S
        BY <1>5, Zenon
      <3> QED
        BY <1>2, <3>1, Zenon
    <2> HIDE DEF k
    <2>2. Sum(f, k) \in Int
      BY <2>1, SumInt, Zenon
    <2> QED
      BY <2>2, Zenon DEF k
  <1>7. Sum(f, s \cap T) = (IF c \in T THEN f[c] ELSE 0) + Sum(f, r \cap T)
    <2>1. CASE c \in T
      <3> DEFINE k == s \cap T
      <3>1. IsFiniteSet(k) /\ (\A x \in k : f[x] \in Int) /\ c \in k /\ k \ {c} = r \cap T
        <4>1. k \in SUBSET S /\ c \in k /\ k \ {c} = r \cap T
          BY <1>2, <1>5, <2>1, Zenon
        <4> QED
          BY <1>2, <4>1, Zenon
      <3> HIDE DEF k, c, Bad
      <3>2. Sum(f, k) = f[c] + Sum(f, k \ {c})
        BY <3>1, SumRemove, SMT
      <3> HIDE DEF Sum
      <3>3. Sum(f, k) = f[c] + Sum(f, r \cap T)
        BY <3>1, <3>2, Zenon
      <3> QED
        BY <2>1, <3>3, Zenon DEF k
    <2>2. CASE c \notin T
      <3>1. s \cap T = r \cap T
        BY <2>2, Zenon
      <3> HIDE DEF Sum, c, r
      <3> QED
        BY <1>6, <2>2, <3>1
    <2> QED
      BY <2>1, <2>2, Zenon
  <1> HIDE DEF Sum, c, r
  <1>8. Sum(g, r) = Sum(f, r \cap T)
    BY <1>1, <1>5, Zenon
  <1>9. g[c] = IF c \in T THEN f[c] ELSE 0
    BY <1>5, Zenon
  <1>10. Sum(g, s) = Sum(f, s \cap T)
    BY <1>4, <1>7, <1>8, <1>9, Zenon
  <1> QED
    BY <1>1, <1>10, Zenon

\* What x contributes to a sum over S.
Term(f, S, x) == IF x \in S THEN f[x] ELSE 0

\* A sum is the contribution of one element and the rest.
LEMMA SumSplit ==
  ASSUME NEW f, NEW S, IsFiniteSet(S), \A y \in S : f[y] \in Int, NEW x
  PROVE  /\ SumFunctionOnSet(f, S) = Term(f, S, x) + SumFunctionOnSet(f, S \ {x})
         /\ Term(f, S, x) \in Int /\ SumFunctionOnSet(f, S \ {x}) \in Int
  <1> DEFINE R == S \ {x}
  <1>1. IsFiniteSet(R) /\ \A y \in R : f[y] \in Int
    BY FS_Subset, Zenon
  <1>2. SumFunctionOnSet(f, R) \in Int
    <2> HIDE DEF R
    <2> QED
      BY <1>1, SumInt, Zenon
  <1>3. Term(f, S, x) \in Int
    BY DEF Term
  <1>4. CASE x \in S
    BY <1>2, <1>3, <1>4, SumRemove DEF Term
  <1>5. CASE x \notin S
    <2>1. R = S
      BY <1>5, Zenon
    <2>2. Term(f, S, x) = 0
      BY <1>5, Zenon DEF Term
    <2> HIDE DEF R
    <2>3. SumFunctionOnSet(f, S) = Term(f, S, x) + SumFunctionOnSet(f, R)
      BY <1>2, <2>1, <2>2
    <2> QED
      BY <1>2, <1>3, <2>3, Zenon DEF R
  <1> QED
    BY <1>4, <1>5, Zenon

\* Only the terms count.
LEMMA SumSame ==
  ASSUME NEW f, NEW g, NEW S, IsFiniteSet(S), \A y \in S : f[y] \in Int /\ g[y] = f[y]
  PROVE  SumFunctionOnSet(g, S) = SumFunctionOnSet(f, S)
  <1>1. \A y \in S \ S : g[y] = 0
    BY Zenon
  <1> QED
    BY <1>1, SumExtend

\* Two sums that agree but for one element differ by what it contributes.
LEMMA SumChange ==
  ASSUME NEW f, NEW S, IsFiniteSet(S), \A y \in S : f[y] \in Int,
         NEW g, NEW T, IsFiniteSet(T), \A y \in T : g[y] \in Int,
         NEW x, S \ {x} = T \ {x}, \A y \in S \ {x} : g[y] = f[y]
  PROVE  /\ SumFunctionOnSet(f, S) \in Int /\ SumFunctionOnSet(g, T) \in Int
         /\ Term(f, S, x) \in Int /\ Term(g, T, x) \in Int
         /\ SumFunctionOnSet(g, T) = SumFunctionOnSet(f, S) - Term(f, S, x) + Term(g, T, x)
  <1> DEFINE R == S \ {x}
             k == SumFunctionOnSet(f, R)
  <1>1. /\ SumFunctionOnSet(f, S) = Term(f, S, x) + SumFunctionOnSet(f, S \ {x})
        /\ Term(f, S, x) \in Int /\ SumFunctionOnSet(f, S \ {x}) \in Int
    BY ONLY IsFiniteSet(S), \A y \in S : f[y] \in Int, SumSplit
  <1>2. /\ SumFunctionOnSet(g, T) = Term(g, T, x) + SumFunctionOnSet(g, T \ {x})
        /\ Term(g, T, x) \in Int /\ SumFunctionOnSet(g, T \ {x}) \in Int
    BY ONLY IsFiniteSet(T), \A y \in T : g[y] \in Int, SumSplit, Zenon
  <1>3. SumFunctionOnSet(g, R) = k
    <2>1. IsFiniteSet(R) /\ \A y \in R : f[y] \in Int /\ g[y] = f[y]
      BY FS_Subset, Zenon
    <2> HIDE DEF R
    <2> QED
      BY <2>1, SumSame, Zenon
  <1>4. SumFunctionOnSet(f, S \ {x}) = k /\ SumFunctionOnSet(g, T \ {x}) = k
    BY <1>3, Zenon
  <1> HIDE DEF R, k
  <1> QED
    BY <1>1, <1>2, <1>4

\* With no negative terms, a sum over a part is no more than the whole.
LEMMA SumPart ==
  ASSUME NEW f, NEW S, IsFiniteSet(S), \A x \in S : f[x] \in Nat, NEW T, T \subseteq S
  PROVE  /\ SumFunctionOnSet(f, T) \in Nat /\ SumFunctionOnSet(f, S) \in Nat
         /\ SumFunctionOnSet(f, T) <= SumFunctionOnSet(f, S)
  <1> DEFINE g == [x \in S |-> IF x \in T THEN f[x] ELSE 0]
             h == [x \in S |-> IF x \in T THEN 0 ELSE f[x]]
  <1>1. \A x \in S : g[x] \in Int /\ h[x] \in Nat /\ h[x] \in Int /\ f[x] = g[x] + h[x]
    OBVIOUS
  <1>2. /\ \A x \in T : f[x] \in Int /\ g[x] = f[x]
        /\ \A x \in S \ T : g[x] = 0
    OBVIOUS
  <1>3. IsFiniteSet(T) /\ \A x \in T : f[x] \in Nat
    BY FS_Subset, Zenon
  <1> HIDE DEF g, h
  <1>4. SumFunctionOnSet(f, S) = SumFunctionOnSet(g, S) + SumFunctionOnSet(h, S)
    BY ONLY <1>1, IsFiniteSet(S), SumPlus
  <1>5. SumFunctionOnSet(g, S) = SumFunctionOnSet(f, T)
    BY ONLY <1>2, IsFiniteSet(S), T \subseteq S, SumExtend
  <1>6. SumFunctionOnSet(h, S) \in Nat
    BY ONLY <1>1, IsFiniteSet(S), SumNat
  <1>7. SumFunctionOnSet(f, T) \in Nat
    BY ONLY <1>3, SumNat
  <1>8. SumFunctionOnSet(f, S) \in Nat
    BY ONLY IsFiniteSet(S), \A x \in S : f[x] \in Nat, SumNat
  <1> QED
    BY <1>4, <1>5, <1>6, <1>7, <1>8

\* The sum over two sets that share nothing.
LEMMA SumDisjoint ==
  ASSUME NEW f, NEW S, IsFiniteSet(S), NEW T, IsFiniteSet(T), S \cap T = {},
         \A x \in S \cup T : f[x] \in Int
  PROVE  /\ SumFunctionOnSet(f, S) \in Int /\ SumFunctionOnSet(f, T) \in Int
         /\ SumFunctionOnSet(f, S \cup T) = SumFunctionOnSet(f, S) + SumFunctionOnSet(f, T)
  <1> DEFINE U == S \cup T
             g == [x \in U |-> IF x \in S THEN f[x] ELSE 0]
             h == [x \in U |-> IF x \in T THEN f[x] ELSE 0]
  <1>1. \A x \in U : g[x] \in Int /\ h[x] \in Int /\ f[x] = g[x] + h[x]
    OBVIOUS
  <1>2. /\ \A x \in S : f[x] \in Int /\ g[x] = f[x]
        /\ \A x \in U \ S : g[x] = 0
        /\ \A x \in T : f[x] \in Int /\ h[x] = f[x]
        /\ \A x \in U \ T : h[x] = 0
    BY Zenon
  <1>3. IsFiniteSet(U) /\ S \subseteq U /\ T \subseteq U
    BY FS_Union, Zenon
  <1>4. SumFunctionOnSet(f, S) \in Int /\ SumFunctionOnSet(f, T) \in Int
    BY <1>2, SumInt, Zenon
  <1> HIDE DEF g, h, U
  <1>5. SumFunctionOnSet(f, U) = SumFunctionOnSet(g, U) + SumFunctionOnSet(h, U)
    BY ONLY <1>1, <1>3, SumPlus
  <1>6. SumFunctionOnSet(g, U) = SumFunctionOnSet(f, S)
    BY ONLY <1>2, <1>3, SumExtend
  <1>7. SumFunctionOnSet(h, U) = SumFunctionOnSet(f, T)
    BY ONLY <1>2, <1>3, SumExtend
  <1>8. SumFunctionOnSet(f, U) = SumFunctionOnSet(f, S) + SumFunctionOnSet(f, T)
    BY <1>5, <1>6, <1>7, Zenon
  <1> QED
    BY <1>4, <1>8, Zenon DEF U

ImageOf(m, S) == {m[x] : x \in S}

\* The image of a finite set is finite.
LEMMA ImageFinite ==
  ASSUME NEW m, NEW S, IsFiniteSet(S)
  PROVE  IsFiniteSet(ImageOf(m, S))
  <1> DEFINE T == {m[x] : x \in S}
             f == [x \in S |-> m[x]]
  <1>1. f \in [S -> T] /\ \A y \in T : \E x \in S : f[x] = y
    BY Zenon
  <1>2. f \in Surjection(S, T)
    <2> HIDE DEF T, f
    <2> QED
      BY <1>1, Zenon DEF Surjection
  <1> HIDE DEF T, f
  <1>3. IsFiniteSet(T)
    BY <1>2, FS_Surjection, Zenon
  <1> QED
    BY <1>3, Zenon DEF T, ImageOf

\* The sum over an image is the sum over what it is an image of, when no two
\* elements have one image.
LEMMA SumImage ==
  ASSUME NEW f, NEW g, NEW m, NEW S, IsFiniteSet(S),
         \A x, y \in S : m[x] = m[y] => x = y,
         \A x \in S : f[x] \in Int /\ g[m[x]] = f[x]
  PROVE  SumFunctionOnSet(g, ImageOf(m, S)) = SumFunctionOnSet(f, S)
  <1> DEFINE Sum(w, s) == SumFunctionOnSet(w, s)
             Image(s) == ImageOf(m, s)
             Bad == {s \in SUBSET S : Sum(g, Image(s)) # Sum(f, s)}
  <1> SUFFICES ASSUME Bad # {} PROVE FALSE
    BY Zenon
  <1>1. PICK s \in Bad : \A u \in Bad : u \subseteq s => u = s
    <2>1. Bad \subseteq SUBSET S
      BY Zenon
    <2> HIDE DEF Bad
    <2> QED
      BY <2>1, LeastSet
  <1>2. s \subseteq S /\ IsFiniteSet(s)
    BY FS_Subset, Zenon
  <1>3. s # {}
    <2>1. Sum(g, {}) = 0 /\ Sum(f, {}) = 0
      BY <1>2, SumUnfold, Zenon
    <2>2. Image({}) = {}
      BY Zenon DEF ImageOf
    <2> HIDE DEF Sum, Image
    <2> QED
      BY <1>1, <2>1, <2>2, Zenon
  <1> DEFINE c == Pick(s)
             r == s \ {c}
             I == Image(s)
             z == m[c]
  <1>4. Sum(f, s) = f[c] + Sum(f, r)
    BY <1>2, <1>3, SumUnfold, Zenon
  <1>5. c \in s /\ c \in S /\ r \in SUBSET S /\ r # s /\ r \subseteq s
    BY <1>2, <1>3, PickShrinks, Zenon
  <1> HIDE DEF c, Sum, Bad
  <1>6. IsFiniteSet(I) /\ z \in I /\ I \ {z} = Image(r) /\ (\A y \in I : g[y] \in Int) /\ g[z] = f[c]
    <2>1. IsFiniteSet(I)
      BY <1>2, ImageFinite, Zenon
    <2>2. z \in I /\ g[z] = f[c]
      BY <1>5, Zenon DEF ImageOf
    <2>3. \A y \in I : g[y] \in Int
      BY <1>2, Zenon DEF ImageOf
    <2>4. I \ {z} = Image(r)
      <3>1. \A x \in s : m[x] = z <=> x = c
        BY <1>2, <1>5, Zenon
      <3> HIDE DEF z
      <3>2. ASSUME NEW y \in I, y # z PROVE y \in Image(r)
        BY <3>1, <3>2, Zenon DEF ImageOf
      <3>3. ASSUME NEW y \in Image(r) PROVE y \in I /\ y # z
        BY <3>1, Zenon DEF ImageOf
      <3> QED
        BY <3>2, <3>3, Zenon
    <2> QED
      BY <2>1, <2>2, <2>3, <2>4, Zenon
  <1> HIDE DEF I, z
  <1>7. Sum(g, I) = g[z] + Sum(g, I \ {z})
    BY ONLY <1>6, SumRemove, SMT DEF Sum
  <1> HIDE DEF Image, r
  <1>8. Sum(g, Image(r)) = Sum(f, r)
    BY <1>1, <1>5, Zenon DEF Bad
  <1>9. Sum(g, I) = Sum(f, s)
    BY <1>4, <1>6, <1>7, <1>8, Zenon
  <1> QED
    BY <1>1, <1>9, Zenon DEF I, Bad
=============================================================================
