-------------------------------- MODULE Sums --------------------------------
(***************************************************************************)
(* Facts about SumFunctionOnSet, the sum in which the documents' totals    *)
(* are stated.  It is a recursive function over the subsets of the set, so *)
(* each fact is proved by induction over finite sets.  The induction is    *)
(* stated for a set of subsets instead of a predicate: whoever uses it     *)
(* defines the set of the subsets for which his fact holds.                *)
(***************************************************************************)
EXTENDS Integers, FiniteSets, Functions, FiniteSetTheorems, WellFoundedInduction, TLAPS

Pick(s) == CHOOSE x \in s : TRUE

\* g sums f over each subset of S.
Sums(g, f, S) ==
    g = [s \in SUBSET S |-> IF s = {} THEN 0 ELSE f[Pick(s)] + g[s \ {Pick(s)}]]

-----------------------------------------------------------------------------
(* Induction *)

\* What holds of the empty set and of a set when it holds of all the smaller
\* ones holds of every finite set.
LEMMA SubsetInduction ==
    ASSUME NEW S, IsFiniteSet(S), NEW Good,
           \A T \in SUBSET S : (\A U \in SUBSET T : U # T => U \in Good) => T \in Good
    PROVE  \A T \in SUBSET S : T \in Good
<1>1. SUFFICES ASSUME NEW T0 \in SUBSET S, T0 \notin Good PROVE FALSE
  OBVIOUS
<1> DEFINE Bad == {T \in SUBSET S : T \notin Good}
<1>2. Bad \subseteq SUBSET S /\ Bad # {}
  BY <1>1
<1>3. IsWellFoundedOn(StrictSubsetOrdering(S), SUBSET S)
  BY FS_StrictSubsetOrderingWellFounded, FS_FiniteSubsetsOfFinite
<1> HIDE DEF Bad
<1>4. PICK T \in Bad : \A U \in Bad : ~ (<<U, T>> \in StrictSubsetOrdering(S))
  BY <1>2, <1>3, WFMin
<1>5. \A U \in SUBSET T : U # T => U \in Good
  BY <1>2, <1>4 DEF StrictSubsetOrdering, Bad
<1> QED
  BY <1>4, <1>5 DEF Bad

LEMMA PickIsOne == ASSUME NEW s, s # {} PROVE Pick(s) \in s
  BY DEF Pick

\* There is at most one such function.
LEMMA SumsUnique ==
    ASSUME NEW S, IsFiniteSet(S), NEW f, NEW g, NEW h, Sums(g, f, S), Sums(h, f, S)
    PROVE  g = h
<1> DEFINE Good == {T \in SUBSET S : g[T] = h[T]}
<1>1. ASSUME NEW T \in SUBSET S, \A U \in SUBSET T : U # T => U \in Good
      PROVE  T \in Good
  <2>1. CASE T = {}
    BY <2>1 DEF Sums
  <2>2. CASE T # {}
    <3>1. Pick(T) \in T
      BY <2>2, PickIsOne
    <3>2. g[T \ {Pick(T)}] = h[T \ {Pick(T)}]
      BY <1>1, <3>1
    <3>3. g[T] = f[Pick(T)] + g[T \ {Pick(T)}] /\ h[T] = f[Pick(T)] + h[T \ {Pick(T)}]
      BY <2>2 DEF Sums
    <3> QED
      BY <3>2, <3>3
  <2> QED
    BY <2>1, <2>2
<1> HIDE DEF Good
<1>2. \A T \in SUBSET S : T \in Good
  BY <1>1, SubsetInduction
<1>3. \A T \in SUBSET S : g[T] = h[T]
  BY <1>2 DEF Good
<1> QED
  BY <1>3 DEF Sums

\* There is one.
LEMMA SumsExists ==
    ASSUME NEW S, IsFiniteSet(S), NEW f
    PROVE  \E g : Sums(g, f, S)
<1> DEFINE Good == {T \in SUBSET S : \E g : Sums(g, f, T)}
           G(T) == CHOOSE g : Sums(g, f, T)
<1>1. ASSUME NEW T \in SUBSET S, \A U \in SUBSET T : U # T => U \in Good
      PROVE  T \in Good
  <2> DEFINE V(s) == IF s = {} THEN 0 ELSE f[Pick(s)] + G(s \ {Pick(s)})[s \ {Pick(s)}]
             g == [s \in SUBSET T |-> V(s)]
  <2>1. ASSUME NEW s \in SUBSET T PROVE s # T => G(s)[s] = V(s)
    <3>1. SUFFICES ASSUME s # T PROVE G(s)[s] = V(s)
      OBVIOUS
    <3>2. Sums(G(s), f, s)
      BY <1>1, <3>1
    <3>3. CASE s = {}
      BY <3>2, <3>3 DEF Sums
    <3>4. CASE s # {}
      <4> DEFINE t == s \ {Pick(s)}
      <4>1. Pick(s) \in s
        BY <3>4, PickIsOne
      <4>2. t \in SUBSET s /\ t \in SUBSET T /\ t # T /\ t \in SUBSET S
        BY <4>1
      <4>3. Sums(G(t), f, t)
        BY <1>1, <4>2
      <4>4. Sums([u \in SUBSET t |-> G(s)[u]], f, t)
        <5> HIDE DEF G
        <5>1. \A u \in SUBSET t : u # {} => Pick(u) \in u /\ u \ {Pick(u)} \in SUBSET t
          BY PickIsOne
        <5>2. \A u \in SUBSET t : G(s)[u] = IF u = {} THEN 0 ELSE f[Pick(u)] + G(s)[u \ {Pick(u)}]
          BY <3>2 DEF Sums
        <5> HIDE DEF t
        <5> QED
          BY <5>1, <5>2 DEF Sums
      <4>5. IsFiniteSet(t)
        BY <4>2, FS_Subset
      <4>6. G(t) = [u \in SUBSET t |-> G(s)[u]]
        <5> HIDE DEF t, G
        <5> QED BY <4>3, <4>4, <4>5, SumsUnique
      <4>7. G(t)[t] = G(s)[t]
        <5> HIDE DEF t, G
        <5> QED BY <4>6
      <4>8. G(s)[s] = f[Pick(s)] + G(s)[t]
        <5> HIDE DEF G
        <5> QED BY <3>2, <3>4 DEF Sums
      <4> HIDE DEF G
      <4> QED
        BY <3>4, <4>7, <4>8
    <3> QED
      BY <3>3, <3>4
  <2>2. Sums(g, f, T)
    <3>1. ASSUME NEW s \in SUBSET T, s # {}
          PROVE  V(s) = f[Pick(s)] + g[s \ {Pick(s)}]
      <4>1. Pick(s) \in s
        BY <3>1, PickIsOne
      <4>2. s \ {Pick(s)} \in SUBSET T /\ s \ {Pick(s)} # T
        BY <4>1
      <4> HIDE DEF G
      <4>3. g[s \ {Pick(s)}] = V(s \ {Pick(s)})
        BY <4>2
      <4>4. V(s \ {Pick(s)}) = G(s \ {Pick(s)})[s \ {Pick(s)}]
        BY <2>1, <4>2
      <4> QED
        BY <3>1, <4>3, <4>4
    <3>2. V({}) = 0
      OBVIOUS
    <3> HIDE DEF V
    <3> QED
      BY <3>1, <3>2 DEF Sums
  <2> QED
    BY <2>2
<1> HIDE DEF Good
<1>2. \A T \in SUBSET S : T \in Good
  BY <1>1, SubsetInduction
<1> QED
  BY <1>2 DEF Good

-----------------------------------------------------------------------------
(* The sum by its elements *)

LEMMA SumIsSums ==
    ASSUME NEW S, IsFiniteSet(S), NEW f, NEW g, Sums(g, f, S)
    PROVE  SumFunctionOnSet(f, S) = g[S]
<1> DEFINE h == CHOOSE i : Sums(i, f, S)
<1>1. SumFunctionOnSet(f, S) = h[S]
  BY DEF SumFunctionOnSet, FoldFunctionOnSet, MapThenFoldSet, Sums, Pick
<1>2. Sums(h, f, S)
  OBVIOUS
<1> HIDE DEF h
<1> QED
  BY <1>1, <1>2, SumsUnique

LEMMA SumEmpty == ASSUME NEW f PROVE SumFunctionOnSet(f, {}) = 0
<1>1. PICK g : Sums(g, f, {})
  BY SumsExists, FS_EmptySet
<1>2. SumFunctionOnSet(f, {}) = g[{}]
  BY <1>1, SumIsSums, FS_EmptySet
<1> QED
  BY <1>1, <1>2 DEF Sums

LEMMA SumPick ==
    ASSUME NEW S, IsFiniteSet(S), S # {}, NEW f
    PROVE  SumFunctionOnSet(f, S) = f[Pick(S)] + SumFunctionOnSet(f, S \ {Pick(S)})
<1> DEFINE t == S \ {Pick(S)}
<1>1. PICK g : Sums(g, f, S)
  BY SumsExists
<1>2. Pick(S) \in S
  BY PickIsOne
<1>3. t \in SUBSET S /\ IsFiniteSet(t)
  BY FS_Subset
<1>4. Sums([u \in SUBSET t |-> g[u]], f, t)
  <2>1. \A u \in SUBSET t : u # {} => Pick(u) \in u /\ u \ {Pick(u)} \in SUBSET t
    BY PickIsOne
  <2>2. \A u \in SUBSET t : g[u] = IF u = {} THEN 0 ELSE f[Pick(u)] + g[u \ {Pick(u)}]
    BY <1>1, <1>3 DEF Sums
  <2> HIDE DEF t
  <2> QED
    BY <2>1, <2>2 DEF Sums
<1>5. g[S] = f[Pick(S)] + g[t]
  BY <1>1 DEF Sums
<1> HIDE DEF t
<1>6. SumFunctionOnSet(f, t) = [u \in SUBSET t |-> g[u]][t]
  BY <1>3, <1>4, SumIsSums
<1>7. SumFunctionOnSet(f, S) = g[S]
  BY <1>1, SumIsSums
<1> QED
  BY <1>5, <1>6, <1>7 DEF t

\* The sum of integers is an integer.
LEMMA SumIsInt ==
    ASSUME NEW S, IsFiniteSet(S), NEW f, \A x \in S : f[x] \in Int
    PROVE  SumFunctionOnSet(f, S) \in Int
<1> DEFINE Good == {T \in SUBSET S : SumFunctionOnSet(f, T) \in Int}
<1>1. ASSUME NEW T \in SUBSET S, \A U \in SUBSET T : U # T => U \in Good
      PROVE  T \in Good
  <2>1. CASE T = {}
    BY <2>1, SumEmpty
  <2>2. CASE T # {}
    <3>1. Pick(T) \in T /\ IsFiniteSet(T)
      BY <2>2, PickIsOne, FS_Subset
    <3>2. SumFunctionOnSet(f, T \ {Pick(T)}) \in Int
      BY <1>1, <3>1
    <3>3. SumFunctionOnSet(f, T) = f[Pick(T)] + SumFunctionOnSet(f, T \ {Pick(T)})
      BY <2>2, <3>1, SumPick
    <3> QED
      BY <3>1, <3>2, <3>3
  <2> QED
    BY <2>1, <2>2
<1> HIDE DEF Good
<1>2. \A T \in SUBSET S : T \in Good
  BY <1>1, SubsetInduction
<1> QED
  BY <1>2 DEF Good

\* Any element may be taken out first.
LEMMA SumRemove ==
    ASSUME NEW S, IsFiniteSet(S), NEW f, \A x \in S : f[x] \in Int, NEW y \in S
    PROVE  SumFunctionOnSet(f, S) = f[y] + SumFunctionOnSet(f, S \ {y})
<1> DEFINE Sum(T) == SumFunctionOnSet(f, T)
           Good == {T \in SUBSET S : \A x \in T : Sum(T) = f[x] + Sum(T \ {x})}
<1>1. ASSUME NEW T \in SUBSET S, \A U \in SUBSET T : U # T => U \in Good
      PROVE  T \in Good
  <2> SUFFICES ASSUME NEW x \in T PROVE Sum(T) = f[x] + Sum(T \ {x})
    OBVIOUS
  <2> DEFINE p == Pick(T)
  <2>1. p \in T /\ IsFiniteSet(T) /\ T # {}
    BY PickIsOne, FS_Subset
  <2>2. Sum(T) = f[p] + Sum(T \ {p})
    BY <2>1, SumPick
  <2>3. CASE p = x
    BY <2>2, <2>3
  <2>4. CASE p # x
    <3>1. T \ {p} \in Good /\ T \ {x} \in Good
      BY <1>1, <2>1
    <3>2. x \in T \ {p} /\ p \in T \ {x}
      BY <2>1, <2>4
    <3> DEFINE u == (T \ {p}) \ {x}
    <3>3. Sum(T \ {p}) = f[x] + Sum(u)
      BY <3>1, <3>2
    <3>4. Sum(T \ {x}) = f[p] + Sum(u)
      <4>1. u = (T \ {x}) \ {p}
        OBVIOUS
      <4> HIDE DEF u, p
      <4> QED
        BY <3>1, <3>2, <4>1
    <3>5. f[x] \in Int /\ f[p] \in Int /\ Sum(u) \in Int
      <4>1. IsFiniteSet(u)
        BY <2>1, FS_Subset
      <4> QED
        BY <2>1, <4>1, SumIsInt
    <3> HIDE DEF Sum, u, p, Good
    <3> QED
      BY <2>2, <3>3, <3>4, <3>5
  <2> HIDE DEF p, Sum
  <2> QED
    BY <2>3, <2>4
<1> HIDE DEF Good
<1>2. \A T \in SUBSET S : T \in Good
  BY <1>1, SubsetInduction
<1> QED
  BY <1>2 DEF Good

\* The sum of quantities is a quantity, and none of them is above it.
LEMMA SumIsNat ==
    ASSUME NEW S, IsFiniteSet(S), NEW f, \A x \in S : f[x] \in Nat
    PROVE  /\ SumFunctionOnSet(f, S) \in Nat
           /\ \A x \in S : f[x] <= SumFunctionOnSet(f, S)
<1> DEFINE Good == {T \in SUBSET S : SumFunctionOnSet(f, T) \in Nat}
<1>1. ASSUME NEW T \in SUBSET S, \A U \in SUBSET T : U # T => U \in Good
      PROVE  T \in Good
  <2>1. CASE T = {}
    BY <2>1, SumEmpty
  <2>2. CASE T # {}
    <3>1. Pick(T) \in T /\ IsFiniteSet(T)
      BY <2>2, PickIsOne, FS_Subset
    <3>2. SumFunctionOnSet(f, T \ {Pick(T)}) \in Nat
      BY <1>1, <3>1
    <3>3. SumFunctionOnSet(f, T) = f[Pick(T)] + SumFunctionOnSet(f, T \ {Pick(T)})
      BY <2>2, <3>1, SumPick
    <3> QED
      BY <3>1, <3>2, <3>3
  <2> QED
    BY <2>1, <2>2
<1> HIDE DEF Good
<1>2. \A T \in SUBSET S : SumFunctionOnSet(f, T) \in Nat
  <2>1. \A T \in SUBSET S : T \in Good
    BY <1>1, SubsetInduction
  <2> QED
    BY <2>1 DEF Good
<1>3. ASSUME NEW x \in S PROVE f[x] <= SumFunctionOnSet(f, S)
  <2>1. SumFunctionOnSet(f, S) = f[x] + SumFunctionOnSet(f, S \ {x})
    BY SumRemove
  <2>2. SumFunctionOnSet(f, S \ {x}) \in Nat
    BY <1>2
  <2> QED
    BY <2>1, <2>2
<1> QED
  BY <1>2, <1>3

LEMMA SumOne == ASSUME NEW x, NEW f, f[x] \in Int PROVE SumFunctionOnSet(f, {x}) = f[x]
<1>1. IsFiniteSet({x})
  BY FS_Singleton
<1>2. SumFunctionOnSet(f, {x}) = f[x] + SumFunctionOnSet(f, {x} \ {x})
  BY <1>1, SumRemove
<1>3. {x} \ {x} = {}
  OBVIOUS
<1>4. SumFunctionOnSet(f, {x}) = f[x] + 0
  BY <1>2, <1>3, SumEmpty
<1> QED
  BY <1>4

-----------------------------------------------------------------------------
(* Sums compared *)

\* What agrees on a set has the same sum over it.
LEMMA SumSame ==
    ASSUME NEW S, IsFiniteSet(S), NEW f, NEW g, \A x \in S : f[x] = g[x]
    PROVE  SumFunctionOnSet(f, S) = SumFunctionOnSet(g, S)
<1> DEFINE Good == {T \in SUBSET S : SumFunctionOnSet(f, T) = SumFunctionOnSet(g, T)}
<1>1. ASSUME NEW T \in SUBSET S, \A U \in SUBSET T : U # T => U \in Good
      PROVE  T \in Good
  <2>1. CASE T = {}
    BY <2>1, SumEmpty
  <2>2. CASE T # {}
    <3>1. Pick(T) \in T /\ IsFiniteSet(T)
      BY <2>2, PickIsOne, FS_Subset
    <3>2. SumFunctionOnSet(f, T \ {Pick(T)}) = SumFunctionOnSet(g, T \ {Pick(T)})
      BY <1>1, <3>1
    <3>3. /\ SumFunctionOnSet(f, T) = f[Pick(T)] + SumFunctionOnSet(f, T \ {Pick(T)})
          /\ SumFunctionOnSet(g, T) = g[Pick(T)] + SumFunctionOnSet(g, T \ {Pick(T)})
      BY <2>2, <3>1, SumPick
    <3>4. f[Pick(T)] = g[Pick(T)]
      BY <3>1
    <3> QED
      BY <3>2, <3>3, <3>4
  <2> QED
    BY <2>1, <2>2
<1> HIDE DEF Good
<1>2. \A T \in SUBSET S : T \in Good
  BY <1>1, SubsetInduction
<1> QED
  BY <1>2 DEF Good

\* The sum of sums.
LEMMA SumAdd ==
    ASSUME NEW S, IsFiniteSet(S), NEW f, NEW g, NEW h,
           \A x \in S : f[x] \in Int /\ g[x] \in Int /\ h[x] = f[x] + g[x]
    PROVE  SumFunctionOnSet(h, S) = SumFunctionOnSet(f, S) + SumFunctionOnSet(g, S)
<1> DEFINE F(T) == SumFunctionOnSet(f, T)
           G(T) == SumFunctionOnSet(g, T)
           H(T) == SumFunctionOnSet(h, T)
           Good == {T \in SUBSET S : H(T) = F(T) + G(T)}
<1>1. ASSUME NEW T \in SUBSET S, \A U \in SUBSET T : U # T => U \in Good
      PROVE  T \in Good
  <2>1. CASE T = {}
    BY <2>1, SumEmpty
  <2>2. CASE T # {}
    <3> DEFINE p == Pick(T)
               u == T \ {p}
    <3>1. p \in T /\ IsFiniteSet(T) /\ IsFiniteSet(u)
      BY <2>2, PickIsOne, FS_Subset
    <3>2. H(u) = F(u) + G(u)
      BY <1>1, <3>1
    <3>3. F(T) = f[p] + F(u) /\ G(T) = g[p] + G(u) /\ H(T) = h[p] + H(u)
      BY <2>2, <3>1, SumPick
    <3>4. f[p] \in Int /\ g[p] \in Int /\ h[p] = f[p] + g[p]
      BY <3>1
    <3>5. F(u) \in Int /\ G(u) \in Int
      BY <3>1, SumIsInt
    <3> HIDE DEF p, u, F, G, H
    <3>6. H(T) = F(T) + G(T)
      BY <3>2, <3>3, <3>4, <3>5
    <3> QED
      BY <3>6
  <2> QED
    BY <2>1, <2>2
<1> HIDE DEF Good
<1>2. \A T \in SUBSET S : T \in Good
  BY <1>1, SubsetInduction
<1> QED
  BY <1>2 DEF Good

\* A sum grows with its terms.
LEMMA SumMono ==
    ASSUME NEW S, IsFiniteSet(S), NEW f, NEW g,
           \A x \in S : f[x] \in Int /\ g[x] \in Int /\ f[x] <= g[x]
    PROVE  SumFunctionOnSet(f, S) <= SumFunctionOnSet(g, S)
<1> DEFINE d == [x \in S |-> g[x] - f[x]]
<1>1. \A x \in S : d[x] \in Nat /\ d[x] \in Int /\ g[x] = f[x] + d[x]
  OBVIOUS
<1> HIDE DEF d
<1>2. SumFunctionOnSet(g, S) = SumFunctionOnSet(f, S) + SumFunctionOnSet(d, S)
  BY <1>1, SumAdd
<1>3. SumFunctionOnSet(d, S) \in Nat
  BY <1>1, SumIsNat
<1>4. SumFunctionOnSet(f, S) \in Int
  BY SumIsInt
<1> QED
  BY <1>2, <1>3, <1>4

LEMMA SumZero ==
    ASSUME NEW S, IsFiniteSet(S), NEW f, \A x \in S : f[x] = 0
    PROVE  SumFunctionOnSet(f, S) = 0
<1>1. /\ SumFunctionOnSet(f, S) = SumFunctionOnSet(f, S) + SumFunctionOnSet(f, S)
  <2>1. \A x \in S : f[x] \in Int /\ f[x] = f[x] + f[x]
    OBVIOUS
  <2> QED
    BY <2>1, SumAdd
<1>2. SumFunctionOnSet(f, S) \in Int
  BY SumIsInt
<1>3. \A a \in Int : a = a + a => a = 0
  OBVIOUS
<1> QED
  BY <1>1, <1>2, <1>3

\* One term has changed.
LEMMA SumChanged ==
    ASSUME NEW S, IsFiniteSet(S), NEW f, NEW g, NEW y \in S,
           \A x \in S : f[x] \in Int /\ g[x] \in Int,
           \A x \in S \ {y} : g[x] = f[x]
    PROVE  SumFunctionOnSet(g, S) = SumFunctionOnSet(f, S) + (g[y] - f[y])
<1> DEFINE u == S \ {y}
<1>1. IsFiniteSet(u) /\ \A x \in u : f[x] \in Int
  BY FS_Subset
<1>2. SumFunctionOnSet(g, u) = SumFunctionOnSet(f, u)
  BY <1>1, SumSame
<1>3. /\ SumFunctionOnSet(f, S) = f[y] + SumFunctionOnSet(f, u)
      /\ SumFunctionOnSet(g, S) = g[y] + SumFunctionOnSet(g, u)
  BY SumRemove
<1>4. SumFunctionOnSet(f, u) \in Int /\ f[y] \in Int /\ g[y] \in Int
  BY <1>1, SumIsInt
<1> HIDE DEF u
<1> QED
  BY <1>2, <1>3, <1>4

\* The sum over two sets that share nothing.
LEMMA SumUnion ==
    ASSUME NEW A, NEW B, IsFiniteSet(A), IsFiniteSet(B), A \intersect B = {}, NEW f,
           \A x \in A \union B : f[x] \in Int
    PROVE  SumFunctionOnSet(f, A \union B)
             = SumFunctionOnSet(f, A) + SumFunctionOnSet(f, B)
<1> DEFINE Sum(T) == SumFunctionOnSet(f, T)
           Good == {T \in SUBSET A : Sum(T \union B) = Sum(T) + Sum(B)}
<1>1. ASSUME NEW T \in SUBSET A, \A U \in SUBSET T : U # T => U \in Good
      PROVE  T \in Good
  <2>1. CASE T = {}
    <3>1. T \union B = B /\ Sum(T) = 0 /\ Sum(B) \in Int
      BY <2>1, SumEmpty, SumIsInt
    <3>2. Sum(T \union B) = Sum(B)
      BY <3>1
    <3> HIDE DEF Sum
    <3>3. Sum(B) = Sum(T) + Sum(B)
      BY <3>1
    <3> QED
      BY <3>2, <3>3
  <2>2. CASE T # {}
    <3> DEFINE p == Pick(T)
               u == T \ {p}
    <3>1. p \in T /\ IsFiniteSet(T) /\ IsFiniteSet(u) /\ IsFiniteSet(T \union B)
      BY <2>2, PickIsOne, FS_Subset, FS_Union
    <3>2. Sum(u \union B) = Sum(u) + Sum(B)
      BY <1>1, <3>1
    <3>3. (T \union B) \ {p} = u \union B
      BY <3>1
    <3>4. Sum(T) = f[p] + Sum(u)
      BY <3>1, SumRemove
    <3>5. Sum(T \union B) = f[p] + Sum((T \union B) \ {p})
      BY <3>1, SumRemove
    <3>6. f[p] \in Int /\ Sum(u) \in Int /\ Sum(B) \in Int
      BY <3>1, SumIsInt
    <3>7. Sum(T \union B) = f[p] + Sum(u \union B)
      BY <3>3, <3>5
    <3> HIDE DEF p, u, Sum
    <3>8. Sum(T \union B) = Sum(T) + Sum(B)
      BY <3>2, <3>4, <3>6, <3>7
    <3> QED
      BY <3>8
  <2> QED
    BY <2>1, <2>2
<1> HIDE DEF Good
<1>2. \A T \in SUBSET A : T \in Good
  BY <1>1, SubsetInduction
<1> QED
  BY <1>2 DEF Good

\* Terms that are zero may be left out.
LEMMA SumWithin ==
    ASSUME NEW S, IsFiniteSet(S), NEW T \in SUBSET S, NEW f,
           \A x \in T : f[x] \in Int, \A x \in S \ T : f[x] = 0
    PROVE  SumFunctionOnSet(f, S) = SumFunctionOnSet(f, T)
<1> DEFINE R == S \ T
<1>1. IsFiniteSet(T) /\ IsFiniteSet(R) /\ T \intersect R = {} /\ T \union R = S
      /\ \A x \in T \union R : f[x] \in Int
  BY FS_Subset
<1>2. SumFunctionOnSet(f, R) = 0
  BY <1>1, SumZero
<1>3. SumFunctionOnSet(f, T) \in Int
  BY <1>1, SumIsInt
<1> HIDE DEF R
<1>4. SumFunctionOnSet(f, S) = SumFunctionOnSet(f, T) + SumFunctionOnSet(f, R)
  BY <1>1, SumUnion
<1> QED
  BY <1>2, <1>3, <1>4

\* Part of a sum of quantities is at most the sum.
LEMMA SumSubset ==
    ASSUME NEW S, IsFiniteSet(S), NEW T \in SUBSET S, NEW f, \A x \in S : f[x] \in Nat
    PROVE  SumFunctionOnSet(f, T) <= SumFunctionOnSet(f, S)
<1> DEFINE R == S \ T
<1>1. IsFiniteSet(T) /\ IsFiniteSet(R) /\ T \intersect R = {} /\ T \union R = S
      /\ \A x \in T \union R : f[x] \in Int
  BY FS_Subset
<1>2. SumFunctionOnSet(f, R) \in Nat /\ SumFunctionOnSet(f, T) \in Nat
  BY <1>1, SumIsNat
<1> HIDE DEF R
<1>3. SumFunctionOnSet(f, S) = SumFunctionOnSet(f, T) + SumFunctionOnSet(f, R)
  BY <1>1, SumUnion
<1> QED
  BY <1>2, <1>3

-----------------------------------------------------------------------------
(* Finite sets of numbers, which a search by id walks in order *)

LEMMA Largest ==
    ASSUME NEW S, IsFiniteSet(S), S \subseteq Nat, S # {}
    PROVE  \E m \in S : \A x \in S : x <= m
<1> DEFINE Good == {T \in SUBSET S : T # {} => \E m \in T : \A x \in T : x <= m}
<1>1. ASSUME NEW T \in SUBSET S, \A U \in SUBSET T : U # T => U \in Good
      PROVE  T \in Good
  <2> SUFFICES ASSUME T # {} PROVE \E m \in T : \A x \in T : x <= m
    OBVIOUS
  <2>1. PICK p \in T : TRUE
    OBVIOUS
  <2>2. T \ {p} \in Good
    BY <1>1
  <2>3. CASE T \ {p} = {}
    BY <2>1, <2>3
  <2>4. CASE T \ {p} # {}
    <3>1. PICK m \in T \ {p} : \A x \in T \ {p} : x <= m
      BY <2>2, <2>4
    <3> QED
      BY <3>1
  <2> QED
    BY <2>3, <2>4
<1> HIDE DEF Good
<1>2. \A T \in SUBSET S : T \in Good
  BY <1>1, SubsetInduction
<1> QED
  BY <1>2 DEF Good

\* A quantity handed on from number to number, each of which keeps at most
\* what reaches it: together they keep at most the quantity.
LEMMA HandedOn ==
    ASSUME NEW S, IsFiniteSet(S), S \subseteq Nat, NEW f, \A x \in S : f[x] \in Int,
           NEW q \in Nat,
           \A x \in S : f[x] <= q - SumFunctionOnSet(f, {y \in S : y < x})
    PROVE  SumFunctionOnSet(f, S) <= q
<1>1. CASE S = {}
  BY <1>1, SumEmpty
<1>2. CASE S # {}
  <2>1. PICK m \in S : \A x \in S : x <= m
    BY <1>2, Largest
  <2> DEFINE R == S \ {m}
  <2>2. R = {y \in S : y < m}
    <3>1. \A y \in S : y < m <=> y # m
      <4>1. \A a, b \in Nat : a <= b => (a < b <=> a # b)
        OBVIOUS
      <4> QED
        BY <2>1, <4>1
    <3> QED
      BY <3>1
  <2>3. SumFunctionOnSet(f, S) = f[m] + SumFunctionOnSet(f, R)
    BY SumRemove
  <2>4. f[m] <= q - SumFunctionOnSet(f, R)
    BY <2>2
  <2>5. f[m] \in Int /\ SumFunctionOnSet(f, R) \in Int
    <3>1. IsFiniteSet(R) /\ \A x \in R : f[x] \in Int
      BY FS_Subset
    <3> QED
      BY <3>1, SumIsInt
  <2> HIDE DEF R
  <2> QED
    BY <2>3, <2>4, <2>5
<1> QED
  BY <1>1, <1>2
=============================================================================
