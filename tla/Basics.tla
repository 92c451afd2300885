-------------------------------- MODULE Basics --------------------------------
(***************************************************************************)
(* What the proofs rest on and no component is about: the sum of a         *)
(* function over a finite set, whichever order SumFunctionOnSet of the     *)
(* community modules takes its elements in; recursive functions of a       *)
(* number of steps; texts that are cut, joined and reordered.              *)
(*                                                                         *)
(* The sum is a recursive function over the subsets of the set.  That such *)
(* a function exists, and every fact that needs an induction, comes from a *)
(* smallest set, or number, that would be a counterexample.                *)
(***************************************************************************)
EXTENDS Texts, FiniteSetTheorems, SequenceTheorems, TLAPS

\* Among the subsets of a finite set some one is smallest in any family.
LEMMA SmallestSet ==
    ASSUME NEW S, IsFiniteSet(S), NEW F, F \subseteq SUBSET S, F # {}
    PROVE  \E m \in F : \A T \in F : T \subseteq m => T = m
<1>1. IsWellFoundedOn(StrictSubsetOrdering(S), SUBSET S)
  BY FS_StrictSubsetOrderingWellFounded, FS_FiniteSubsetsOfFinite
<1>2. PICK m \in F : \A T \in F : ~(<<T, m>> \in StrictSubsetOrdering(S))
  BY <1>1, WFMin
<1>3. ASSUME NEW T \in F, T \subseteq m, T # m PROVE FALSE
  <2>1. <<T, m>> \in StrictSubsetOrdering(S)
    BY <1>3 DEF StrictSubsetOrdering
  <2> QED BY <2>1, <1>2
<1> QED BY <1>3

-----------------------------------------------------------------------------
(* The recursive function.                                                 *)

One(s) == CHOOSE x \in s : TRUE
Rest(s) == s \ {One(s)}

\* g is the function that the definition of the sum of f over S recurs on.
Recurs(g, f, S) == g = [s \in SUBSET S |-> IF s = {} THEN 0 ELSE f[One(s)] + g[Rest(s)]]

LEMMA SumIsRecursive ==
    ASSUME NEW f, NEW S
    PROVE  SumFunctionOnSet(f, S) = (CHOOSE g : Recurs(g, f, S))[S]
BY DEF SumFunctionOnSet, FoldFunctionOnSet, MapThenFoldSet, Recurs, One, Rest

LEMMA RestIsSmaller ==
    ASSUME NEW s, s # {}
    PROVE  One(s) \in s /\ Rest(s) \subseteq s /\ Rest(s) # s
BY DEF One, Rest

LEMMA SumsAt ==
    ASSUME NEW f, NEW S, NEW g, Recurs(g, f, S), NEW s, s \subseteq S
    PROVE  g[s] = IF s = {} THEN 0 ELSE f[One(s)] + g[Rest(s)]
BY DEF Recurs

LEMMA SumsUnique ==
    ASSUME NEW f, NEW S, IsFiniteSet(S), NEW g, Recurs(g, f, S), NEW h, Recurs(h, f, S)
    PROVE  g = h
<1> DEFINE D == {s \in SUBSET S : g[s] # h[s]}
<1>1. CASE D = {}
  BY <1>1 DEF Recurs
<1>2. CASE D # {}
  <2>0. D \subseteq SUBSET S
    OBVIOUS
  <2>1. PICK m \in D : \A T \in D : T \subseteq m => T = m
    <3> HIDE DEF D
    <3> QED BY <1>2, <2>0, SmallestSet
  <2>2. g[m] = (IF m = {} THEN 0 ELSE f[One(m)] + g[Rest(m)])
    BY SumsAt
  <2>3. h[m] = (IF m = {} THEN 0 ELSE f[One(m)] + h[Rest(m)])
    BY SumsAt
  <2>4. m # {} => g[Rest(m)] = h[Rest(m)]
    BY <2>1, RestIsSmaller
  <2> QED BY <2>2, <2>3, <2>4
<1> QED BY <1>1, <1>2

LEMMA SumsRestrict ==
    ASSUME NEW f, NEW S, NEW g, Recurs(g, f, S), NEW T, T \subseteq S
    PROVE  Recurs([s \in SUBSET T |-> g[s]], f, T)
<1> DEFINE r == [s \in SUBSET T |-> g[s]]
<1>1. \A s \in SUBSET T : s # {} => Rest(s) \in SUBSET T
  BY RestIsSmaller
<1>2. \A s \in SUBSET T : g[s] = IF s = {} THEN 0 ELSE f[One(s)] + g[Rest(s)]
  BY SumsAt
<1>3. \A s \in SUBSET T : r[s] = IF s = {} THEN 0 ELSE f[One(s)] + r[Rest(s)]
  BY <1>1, <1>2
<1> QED BY <1>3 DEF Recurs

LEMMA SumsExist ==
    ASSUME NEW f, NEW S, IsFiniteSet(S)
    PROVE  \E g : Recurs(g, f, S)
<1> DEFINE D == {s \in SUBSET S : ~ \E g : Recurs(g, f, s)}
<1>1. CASE D = {}
  BY <1>1
<1>2. CASE D # {}
  <2>0. D \subseteq SUBSET S
    OBVIOUS
  <2>1. PICK m \in D : \A T \in D : T \subseteq m => T = m
    <3> HIDE DEF D
    <3> QED BY <1>2, <2>0, SmallestSet
  <2> DEFINE Of(s) == CHOOSE g : Recurs(g, f, s)
             h == [s \in SUBSET m |-> IF s = {} THEN 0 ELSE f[One(s)] + Of(Rest(s))[Rest(s)]]
  <2>2. \A u : u \subseteq m /\ u # m => Recurs(Of(u), f, u)
    BY <2>1
  <2>3. \A u : u \subseteq m /\ u # m => h[u] = Of(u)[u]
    <3> SUFFICES ASSUME NEW u, u \subseteq m, u # m PROVE h[u] = Of(u)[u]
      OBVIOUS
    <3>1. Of(u)[u] = IF u = {} THEN 0 ELSE f[One(u)] + Of(u)[Rest(u)]
      BY <2>2, SumsAt
    <3>2. u # {} => Of(u)[Rest(u)] = Of(Rest(u))[Rest(u)]
      <4> SUFFICES ASSUME u # {} PROVE Of(u)[Rest(u)] = Of(Rest(u))[Rest(u)]
        OBVIOUS
      <4> DEFINE v == Rest(u)
      <4>1. v \subseteq u /\ v # u
        BY RestIsSmaller
      <4>2. Recurs(Of(v), f, v) /\ Recurs(Of(u), f, u)
        BY <4>1, <2>2
      <4>3. Recurs([s \in SUBSET v |-> Of(u)[s]], f, v)
        BY <4>1, <4>2, SumsRestrict
      <4>4. IsFiniteSet(v)
        BY <4>1, FS_Subset
      <4>5. Of(v) = [s \in SUBSET v |-> Of(u)[s]]
        BY <4>2, <4>3, <4>4, SumsUnique
      <4> QED BY <4>5
    <3> QED BY <3>1, <3>2
  <2>4. \A s \in SUBSET m : h[s] = IF s = {} THEN 0 ELSE f[One(s)] + h[Rest(s)]
    <3> SUFFICES ASSUME NEW s \in SUBSET m
                 PROVE  h[s] = IF s = {} THEN 0 ELSE f[One(s)] + h[Rest(s)]
      OBVIOUS
    <3>1. s # {} => Rest(s) \subseteq m /\ Rest(s) # m
      BY RestIsSmaller
    <3>2. h[s] = IF s = {} THEN 0 ELSE f[One(s)] + Of(Rest(s))[Rest(s)]
      OBVIOUS
    <3> HIDE DEF h, Of
    <3> QED BY <3>1, <3>2, <2>3
  <2>5. Recurs(h, f, m)
    <3>1. h = [s \in SUBSET m |-> h[s]]
      OBVIOUS
    <3> HIDE DEF h
    <3> QED BY <2>4, <3>1 DEF Recurs
  <2> QED BY <2>5
<1> QED BY <1>1, <1>2

-----------------------------------------------------------------------------
(* The sum.                                                                *)

\* The equations that the definition recurs by.
LEMMA SumEmpty == ASSUME NEW f PROVE SumFunctionOnSet(f, {}) = 0
<1>1. Recurs(CHOOSE g : Recurs(g, f, {}), f, {})
  BY SumsExist, FS_EmptySet
<1> QED BY <1>1, SumIsRecursive, SumsAt

LEMMA SumChosen ==
    ASSUME NEW f, NEW S, IsFiniteSet(S), S # {}
    PROVE  SumFunctionOnSet(f, S) = f[One(S)] + SumFunctionOnSet(f, Rest(S))
<1> DEFINE Of(s) == CHOOSE g : Recurs(g, f, s)
           v == Rest(S)
<1>1. v \subseteq S /\ IsFiniteSet(v)
  BY RestIsSmaller, FS_Subset
<1>2. Recurs(Of(v), f, v) /\ Recurs(Of(S), f, S)
  BY <1>1, SumsExist
<1>3. Recurs([s \in SUBSET v |-> Of(S)[s]], f, v)
  BY <1>1, <1>2, SumsRestrict
<1>4. Of(v) = [s \in SUBSET v |-> Of(S)[s]]
  BY <1>1, <1>2, <1>3, SumsUnique
<1>5. Of(S)[S] = f[One(S)] + Of(S)[v]
  BY <1>2, SumsAt
<1> QED BY <1>4, <1>5, SumIsRecursive

\* What is true of the least counterexample among the subsets is true of all.
LEMMA SumType ==
    ASSUME NEW f, NEW S, IsFiniteSet(S), \A x \in S : f[x] \in Int
    PROVE  /\ SumFunctionOnSet(f, S) \in Int
           /\ (\A x \in S : f[x] >= 0) => SumFunctionOnSet(f, S) >= 0
<1> DEFINE Sum(s) == SumFunctionOnSet(f, s)
           Good(s) == Sum(s) \in Int /\ ((\A x \in s : f[x] >= 0) => Sum(s) >= 0)
           D == {s \in SUBSET S : ~Good(s)}
<1>1. CASE D = {}
  BY <1>1
<1>2. CASE D # {}
  <2>0. D \subseteq SUBSET S
    OBVIOUS
  <2>1. PICK m \in D : \A T \in D : T \subseteq m => T = m
    <3> HIDE DEF D
    <3> QED BY <1>2, <2>0, SmallestSet
  <2>2. m \subseteq S /\ IsFiniteSet(m)
    BY FS_Subset
  <2>3. m # {}
    BY SumEmpty
  <2>4. One(m) \in m /\ Rest(m) \subseteq m /\ Rest(m) # m
    BY <2>3, RestIsSmaller
  <2>5. Good(Rest(m))
    BY <2>1, <2>2, <2>4
  <2>6. Sum(m) = f[One(m)] + Sum(Rest(m))
    BY <2>2, <2>3, SumChosen
  <2>7. Good(m)
    <3> HIDE DEF Sum
    <3> QED BY <2>2, <2>4, <2>5, <2>6
  <2> QED BY <2>7
<1> QED BY <1>1, <1>2

\* Any element may be taken out first.
LEMMA SumElement ==
    ASSUME NEW f, NEW S, IsFiniteSet(S), \A x \in S : f[x] \in Int, NEW x \in S
    PROVE  SumFunctionOnSet(f, S) = f[x] + SumFunctionOnSet(f, S \ {x})
<1> DEFINE Sum(s) == SumFunctionOnSet(f, s)
           D == {s \in SUBSET S : \E y \in s : Sum(s) # f[y] + Sum(s \ {y})}
<1>1. CASE D = {}
  BY <1>1
<1>2. CASE D # {}
  <2>0. D \subseteq SUBSET S
    OBVIOUS
  <2>1. PICK m \in D : \A T \in D : T \subseteq m => T = m
    <3> HIDE DEF D
    <3> QED BY <1>2, <2>0, SmallestSet
  <2>2. m \subseteq S /\ IsFiniteSet(m)
    BY FS_Subset
  <2>3. PICK y \in m : Sum(m) # f[y] + Sum(m \ {y})
    OBVIOUS
  <2> DEFINE a == One(m)
             r == Rest(m)
  <2>4. a \in m /\ r = m \ {a} /\ IsFiniteSet(r)
    BY <2>2, FS_Subset, RestIsSmaller DEF Rest
  <2>5. Sum(m) = f[a] + Sum(r)
    BY <2>2, SumChosen
  <2>6. y # a
    BY <2>3, <2>4, <2>5
  <2>7. Sum(r) = f[y] + Sum(r \ {y})
    <3>1. r \subseteq m /\ r # m /\ y \in r
      BY <2>4, <2>6
    <3> HIDE DEF r
    <3>2. r \notin D
      BY <2>1, <3>1
    <3>3. r \in SUBSET S
      BY <2>2, <3>1
    <3> QED BY <3>1, <3>2, <3>3
  <2>8. Sum(m \ {y}) = f[a] + Sum((m \ {y}) \ {a})
    <3>1. m \ {y} \subseteq m /\ m \ {y} # m /\ a \in m \ {y}
      BY <2>4, <2>6
    <3> DEFINE u == m \ {y}
    <3> HIDE DEF u
    <3>2. u \subseteq m /\ u # m /\ a \in u
      BY <3>1 DEF u
    <3>3. u \notin D /\ u \in SUBSET S
      BY <2>1, <2>2, <3>2
    <3>4. Sum(u) = f[a] + Sum(u \ {a})
      BY <3>2, <3>3
    <3> QED BY <3>4 DEF u
  <2>9. (m \ {y}) \ {a} = r \ {y}
    BY <2>4
  <2>10. Sum(r \ {y}) \in Int /\ f[a] \in Int /\ f[y] \in Int
    <3>1. IsFiniteSet(r \ {y}) /\ \A z \in r \ {y} : f[z] \in Int
      BY <2>2, <2>4, FS_Subset
    <3> HIDE DEF r
    <3>2. Sum(r \ {y}) \in Int
      BY <3>1, SumType
    <3> QED BY <2>2, <2>4, <3>2
  <2>11. Sum(m) = f[a] + (f[y] + Sum(r \ {y})) /\ Sum(m \ {y}) = f[a] + Sum(r \ {y})
    BY <2>5, <2>7, <2>8, <2>9
  <2> HIDE DEF Sum, r, a
  <2>12. FALSE
    BY <2>3, <2>10, <2>11
  <2> QED BY <2>12
<1> QED BY <1>1, <1>2

\* Adding an element.
LEMMA SumAdd ==
    ASSUME NEW f, NEW S, IsFiniteSet(S), NEW x, x \notin S,
           \A y \in S \union {x} : f[y] \in Int
    PROVE  SumFunctionOnSet(f, S \union {x}) = SumFunctionOnSet(f, S) + f[x]
<1> DEFINE T == S \union {x}
<1>1. IsFiniteSet(T) /\ x \in T /\ T \ {x} = S
  BY FS_AddElement
<1>2. SumFunctionOnSet(f, T) = f[x] + SumFunctionOnSet(f, T \ {x})
  <2> HIDE DEF T
  <2>1. \A y \in T : f[y] \in Int
    BY DEF T
  <2> QED BY <1>1, <2>1, SumElement
<1>3. SumFunctionOnSet(f, S) \in Int
  BY SumType
<1>4. f[x] \in Int
  OBVIOUS
<1>5. SumFunctionOnSet(f, T) = f[x] + SumFunctionOnSet(f, S)
  BY <1>1, <1>2
<1> QED BY <1>3, <1>4, <1>5

\* A bound on every element, up to a factor, bounds the sum; with the factor
\* one it compares two functions, both ways it makes them equal.
LEMMA SumAtMost ==
    ASSUME NEW f, NEW g, NEW k \in Int, NEW S, IsFiniteSet(S),
           \A x \in S : f[x] \in Int /\ g[x] \in Int /\ f[x] <= k * g[x]
    PROVE  SumFunctionOnSet(f, S) <= k * SumFunctionOnSet(g, S)
<1> DEFINE F(s) == SumFunctionOnSet(f, s)
           G(s) == SumFunctionOnSet(g, s)
           D == {s \in SUBSET S : ~(F(s) <= k * G(s))}
<1>1. CASE D = {}
  BY <1>1
<1>2. CASE D # {}
  <2>0. D \subseteq SUBSET S
    OBVIOUS
  <2>1. PICK m \in D : \A T \in D : T \subseteq m => T = m
    <3> HIDE DEF D
    <3> QED BY <1>2, <2>0, SmallestSet
  <2>2. m \subseteq S /\ IsFiniteSet(m)
    BY FS_Subset
  <2>3. m # {}
    BY SumEmpty
  <2> DEFINE a == One(m)
             r == Rest(m)
  <2>4. a \in m /\ r \subseteq m /\ r # m /\ IsFiniteSet(r)
    BY <2>2, <2>3, RestIsSmaller, FS_Subset
  <2>5. F(r) <= k * G(r)
    BY <2>1, <2>2, <2>4
  <2>6. F(m) = f[a] + F(r) /\ G(m) = g[a] + G(r)
    BY <2>2, <2>3, SumChosen
  <2>7. F(r) \in Int /\ G(r) \in Int
    <3> HIDE DEF r
    <3> QED BY <2>2, <2>4, SumType
  <2>8. f[a] \in Int /\ g[a] \in Int /\ f[a] <= k * g[a]
    BY <2>2, <2>4
  <2> HIDE DEF F, G, a, r
  <2>9. k * (g[a] + G(r)) = k * g[a] + k * G(r)
    BY <2>7, <2>8
  <2>10. k * g[a] \in Int /\ k * G(r) \in Int
    BY <2>7, <2>8
  <2>11. F(m) <= k * G(m)
    BY <2>5, <2>6, <2>7, <2>8, <2>9, <2>10
  <2> QED BY <2>11 DEF F, G
<1> QED BY <1>1, <1>2

LEMMA SumSame ==
    ASSUME NEW f, NEW g, NEW S, IsFiniteSet(S),
           \A x \in S : f[x] \in Int /\ f[x] = g[x]
    PROVE  SumFunctionOnSet(f, S) = SumFunctionOnSet(g, S)
<1>1. /\ SumFunctionOnSet(f, S) <= 1 * SumFunctionOnSet(g, S)
      /\ SumFunctionOnSet(g, S) <= 1 * SumFunctionOnSet(f, S)
  BY SumAtMost
<1>2. SumFunctionOnSet(f, S) \in Int /\ SumFunctionOnSet(g, S) \in Int
  BY SumType
<1> QED BY <1>1, <1>2

\* A part of what is not negative sums to no more than the whole.
LEMMA SumOfPart ==
    ASSUME NEW f, NEW S, IsFiniteSet(S), \A x \in S : f[x] \in Nat, NEW T, T \subseteq S
    PROVE  SumFunctionOnSet(f, T) <= SumFunctionOnSet(f, S)
<1> DEFINE Sum(s) == SumFunctionOnSet(f, s)
           D == {s \in SUBSET S : ~ \A t \in SUBSET s : Sum(t) <= Sum(s)}
<1>1. CASE D = {}
  BY <1>1
<1>2. CASE D # {}
  <2>0. D \subseteq SUBSET S
    OBVIOUS
  <2>1. PICK m \in D : \A U \in D : U \subseteq m => U = m
    <3> HIDE DEF D
    <3> QED BY <1>2, <2>0, SmallestSet
  <2>2. PICK t \in SUBSET m : ~(Sum(t) <= Sum(m))
    OBVIOUS
  <2>3. IsFiniteSet(m) /\ \A x \in m : f[x] \in Int /\ f[x] >= 0
    BY FS_Subset
  <2>4. Sum(m) \in Int /\ Sum(t) \in Int
    BY <2>3, FS_Subset, SumType
  <2>5. PICK x \in m : x \notin t
    <3>1. t # m
      BY <2>2, <2>4
    <3> QED BY <3>1
  <2> DEFINE u == m \ {x}
  <2>6. u \subseteq m /\ u # m /\ t \subseteq u
    BY <2>5
  <2>7. Sum(t) <= Sum(u)
    <3> HIDE DEF u
    <3>1. u \notin D /\ u \in SUBSET S
      BY <2>1, <2>6
    <3> QED BY <2>6, <3>1
  <2>8. Sum(m) = f[x] + Sum(u)
    BY <2>3, SumElement
  <2>9. Sum(u) \in Int
    <3>1. IsFiniteSet(u) /\ \A y \in u : f[y] \in Int
      BY <2>3, FS_Subset
    <3> HIDE DEF u
    <3> QED BY <3>1, SumType
  <2> HIDE DEF Sum, u
  <2> QED BY <2>2, <2>3, <2>4, <2>7, <2>8, <2>9
<1> QED BY <1>1, <1>2

-----------------------------------------------------------------------------
(* Numbers, and steps.                                                     *)

LEMMA LeastNumber ==
  ASSUME NEW S \in SUBSET Nat, S # {}
  PROVE  \E n \in S : \A m \in S : n <= m
<1>1. PICK n \in S : \A m \in S : ~(<<m, n>> \in OpToRel(<, Nat))
  BY NatLessThanWellFounded, WFMin
<1>2. \A m \in S : ~(m < n)
  BY <1>1 DEF OpToRel
<1> QED BY <1>2

\* Steps taken one after the other.
Takes(f, a, G, m) == f[0] = a /\ \A i \in 1..m : f[i] = G[i][f[i - 1]]

LEMMA StepsExist ==
  ASSUME NEW S, NEW a \in S, NEW m \in Nat, NEW G \in [1..m -> [S -> S]]
  PROVE  \E f \in [0..m -> S] : Takes(f, a, G, m)
<1> DEFINE D == {n \in 0..m : ~ \E f \in [0..n -> S] : Takes(f, a, G, n)}
<1>1. CASE D = {}
  <2>1. m \in 0..m
    OBVIOUS
  <2> QED BY <1>1, <2>1
<1>2. CASE D # {}
  <2>1. D \in SUBSET Nat
    OBVIOUS
  <2>2. PICK n \in D : \A k \in D : n <= k
    <3> HIDE DEF D
    <3> QED BY <1>2, <2>1, LeastNumber
  <2>3. n \in 0..m /\ n \in Nat
    OBVIOUS
  <2>4. CASE n = 0
    <3> DEFINE f == [i \in 0..0 |-> a]
    <3>1. f \in [0..0 -> S] /\ f[0] = a
      OBVIOUS
    <3> HIDE DEF f
    <3>2. Takes(f, a, G, 0)
      BY <3>1 DEF Takes
    <3> QED BY <2>4, <3>1, <3>2
  <2>5. CASE n # 0
    <3>1. n - 1 \in 0..m /\ ~(n <= n - 1) /\ n \in 1..m
      BY <2>3, <2>5
    <3>2. PICK g \in [0..(n - 1) -> S] : Takes(g, a, G, n - 1)
      <4>1. n - 1 \notin D
        BY <2>2, <3>1
      <4> QED BY <3>1, <4>1
    <3> DEFINE h == [i \in 0..n |-> IF i = n THEN G[n][g[n - 1]] ELSE g[i]]
    <3>3. g[n - 1] \in S /\ G[n][g[n - 1]] \in S
      <4>1. n - 1 \in 0..(n - 1)
        BY <3>1
      <4>2. g[n - 1] \in S
        BY <4>1
      <4> QED BY <3>1, <4>2
    <3>4. \A i \in 0..n : i # n => i \in 0..(n - 1)
      BY <2>3
    <3>5. h \in [0..n -> S]
      BY <3>3, <3>4
    <3>6. h[0] = a
      BY <2>3, <2>5, <3>2 DEF Takes
    <3>7. ASSUME NEW i \in 1..n PROVE h[i] = G[i][h[i - 1]]
      <4>1. i \in 0..n /\ i - 1 \in 0..n /\ i - 1 # n
        BY <2>3
      <4>2. h[i - 1] = g[i - 1]
        BY <4>1
      <4>3. CASE i = n
        BY <4>1, <4>2, <4>3
      <4>4. CASE i # n
        <5>1. i \in 1..(n - 1)
          BY <2>3, <4>4
        <5>2. g[i] = G[i][g[i - 1]]
          BY <3>2, <5>1 DEF Takes
        <5> QED BY <4>1, <4>2, <4>4, <5>2
      <4> QED BY <4>3, <4>4
    <3> HIDE DEF h
    <3>8. Takes(h, a, G, n)
      BY <3>6, <3>7 DEF Takes
    <3> QED BY <3>5, <3>8
  <2> QED BY <2>4, <2>5
<1> QED BY <1>1, <1>2

-----------------------------------------------------------------------------
(* Texts by their characters.                                              *)

LEMMA TextIs ==
  ASSUME NEW t \in Text
  PROVE  /\ Len(t) \in Nat /\ DOMAIN t = 1..Len(t) /\ \A i \in 1..Len(t) : t[i] \in Int
         /\ t = <<>> <=> Len(t) = 0
<1>1. t \in Seq(Int)
  BY DEF Text
<1>2. Len(t) \in Nat /\ DOMAIN t = 1..Len(t) /\ \A i \in 1..Len(t) : t[i] \in Int
  BY <1>1, LenProperties, ElementOfSeq
<1>3. t = <<>> <=> Len(t) = 0
  BY <1>1, <1>2, EmptySeq
<1> QED BY <1>2, <1>3

LEMMA SameTexts ==
  ASSUME NEW a \in Text, NEW b \in Text, Len(a) = Len(b), \A i \in 1..Len(a) : a[i] = b[i]
  PROVE  a = b
BY SeqEqual DEF Text

\* A cut of a text, from after the k-th character to the n-th.
LEMMA CutIs ==
  ASSUME NEW t \in Text, NEW k \in 0..Len(t), NEW n \in k..Len(t)
  PROVE  /\ SubSeq(t, k + 1, n) \in Text
         /\ Len(SubSeq(t, k + 1, n)) = n - k
         /\ \A i \in 1..n - k : SubSeq(t, k + 1, n)[i] = t[k + i]
<1>1. Len(t) \in Nat /\ k \in Int /\ n \in Int /\ k + 1 \in Int /\ k <= n /\ k >= 0 /\ n <= Len(t)
  BY TextIs
<1>2. \A i \in (k + 1)..n : t[i] \in Int
  BY <1>1, TextIs
<1>3. /\ SubSeq(t, k + 1, n) \in Seq(Int)
      /\ Len(SubSeq(t, k + 1, n)) = IF k + 1 <= n THEN n - (k + 1) + 1 ELSE 0
      /\ \A i \in 1..(n - (k + 1) + 1) : SubSeq(t, k + 1, n)[i] = t[(k + 1) + i - 1]
  BY <1>1, <1>2, SubSeqProperties
<1>4. n - (k + 1) + 1 = n - k /\ \A i \in Int : (k + 1) + i - 1 = k + i
  BY <1>1
<1> QED BY <1>1, <1>3, <1>4 DEF Text

LEMMA JoinIs ==
  ASSUME NEW a \in Text, NEW b \in Text
  PROVE  /\ a \o b \in Text /\ Len(a \o b) = Len(a) + Len(b)
         /\ \A i \in 1..Len(a) : (a \o b)[i] = a[i]
         /\ \A i \in 1..Len(b) : (a \o b)[Len(a) + i] = b[i]
<1>1. a \in Seq(Int) /\ b \in Seq(Int) /\ Len(a) \in Nat /\ Len(b) \in Nat
  BY TextIs DEF Text
<1>2. /\ a \o b \in Seq(Int) /\ Len(a \o b) = Len(a) + Len(b)
      /\ \A i \in 1..Len(a) + Len(b) :
             (a \o b)[i] = IF i <= Len(a) THEN a[i] ELSE b[i - Len(a)]
  BY <1>1, ConcatProperties
<1>3. \A i \in 1..Len(a) : i \in 1..Len(a) + Len(b) /\ i <= Len(a)
  BY <1>1
<1>4. \A i \in 1..Len(b) : /\ Len(a) + i \in 1..Len(a) + Len(b) /\ ~(Len(a) + i <= Len(a))
                           /\ (Len(a) + i) - Len(a) = i
  BY <1>1
<1> QED BY <1>2, <1>3, <1>4 DEF Text

LEMMA OneChar ==
  ASSUME NEW c \in Int
  PROVE  <<c>> \in Text /\ Len(<<c>>) = 1 /\ <<c>>[1] = c
BY DEF Text

LEMMA NoChars == <<>> \in Text /\ Len(<<>>) = 0
BY DEF Text

LEMMA AllIn ==
  ASSUME NEW t \in Text, NEW S
  PROVE  ToSet(t) \subseteq S <=> \A i \in 1..Len(t) : t[i] \in S
BY TextIs DEF ToSet

LEMMA TailIs ==
  ASSUME NEW t \in Text, t # <<>>
  PROVE  /\ Tail(t) \in Text /\ Len(Tail(t)) = Len(t) - 1 /\ Len(t) - 1 \in Nat
         /\ \A i \in 1..Len(t) - 1 : Tail(t)[i] = t[i + 1]
         /\ Head(t) = t[1]
<1>1. t \in Seq(Int)
  BY DEF Text
<1>2. /\ Tail(t) \in Seq(Int) /\ Len(Tail(t)) = Len(t) - 1
      /\ \A i \in 1..Len(Tail(t)) : Tail(t)[i] = t[i + 1]
  BY <1>1, HeadTailProperties
<1>3. Len(t) - 1 \in Nat
  BY TextIs
<1> QED BY <1>1, <1>2, <1>3 DEF Text

LEMMA SplitIs ==
  ASSUME NEW t \in Text, NEW n \in 0..Len(t)
  PROVE  /\ SubSeq(t, 1, n) \in Text /\ Len(SubSeq(t, 1, n)) = n
         /\ \A i \in 1..n : SubSeq(t, 1, n)[i] = t[i]
         /\ SubSeq(t, n + 1, Len(t)) \in Text /\ Len(SubSeq(t, n + 1, Len(t))) = Len(t) - n
         /\ \A i \in 1..Len(t) - n : SubSeq(t, n + 1, Len(t))[i] = t[n + i]
         /\ t = SubSeq(t, 1, n) \o SubSeq(t, n + 1, Len(t))
<1>1. /\ Len(t) \in Nat /\ 0 \in 0..Len(t) /\ n - 0 = n /\ 0 + 1 = 1 /\ \A i \in 1..n : 0 + i = i
      /\ n \in 0..Len(t) /\ Len(t) \in n..Len(t)
  BY TextIs
<1>2. /\ SubSeq(t, 1, n) \in Text /\ Len(SubSeq(t, 1, n)) = n
      /\ \A i \in 1..n : SubSeq(t, 1, n)[i] = t[i]
  BY <1>1, CutIs
<1>3. /\ SubSeq(t, n + 1, Len(t)) \in Text /\ Len(SubSeq(t, n + 1, Len(t))) = Len(t) - n
      /\ \A i \in 1..Len(t) - n : SubSeq(t, n + 1, Len(t))[i] = t[n + i]
  BY <1>1, CutIs
<1> DEFINE a == SubSeq(t, 1, n)
           b == SubSeq(t, n + 1, Len(t))
<1>4. a \in Text /\ Len(a) = n /\ b \in Text /\ Len(b) = Len(t) - n
  BY <1>2, <1>3
<1>5. /\ a \o b \in Text /\ Len(a \o b) = Len(a) + Len(b)
      /\ \A i \in 1..Len(a) : (a \o b)[i] = a[i]
      /\ \A i \in 1..Len(b) : (a \o b)[Len(a) + i] = b[i]
  <2> HIDE DEF a, b
  <2> QED BY <1>4, JoinIs
<1>6. ASSUME NEW i \in 1..Len(t) PROVE (a \o b)[i] = t[i]
  <2>1. CASE i <= n
    <3>1. i \in 1..n
      BY <1>1, <2>1
    <3> QED BY <1>2, <1>4, <1>5, <3>1
  <2>2. CASE ~(i <= n)
    <3>1. i - n \in 1..Len(t) - n /\ n + (i - n) = i
      BY <1>1, <2>2
    <3>2. b[i - n] = t[i]
      BY <1>3, <3>1
    <3>3. (a \o b)[n + (i - n)] = b[i - n]
      <4> HIDE DEF a, b
      <4> QED BY <1>4, <1>5, <3>1
    <3> QED BY <3>1, <3>2, <3>3
  <2> QED BY <2>1, <2>2
<1>7. t = a \o b
  <2>1. Len(a \o b) = Len(t)
    <3> HIDE DEF a, b
    <3> QED BY <1>1, <1>4, <1>5
  <2> HIDE DEF a, b
  <2> QED BY <1>5, <1>6, <2>1, SameTexts
<1> QED BY <1>2, <1>3, <1>7

\* What was joined comes apart again.
LEMMA JoinCut ==
  ASSUME NEW a \in Text, NEW b \in Text
  PROVE  /\ SubSeq(a \o b, 1, Len(a)) = a
         /\ SubSeq(a \o b, Len(a) + 1, Len(a \o b)) = b
<1> DEFINE t == a \o b
<1>1. /\ t \in Text /\ Len(t) = Len(a) + Len(b)
      /\ \A i \in 1..Len(a) : t[i] = a[i]
      /\ \A i \in 1..Len(b) : t[Len(a) + i] = b[i]
  BY JoinIs
<1>2. Len(a) \in Nat /\ Len(b) \in Nat
  BY TextIs
<1> HIDE DEF t
<1>3. Len(a) \in 0..Len(t) /\ Len(t) - Len(a) = Len(b)
  BY <1>1, <1>2
<1>4. /\ SubSeq(t, 1, Len(a)) \in Text /\ Len(SubSeq(t, 1, Len(a))) = Len(a)
      /\ \A i \in 1..Len(a) : SubSeq(t, 1, Len(a))[i] = t[i]
  BY <1>1, <1>3, SplitIs
<1>5. /\ SubSeq(t, Len(a) + 1, Len(t)) \in Text /\ Len(SubSeq(t, Len(a) + 1, Len(t))) = Len(b)
      /\ \A i \in 1..Len(b) : SubSeq(t, Len(a) + 1, Len(t))[i] = t[Len(a) + i]
  <2>1. /\ SubSeq(t, Len(a) + 1, Len(t)) \in Text
        /\ Len(SubSeq(t, Len(a) + 1, Len(t))) = Len(t) - Len(a)
        /\ \A i \in 1..Len(t) - Len(a) : SubSeq(t, Len(a) + 1, Len(t))[i] = t[Len(a) + i]
    BY <1>1, <1>3, SplitIs
  <2> QED BY <1>3, <2>1
<1>6. SubSeq(t, 1, Len(a)) = a
  BY <1>1, <1>4, SameTexts
<1>7. SubSeq(t, Len(a) + 1, Len(t)) = b
  <2>1. \A i \in 1..Len(b) : SubSeq(t, Len(a) + 1, Len(t))[i] = b[i]
    BY <1>1, <1>5
  <2> QED BY <1>5, <2>1, SameTexts
<1> QED BY <1>6, <1>7 DEF t

LEMMA TailOfJoin ==
  ASSUME NEW c \in Int, NEW t \in Text
  PROVE  /\ <<c>> \o t \in Text /\ Len(<<c>> \o t) = 1 + Len(t) /\ <<c>> \o t # <<>>
         /\ Tail(<<c>> \o t) = t /\ Head(<<c>> \o t) = c /\ (<<c>> \o t)[1] = c
         /\ \A i \in 1..Len(t) : (<<c>> \o t)[1 + i] = t[i]
<1> DEFINE u == <<c>> \o t
<1>1. <<c>> \in Text /\ Len(<<c>>) = 1 /\ <<c>>[1] = c
  BY OneChar
<1>2. /\ u \in Text /\ Len(u) = 1 + Len(t)
      /\ u[1] = c
      /\ \A i \in 1..Len(t) : u[1 + i] = t[i]
  BY <1>1, JoinIs
<1> HIDE DEF u
<1>3. Len(t) \in Nat /\ u # <<>>
  BY <1>2, TextIs
<1>4. /\ Tail(u) \in Text /\ Len(Tail(u)) = Len(u) - 1
      /\ \A i \in 1..Len(u) - 1 : Tail(u)[i] = u[i + 1]
      /\ Head(u) = u[1]
  BY <1>2, <1>3, TailIs
<1>5. Len(u) - 1 = Len(t) /\ \A i \in 1..Len(t) : i + 1 = 1 + i
  BY <1>2, <1>3
<1>6. Len(Tail(u)) = Len(t)
  BY <1>4, <1>5
<1>7. \A i \in 1..Len(t) : Tail(u)[i] = t[i]
  BY <1>2, <1>4, <1>5
<1>8. Tail(u) = t
  BY <1>4, <1>6, <1>7, SameTexts
<1> QED BY <1>2, <1>3, <1>4, <1>8 DEF u

LEMMA JoinAssoc ==
  ASSUME NEW a \in Text, NEW b \in Text, NEW c \in Text
  PROVE  (a \o b) \o c = a \o (b \o c)
BY ConcatAssociative DEF Text

LEMMA NothingJoined ==
  ASSUME NEW t \in Text
  PROVE  <<>> \o t = t /\ t \o <<>> = t
BY ConcatEmptySeq DEF Text

-----------------------------------------------------------------------------
(* Texts joined, from the first on and from the last back.                 *)

\* The function that FlattenSeq recurs by.
Flattening(f, list) ==
    f = [i \in 1..Len(list) |-> IF i = 1 THEN list[i] ELSE f[i - 1] \o list[i]]

LEMMA TextsList ==
  ASSUME NEW k \in Nat, NEW list \in [1..k -> Text]
  PROVE  Len(list) = k /\ list \in Seq(Text) /\ (k = 0 => list = <<>>)
<1>1. list \in Seq(Text)
  OBVIOUS
<1>2. Len(list) = k
  BY <1>1, LenProperties
<1>3. k = 0 => list = <<>>
  BY <1>1, <1>2, EmptySeq
<1> QED BY <1>1, <1>2, <1>3

LEMMA FlattenForth ==
  ASSUME NEW k \in Nat, NEW list \in [1..k -> Text]
  PROVE  \E g \in [0..k -> Text] :
             /\ g[0] = <<>> /\ \A i \in 1..k : g[i] = g[i - 1] \o list[i]
             /\ FlattenSeq(list) = g[k]
<1> DEFINE G == [i \in 1..k |-> [x \in Text |-> x \o list[i]]]
           c == CHOOSE f : Flattening(f, list)
<1>1. Len(list) = k /\ (k = 0 => list = <<>>) /\ <<>> \in Text
  BY TextsList, NoChars
<1>2. \A i \in 1..k : \A x \in Text : x \o list[i] \in Text
  BY JoinIs
<1>3. G \in [1..k -> [Text -> Text]]
  BY <1>2
<1>4. PICK g \in [0..k -> Text] : Takes(g, <<>>, G, k)
  <2> DEFINE none == <<>>
  <2>1. none \in Text
    BY <1>1
  <2> HIDE DEF G, none
  <2>2. \E g \in [0..k -> Text] : Takes(g, none, G, k)
    BY <2>1, <1>3, StepsExist
  <2> QED BY <2>2 DEF none
<1>5. g[0] = <<>> /\ \A i \in 1..k : g[i] = g[i - 1] \o list[i]
  <2>1. ASSUME NEW i \in 1..k PROVE g[i - 1] \in Text
    <3>1. i - 1 \in 0..k
      OBVIOUS
    <3>2. \A n \in 0..k : g[n] \in Text
      OBVIOUS
    <3> QED BY <3>1, <3>2
  <2>2. \A i \in 1..k : \A x \in Text : G[i][x] = x \o list[i]
    OBVIOUS
  <2> HIDE DEF G
  <2> QED BY <1>4, <2>1, <2>2 DEF Takes
<1>6. FlattenSeq(list) = IF k = 0 THEN list ELSE c[k]
  BY <1>1 DEF FlattenSeq, Flattening
<1>7. CASE k = 0
  BY <1>1, <1>5, <1>6, <1>7
<1>8. CASE k # 0
  <2> DEFINE f == [i \in 1..k |-> g[i]]
  <2>1. \A i \in 1..k : g[i] = IF i = 1 THEN list[i] ELSE g[i - 1] \o list[i]
    <3> SUFFICES ASSUME NEW i \in 1..k
                 PROVE  g[i] = IF i = 1 THEN list[i] ELSE g[i - 1] \o list[i]
      OBVIOUS
    <3>1. g[i] = g[i - 1] \o list[i]
      BY <1>5
    <3>2. i = 1 => g[i - 1] = <<>>
      BY <1>5
    <3>3. <<>> \o list[i] = list[i]
      BY NothingJoined
    <3> QED BY <3>1, <3>2, <3>3
  <2>2. f = [i \in 1..k |-> IF i = 1 THEN list[i] ELSE f[i - 1] \o list[i]]
    <3>1. \A i \in 1..k : f[i] = g[i] /\ (i # 1 => i - 1 \in 1..k)
      OBVIOUS
    <3>2. \A i \in 1..k : f[i] = IF i = 1 THEN list[i] ELSE f[i - 1] \o list[i]
      <4> HIDE DEF f
      <4> QED BY <2>1, <3>1
    <3>3. f = [i \in 1..k |-> f[i]]
      OBVIOUS
    <3> HIDE DEF f
    <3> QED BY <3>2, <3>3
  <2>3. Flattening(f, list)
    <3> HIDE DEF f
    <3> QED BY <1>1, <2>2 DEF Flattening
  <2>4. Flattening(c, list)
    <3> HIDE DEF f
    <3> QED BY <2>3
  <2> HIDE DEF c, f, G
  <2>5. \A i \in 1..k : c[i] = IF i = 1 THEN list[i] ELSE c[i - 1] \o list[i]
    BY <1>1, <2>4 DEF Flattening
  <2> DEFINE D == {i \in 1..k : c[i] # g[i]}
  <2>6. D = {}
    <3> SUFFICES ASSUME D # {} PROVE FALSE
      OBVIOUS
    <3>1. PICK n \in D : \A i \in D : n <= i
      <4>1. D \in SUBSET Nat
        OBVIOUS
      <4> HIDE DEF D
      <4> QED BY <4>1, LeastNumber
    <3>2. n \in 1..k /\ c[n] # g[n]
      OBVIOUS
    <3>3. n # 1
      BY <2>1, <2>5, <3>2
    <3>4. n - 1 \in 1..k /\ ~(n <= n - 1)
      BY <3>2, <3>3
    <3>5. c[n - 1] = g[n - 1]
      BY <3>1, <3>4
    <3> HIDE DEF D
    <3> QED BY <2>1, <2>5, <3>2, <3>3, <3>5
  <2>7. k \in 1..k
    BY <1>8
  <2> QED BY <1>5, <1>6, <1>8, <2>6, <2>7
<1> QED BY <1>7, <1>8

LEMMA FlattenBack ==
  ASSUME NEW k \in Nat, NEW list \in [1..k -> Text]
  PROVE  \E r \in [0..k -> Text] :
             /\ r[k] = <<>> /\ \A i \in 1..k : r[i - 1] = list[i] \o r[i]
             /\ FlattenSeq(list) = r[0]
<1>1. PICK g \in [0..k -> Text] :
          /\ g[0] = <<>> /\ \A i \in 1..k : g[i] = g[i - 1] \o list[i]
          /\ FlattenSeq(list) = g[k]
  BY FlattenForth
<1> DEFINE G == [i \in 1..k |-> [x \in Text |-> list[(k - i) + 1] \o x]]
<1>2. \A i \in 1..k : (k - i) + 1 \in 1..k
  OBVIOUS
<1>3. \A i \in 1..k : \A x \in Text : list[(k - i) + 1] \o x \in Text
  BY <1>2, JoinIs
<1>4. G \in [1..k -> [Text -> Text]]
  BY <1>3
<1>5. PICK q \in [0..k -> Text] : Takes(q, <<>>, G, k)
  <2> HIDE DEF G
  <2> QED BY <1>4, StepsExist, NoChars
<1>6. q[0] = <<>> /\ \A i \in 1..k : q[i] = list[(k - i) + 1] \o q[i - 1]
  <2>1. \A i \in 1..k : q[i - 1] \in Text
    <3>1. \A i \in 1..k : i - 1 \in 0..k
      OBVIOUS
    <3> QED BY <3>1
  <2>2. \A i \in 1..k : \A x \in Text : G[i][x] = list[(k - i) + 1] \o x
    OBVIOUS
  <2> HIDE DEF G
  <2> QED BY <1>5, <2>1, <2>2 DEF Takes
<1> HIDE DEF G
<1> DEFINE r == [i \in 0..k |-> q[k - i]]
<1>7. r \in [0..k -> Text] /\ \A i \in 0..k : r[i] = q[k - i]
  OBVIOUS
<1> HIDE DEF r
<1>8. r[k] = <<>>
  <2>1. k \in 0..k /\ k - k = 0
    OBVIOUS
  <2> QED BY <1>6, <1>7, <2>1
<1>9. ASSUME NEW i \in 1..k PROVE r[i - 1] = list[i] \o r[i]
  <2> DEFINE j == (k - i) + 1
  <2>1. j \in 1..k /\ (k - j) + 1 = i /\ k - (i - 1) = j /\ j - 1 = k - i /\ i \in 0..k /\ i - 1 \in 0..k
    OBVIOUS
  <2> HIDE DEF j
  <2>2. q[j] = list[(k - j) + 1] \o q[j - 1]
    BY <1>6, <2>1
  <2>3. r[i - 1] = q[k - (i - 1)] /\ r[i] = q[k - i]
    BY <1>7, <2>1
  <2> QED BY <2>1, <2>2, <2>3
<1> DEFINE D == {i \in 0..k : g[i] \o r[i] # g[k]}
           E == {j \in Nat : k - j \in D}
<1>10. D = {}
  <2> SUFFICES ASSUME D # {} PROVE FALSE
    OBVIOUS
  <2>1. E # {} /\ E \in SUBSET Nat
    <3>1. PICK i \in D : TRUE
      OBVIOUS
    <3>2. i \in 0..k
      OBVIOUS
    <3>3. k - i \in Nat /\ k - (k - i) = i
      BY <3>2
    <3> HIDE DEF D
    <3> QED BY <3>1, <3>3
  <2>2. PICK j \in E : \A n \in E : j <= n
    <3> HIDE DEF E
    <3> QED BY <2>1, LeastNumber
  <2>3. j \in Nat /\ k - j \in 0..k /\ g[k - j] \o r[k - j] # g[k]
    OBVIOUS
  <2>4. j # 0
    <3>1. k - 0 = k
      OBVIOUS
    <3>2. g[k] \o <<>> = g[k]
      BY NothingJoined
    <3> QED BY <1>8, <2>3, <3>1, <3>2
  <2> DEFINE i == k - j + 1
  <2>5. i \in 1..k /\ i - 1 = k - j /\ i = k - (j - 1) /\ j - 1 \in Nat /\ ~(j <= j - 1) /\ i \in 0..k
    BY <2>3, <2>4
  <2> HIDE DEF i
  <2>6. g[i] \o r[i] = g[k]
    <3>1. j - 1 \notin E
      BY <2>2, <2>5
    <3> QED BY <2>5, <3>1
  <2> HIDE DEF D, E
  <2>7. g[i - 1] \in Text /\ r[i] \in Text /\ list[i] \in Text
    <3>1. i - 1 \in 0..k
      BY <2>5
    <3> QED BY <1>7, <2>5, <3>1
  <2>8. (g[i - 1] \o list[i]) \o r[i] = g[i - 1] \o (list[i] \o r[i])
    BY <2>7, JoinAssoc
  <2>9. g[i] = g[i - 1] \o list[i] /\ r[i - 1] = list[i] \o r[i]
    BY <1>1, <1>9, <2>5
  <2>10. g[i - 1] \o r[i - 1] = g[k]
    BY <2>6, <2>8, <2>9
  <2> QED BY <2>3, <2>5, <2>10
<1>11. r[0] = g[k]
  <2>1. 0 \in 0..k
    OBVIOUS
  <2>2. g[0] \o r[0] = g[k]
    BY <1>10, <2>1
  <2>3. <<>> \o r[0] = r[0]
    BY <1>7, <2>1, NothingJoined
  <2> QED BY <1>1, <2>2, <2>3
<1> QED BY <1>1, <1>7, <1>8, <1>9, <1>11

\* A sequence cut in two.
LEMMA CutInTwo ==
  ASSUME NEW S, NEW seq \in Seq(S), NEW n \in 1..Len(seq)
  PROVE  /\ SubSeq(seq, 1, n) \in Seq(S) /\ Len(SubSeq(seq, 1, n)) = n
         /\ \A i \in 1..n : SubSeq(seq, 1, n)[i] = seq[i]
         /\ SubSeq(seq, n + 1, Len(seq)) \in Seq(S)
         /\ Len(SubSeq(seq, n + 1, Len(seq))) = Len(seq) - n
         /\ \A i \in 1..(Len(seq) - n) : SubSeq(seq, n + 1, Len(seq))[i] = seq[n + i]
<1>1. /\ Len(seq) \in Nat /\ n \in Int /\ 1 <= n /\ n <= Len(seq)
      /\ \A i \in 1..Len(seq) : seq[i] \in S
  BY ElementOfSeq, LenProperties
<1>2. /\ SubSeq(seq, 1, n) \in Seq(S)
      /\ Len(SubSeq(seq, 1, n)) = IF 1 <= n THEN n - 1 + 1 ELSE 0
      /\ \A i \in 1..(n - 1 + 1) : SubSeq(seq, 1, n)[i] = seq[1 + i - 1]
  <2>1. \A i \in 1..n : seq[i] \in S
    BY <1>1
  <2> QED BY <1>1, <2>1, SubSeqProperties
<1>3. /\ SubSeq(seq, n + 1, Len(seq)) \in Seq(S)
      /\ Len(SubSeq(seq, n + 1, Len(seq)))
            = IF n + 1 <= Len(seq) THEN Len(seq) - (n + 1) + 1 ELSE 0
      /\ \A i \in 1..(Len(seq) - (n + 1) + 1) :
             SubSeq(seq, n + 1, Len(seq))[i] = seq[n + 1 + i - 1]
  <2>1. \A i \in (n + 1)..Len(seq) : seq[i] \in S
    BY <1>1
  <2> QED BY <1>1, <2>1, SubSeqProperties
<1> QED BY <1>1, <1>2, <1>3

\* A sequence in another order has the same elements, as often.
LEMMA ReorderedIs ==
  ASSUME NEW S, NEW seq \in Seq(S), NEW s \in Reorderings(seq)
  PROVE  /\ s \in Seq(S) /\ Len(s) = Len(seq) /\ ToSet(s) = ToSet(seq)
         /\ IsInjective(seq) => IsInjective(s)
<1> DEFINE n == Len(seq)
<1>1. n \in Nat /\ DOMAIN seq = 1..n /\ \A i \in 1..n : seq[i] \in S
  BY ElementOfSeq, LenProperties
<1>2. PICK p \in [1..n -> 1..n] : IsInjective(p) /\ s = [i \in 1..n |-> seq[p[i]]]
  BY <1>1 DEF Reorderings
<1> HIDE DEF n
<1>3. s \in [1..n -> S]
  BY <1>1, <1>2
<1>4. s \in Seq(S) /\ Len(s) = n
  BY <1>1, <1>3
<1>5. p \in Surjection(1..n, 1..n)
  <2>1. IsFiniteSet(1..n)
    BY <1>1, FS_Interval
  <2> QED BY <1>2, <2>1, FS_Injection DEF Injection
<1>6. ToSet(s) = ToSet(seq)
  BY <1>1, <1>2, <1>5 DEF ToSet, Surjection
<1>7. IsInjective(seq) => IsInjective(s)
  BY <1>1, <1>2 DEF IsInjective
<1> QED BY <1>4, <1>6, <1>7 DEF n

LEMMA SetToSeqIs ==
  ASSUME NEW S, IsFiniteSet(S)
  PROVE  /\ SetToSeq(S) \in Seq(S) /\ Len(SetToSeq(S)) = Cardinality(S)
         /\ IsInjective(SetToSeq(S)) /\ ToSet(SetToSeq(S)) = S
<1> DEFINE c == Cardinality(S)
           f == SetToSeq(S)
<1>1. c \in Nat /\ IsFiniteSet(1..c) /\ Cardinality(1..c) = c
  <2>1. c \in Nat
    BY FS_CardinalityType
  <2> HIDE DEF c
  <2> QED BY <2>1, FS_Interval
<1>2. f \in [1..c -> S] /\ IsInjective(f)
  <2>1. \E g \in [1..c -> S] : IsInjective(g)
    BY FS_CardinalityType DEF ExistsBijection, Bijection, Injection
  <2> QED BY <2>1 DEF SetToSeq
<1> HIDE DEF f
<1>3. f \in Surjection(1..c, S)
  BY <1>1, <1>2, FS_Injection DEF Injection
<1>4. f \in Seq(S) /\ Len(f) = c /\ DOMAIN f = 1..c
  <2> HIDE DEF c
  <2> QED BY <1>1, <1>2
<1>5. ToSet(f) = S
  BY <1>3, <1>4 DEF ToSet, Surjection
<1> QED BY <1>2, <1>4, <1>5 DEF f
=============================================================================
