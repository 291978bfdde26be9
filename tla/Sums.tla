-------------------------------- MODULE Sums --------------------------------
(***************************************************************************)
(* Facts about sums over finite sets of indices, SumFunctionOnSet, with    *)
(* which the amounts of deals are added up.  The library defines the sum   *)
(* as the value of a function given by recursion over subsets.  That such  *)
(* a function exists is shown here; induction over the subsets of a finite *)
(* set is the choice of a minimal one, WFMin.                              *)
(***************************************************************************)
EXTENDS Integers, Functions, FiniteSets, FiniteSetTheorems, TLAPS

LEMMA MinimalSubset ==
  ASSUME NEW S, IsFiniteSet(S), NEW T, T \subseteq SUBSET S, T # {}
  PROVE  \E m \in T : \A k \in T : k \subseteq m => k = m
  <1>1. IsWellFoundedOn(StrictSubsetOrdering(S), SUBSET S)
    BY FS_StrictSubsetOrderingWellFounded, FS_FiniteSubsetsOfFinite
  <1>2. \E m \in T : \A k \in T : ~(<<k, m>> \in StrictSubsetOrdering(S))
    BY <1>1, WFMin
  <1> QED BY <1>2 DEF StrictSubsetOrdering

-----------------------------------------------------------------------------
(* The recursion behind the sum.                                           *)

First(s) == CHOOSE x \in s : TRUE
Rest(s) == s \ {First(s)}

SumStep(f, g, s) == IF s = {} THEN 0 ELSE f[First(s)] + g[Rest(s)]

Obeys(f, g, S) == \A s \in SUBSET S : g[s] = SumStep(f, g, s)

PartialSums(f, S) == {g \in [SUBSET S -> Int] : Obeys(f, g, S)}

LEMMA FirstInside ==
  ASSUME NEW s, s # {}
  PROVE  First(s) \in s /\ Rest(s) \subseteq s /\ Rest(s) # s
  BY DEF First, Rest

(* Two functions that obey the recursion agree where both are defined.     *)
LEMMA PartialSumsAgree ==
  ASSUME NEW f, NEW S, IsFiniteSet(S), NEW T,
         NEW g, Obeys(f, g, S), NEW h, Obeys(f, h, T),
         NEW u, u \subseteq S, u \subseteq T
  PROVE  g[u] = h[u]
  <1> DEFINE Apart == {s \in SUBSET S : s \subseteq T /\ g[s] # h[s]}
  <1> SUFFICES ASSUME Apart # {} PROVE FALSE OBVIOUS
  <1>1. PICK m \in Apart : \A k \in Apart : k \subseteq m => k = m
    <2> HIDE DEF Apart
    <2>1. Apart \subseteq SUBSET S BY DEF Apart
    <2> QED BY <2>1, MinimalSubset
  <1>2. g[m] = SumStep(f, g, m) /\ h[m] = SumStep(f, h, m) BY DEF Obeys
  <1>3. m # {} BY <1>2 DEF SumStep
  <1>4. g[Rest(m)] = h[Rest(m)] BY <1>1, <1>3, FirstInside
  <1> QED BY <1>2, <1>3, <1>4 DEF SumStep

(* Where the summands are integers, some function obeys it.                *)
LEMMA PartialSumsExist ==
  ASSUME NEW f, NEW S, IsFiniteSet(S), \A i \in S : f[i] \in Int
  PROVE  PartialSums(f, S) # {}
  <1> DEFINE Without == {s \in SUBSET S : PartialSums(f, s) = {}}
  <1> SUFFICES ASSUME Without # {} PROVE FALSE OBVIOUS
  <1>1. PICK m \in Without : \A k \in Without : k \subseteq m => k = m
    <2> HIDE DEF Without
    <2>1. Without \subseteq SUBSET S BY DEF Without
    <2> QED BY <2>1, MinimalSubset
  <1> DEFINE P(s) == CHOOSE g \in PartialSums(f, s) : TRUE
             G == [s \in SUBSET m |-> IF s = {} THEN 0 ELSE f[First(s)] + P(Rest(s))[Rest(s)]]
  <1>2. ASSUME NEW s \in SUBSET m, s # {}
        PROVE  /\ P(Rest(s)) \in PartialSums(f, Rest(s))
               /\ Rest(s) \in SUBSET m /\ IsFiniteSet(Rest(s))
               /\ First(s) \in S
    <2>1. Rest(s) \subseteq m /\ Rest(s) # m /\ First(s) \in S
      BY <1>1, <1>2, FirstInside
    <2>2. IsFiniteSet(Rest(s)) BY <1>1, <2>1, FS_Subset
    <2>3. PartialSums(f, Rest(s)) # {} BY <1>1, <2>1
    <2> QED BY <2>1, <2>2, <2>3
  <1>3. ASSUME NEW s \in SUBSET m, s # {}
        PROVE  P(Rest(s))[Rest(s)] = G[Rest(s)] /\ G[Rest(s)] \in Int
    <2> DEFINE r == Rest(s)
    <2>1. P(r) \in PartialSums(f, r) /\ r \in SUBSET m /\ IsFiniteSet(r)
      BY <1>2, <1>3
    <2>2. P(r)[r] = SumStep(f, P(r), r) /\ P(r)[r] \in Int
      <3> HIDE DEF P, r
      <3> QED BY <2>1 DEF PartialSums, Obeys
    <2>3. CASE r = {}
      BY <2>1, <2>2, <2>3 DEF SumStep
    <2>4. CASE r # {}
      <3>1. /\ P(Rest(r)) \in PartialSums(f, Rest(r))
            /\ Rest(r) \in SUBSET m /\ IsFiniteSet(Rest(r))
        BY <1>2, <2>1, <2>4
      <3>2. Rest(r) \subseteq r BY <2>4, FirstInside
      <3>3. P(Rest(r))[Rest(r)] = P(r)[Rest(r)]
        <4> HIDE DEF P, r
        <4> QED BY <2>1, <3>1, <3>2, PartialSumsAgree DEF PartialSums
      <3>4. G[r] = f[First(r)] + P(Rest(r))[Rest(r)] BY <2>1, <2>4
      <3> QED BY <2>2, <2>4, <3>3, <3>4 DEF SumStep
    <2> QED BY <2>3, <2>4
  <1>4. G \in PartialSums(f, m)
    <2>1. ASSUME NEW s \in SUBSET m PROVE G[s] \in Int /\ G[s] = SumStep(f, G, s)
      <3>1. CASE s = {} BY <3>1 DEF SumStep
      <3>2. CASE s # {} 
        <4>1. f[First(s)] \in Int BY <1>2, <3>2
        <4>2. G[s] = f[First(s)] + P(Rest(s))[Rest(s)] BY <3>2
        <4>3. P(Rest(s))[Rest(s)] = G[Rest(s)] /\ G[Rest(s)] \in Int BY <1>3, <3>2
        <4> HIDE DEF G, P
        <4> QED BY <3>2, <4>1, <4>2, <4>3 DEF SumStep
      <3> QED BY <3>1, <3>2
    <2>2. DOMAIN G = SUBSET m /\ G = [s \in SUBSET m |-> G[s]] OBVIOUS
    <2> HIDE DEF G
    <2>3. G \in [SUBSET m -> Int] BY <2>1, <2>2
    <2> QED BY <2>1, <2>3 DEF PartialSums, Obeys
  <1> QED BY <1>1, <1>4

(* The library's sum is what such a function gives.                        *)
LEMMA SumIsPartialSum ==
  ASSUME NEW f, NEW S, IsFiniteSet(S), \A i \in S : f[i] \in Int,
         NEW s \in SUBSET S, NEW g \in PartialSums(f, S)
  PROVE  SumFunctionOnSet(f, s) = g[s]
  <1> DEFINE Iter == CHOOSE iter :
               iter = [t \in SUBSET s |->
                 IF t = {} THEN 0
                 ELSE f[CHOOSE x \in t : TRUE] + iter[t \ {CHOOSE x \in t : TRUE}]]
  <1>1. SumFunctionOnSet(f, s) = Iter[s]
    BY DEF SumFunctionOnSet, FoldFunctionOnSet, MapThenFoldSet
  <1>2. IsFiniteSet(s) /\ \A i \in s : f[i] \in Int BY FS_Subset
  <1>3. PICK p : p \in PartialSums(f, s) BY <1>2, PartialSumsExist
  <1>4. p = [t \in SUBSET s |->
              IF t = {} THEN 0
              ELSE f[CHOOSE x \in t : TRUE] + p[t \ {CHOOSE x \in t : TRUE}]]
    BY <1>3 DEF PartialSums, Obeys, SumStep, First, Rest
  <1>5. Iter = [t \in SUBSET s |->
                 IF t = {} THEN 0
                 ELSE f[CHOOSE x \in t : TRUE] + Iter[t \ {CHOOSE x \in t : TRUE}]]
    BY <1>4
  <1> HIDE DEF Iter
  <1>6. Obeys(f, Iter, s) BY <1>5 DEF Obeys, SumStep, First, Rest
  <1>7. Iter[s] = g[s] BY <1>2, <1>6, PartialSumsAgree DEF PartialSums
  <1> QED BY <1>1, <1>7

-----------------------------------------------------------------------------
(* What sums are.                                                          *)

LEMMA SumOfNothing ==
  ASSUME NEW f
  PROVE  SumFunctionOnSet(f, {}) = 0
  <1>1. IsFiniteSet({}) /\ \A i \in {} : f[i] \in Int BY FS_EmptySet
  <1>2. PICK g : g \in PartialSums(f, {}) BY <1>1, PartialSumsExist
  <1>3. SumFunctionOnSet(f, {}) = g[{}] BY <1>1, <1>2, SumIsPartialSum
  <1> QED BY <1>2, <1>3 DEF PartialSums, Obeys, SumStep

LEMMA SumIsInteger ==
  ASSUME NEW f, NEW S, IsFiniteSet(S), \A i \in S : f[i] \in Int
  PROVE  SumFunctionOnSet(f, S) \in Int
  <1>1. PICK g : g \in PartialSums(f, S) BY PartialSumsExist
  <1>2. SumFunctionOnSet(f, S) = g[S] BY <1>1, SumIsPartialSum
  <1> QED BY <1>1, <1>2 DEF PartialSums

LEMMA SumOfFirstAndRest ==
  ASSUME NEW f, NEW S, IsFiniteSet(S), S # {}, \A i \in S : f[i] \in Int
  PROVE  SumFunctionOnSet(f, S) = f[First(S)] + SumFunctionOnSet(f, Rest(S))
  <1>1. PICK g : g \in PartialSums(f, S) BY PartialSumsExist
  <1>2. SumFunctionOnSet(f, S) = g[S] BY <1>1, SumIsPartialSum
  <1>3. SumFunctionOnSet(f, Rest(S)) = g[Rest(S)]
    BY <1>1, FirstInside, SumIsPartialSum
  <1> QED BY <1>1, <1>2, <1>3 DEF PartialSums, Obeys, SumStep

(* What is nowhere negative does not add up to something negative.         *)
LEMMA SumIsNatural ==
  ASSUME NEW f, NEW S, IsFiniteSet(S), \A i \in S : f[i] \in Nat
  PROVE  SumFunctionOnSet(f, S) \in Nat
  <1> DEFINE Negative == {s \in SUBSET S : SumFunctionOnSet(f, s) \notin Nat}
  <1> SUFFICES ASSUME Negative # {} PROVE FALSE OBVIOUS
  <1>1. PICK m \in Negative : \A k \in Negative : k \subseteq m => k = m
    <2> HIDE DEF Negative
    <2>1. Negative \subseteq SUBSET S BY DEF Negative
    <2> QED BY <2>1, MinimalSubset
  <1>2. m # {}
    <2>1. SumFunctionOnSet(f, {}) \in Nat BY SumOfNothing
    <2> QED BY <1>1, <2>1
  <1>3. /\ IsFiniteSet(m) /\ \A i \in m : f[i] \in Int
        /\ f[First(m)] \in Nat
    BY <1>1, <1>2, FS_Subset, FirstInside
  <1>4. SumFunctionOnSet(f, Rest(m)) \in Nat BY <1>1, <1>2, FirstInside
  <1>5. SumFunctionOnSet(f, m) = f[First(m)] + SumFunctionOnSet(f, Rest(m))
    BY <1>2, <1>3, SumOfFirstAndRest
  <1> QED BY <1>1, <1>3, <1>4, <1>5
=============================================================================
