----------------------------- MODULE SumProofs -----------------------------
(***************************************************************************)
(* Lemmas about SumFunction of the community modules: what the sum of a    *)
(* counter over all streams does when the counter of one stream changes.   *)
(*                                                                         *)
(* SumFunction is a fold over the subsets of its index set.  Facts about   *)
(* it are proved by induction on finite sets, in the form of the minimal   *)
(* element of a set of counterexamples (MinimalSet).                       *)
(***************************************************************************)
EXTENDS Functions, FiniteSetTheorems, TLAPS

Pick(T) == CHOOSE x \in T : TRUE

\* The recursion of the fold, at one set of indices.
SumStep(f, g, T) == IF T = {} THEN 0 ELSE f[Pick(T)] + g[T \ {Pick(T)}]

\* g maps every set of indices in S to the sum of f over it.
IsSum(g, f, S) == g = [T \in SUBSET S |-> SumStep(f, g, T)]

LEMMA MinimalSet ==
    ASSUME NEW S, IsFiniteSet(S), NEW B \in SUBSET (SUBSET S), B # {}
    PROVE  \E m \in B : \A n \in B : ~ (n \subseteq m /\ n # m)
<1>1. IsWellFoundedOn(StrictSubsetOrdering(S), FiniteSubsetsOf(S)) /\ FiniteSubsetsOf(S) = SUBSET S
  BY FS_StrictSubsetOrderingWellFounded, FS_FiniteSubsetsOfFinite
<1>2. \E m \in B : \A n \in B : ~ (<<n, m>> \in StrictSubsetOrdering(S))
  BY <1>1, WFMin
<1> QED BY <1>2 DEF StrictSubsetOrdering

\* Taking the picked element out of a set gives a smaller one.
LEMMA PickShrinks ==
    ASSUME NEW T, T # {}
    PROVE  /\ Pick(T) \in T
           /\ T \ {Pick(T)} \subseteq T
           /\ T \ {Pick(T)} # T
<1>1. Pick(T) \in T
  BY DEF Pick
<1> QED BY <1>1

LEMMA SumAt ==
    ASSUME NEW f, NEW g, NEW S, IsSum(g, f, S), NEW T \in SUBSET S
    PROVE  /\ T = {} => g[T] = 0
           /\ T # {} => g[T] = f[Pick(T)] + g[T \ {Pick(T)}]
<1>1. g[T] = SumStep(f, g, T)
  <2>1. [U \in SUBSET S |-> SumStep(f, g, U)][T] = SumStep(f, g, T)
    OBVIOUS
  <2> QED BY <2>1, Zenon DEF IsSum
<1> QED BY <1>1 DEF SumStep

LEMMA SumAtEmpty == ASSUME NEW f, NEW g, NEW S, IsSum(g, f, S) PROVE g[{}] = 0
<1>1. {} \in SUBSET S
  OBVIOUS
<1> QED BY <1>1, SumAt, Zenon

\* Two sums of one function agree where both are defined.
LEMMA SumsAgree ==
    ASSUME NEW S, IsFiniteSet(S), NEW f, NEW U, NEW V, NEW g, NEW h,
           IsSum(g, f, U), IsSum(h, f, V)
    PROVE  \A W \in SUBSET S : W \subseteq U /\ W \subseteq V => g[W] = h[W]
<1> DEFINE B == {W \in SUBSET S : W \subseteq U /\ W \subseteq V /\ g[W] # h[W]}
<1> SUFFICES ASSUME B # {} PROVE FALSE
  OBVIOUS
<1>1. PICK m \in B : \A n \in B : ~ (n \subseteq m /\ n # m)
  <2>1. B \in SUBSET (SUBSET S)
    OBVIOUS
  <2> HIDE DEF B
  <2> QED BY <2>1, MinimalSet
<1>2. m \in SUBSET U /\ m \in SUBSET V /\ g[m] # h[m] /\ m \in SUBSET S
  OBVIOUS
<1>3. m # {}
  BY <1>2, SumAt
<1> DEFINE n == m \ {Pick(m)}
<1>4. n \subseteq m /\ n # m
  BY <1>3, PickShrinks
<1>5. g[n] = h[n]
  BY <1>1, <1>2, <1>4
<1> HIDE DEF B
<1>6. g[m] = f[Pick(m)] + g[n] /\ h[m] = f[Pick(m)] + h[n]
  BY <1>2, <1>3, SumAt
<1> QED BY <1>2, <1>5, <1>6

LEMMA SumExists ==
    ASSUME NEW S, IsFiniteSet(S), NEW f
    PROVE  \E g : IsSum(g, f, S)
<1> DEFINE B == {T \in SUBSET S : ~ \E g : IsSum(g, f, T)}
<1> SUFFICES ASSUME B # {} PROVE FALSE
  OBVIOUS
<1>1. PICK m \in B : \A n \in B : ~ (n \subseteq m /\ n # m)
  <2>1. B \in SUBSET (SUBSET S)
    OBVIOUS
  <2> HIDE DEF B
  <2> QED BY <2>1, MinimalSet
<1>2. m \in SUBSET S /\ ~ \E g : IsSum(g, f, m)
  OBVIOUS
<1> DEFINE G(T) == CHOOSE g : IsSum(g, f, T)
           v == [T \in SUBSET m |-> G(T)[T]]
           h == [U \in SUBSET m |-> SumStep(f, v, U)]
<1>3. ASSUME NEW T \in SUBSET m, T # m PROVE IsSum(G(T), f, T)
  <2>1. \E g : IsSum(g, f, T)
    BY <1>1, <1>2, <1>3
  <2> QED BY <2>1
<1> HIDE DEF B
<1>4. ASSUME NEW W \in SUBSET m, W # m PROVE v[W] = h[W]
  <2> HIDE DEF G
  <2>1. v[W] = G(W)[W] /\ h[W] = SumStep(f, v, W)
    OBVIOUS
  <2> DEFINE X == W \ {Pick(W)}
  <2>2. CASE W = {}
    <3>1. G(W)[W] = 0
      BY <1>3, <1>4, <2>2, SumAt
    <3> QED BY <2>1, <2>2, <3>1 DEF SumStep
  <2>3. CASE W # {}
    <3>1. X \subseteq W /\ X # W
      BY <2>3, PickShrinks
    <3>2. X \in SUBSET m /\ X # m
      BY <3>1
    <3>3. G(W)[W] = f[Pick(W)] + G(W)[X]
      BY <1>3, <1>4, <2>3, SumAt
    <3>4. G(W)[X] = G(X)[X]
      BY <1>2, <1>3, <1>4, <3>1, <3>2, SumsAgree
    <3>5. v[X] = G(X)[X]
      BY <3>2
    <3>6. SumStep(f, v, W) = f[Pick(W)] + v[X]
      BY <2>3 DEF SumStep
    <3> QED BY <2>1, <3>3, <3>4, <3>5, <3>6
  <2> QED BY <2>2, <2>3
<1>5. ASSUME NEW U \in SUBSET m PROVE SumStep(f, v, U) = SumStep(f, h, U)
  <2> HIDE DEF v, h
  <2>1. CASE U = {}
    BY <2>1 DEF SumStep
  <2>2. CASE U # {}
    <3> DEFINE X == U \ {Pick(U)}
    <3>1. X \in SUBSET m /\ X # m
      BY <2>2, PickShrinks
    <3>2. v[X] = h[X]
      BY <1>4, <3>1
    <3> QED BY <2>2, <3>2 DEF SumStep
  <2> QED BY <2>1, <2>2
<1>6. IsSum(h, f, m)
  <2>1. h = [U \in SUBSET m |-> SumStep(f, v, U)]
    OBVIOUS
  <2> HIDE DEF v, h
  <2>2. [U \in SUBSET m |-> SumStep(f, v, U)] = [U \in SUBSET m |-> SumStep(f, h, U)]
    BY <1>5
  <2> QED BY <2>1, <2>2, Zenon DEF IsSum
<1> QED BY <1>2, <1>6, Zenon

\* SumFunction is the value at its whole domain of the recursion above.
LEMMA SumFunctionIsSum ==
    ASSUME NEW S, IsFiniteSet(S), NEW f, DOMAIN f = S
    PROVE  \E g : IsSum(g, f, S) /\ SumFunction(f) = g[S]
<1> DEFINE c == CHOOSE g : g = [T \in SUBSET S |-> SumStep(f, g, T)]
<1>1. SumFunctionOnSet(f, S) = c[S]
  BY Zenon DEF SumFunctionOnSet, FoldFunctionOnSet, MapThenFoldSet, SumStep, Pick
<1>2. SumFunction(f) = SumFunctionOnSet(f, S)
  BY Zenon DEF SumFunction
<1>3. \E g : g = [T \in SUBSET S |-> SumStep(f, g, T)]
  <2>1. \E g : IsSum(g, f, S)
    BY SumExists
  <2> QED BY <2>1, Zenon DEF IsSum
<1>4. IsSum(c, f, S)
  BY <1>3, Zenon DEF IsSum
<1> QED BY <1>1, <1>2, <1>4, Zenon
\* Counters of natural numbers sum to a natural number, over any set.
LEMMA SumsAreNat ==
    ASSUME NEW S, IsFiniteSet(S), NEW f \in [S -> Nat], NEW g, IsSum(g, f, S)
    PROVE  \A T \in SUBSET S : g[T] \in Nat
<1> DEFINE B == {T \in SUBSET S : g[T] \notin Nat}
<1> SUFFICES ASSUME B # {} PROVE FALSE
  OBVIOUS
<1>1. PICK m \in SUBSET S :
        /\ g[m] \notin Nat
        /\ \A n \in SUBSET S : n \subseteq m /\ n # m => g[n] \in Nat
  <2>1. B \in SUBSET (SUBSET S)
    OBVIOUS
  <2>2. \E m \in B : \A n \in B : ~ (n \subseteq m /\ n # m)
    <3> HIDE DEF B
    <3> QED BY <2>1, MinimalSet
  <2> QED BY <2>2
<1> HIDE DEF B
<1>2. m # {}
  <2>1. m = {} => g[m] = 0
    BY SumAtEmpty, Zenon
  <2> QED BY <1>1, <2>1
<1>3. Pick(m) \in S /\ g[m \ {Pick(m)}] \in Nat
  BY <1>1, <1>2, PickShrinks
<1>4. g[m] = f[Pick(m)] + g[m \ {Pick(m)}]
  BY <1>2, SumAt
<1> QED BY <1>1, <1>3, <1>4

THEOREM SumIsNat ==
    ASSUME NEW S, IsFiniteSet(S), NEW f \in [S -> Nat]
    PROVE  SumFunction(f) \in Nat
<1>1. PICK g : IsSum(g, f, S) /\ SumFunction(f) = g[S]
  BY SumFunctionIsSum
<1> QED BY <1>1, SumsAreNat

\* Counters that are all zero sum to zero.
THEOREM SumOfZeros ==
    ASSUME NEW S, IsFiniteSet(S), NEW f \in [S -> Nat], \A s \in S : f[s] = 0
    PROVE  SumFunction(f) = 0
<1>1. PICK g : IsSum(g, f, S) /\ SumFunction(f) = g[S]
  BY SumFunctionIsSum
<1> DEFINE B == {T \in SUBSET S : g[T] # 0}
<1>2. CASE B = {}
  BY <1>1, <1>2
<1>3. CASE B # {}
  <2>1. PICK m \in B : \A n \in B : ~ (n \subseteq m /\ n # m)
    <3>1. B \in SUBSET (SUBSET S)
      OBVIOUS
    <3> HIDE DEF B
    <3> QED BY <1>3, <3>1, MinimalSet
  <2>2. m \in SUBSET S /\ g[m] # 0
    OBVIOUS
  <2>3. m # {}
    BY <1>1, <2>2, SumAt
  <2>4. f[Pick(m)] = 0 /\ g[m \ {Pick(m)}] = 0
    BY <2>1, <2>2, <2>3, PickShrinks
  <2> HIDE DEF B
  <2>5. g[m] = f[Pick(m)] + g[m \ {Pick(m)}]
    BY <1>1, <2>2, <2>3, SumAt
  <2> QED BY <2>2, <2>4, <2>5
<1> QED BY <1>2, <1>3

\* When one counter changes, the sum changes by the difference.
THEOREM SumChange ==
    ASSUME NEW S, IsFiniteSet(S), NEW f \in [S -> Nat], NEW h \in [S -> Nat],
           NEW s \in S, \A t \in S \ {s} : h[t] = f[t]
    PROVE  SumFunction(h) + f[s] = SumFunction(f) + h[s]
<1>1. PICK g : IsSum(g, f, S) /\ SumFunction(f) = g[S]
  BY SumFunctionIsSum
<1>2. PICK k : IsSum(k, h, S) /\ SumFunction(h) = k[S]
  BY SumFunctionIsSum
<1> DEFINE Moved(T) == IF s \in T THEN k[T] + f[s] = g[T] + h[s] ELSE k[T] = g[T]
           B == {T \in SUBSET S : ~Moved(T)}
<1>3. CASE B = {}
  <2>1. Moved(S)
    BY <1>3
  <2> QED BY <1>1, <1>2, <2>1
<1>4. CASE B # {}
  <2>1. PICK m \in SUBSET S :
          ~Moved(m) /\ \A n \in SUBSET S : n \subseteq m /\ n # m => Moved(n)
    <3>1. B \in SUBSET (SUBSET S)
      OBVIOUS
    <3>2. \E m \in B : \A n \in B : ~ (n \subseteq m /\ n # m)
      <4> HIDE DEF B
      <4> QED BY <1>4, <3>1, MinimalSet
    <3> HIDE DEF Moved
    <3> QED BY <3>2
  <2> HIDE DEF B
  <2>3. m # {}
    <3>1. /\ m = {} => g[m] = 0
          /\ m = {} => k[m] = 0
      <4>1. g[{}] = 0 /\ k[{}] = 0
        BY <1>1, <1>2, SumAtEmpty
      <4> QED BY <4>1, Zenon
    <3> QED BY <2>1, <3>1
  <2> DEFINE p == Pick(m)
             n == m \ {p}
  <2>4. p \in m /\ n \in SUBSET S /\ n \subseteq m /\ n # m
    BY <2>3, PickShrinks
  <2>5. Moved(n)
    <3> HIDE DEF Moved, n
    <3> QED BY <2>1, <2>4
  <2>6. g[m] = f[p] + g[n] /\ k[m] = h[p] + k[n]
    <3> HIDE DEF Moved
    <3> QED BY <1>1, <1>2, <2>3, SumAt
  <2>7. g[n] \in Nat /\ k[n] \in Nat
    BY <1>1, <1>2, <2>4, SumsAreNat
  <2>8. f[p] \in Nat /\ h[p] \in Nat /\ f[s] \in Nat /\ h[s] \in Nat /\ p \in S
    BY <2>4
  <2>9. CASE p = s
    <3>1. s \in m /\ s \notin n
      BY <2>4, <2>9
    <3>2. k[n] = g[n] /\ ~(k[m] + f[s] = g[m] + h[s])
      BY <2>1, <2>5, <3>1
    <3> QED BY <2>6, <2>7, <2>8, <2>9, <3>2
  <2>10. CASE p # s
    <3>1. (s \in m <=> s \in n) /\ h[p] = f[p]
      BY <2>4, <2>8, <2>10
    <3> HIDE DEF n, p
    <3> QED BY <2>1, <2>5, <2>6, <2>7, <2>8, <3>1
  <2> QED BY <2>9, <2>10
<1> QED BY <1>3, <1>4

\* No counter exceeds the sum.
THEOREM SumAtLeast ==
    ASSUME NEW S, IsFiniteSet(S), NEW f \in [S -> Nat], NEW s \in S
    PROVE  f[s] <= SumFunction(f)
<1> DEFINE h == [f EXCEPT ![s] = 0]
<1>1. h \in [S -> Nat] /\ h[s] = 0 /\ \A t \in S \ {s} : h[t] = f[t]
  OBVIOUS
<1> HIDE DEF h
<1>2. SumFunction(h) + f[s] = SumFunction(f) + h[s]
  BY <1>1, SumChange
<1>3. SumFunction(h) \in Nat /\ SumFunction(f) \in Nat /\ f[s] \in Nat
  BY <1>1, SumIsNat
<1> QED BY <1>1, <1>2, <1>3

\* One counter grows by n, so does the sum; read backwards, it shrinks.
THEOREM SumGrows ==
    ASSUME NEW S, IsFiniteSet(S), NEW f \in [S -> Nat], NEW h \in [S -> Nat],
           NEW s \in S, NEW n \in Nat, h[s] = f[s] + n, \A t \in S \ {s} : h[t] = f[t]
    PROVE  SumFunction(h) = SumFunction(f) + n
<1>1. SumFunction(h) + f[s] = SumFunction(f) + h[s]
  BY SumChange
<1>2. SumFunction(h) \in Nat /\ SumFunction(f) \in Nat /\ f[s] \in Nat
  BY SumIsNat
<1> QED BY <1>1, <1>2

AddsUp(e, f, h, S) == \A s \in S : e[s] = f[s] + h[s]

\* The sum of two counters at every index is the sum of their sums.
THEOREM SumAdds ==
    ASSUME NEW S, IsFiniteSet(S), NEW f \in [S -> Nat], NEW h \in [S -> Nat],
           NEW e \in [S -> Nat], AddsUp(e, f, h, S)
    PROVE  SumFunction(e) = SumFunction(f) + SumFunction(h)
<1>1. PICK g : IsSum(g, f, S) /\ SumFunction(f) = g[S]
  BY SumFunctionIsSum
<1>2. PICK k : IsSum(k, h, S) /\ SumFunction(h) = k[S]
  BY SumFunctionIsSum
<1>3. PICK l : IsSum(l, e, S) /\ SumFunction(e) = l[S]
  BY SumFunctionIsSum
<1> DEFINE B == {T \in SUBSET S : l[T] # g[T] + k[T]}
<1>4. CASE B = {}
  BY <1>1, <1>2, <1>3, <1>4
<1>5. CASE B # {}
  <2>1. PICK m \in B : \A n \in B : ~ (n \subseteq m /\ n # m)
    <3>1. B \in SUBSET (SUBSET S)
      OBVIOUS
    <3> HIDE DEF B
    <3> QED BY <1>5, <3>1, MinimalSet
  <2>2. m \in SUBSET S /\ l[m] # g[m] + k[m]
    OBVIOUS
  <2>3. m # {}
    <3> HIDE DEF B
    <3>1. g[{}] = 0 /\ k[{}] = 0 /\ l[{}] = 0
      BY <1>1, <1>2, <1>3, SumAtEmpty
    <3>2. m = {} => g[m] = 0 /\ k[m] = 0 /\ l[m] = 0
      BY <3>1, Zenon
    <3> QED BY <2>2, <3>2
  <2> DEFINE n == m \ {Pick(m)}
  <2>4. Pick(m) \in S /\ n \in SUBSET S /\ n \subseteq m /\ n # m
    BY <2>2, <2>3, PickShrinks
  <2>5. l[n] = g[n] + k[n]
    BY <2>1, <2>4
  <2> HIDE DEF B
  <2>6. g[m] = f[Pick(m)] + g[n] /\ k[m] = h[Pick(m)] + k[n] /\ l[m] = e[Pick(m)] + l[n]
    BY <1>1, <1>2, <1>3, <2>2, <2>3, SumAt
  <2>7. g[n] \in Nat /\ k[n] \in Nat
    BY <1>1, <1>2, <2>4, SumsAreNat
  <2>8. e[Pick(m)] = f[Pick(m)] + h[Pick(m)] /\ f[Pick(m)] \in Nat /\ h[Pick(m)] \in Nat
    BY <2>4 DEF AddsUp
  <2> HIDE DEF n
  <2> QED BY <2>2, <2>5, <2>6, <2>7, <2>8
<1> QED BY <1>4, <1>5
=============================================================================
