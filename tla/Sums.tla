--------------------------------- MODULE Sums ---------------------------------
(***************************************************************************)
(* Sums of integers over a finite set (SumFunctionOnSet of Functions), as  *)
(* the models take them of row activities and objectives: one term can be  *)
(* taken out, and sums keep equalities, inequalities and linear            *)
(* combinations of their terms.                                            *)
(*                                                                         *)
(* The library's induction theorems are about an operator; here the sets   *)
(* of counterexamples are formed instead, and a least one of them refuted  *)
(* (LeastSubset).                                                          *)
(***************************************************************************)
EXTENDS FiniteSetsExt, FiniteSetTheorems, TLAPS

\* Among subsets of a finite set there is one with no other strictly below it.
LEMMA LeastSubset ==
    ASSUME NEW S, IsFiniteSet(S), NEW D, D \subseteq SUBSET S, D # {}
    PROVE  \E T \in D : \A U \in D : U \subseteq T => U = T
<1>1. SUBSET S = FiniteSubsetsOf(S)
  BY FS_FiniteSubsetsOfFinite
<1>2. IsWellFoundedOn(StrictSubsetOrdering(S), SUBSET S)
  BY <1>1, FS_StrictSubsetOrderingWellFounded
<1>3. \E T \in D : \A U \in D : ~(<<U, T>> \in StrictSubsetOrdering(S))
  BY <1>2, WFMin
<1> QED BY <1>3 DEF StrictSubsetOrdering

-----------------------------------------------------------------------------
(* The recursive function behind a sum.                                    *)

\* The term the fold takes first.
Pick(s) == CHOOSE x \in s : TRUE

\* g is that function on the subsets of S.
FoldsTo(f, S, g) == g = [s \in SUBSET S |-> IF s = {} THEN 0 ELSE f[Pick(s)] + g[s \ {Pick(s)}]]

LEMMA SumIsFold ==
    ASSUME NEW f, NEW S
    PROVE  SumFunctionOnSet(f, S) = (CHOOSE g : FoldsTo(f, S, g))[S]
  BY DEF SumFunctionOnSet, FoldFunctionOnSet, MapThenFoldSet, FoldsTo, Pick

LEMMA FoldsAt ==
    ASSUME NEW f, NEW S, NEW g, FoldsTo(f, S, g), NEW s, s \subseteq S
    PROVE  g[s] = IF s = {} THEN 0 ELSE f[Pick(s)] + g[s \ {Pick(s)}]
  BY DEF FoldsTo

LEMMA FoldsOnce ==
    ASSUME NEW f, NEW S, IsFiniteSet(S), NEW g, NEW h, FoldsTo(f, S, g), FoldsTo(f, S, h)
    PROVE  g = h
<1> DEFINE D == {s \in SUBSET S : g[s] # h[s]}
<1>1. CASE D = {}
  BY <1>1 DEF FoldsTo
<1>2. CASE D # {}
  <2>1. PICK T \in D : \A U \in D : U \subseteq T => U = T
    <3>1. D \subseteq SUBSET S
      OBVIOUS
    <3> HIDE DEF D
    <3> QED BY <1>2, <3>1, LeastSubset
  <2>2. CASE T = {}
    BY <2>1, <2>2, FoldsAt
  <2>3. CASE T # {}
    <3>1. Pick(T) \in T
      BY <2>3 DEF Pick
    <3>2. g[T \ {Pick(T)}] = h[T \ {Pick(T)}]
      BY <2>1, <3>1
    <3> QED BY <2>1, <2>3, <3>2, FoldsAt
  <2> QED BY <2>2, <2>3
<1> QED BY <1>1, <1>2

LEMMA FoldsBelow ==
    ASSUME NEW f, NEW S, NEW g, FoldsTo(f, S, g), NEW T, T \subseteq S
    PROVE  FoldsTo(f, T, [s \in SUBSET T |-> g[s]])
<1> DEFINE h == [s \in SUBSET T |-> g[s]]
<1>1. ASSUME NEW s \in SUBSET T
      PROVE  h[s] = IF s = {} THEN 0 ELSE f[Pick(s)] + h[s \ {Pick(s)}]
  <2>1. s \in SUBSET T /\ s \ {Pick(s)} \in SUBSET T
    BY <1>1
  <2>2. h[s] = g[s] /\ h[s \ {Pick(s)}] = g[s \ {Pick(s)}]
    BY <2>1
  <2>3. g[s] = IF s = {} THEN 0 ELSE f[Pick(s)] + g[s \ {Pick(s)}]
    BY <2>1, FoldsAt
  <2> HIDE DEF h
  <2> QED BY <2>2, <2>3
<1> QED BY <1>1 DEF FoldsTo

LEMMA FoldsExist ==
    ASSUME NEW f, NEW S, IsFiniteSet(S)
    PROVE  \E g : FoldsTo(f, S, g)
<1> DEFINE D == {T \in SUBSET S : ~\E g : FoldsTo(f, T, g)}
           G(s) == CHOOSE g : FoldsTo(f, s, g)
<1> SUFFICES ASSUME D # {}  PROVE FALSE
  OBVIOUS
<1>1. PICK T \in D : \A U \in D : U \subseteq T => U = T
  <2>1. D \subseteq SUBSET S
    OBVIOUS
  <2> HIDE DEF D
  <2> QED BY <2>1, LeastSubset
<1>2. \A s \in SUBSET T : s # T => FoldsTo(f, s, G(s))
  BY <1>1
<1>3. \A s \in SUBSET T : IsFiniteSet(s)
  BY <1>1, FS_Subset
<1> HIDE DEF G, D
<1> DEFINE g == [s \in SUBSET T |-> IF s = {} THEN 0
                                    ELSE f[Pick(s)] + G(s \ {Pick(s)})[s \ {Pick(s)}]]
<1>4. \A s \in SUBSET T : s # {} => Pick(s) \in s
  BY DEF Pick
<1>5. ASSUME NEW s \in SUBSET T, s # T  PROVE G(s)[s] = g[s]
  <2>1. CASE s = {}
    BY <1>2, <1>5, <2>1, FoldsAt
  <2>2. CASE s # {}
    <3> DEFINE r == s \ {Pick(s)}
    <3>1. r \subseteq s /\ r \in SUBSET T /\ r # T
      BY <1>4, <2>2
    <3>2. FoldsTo(f, r, [t \in SUBSET r |-> G(s)[t]])
      BY <1>2, <1>5, <3>1, FoldsBelow
    <3>3. FoldsTo(f, r, G(r))
      BY <1>2, <3>1
    <3>4. G(r) = [t \in SUBSET r |-> G(s)[t]]
      BY <1>3, <3>1, <3>2, <3>3, FoldsOnce
    <3>5. G(s)[s] = f[Pick(s)] + G(s)[r]
      BY <1>2, <1>5, <2>2, FoldsAt
    <3>6. G(r)[r] = G(s)[r]
      BY <3>4
    <3> QED BY <2>2, <3>5, <3>6
  <2> QED BY <2>1, <2>2
<1>6. \A s \in SUBSET T : g[s] = IF s = {} THEN 0 ELSE f[Pick(s)] + g[s \ {Pick(s)}]
  <2> SUFFICES ASSUME NEW s \in SUBSET T, s # {}
               PROVE  g[s] = f[Pick(s)] + g[s \ {Pick(s)}]
    OBVIOUS
  <2>1. s \ {Pick(s)} \in SUBSET T /\ s \ {Pick(s)} # T
    BY <1>4
  <2>2. G(s \ {Pick(s)})[s \ {Pick(s)}] = g[s \ {Pick(s)}]
    BY <1>5, <2>1
  <2>3. g[s] = f[Pick(s)] + G(s \ {Pick(s)})[s \ {Pick(s)}]
    OBVIOUS
  <2> QED BY <2>2, <2>3
<1>7. FoldsTo(f, T, g)
  BY <1>6 DEF FoldsTo
<1> QED BY <1>1, <1>7 DEF D

-----------------------------------------------------------------------------
(* Sums.                                                                   *)

Sum(f, S) == SumFunctionOnSet(f, S)

IntegerOn(f, S) == \A x \in S : f[x] \in Int

LEMMA SumPicks ==
    ASSUME NEW f, NEW S, IsFiniteSet(S)
    PROVE  Sum(f, S) = IF S = {} THEN 0 ELSE f[Pick(S)] + Sum(f, S \ {Pick(S)})
<1> DEFINE G(s) == CHOOSE g : FoldsTo(f, s, g)
<1>1. \A s \in SUBSET S : IsFiniteSet(s)
  BY FS_Subset
<1>2. \A s \in SUBSET S : FoldsTo(f, s, G(s))
  BY <1>1, FoldsExist
<1>3. \A s \in SUBSET S : Sum(f, s) = G(s)[s]
  BY SumIsFold DEF Sum
<1> HIDE DEF G
<1>4. CASE S = {}
  <2>1. G(S)[S] = 0
    BY <1>2, <1>4, FoldsAt
  <2> QED BY <1>3, <1>4, <2>1
<1>5. CASE S # {}
  <2> DEFINE r == S \ {Pick(S)}
  <2>1. G(S)[S] = f[Pick(S)] + G(S)[r]
    BY <1>2, <1>5, FoldsAt
  <2>2. FoldsTo(f, r, [t \in SUBSET r |-> G(S)[t]])
    BY <1>2, FoldsBelow
  <2>3. FoldsTo(f, r, G(r)) /\ IsFiniteSet(r)
    BY <1>1, <1>2
  <2>4. G(r) = [t \in SUBSET r |-> G(S)[t]]
    BY <2>2, <2>3, FoldsOnce
  <2>5. G(r)[r] = G(S)[r]
    BY <2>4
  <2>6. Sum(f, S) = G(S)[S] /\ Sum(f, r) = G(r)[r]
    BY <1>3
  <2> QED BY <1>5, <2>1, <2>5, <2>6
<1> QED BY <1>4, <1>5

\* The empty sum.
LEMMA SumEmpty ==
    ASSUME NEW f
    PROVE  Sum(f, {}) = 0
<1>1. IsFiniteSet({})
  BY FS_EmptySet
<1>2. Sum(f, {}) = IF {} = {} THEN 0 ELSE f[Pick({})] + Sum(f, {} \ {Pick({})})
  BY <1>1, SumPicks
<1> QED BY <1>2

\* A sum of integers is an integer.
LEMMA SumInteger ==
    ASSUME NEW f, NEW S, IsFiniteSet(S), IntegerOn(f, S)
    PROVE  Sum(f, S) \in Int
<1> DEFINE D == {T \in SUBSET S : Sum(f, T) \notin Int}
<1> SUFFICES ASSUME D # {}  PROVE FALSE
  OBVIOUS
<1>1. PICK T \in D : \A U \in D : U \subseteq T => U = T
  <2>1. D \subseteq SUBSET S
    OBVIOUS
  <2> HIDE DEF D
  <2> QED BY <2>1, LeastSubset
<1>2. IsFiniteSet(T) /\ T # {}
  <2>1. IsFiniteSet(T)
    BY <1>1, FS_Subset
  <2>2. Sum(f, {}) \in Int
    BY SumEmpty
  <2> QED BY <1>1, <2>1, <2>2
<1>3. Pick(T) \in T
  BY <1>2 DEF Pick
<1>4. Sum(f, T \ {Pick(T)}) \in Int
  BY <1>1, <1>3
<1>5. Sum(f, T) = f[Pick(T)] + Sum(f, T \ {Pick(T)})
  BY <1>2, SumPicks
<1> QED BY <1>1, <1>3, <1>4, <1>5 DEF IntegerOn

\* Any term can be taken out of a sum.
LEMMA SumTakes ==
    ASSUME NEW f, NEW S, IsFiniteSet(S), IntegerOn(f, S), NEW x \in S
    PROVE  Sum(f, S) = f[x] + Sum(f, S \ {x})
<1> DEFINE D == {T \in SUBSET S : \E y \in T : Sum(f, T) # f[y] + Sum(f, T \ {y})}
<1> SUFFICES ASSUME D # {}  PROVE FALSE
  OBVIOUS
<1>1. PICK T \in D : \A U \in D : U \subseteq T => U = T
  <2>1. D \subseteq SUBSET S
    OBVIOUS
  <2> HIDE DEF D
  <2> QED BY <2>1, LeastSubset
<1>2. PICK y \in T : Sum(f, T) # f[y] + Sum(f, T \ {y})
  BY <1>1
<1>3. IsFiniteSet(T)
  BY <1>1, FS_Subset
<1> DEFINE p == Pick(T)
<1>4. p \in T
  BY <1>2 DEF Pick
<1>5. Sum(f, T) = f[p] + Sum(f, T \ {p})
  BY <1>2, <1>3, SumPicks
<1>6. p # y
  BY <1>2, <1>5
<1>m. ASSUME NEW U \in SUBSET T, U # T, NEW z \in U
      PROVE  Sum(f, U) = f[z] + Sum(f, U \ {z})
  <2>1. U \notin D /\ U \in SUBSET S
    BY <1>1, <1>m
  <2> QED BY <1>m, <2>1
<1> HIDE DEF D, p
<1>7. Sum(f, T \ {p}) = f[y] + Sum(f, (T \ {p}) \ {y})
  <2>1. T \ {p} \in SUBSET T /\ T \ {p} # T /\ y \in T \ {p}
    BY <1>2, <1>4, <1>6
  <2> QED BY <1>m, <2>1
<1>8. Sum(f, T \ {y}) = f[p] + Sum(f, (T \ {y}) \ {p})
  <2>1. T \ {y} \in SUBSET T /\ T \ {y} # T /\ p \in T \ {y}
    BY <1>2, <1>4, <1>6
  <2> QED BY <1>m, <2>1
<1>9. Sum(f, (T \ {y}) \ {p}) = Sum(f, (T \ {p}) \ {y})
  <2>1. (T \ {y}) \ {p} = (T \ {p}) \ {y}
    OBVIOUS
  <2> QED BY <2>1
<1>b. T \subseteq S
  BY <1>1 DEF D
<1>10. Sum(f, (T \ {p}) \ {y}) \in Int /\ f[p] \in Int /\ f[y] \in Int
  <2>1. IsFiniteSet((T \ {p}) \ {y}) /\ IntegerOn(f, (T \ {p}) \ {y})
    BY <1>b, <1>3, FS_Difference DEF IntegerOn
  <2>2. f[p] \in Int /\ f[y] \in Int
    BY <1>b, <1>2, <1>4 DEF IntegerOn
  <2> QED BY <2>1, <2>2, SumInteger
<1> DEFINE rest == Sum(f, (T \ {p}) \ {y})
<1>11. Sum(f, T) = f[p] + (f[y] + rest) /\ Sum(f, T \ {y}) = f[p] + rest
  BY <1>5, <1>7, <1>8, <1>9
<1>12. rest \in Int
  BY <1>10
<1> HIDE DEF rest
<1>13. f[p] + (f[y] + rest) = f[y] + (f[p] + rest)
  BY <1>10, <1>12
<1> QED BY <1>2, <1>11, <1>13

\* A sum reads its function on the set it runs over, and nowhere else.
LEMMA SumAgrees ==
    ASSUME NEW f, NEW g, NEW S, IsFiniteSet(S), \A x \in S : f[x] = g[x]
    PROVE  Sum(f, S) = Sum(g, S)
<1> DEFINE D == {T \in SUBSET S : Sum(f, T) # Sum(g, T)}
<1> SUFFICES ASSUME D # {}  PROVE FALSE
  OBVIOUS
<1>1. PICK T \in D : \A U \in D : U \subseteq T => U = T
  <2>1. D \subseteq SUBSET S
    OBVIOUS
  <2> HIDE DEF D
  <2> QED BY <2>1, LeastSubset
<1>2. IsFiniteSet(T)
  BY <1>1, FS_Subset
<1>3. T # {}
  <2>1. Sum(f, {}) = Sum(g, {})
    BY SumEmpty
  <2> QED BY <1>1, <2>1
<1>4. Pick(T) \in T
  BY <1>3 DEF Pick
<1>5. Sum(f, T \ {Pick(T)}) = Sum(g, T \ {Pick(T)}) /\ f[Pick(T)] = g[Pick(T)]
  BY <1>1, <1>4
<1>6. /\ Sum(f, T) = f[Pick(T)] + Sum(f, T \ {Pick(T)})
      /\ Sum(g, T) = g[Pick(T)] + Sum(g, T \ {Pick(T)})
  BY <1>2, <1>3, SumPicks
<1> QED BY <1>1, <1>5, <1>6

\* Multiplying out, for integers (as a lemma, because it is used on large terms).
LEMMA Distributes ==
    ASSUME NEW k \in Int, NEW u \in Int, NEW v \in Int
    PROVE  k * (u + v) = (k * u) + (k * v) /\ k * u \in Int /\ k * v \in Int
  OBVIOUS

LEMMA Regrouped ==
    ASSUME NEW k \in Int, NEW u \in Int, NEW v \in Int
    PROVE  1 * (k * (u * v)) = v * (u * k)
<1>1. k * (u * v) = v * (u * k) /\ k * (u * v) \in Int
  OBVIOUS
<1> QED BY <1>1

\* What combines the terms combines the sums.
Combines(f, g, h, a, b, c, S) == \A x \in S : a * f[x] = (b * g[x]) + (c * h[x])

LEMMA SumCombines ==
    ASSUME NEW S, IsFiniteSet(S), NEW f, NEW g, NEW h,
           IntegerOn(f, S), IntegerOn(g, S), IntegerOn(h, S),
           NEW a \in Int, NEW b \in Int, NEW c \in Int, Combines(f, g, h, a, b, c, S)
    PROVE  a * Sum(f, S) = (b * Sum(g, S)) + (c * Sum(h, S))
<1> DEFINE D == {T \in SUBSET S : a * Sum(f, T) # (b * Sum(g, T)) + (c * Sum(h, T))}
<1> SUFFICES ASSUME D # {}  PROVE FALSE
  OBVIOUS
<1>1. PICK T \in D : \A U \in D : U \subseteq T => U = T
  <2>1. D \subseteq SUBSET S
    OBVIOUS
  <2> HIDE DEF D
  <2> QED BY <2>1, LeastSubset
<1>2. IsFiniteSet(T)
  BY <1>1, FS_Subset
<1>3. T # {}
  <2>1. Sum(f, {}) = 0 /\ Sum(g, {}) = 0 /\ Sum(h, {}) = 0
    BY SumEmpty
  <2>2. a * 0 = (b * 0) + (c * 0)
    OBVIOUS
  <2> QED BY <1>1, <2>1, <2>2
<1> DEFINE p == Pick(T)
           R == T \ {p}
<1>4. p \in T
  BY <1>3 DEF Pick
<1>5. R \in SUBSET S /\ R \subseteq T /\ R # T /\ p \in S /\ T \in SUBSET S
  BY <1>1, <1>4
<1>6. a * Sum(f, R) = (b * Sum(g, R)) + (c * Sum(h, R))
  BY <1>1, <1>5
<1>7. a * Sum(f, T) # (b * Sum(g, T)) + (c * Sum(h, T))
  BY <1>1
<1> HIDE DEF D
<1>8. Sum(f, T) = f[p] + Sum(f, R) /\ Sum(g, T) = g[p] + Sum(g, R) /\ Sum(h, T) = h[p] + Sum(h, R)
  BY <1>2, <1>3, SumPicks
<1>9. Sum(f, R) \in Int /\ Sum(g, R) \in Int /\ Sum(h, R) \in Int
  <2>1. IsFiniteSet(R) /\ IntegerOn(f, R) /\ IntegerOn(g, R) /\ IntegerOn(h, R)
    BY <1>2, <1>5, FS_Subset DEF IntegerOn
  <2> QED BY <2>1, SumInteger
<1>10. f[p] \in Int /\ g[p] \in Int /\ h[p] \in Int /\ a * f[p] = (b * g[p]) + (c * h[p])
  BY <1>5 DEF IntegerOn, Combines
<1> DEFINE F == Sum(f, R)
           G == Sum(g, R)
           H == Sum(h, R)
           u == f[p]
           v == g[p]
           w == h[p]
<1>11. a * (u + F) # (b * (v + G)) + (c * (w + H)) /\ a * F = (b * G) + (c * H) /\ a * u = (b * v) + (c * w)
  BY <1>6, <1>7, <1>8, <1>10
<1>12. F \in Int /\ G \in Int /\ H \in Int /\ u \in Int /\ v \in Int /\ w \in Int
  BY <1>9, <1>10
<1> HIDE DEF p, R, F, G, H, u, v, w
<1>13. a * (u + F) = (a * u) + (a * F) /\ b * (v + G) = (b * v) + (b * G) /\ c * (w + H) = (c * w) + (c * H)
  BY <1>12, Distributes
<1>14. b * v \in Int /\ b * G \in Int /\ c * w \in Int /\ c * H \in Int
  BY <1>12
<1> QED BY <1>11, <1>13, <1>14

\* Terms that are at most as large sum to at most as much ...
LEMMA SumAtMost ==
    ASSUME NEW S, IsFiniteSet(S), NEW f, NEW g, IntegerOn(f, S), IntegerOn(g, S),
           \A x \in S : f[x] <= g[x]
    PROVE  Sum(f, S) <= Sum(g, S)
<1> DEFINE D == {T \in SUBSET S : ~(Sum(f, T) <= Sum(g, T))}
<1> SUFFICES ASSUME D # {}  PROVE FALSE
  OBVIOUS
<1>1. PICK T \in D : \A U \in D : U \subseteq T => U = T
  <2>1. D \subseteq SUBSET S
    OBVIOUS
  <2> HIDE DEF D
  <2> QED BY <2>1, LeastSubset
<1>2. IsFiniteSet(T) /\ T \in SUBSET S
  BY <1>1, FS_Subset
<1>3. T # {}
  <2>1. Sum(f, {}) <= Sum(g, {})
    <3>1. Sum(f, {}) = 0 /\ Sum(g, {}) = 0
      BY SumEmpty
    <3> QED BY <3>1
  <2>2. ~(Sum(f, T) <= Sum(g, T))
    BY <1>1
  <2> HIDE DEF D
  <2> QED BY <2>1, <2>2
<1> DEFINE p == Pick(T)
           R == T \ {p}
<1>4. p \in T
  BY <1>3 DEF Pick
<1>5. Sum(f, R) <= Sum(g, R) /\ f[p] <= g[p] /\ ~(Sum(f, T) <= Sum(g, T))
  BY <1>1, <1>4
<1> HIDE DEF D
<1>6. Sum(f, T) = f[p] + Sum(f, R) /\ Sum(g, T) = g[p] + Sum(g, R)
  BY <1>2, <1>3, SumPicks
<1>7. Sum(f, R) \in Int /\ Sum(g, R) \in Int /\ f[p] \in Int /\ g[p] \in Int
  <2>1. IsFiniteSet(R) /\ IntegerOn(f, R) /\ IntegerOn(g, R)
    BY <1>2, FS_Difference DEF IntegerOn
  <2>2. p \in S
    BY <1>2, <1>4
  <2> HIDE DEF p, R
  <2>3. f[p] \in Int /\ g[p] \in Int
    BY <2>2 DEF IntegerOn
  <2> QED BY <2>1, <2>3, SumInteger
<1> HIDE DEF p, R
<1> QED BY <1>5, <1>6, <1>7

\* ... and to less if one of them is less.
LEMMA SumTight ==
    ASSUME NEW S, IsFiniteSet(S), NEW f, NEW g, IntegerOn(f, S), IntegerOn(g, S),
           \A x \in S : f[x] <= g[x], Sum(g, S) <= Sum(f, S)
    PROVE  \A x \in S : f[x] = g[x]
<1> TAKE x \in S
<1> DEFINE R == S \ {x}
<1>1. IsFiniteSet(R) /\ IntegerOn(f, R) /\ IntegerOn(g, R)
  BY FS_Difference DEF IntegerOn
<1>2. Sum(f, S) = f[x] + Sum(f, R) /\ Sum(g, S) = g[x] + Sum(g, R)
  BY SumTakes
<1>3. Sum(f, R) <= Sum(g, R)
  BY <1>1, SumAtMost
<1>4. Sum(f, R) \in Int /\ Sum(g, R) \in Int /\ f[x] \in Int /\ g[x] \in Int /\ f[x] <= g[x]
  BY <1>1, SumInteger DEF IntegerOn
<1> DEFINE F == Sum(f, R)
           G == Sum(g, R)
           u == f[x]
           v == g[x]
<1>5. u + F >= v + G /\ F <= G /\ u <= v /\ F \in Int /\ G \in Int /\ u \in Int /\ v \in Int
  BY <1>2, <1>3, <1>4
<1>6. u = v
  <2> HIDE DEF F, G, u, v
  <2> QED BY <1>5
<1> QED BY <1>6

\* Terms that are 0 can be left out.
LEMMA SumWithoutZeros ==
    ASSUME NEW S, IsFiniteSet(S), NEW f, IntegerOn(f, S), NEW Z, Z \subseteq S,
           \A x \in S \ Z : f[x] = 0
    PROVE  Sum(f, S) = Sum(f, Z)
<1> DEFINE D == {T \in SUBSET S : Z \subseteq T /\ Sum(f, T) # Sum(f, Z)}
<1> SUFFICES ASSUME D # {}  PROVE FALSE
  OBVIOUS
<1>1. PICK T \in D : \A U \in D : U \subseteq T => U = T
  <2>1. D \subseteq SUBSET S
    OBVIOUS
  <2> HIDE DEF D
  <2> QED BY <2>1, LeastSubset
<1>2. IsFiniteSet(T) /\ T \in SUBSET S /\ Z \subseteq T /\ Sum(f, T) # Sum(f, Z)
  BY <1>1, FS_Subset
<1>3. PICK x \in T : x \notin Z
  <2>1. T # Z
    BY <1>2
  <2> QED BY <1>2, <2>1
<1> DEFINE R == T \ {x}
<1>4. Sum(f, R) = Sum(f, Z)
  BY <1>1, <1>2, <1>3
<1> HIDE DEF D
<1>5. IntegerOn(f, T) /\ IntegerOn(f, R) /\ IsFiniteSet(R)
  BY <1>2, FS_Difference DEF IntegerOn
<1>6. Sum(f, T) = f[x] + Sum(f, R)
  BY <1>2, <1>5, SumTakes
<1>7. f[x] = 0 /\ Sum(f, R) \in Int
  BY <1>2, <1>3, <1>5, SumInteger
<1> HIDE DEF R
<1> QED BY <1>2, <1>4, <1>6, <1>7

\* A finite set of integers has a greatest.
LEMMA HasGreatest ==
    ASSUME NEW S, IsFiniteSet(S), S # {}, S \subseteq Int
    PROVE  Max(S) \in S /\ \A v \in S : Max(S) >= v
<1> DEFINE D == {T \in SUBSET S : \E v \in T : \A w \in S \ T : v > w}
<1>1. S \in D
  <2> PICK v \in S : TRUE
    OBVIOUS
  <2> QED OBVIOUS
<1>2. PICK T \in D : \A U \in D : U \subseteq T => U = T
  <2>1. D \subseteq SUBSET S
    OBVIOUS
  <2>2. D # {}
    BY <1>1
  <2> HIDE DEF D
  <2>3. IsFiniteSet(S)
    OBVIOUS
  <2> QED BY ONLY <2>1, <2>2, <2>3, LeastSubset
<1>3. PICK v \in T : \A w \in S \ T : v > w
  BY <1>2
<1>4. \A w \in S : v >= w
  <2> SUFFICES ASSUME NEW w \in S, ~(v >= w)
               PROVE  FALSE
    OBVIOUS
  <2>1. w \in T /\ v \in Int /\ w \in Int /\ w > v
    BY <1>2, <1>3
  <2> DEFINE U == T \ {v}
  <2>2. \A u \in S \ U : u # v => v > u
    BY <1>3
  <2>3. \A u \in S \ U : w > u
    BY <2>1, <2>2
  <2>4. U \in D /\ U \subseteq T /\ U # T
    BY <1>2, <1>3, <2>1, <2>3
  <2> HIDE DEF D
  <2> QED BY <1>2, <2>4
<1> QED BY <1>2, <1>3, <1>4 DEF Max

\* A double sum, g[r][v] over R and S.
Slice(g, R, v) == [r \in R |-> g[r][v]]
Line(g, S, r) == [v \in S |-> g[r][v]]
ByCols(g, R, S, T) == [v \in S |-> Sum(Slice(g, R, v), T)]
ByRows(g, R, S) == [r \in R |-> Sum(Line(g, S, r), S)]

LEMMA SumExchange ==
    ASSUME NEW R, IsFiniteSet(R), NEW S, IsFiniteSet(S), NEW g, \A r \in R, v \in S : g[r][v] \in Int
    PROVE  Sum(ByCols(g, R, S, R), S) = Sum(ByRows(g, R, S), R)
<1> DEFINE D == {T \in SUBSET R : Sum(ByCols(g, R, S, T), S) # Sum(ByRows(g, R, S), T)}
<1> SUFFICES ASSUME D # {}  PROVE FALSE
  OBVIOUS
<1>1. PICK T \in D : \A U \in D : U \subseteq T => U = T
  <2>1. D \subseteq SUBSET R
    OBVIOUS
  <2> HIDE DEF D
  <2> QED BY <2>1, LeastSubset
<1>2. T \subseteq R /\ IsFiniteSet(T) /\ Sum(ByCols(g, R, S, T), S) # Sum(ByRows(g, R, S), T)
  BY <1>1, FS_Subset
<1>3. ASSUME NEW U, U \subseteq R
      PROVE  /\ \A v \in S : IntegerOn(Slice(g, R, v), U) /\ Sum(Slice(g, R, v), U) \in Int
             /\ IntegerOn(ByCols(g, R, S, U), S) /\ IntegerOn(ByRows(g, R, S), U)
             /\ \A r \in U : IntegerOn(Line(g, S, r), S)
  <2>1. IsFiniteSet(U)
    BY <1>3, FS_Subset
  <2>2. \A v \in S : IntegerOn(Slice(g, R, v), U)
    BY <1>3 DEF IntegerOn, Slice
  <2>3. \A r \in U : IntegerOn(Line(g, S, r), S)
    BY <1>3 DEF IntegerOn, Line
  <2>4. \A v \in S : Sum(Slice(g, R, v), U) \in Int
    BY <2>1, <2>2, SumInteger
  <2>5. \A r \in U : Sum(Line(g, S, r), S) \in Int
    BY <2>3, SumInteger
  <2> QED BY <1>3, <2>2, <2>3, <2>4, <2>5 DEF IntegerOn, ByCols, ByRows
<1>4. CASE T = {}
  <2>1. \A v \in S : ByCols(g, R, S, T)[v] = 0
    BY <1>4, SumEmpty DEF ByCols
  <2>2. Sum(ByCols(g, R, S, T), S) = Sum(ByCols(g, R, S, T), {})
    BY <1>2, <1>3, <2>1, SumWithoutZeros
  <2> QED BY <1>2, <1>4, <2>2, SumEmpty
<1>5. CASE T # {}
  <2> PICK p \in T : TRUE
    BY <1>5
  <2> DEFINE U == T \ {p}
             f == ByCols(g, R, S, T)
             h == ByCols(g, R, S, U)
             l == Line(g, S, p)
             k == ByRows(g, R, S)
  <2>1. U \subseteq R /\ U \subseteq T /\ U # T /\ p \in R /\ IsFiniteSet(U)
    BY <1>2, FS_Subset
  <2>2. Sum(h, S) = Sum(k, U)
    BY <1>1, <2>1
  <2>3. IntegerOn(f, S) /\ IntegerOn(h, S) /\ IntegerOn(l, S) /\ IntegerOn(k, T)
    BY <1>2, <1>3, <2>1
  <2>4. \A v \in S : f[v] = l[v] + h[v]
    <3> SUFFICES ASSUME NEW v \in S
                 PROVE  Sum(Slice(g, R, v), T) = g[p][v] + Sum(Slice(g, R, v), U)
      BY DEF ByCols, Line
    <3>1. Slice(g, R, v)[p] = g[p][v] /\ IntegerOn(Slice(g, R, v), T)
      BY <1>2, <1>3, <2>1 DEF Slice
    <3> QED BY <1>2, <3>1, SumTakes
  <2>5. Combines(f, l, h, 1, 1, 1, S)
    <3> SUFFICES ASSUME NEW v \in S
                 PROVE  1 * f[v] = (1 * l[v]) + (1 * h[v])
      BY DEF Combines
    <3>1. f[v] \in Int /\ l[v] \in Int /\ h[v] \in Int /\ f[v] = l[v] + h[v]
      BY <2>3, <2>4 DEF IntegerOn
    <3> HIDE DEF f, l, h
    <3> QED BY <3>1
  <2>6. k[p] = Sum(l, S)
    BY <2>1 DEF ByRows
  <2> HIDE DEF f, h, l, k, U, D
  <2>7. 1 * Sum(f, S) = 1 * Sum(l, S) + 1 * Sum(h, S)
    BY <2>3, <2>5, SumCombines
  <2>8. Sum(k, T) = k[p] + Sum(k, U)
    BY <1>2, <2>3, SumTakes DEF U
  <2>9. Sum(f, S) \in Int /\ Sum(l, S) \in Int /\ Sum(h, S) \in Int
    BY <2>3, SumInteger
  <2>10. Sum(f, S) = Sum(k, T)
    BY <2>2, <2>6, <2>7, <2>8, <2>9
  <2> QED BY <1>2, <2>10 DEF f, k
<1> QED BY <1>4, <1>5

\* A sum multiplied.
LEMMA SumScaled ==
    ASSUME NEW S, IsFiniteSet(S), NEW f, IntegerOn(f, S), NEW h, IntegerOn(h, S), NEW k \in Int, NEW a \in Int,
           \A v \in S : a * h[v] = k * f[v]
    PROVE  a * Sum(h, S) = k * Sum(f, S)
<1>1. \A v \in S : a * h[v] = (k * f[v]) + (0 * f[v])
  <2> SUFFICES ASSUME NEW v \in S
               PROVE  a * h[v] = (k * f[v]) + (0 * f[v])
    OBVIOUS
  <2>1. f[v] \in Int /\ a * h[v] = k * f[v]
    BY DEF IntegerOn
  <2>2. k * f[v] \in Int /\ 0 * f[v] = 0
    BY <2>1
  <2> QED BY <2>1, <2>2
<1>2. a * Sum(h, S) = (k * Sum(f, S)) + (0 * Sum(f, S))
  BY <1>1, SumCombines DEF Combines
<1>3. Sum(f, S) \in Int
  BY SumInteger
<1>4. k * Sum(f, S) \in Int /\ 0 * Sum(f, S) = 0
  BY <1>3
<1> QED BY <1>2, <1>4

\* Something comes first in a finite set that a relation orders, ties allowed.
Ranks(R, S) ==
    /\ \A v \in S, w \in S : <<v, w>> \in R \/ <<w, v>> \in R
    /\ \A u \in S, v \in S, w \in S : <<u, v>> \in R /\ <<v, w>> \in R => <<u, w>> \in R

LEMMA HasFirst ==
    ASSUME NEW S, IsFiniteSet(S), S # {}, NEW R, Ranks(R, S)
    PROVE  \E v \in S : \A w \in S : <<v, w>> \in R
<1> DEFINE D == {T \in SUBSET S : T # {} /\ \A v \in T : \E w \in T : <<v, w>> \notin R}
<1> SUFFICES ASSUME D # {}  PROVE FALSE
  OBVIOUS
<1>1. PICK T \in D : \A U \in D : U \subseteq T => U = T
  <2>1. D \subseteq SUBSET S
    OBVIOUS
  <2> HIDE DEF D
  <2> QED BY <2>1, LeastSubset
<1>2. T \subseteq S /\ T # {} /\ \A v \in T : \E w \in T : <<v, w>> \notin R
  BY <1>1
<1>3. PICK p \in T : TRUE
  BY <1>2
<1> DEFINE U == T \ {p}
<1>4. U \subseteq T /\ U # T /\ U \subseteq S /\ p \in S
  BY <1>2, <1>3
<1>5. U \notin D
  <2> HIDE DEF D
  <2> QED BY <1>1, <1>4
<1>6. CASE U = {}
  <2>1. <<p, p>> \in R /\ \A w \in T : w = p
    BY <1>4, <1>6 DEF Ranks
  <2> QED BY <1>2, <1>3, <2>1
<1>7. CASE U # {}
  <2>1. PICK v \in U : \A w \in U : <<v, w>> \in R
    BY <1>4, <1>5, <1>7
  <2>2. CASE <<v, p>> \in R
    <3>1. \A w \in T : <<v, w>> \in R
      BY <2>1, <2>2
    <3> QED BY <1>2, <1>4, <2>1, <3>1
  <2>3. CASE <<v, p>> \notin R
    <3>1. <<p, v>> \in R /\ <<p, p>> \in R
      BY <1>4, <2>1, <2>3 DEF Ranks
    <3>2. \A w \in U : <<p, w>> \in R
      BY <1>4, <2>1, <3>1 DEF Ranks
    <3>3. \A w \in T : <<p, w>> \in R
      BY <3>1, <3>2
    <3> QED BY <1>2, <1>3, <3>3
  <2> QED BY <2>2, <2>3
<1> QED BY <1>6, <1>7

LEMMA HasLeast ==
    ASSUME NEW S, IsFiniteSet(S), S # {}, S \subseteq Int
    PROVE  Min(S) \in S /\ \A v \in S : Min(S) <= v
<1> DEFINE R == {z \in S \X S : z[1] <= z[2]}
<1>1. Ranks(R, S)
  BY DEF Ranks
<1> HIDE DEF R
<1>2. PICK v \in S : \A w \in S : <<v, w>> \in R
  BY <1>1, HasFirst
<1>3. \A w \in S : v <= w
  BY <1>2 DEF R
<1> QED BY <1>3 DEF Min

\* The least index of those that come first.
Firsts(R, S) == {v \in S : \A w \in S : <<v, w>> \in R}

LEMMA LeastFirst ==
    ASSUME NEW S, IsFiniteSet(S), S # {}, S \subseteq Int, NEW R, Ranks(R, S)
    PROVE  Min(Firsts(R, S)) \in Firsts(R, S)
<1> DEFINE F == Firsts(R, S)
<1>1. F # {} /\ F \subseteq S
  BY HasFirst DEF Firsts
<1> HIDE DEF F
<1>2. IsFiniteSet(F) /\ F \subseteq Int
  BY <1>1, FS_Subset
<1>3. Min(F) \in F
  BY <1>1, <1>2, HasLeast
<1> QED BY <1>3 DEF F

LEMMA ImageFinite ==
    ASSUME NEW S, IsFiniteSet(S), NEW h
    PROVE  IsFiniteSet({h[v] : v \in S})
<1> DEFINE T == {h[v] : v \in S}
           f == [v \in S |-> h[v]]
<1>1. f \in Surjection(S, T)
  BY DEF Surjection
<1> QED BY <1>1, FS_Surjection

\* A sum does not depend on the names of its terms: s names them by k in N.
LEMMA SumRenamed ==
    ASSUME NEW N, IsFiniteSet(N), NEW C, NEW s \in [N -> C], \A k \in N, l \in N : s[k] = s[l] => k = l,
           NEW f, IntegerOn(f, C)
    PROVE  Sum([k \in N |-> f[s[k]]], N) = Sum(f, {s[k] : k \in N})
<1> DEFINE g == [k \in N |-> f[s[k]]]
           I(T) == {s[k] : k \in T}
           D == {T \in SUBSET N : Sum(g, T) # Sum(f, I(T))}
<1> SUFFICES ASSUME D # {}  PROVE FALSE
  OBVIOUS
<1>1. PICK T \in D : \A U \in D : U \subseteq T => U = T
  <2>1. D \subseteq SUBSET N
    OBVIOUS
  <2> HIDE DEF D
  <2> QED BY <2>1, LeastSubset
<1>2. IsFiniteSet(T) /\ T \subseteq N /\ Sum(g, T) # Sum(f, I(T))
  BY <1>1, FS_Subset
<1>3. \A U \in SUBSET N : U \notin D => Sum(g, U) = Sum(f, I(U))
  OBVIOUS
<1>4. CASE T = {}
  <2>1. I(T) = {}
    BY <1>4
  <2> HIDE DEF g, I
  <2> QED BY <1>2, <1>4, <2>1, SumEmpty
<1>5. CASE T # {}
  <2>1. PICK k \in T : TRUE
    BY <1>5
  <2> DEFINE U == T \ {k}
  <2>2. U \in SUBSET N /\ U # T /\ U \subseteq T
    BY <1>2, <2>1
  <2>3. U \notin D
    <3> HIDE DEF D, U
    <3> QED BY <1>1, <2>2
  <2>4. Sum(g, U) = Sum(f, I(U))
    BY <1>3, <2>2, <2>3
  <2>5. I(U) = I(T) \ {s[k]} /\ s[k] \in I(T) /\ I(T) \subseteq C
    BY <1>2, <2>1
  <2>6. IsFiniteSet(I(T))
    BY <1>2, ImageFinite
  <2>7. IntegerOn(g, T) /\ g[k] = f[s[k]]
    BY <1>2, <2>1 DEF IntegerOn
  <2>8. IntegerOn(f, I(T))
    BY <2>5 DEF IntegerOn
  <2> HIDE DEF g, I, D
  <2>9. Sum(g, T) = g[k] + Sum(g, U)
    BY <1>2, <2>1, <2>7, SumTakes
  <2>10. Sum(f, I(T)) = f[s[k]] + Sum(f, I(U))
    BY <2>5, <2>6, <2>8, SumTakes
  <2> QED BY <1>2, <2>4, <2>7, <2>9, <2>10
<1> QED BY <1>4, <1>5

=============================================================================
