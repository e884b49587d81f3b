------------------------------- MODULE CooProofs -------------------------------
(***************************************************************************)
(* The coordinate matrix, for every number of rows, columns and triplets:  *)
(* no order of the calls makes a flag say more than holds, or changes what *)
(* a cell is worth.  std::stable_sort gives a list with the same triplets, *)
(* no one of them after a greater one; the loop that merges leaves no cell *)
(* twice in a list that is sorted; both, and the removal of zeros, keep    *)
(* the sum of every cell.                                                  *)
(***************************************************************************)
EXTENDS CooMatrix, Sums, SequenceTheorems

-----------------------------------------------------------------------------
(* Places in a finite set that a relation orders strictly.                 *)

OrdersStrictly(R, S) ==
    /\ \A a \in S : <<a, a>> \notin R
    /\ \A a, b \in S : a # b => <<a, b>> \in R \/ <<b, a>> \in R
    /\ \A a, b, e \in S : <<a, b>> \in R /\ <<b, e>> \in R => <<a, e>> \in R
Earlier(R, S, i) == {j \in S : <<j, i>> \in R}
Places(R, S) == [i \in S |-> Cardinality(Earlier(R, S, i)) + 1]

\* What comes first has the smaller place.
LEMMA PlacesOrdered ==
    ASSUME NEW S, IsFiniteSet(S), NEW R, OrdersStrictly(R, S), NEW a \in S, NEW b \in S, <<a, b>> \in R
    PROVE  Places(R, S)[a] < Places(R, S)[b]
<1> DEFINE A == Earlier(R, S, a)
           B == Earlier(R, S, b)
<1>1. A \subseteq B /\ a \in B /\ a \notin A /\ B \subseteq S
  BY DEF OrdersStrictly, Earlier
<1> HIDE DEF A, B
<1>2. IsFiniteSet(B)
  BY <1>1, FS_Subset
<1>3. IsFiniteSet(A) /\ Cardinality(A) <= Cardinality(B) /\ Cardinality(A) # Cardinality(B)
  BY <1>1, <1>2, FS_Subset
<1>4. Cardinality(A) \in Nat /\ Cardinality(B) \in Nat
  BY <1>2, <1>3, FS_CardinalityType
<1> QED BY <1>3, <1>4 DEF Places, A, B

\* Every place is taken, and by one member only.
LEMMA PlacesFill ==
    ASSUME NEW S, IsFiniteSet(S), NEW R, OrdersStrictly(R, S)
    PROVE  Places(R, S) \in Bijection(S, 1..Cardinality(S))
<1> DEFINE n == Cardinality(S)
<1>1. n \in Nat
  BY FS_CardinalityType
<1>2. ASSUME NEW i \in S
      PROVE  Cardinality(Earlier(R, S, i)) + 1 \in 1..n
  <2> DEFINE A == Earlier(R, S, i)
  <2>1. A \subseteq S \ {i}
    BY DEF OrdersStrictly, Earlier
  <2>2. IsFiniteSet(S \ {i}) /\ Cardinality(S \ {i}) = n - 1
    BY FS_RemoveElement
  <2> HIDE DEF A
  <2>3. IsFiniteSet(A) /\ Cardinality(A) <= n - 1
    BY <2>1, <2>2, FS_Subset
  <2>4. Cardinality(A) \in Nat
    BY <2>3, FS_CardinalityType
  <2> QED BY <1>1, <2>3, <2>4 DEF A
<1>3. Places(R, S) \in [S -> 1..n]
  BY <1>2 DEF Places
<1>4. ASSUME NEW a \in S, NEW b \in S, Places(R, S)[a] = Places(R, S)[b], a # b
      PROVE  FALSE
  <2>1. <<a, b>> \in R \/ <<b, a>> \in R
    BY <1>4 DEF OrdersStrictly
  <2>2. Places(R, S)[a] \in Int /\ Places(R, S)[b] \in Int
    BY <1>3
  <2>3. ~(Places(R, S)[a] < Places(R, S)[b]) /\ ~(Places(R, S)[b] < Places(R, S)[a])
    BY <1>4, <2>2
  <2> QED BY <2>1, <2>3, PlacesOrdered
<1>5. Places(R, S) \in Injection(S, 1..n)
  BY <1>3, <1>4 DEF Injection, IsInjective
<1>6. IsFiniteSet(1..n) /\ Cardinality(1..n) = n
  BY <1>1, FS_Interval
<1>7. Places(R, S) \in Surjection(S, 1..n)
  BY <1>5, <1>6, FS_Injection
<1> QED BY <1>5, <1>7 DEF Bijection

-----------------------------------------------------------------------------
(* Sorting.                                                                *)

Triplets == [row : Nat, col : Nat, val : Int]

\* What the stable sort puts earlier.
Precedes(ts, order, i, j) == Less(ts[i], ts[j], order) \/ (SameCell(ts[i], ts[j]) /\ i < j)
SortsBefore(ts, order) == {z \in (DOMAIN ts) \X (DOMAIN ts) : Precedes(ts, order, z[1], z[2])}

LEMMA SortsBeforeIs ==
    ASSUME NEW ts, NEW order, NEW i \in DOMAIN ts, NEW j \in DOMAIN ts
    PROVE  <<i, j>> \in SortsBefore(ts, order) <=> Precedes(ts, order, i, j)
  BY DEF SortsBefore

\* How the order of storage compares cells.
LEMMA CellsCompare ==
    ASSUME NEW order \in Orders, NEW a \in Triplets, NEW b \in Triplets, NEW e \in Triplets
    PROVE  /\ Less(a, b, order) \in BOOLEAN /\ SameCell(a, b) \in BOOLEAN
           /\ Less(a, b, order) \/ Less(b, a, order) \/ SameCell(a, b)
           /\ Less(a, b, order) => ~Less(b, a, order) /\ ~SameCell(a, b)
           /\ SameCell(a, b) <=> SameCell(b, a)
           /\ Less(a, b, order) /\ Less(b, e, order) => Less(a, e, order)
           /\ SameCell(a, b) => (Less(a, e, order) <=> Less(b, e, order)) /\ (Less(e, a, order) <=> Less(e, b, order))
           /\ SameCell(a, b) => (SameCell(a, e) <=> SameCell(b, e))
<1>1. /\ a.row \in Nat /\ a.col \in Nat /\ b.row \in Nat /\ b.col \in Nat
      /\ e.row \in Nat /\ e.col \in Nat
  BY DEF Triplets
<1>2. CASE order = "row"
  BY <1>1, <1>2 DEF Less, RowMajorLess, SameCell
<1>3. CASE order = "col"
  BY <1>1, <1>3 DEF Less, ColMajorLess, SameCell
<1> QED BY <1>2, <1>3 DEF Orders

LEMMA ListOf ==
    ASSUME NEW ts \in Seq(Triplets)
    PROVE  /\ DOMAIN ts = 1..Len(ts) /\ Len(ts) \in Nat /\ \A k \in DOMAIN ts : ts[k] \in Triplets /\ k \in Int
           /\ IsFiniteSet(DOMAIN ts) /\ Cardinality(DOMAIN ts) = Len(ts)
<1>1. DOMAIN ts = 1..Len(ts) /\ Len(ts) \in Nat /\ ts \in [1..Len(ts) -> Triplets]
  BY LenProperties
<1>2. \A k \in DOMAIN ts : ts[k] \in Triplets /\ k \in Int
  BY <1>1
<1>3. IsFiniteSet(1..Len(ts)) /\ Cardinality(1..Len(ts)) = IF 1 > Len(ts) THEN 0 ELSE (Len(ts) - 1) + 1
  BY <1>1, FS_Interval
<1> QED BY <1>1, <1>2, <1>3

LEMMA SortIsStrict ==
    ASSUME NEW ts \in Seq(Triplets), NEW order \in Orders
    PROVE  OrdersStrictly(SortsBefore(ts, order), DOMAIN ts) /\ IsFiniteSet(DOMAIN ts)
<1> DEFINE D == DOMAIN ts
           R == SortsBefore(ts, order)
           Before(i, j) == Precedes(ts, order, i, j)
<1>1. D = 1..Len(ts) /\ Len(ts) \in Nat /\ \A k \in D : ts[k] \in Triplets /\ k \in Int
  BY ListOf
<1>2. \A i, j \in D : <<i, j>> \in R <=> Before(i, j)
  BY SortsBeforeIs
<1> HIDE DEF D, R
<1>3. ASSUME NEW i \in D, NEW j \in D, NEW k \in D
      PROVE  /\ ~Before(i, i)
             /\ i # j => Before(i, j) \/ Before(j, i)
             /\ Before(i, j) /\ Before(j, k) => Before(i, k)
  <2>1. ts[i] \in Triplets /\ ts[j] \in Triplets /\ ts[k] \in Triplets /\ i \in Int /\ j \in Int /\ k \in Int
    BY <1>1
  <2>2. ~Before(i, i)
    BY <2>1, CellsCompare DEF Precedes
  <2>3. i # j => Before(i, j) \/ Before(j, i)
    BY <2>1, CellsCompare DEF Precedes
  <2>4. Before(i, j) /\ Before(j, k) => Before(i, k)
    <3>1. CASE Less(ts[i], ts[j], order)
      BY <2>1, <3>1, CellsCompare DEF Precedes
    <3>2. CASE SameCell(ts[i], ts[j]) /\ i < j
      BY <2>1, <3>2, CellsCompare DEF Precedes
    <3> QED BY <3>1, <3>2 DEF Precedes
  <2> QED BY <2>2, <2>3, <2>4
<1> HIDE DEF Before
<1>4. OrdersStrictly(R, D)
  BY <1>2, <1>3 DEF OrdersStrictly
<1>5. IsFiniteSet(D)
  BY <1>1, FS_Interval
<1> QED BY <1>4, <1>5 DEF D, R

\* Which triplet goes where.
Sources(ts, order, s) ==
    /\ s \in [DOMAIN ts -> DOMAIN ts]
    /\ \A k \in DOMAIN ts, l \in DOMAIN ts : s[k] = s[l] => k = l
    /\ {s[k] : k \in DOMAIN ts} = DOMAIN ts
    /\ \A k \in DOMAIN ts, l \in DOMAIN ts : k < l => <<s[k], s[l]>> \in SortsBefore(ts, order)
    /\ StableSort(ts, order) = [k \in DOMAIN ts |-> ts[s[k]]]

LEMMA SortRearranges ==
    ASSUME NEW ts \in Seq(Triplets), NEW order \in Orders
    PROVE  \E s : Sources(ts, order, s)
<1> DEFINE D == DOMAIN ts
           R == SortsBefore(ts, order)
           rank == [i \in D |-> Cardinality({j \in D : \/ Less(ts[j], ts[i], order)
                                                       \/ SameCell(ts[j], ts[i]) /\ j < i}) + 1]
           s == [k \in D |-> CHOOSE i \in D : rank[i] = k]
<1>1. D = 1..Len(ts) /\ Len(ts) \in Nat /\ IsFiniteSet(D) /\ Cardinality(D) = Len(ts)
  BY ListOf
<1>2. OrdersStrictly(R, D)
  BY SortIsStrict
<1>3. ASSUME NEW i \in D
      PROVE  rank[i] = Places(R, D)[i]
  <2> DEFINE B == {j \in D : \/ Less(ts[j], ts[i], order)
                             \/ SameCell(ts[j], ts[i]) /\ j < i}
  <2>1. \A j \in D : <<j, i>> \in R <=> j \in B
    <3>1. \A j \in D : <<j, i>> \in R <=> Precedes(ts, order, j, i)
      BY SortsBeforeIs
    <3> HIDE DEF R
    <3> QED BY <3>1 DEF Precedes
  <2>2. Earlier(R, D, i) = B
    <3> HIDE DEF B, R, D
    <3>1. B \subseteq D
      BY DEF B
    <3> QED BY <2>1, <3>1 DEF Earlier
  <2>3. Places(R, D)[i] = Cardinality(Earlier(R, D, i)) + 1
    BY DEF Places
  <2>4. rank[i] = Cardinality(B) + 1
    OBVIOUS
  <2> QED BY <2>2, <2>3, <2>4
<1>4. StableSort(ts, order) = [k \in D |-> ts[CHOOSE i \in D : rank[i] = k]]
  BY DEF StableSort
<1>5. rank = Places(R, D)
  <2>1. rank = [i \in D |-> rank[i]] /\ Places(R, D) = [i \in D |-> Places(R, D)[i]]
    BY DEF Places
  <2> HIDE DEF rank, R, D
  <2> QED BY <1>3, <2>1
<1> HIDE DEF rank
<1>6. rank \in Bijection(D, D)
  <2> HIDE DEF D, R
  <2> QED BY <1>1, <1>2, <1>5, PlacesFill
<1>7. rank \in [D -> D] /\ (\A i, j \in D : rank[i] = rank[j] => i = j) /\ \A k \in D : \E i \in D : rank[i] = k
  BY <1>6 DEF Bijection, Injection, Surjection, IsInjective
<1>8. ASSUME NEW k \in D
      PROVE  s[k] \in D /\ rank[s[k]] = k
  BY <1>7
<1>9. StableSort(ts, order) = [k \in D |-> ts[s[k]]]
  BY <1>4
<1>10. s \in [D -> D]
  BY <1>8
<1> HIDE DEF s
<1>11. \A k \in D, l \in D : s[k] = s[l] => k = l
  BY <1>8
<1>12. {s[k] : k \in D} = D
  <2>1. \A i \in D : rank[i] \in D /\ s[rank[i]] = i
    <3> SUFFICES ASSUME NEW i \in D  PROVE rank[i] \in D /\ s[rank[i]] = i
      OBVIOUS
    <3>1. rank[i] \in D
      BY <1>7
    <3>2. s[rank[i]] \in D /\ rank[s[rank[i]]] = rank[i]
      BY <1>8, <3>1
    <3> QED BY <1>7, <3>1, <3>2
  <2> QED BY <1>8, <2>1
<1>13. ASSUME NEW k \in D, NEW l \in D, k < l
       PROVE  <<s[k], s[l]>> \in R
  <2>1. s[k] \in D /\ s[l] \in D /\ rank[s[k]] = k /\ rank[s[l]] = l /\ k \in Int /\ l \in Int
    BY <1>1, <1>8
  <2>2. s[k] # s[l] /\ ~(l < k)
    BY <1>13, <2>1
  <2>3. <<s[l], s[k]>> \notin R
    <3> SUFFICES ASSUME <<s[l], s[k]>> \in R  PROVE FALSE
      OBVIOUS
    <3>1. rank[s[l]] < rank[s[k]]
      <4> HIDE DEF D, R
      <4> QED BY <1>1, <1>2, <1>5, <2>1, PlacesOrdered
    <3> QED BY <2>1, <2>2, <3>1
  <2> QED BY <1>2, <2>1, <2>2, <2>3 DEF OrdersStrictly
<1> QED BY <1>9, <1>10, <1>11, <1>12, <1>13 DEF Sources

-----------------------------------------------------------------------------
(* Merging duplicates and dropping zeros are folds over the list; here the *)
(* two are one, and the sets of counterexamples are formed as for sums.    *)

\* What the loop does with triplet t after it has kept that list.
Squeezed(m, t, kept) ==
    IF m = "merge"
    THEN IF kept # <<>> /\ SameCell(Last(kept), t)
         THEN [kept EXCEPT ![Len(kept)].val = @ + t.val]
         ELSE Append(kept, t)
    ELSE IF t.val # 0 THEN Append(kept, t) ELSE kept

\* g is the recursive function behind it, on the subsets of S.
Squeezes(m, s, S, g) == g = [T \in SUBSET S |-> IF T = {} THEN <<>> ELSE Squeezed(m, s[Max(T)], g[T \ {Max(T)}])]

Positions(S) == IsFiniteSet(S) /\ S \subseteq Nat

LEMMA PositionsBelow ==
    ASSUME NEW S, Positions(S)
    PROVE  /\ IsFiniteSet(S)
           /\ \A T \in SUBSET S : Positions(T) /\ (T # {} => Max(T) \in T)
<1>1. IsFiniteSet(S) /\ S \subseteq Nat
  BY DEF Positions
<1>2. ASSUME NEW T \in SUBSET S
      PROVE  IsFiniteSet(T) /\ T \subseteq Nat /\ T \subseteq Int
  <2>1. T \subseteq S
    BY <1>2
  <2>2. IsFiniteSet(T)
    BY <1>1, <2>1, FS_Subset
  <2> QED BY <1>1, <2>1, <2>2
<1>3. ASSUME NEW T \in SUBSET S
      PROVE  Positions(T) /\ (T # {} => Max(T) \in T)
  <2>1. Positions(T)
    BY <1>2 DEF Positions
  <2> QED BY <1>2, <2>1, HasGreatest
<1> QED BY <1>1, <1>3

LEMMA SqueezesAt ==
    ASSUME NEW m, NEW s, NEW S, NEW g, Squeezes(m, s, S, g), NEW T \in SUBSET S
    PROVE  g[T] = IF T = {} THEN <<>> ELSE Squeezed(m, s[Max(T)], g[T \ {Max(T)}])
  BY DEF Squeezes

LEMMA SqueezesOnce ==
    ASSUME NEW m, NEW s, NEW S, Positions(S),
           NEW g, NEW h, Squeezes(m, s, S, g), Squeezes(m, s, S, h)
    PROVE  g = h
<1> DEFINE D == {T \in SUBSET S : g[T] # h[T]}
<1>1. CASE D = {}
  BY <1>1 DEF Squeezes
<1>2. CASE D # {}
  <2>1. PICK T \in D : \A U \in D : U \subseteq T => U = T
    <3>1. D \subseteq SUBSET S
      OBVIOUS
    <3> HIDE DEF D
    <3> QED BY <1>2, <3>1, LeastSubset, PositionsBelow
  <2>2. CASE T = {}
    BY <2>1, <2>2, SqueezesAt
  <2>3. CASE T # {}
    <3>1. Max(T) \in T
      BY <2>1, <2>3, PositionsBelow
    <3>2. g[T \ {Max(T)}] = h[T \ {Max(T)}]
      BY <2>1, <3>1
    <3> QED BY <2>1, <2>3, <3>2, SqueezesAt
  <2> QED BY <2>2, <2>3
<1> QED BY <1>1, <1>2

LEMMA SqueezesBelow ==
    ASSUME NEW m, NEW s, NEW S, NEW g, Squeezes(m, s, S, g), NEW T, T \subseteq S
    PROVE  Squeezes(m, s, T, [U \in SUBSET T |-> g[U]])
<1> DEFINE h == [U \in SUBSET T |-> g[U]]
<1>1. ASSUME NEW U \in SUBSET T
      PROVE  h[U] = IF U = {} THEN <<>> ELSE Squeezed(m, s[Max(U)], h[U \ {Max(U)}])
  <2>1. U \in SUBSET T /\ U \ {Max(U)} \in SUBSET T
    BY <1>1
  <2>2. h[U] = g[U] /\ h[U \ {Max(U)}] = g[U \ {Max(U)}]
    BY <2>1
  <2>3. g[U] = IF U = {} THEN <<>> ELSE Squeezed(m, s[Max(U)], g[U \ {Max(U)}])
    <3>1. U \in SUBSET S
      BY <2>1
    <3> QED BY <3>1, SqueezesAt
  <2> HIDE DEF h
  <2> QED BY <2>2, <2>3
<1> QED BY <1>1 DEF Squeezes

LEMMA SqueezesExist ==
    ASSUME NEW m, NEW s, NEW S, Positions(S)
    PROVE  \E g : Squeezes(m, s, S, g)
<1> DEFINE D == {T \in SUBSET S : ~\E g : Squeezes(m, s, T, g)}
           G(T) == CHOOSE g : Squeezes(m, s, T, g)
<1> SUFFICES ASSUME D # {}  PROVE FALSE
  OBVIOUS
<1>1. PICK T \in D : \A U \in D : U \subseteq T => U = T
  <2>1. D \subseteq SUBSET S
    OBVIOUS
  <2> HIDE DEF D
  <2> QED BY <2>1, LeastSubset, PositionsBelow
<1>2. \A U \in SUBSET T : U # T => Squeezes(m, s, U, G(U))
  BY <1>1
<1>3. \A U \in SUBSET T : Positions(U) /\ (U # {} => Max(U) \in U)
  BY <1>1, PositionsBelow
<1> HIDE DEF G, D
<1> DEFINE Rest(U) == U \ {Max(U)}
           g == [U \in SUBSET T |-> IF U = {} THEN <<>> ELSE Squeezed(m, s[Max(U)], G(Rest(U))[Rest(U)])]
<1>4. \A U \in SUBSET T : U # {} => Max(U) \in U
  BY <1>3
<1>5. ASSUME NEW U \in SUBSET T, U # T  PROVE G(U)[U] = g[U]
  <2>1. CASE U = {}
    BY <1>2, <1>5, <2>1, SqueezesAt
  <2>2. CASE U # {}
    <3> DEFINE R == Rest(U)
    <3>1. R \subseteq U /\ R \in SUBSET T /\ R # T
      BY <1>4, <2>2
    <3>2. Squeezes(m, s, R, [V \in SUBSET R |-> G(U)[V]])
      <4>1. Squeezes(m, s, U, G(U)) /\ R \subseteq U
        BY <1>2, <1>5, <3>1
      <4> HIDE DEF R
      <4> QED BY <4>1, SqueezesBelow
    <3>3. Squeezes(m, s, R, G(R))
      BY <1>2, <3>1
    <3>4. G(R) = [V \in SUBSET R |-> G(U)[V]]
      BY <1>3, <3>1, <3>2, <3>3, SqueezesOnce
    <3>5. G(U)[U] = Squeezed(m, s[Max(U)], G(U)[R])
      <4>1. Squeezes(m, s, U, G(U)) /\ U \in SUBSET U
        BY <1>2, <1>5
      <4>2. G(U)[U] = IF U = {} THEN <<>> ELSE Squeezed(m, s[Max(U)], G(U)[U \ {Max(U)}])
        BY <4>1, SqueezesAt
      <4> QED BY <2>2, <4>2
    <3>6. G(R)[R] = G(U)[R]
      BY <3>4
    <3> QED BY <2>2, <3>5, <3>6
  <2> QED BY <2>1, <2>2
<1>6. \A U \in SUBSET T : g[U] = IF U = {} THEN <<>> ELSE Squeezed(m, s[Max(U)], g[Rest(U)])
  <2> SUFFICES ASSUME NEW U \in SUBSET T, U # {}
               PROVE  g[U] = Squeezed(m, s[Max(U)], g[Rest(U)])
    OBVIOUS
  <2>1. Rest(U) \in SUBSET T /\ Rest(U) # T
    BY <1>4
  <2>2. G(Rest(U))[Rest(U)] = g[Rest(U)]
    BY <1>5, <2>1
  <2>3. g[U] = Squeezed(m, s[Max(U)], G(Rest(U))[Rest(U)])
    OBVIOUS
  <2> QED BY <2>2, <2>3
<1>7. Squeezes(m, s, T, g)
  BY <1>6 DEF Squeezes
<1> QED BY <1>1, <1>7 DEF D

\* What is kept of the triplets at the places in T.
SqueezedAt(m, s, T) == (CHOOSE g : Squeezes(m, s, T, g))[T]

LEMMA SqueezedStep ==
    ASSUME NEW m, NEW s, NEW S, Positions(S)
    PROVE  SqueezedAt(m, s, S) = IF S = {} THEN <<>> ELSE Squeezed(m, s[Max(S)], SqueezedAt(m, s, S \ {Max(S)}))
<1> DEFINE G(T) == CHOOSE g : Squeezes(m, s, T, g)
<1>1. \A T \in SUBSET S : Positions(T)
  BY PositionsBelow
<1>2. \A T \in SUBSET S : Squeezes(m, s, T, G(T))
  BY <1>1, SqueezesExist
<1>3. \A T \in SUBSET S : SqueezedAt(m, s, T) = G(T)[T]
  BY DEF SqueezedAt
<1> HIDE DEF G
<1>4. CASE S = {}
  <2>1. G(S)[S] = <<>>
    BY <1>2, <1>4, SqueezesAt
  <2> QED BY <1>3, <1>4, <2>1
<1>5. CASE S # {}
  <2> DEFINE R == S \ {Max(S)}
  <2>1. G(S)[S] = Squeezed(m, s[Max(S)], G(S)[R])
    <3>1. Squeezes(m, s, S, G(S)) /\ S \in SUBSET S
      BY <1>2
    <3>2. G(S)[S] = IF S = {} THEN <<>> ELSE Squeezed(m, s[Max(S)], G(S)[S \ {Max(S)}])
      BY <3>1, SqueezesAt
    <3> QED BY <1>5, <3>2
  <2>2. Squeezes(m, s, R, [T \in SUBSET R |-> G(S)[T]])
    BY <1>2, SqueezesBelow
  <2>3. Squeezes(m, s, R, G(R)) /\ Positions(R)
    BY <1>1, <1>2
  <2>4. G(R) = [T \in SUBSET R |-> G(S)[T]]
    BY <2>2, <2>3, SqueezesOnce
  <2>5. G(R)[R] = G(S)[R]
    BY <2>4
  <2>6. SqueezedAt(m, s, S) = G(S)[S] /\ SqueezedAt(m, s, R) = G(R)[R]
    BY <1>3
  <2> QED BY <1>5, <2>1, <2>5, <2>6
<1> QED BY <1>4, <1>5

\* The first k triplets of s, one after another.
LEMMA SqueezedInOrder ==
    ASSUME NEW m, NEW s, NEW k \in Nat
    PROVE  SqueezedAt(m, s, 1..k) = IF k = 0 THEN <<>> ELSE Squeezed(m, s[k], SqueezedAt(m, s, 1..(k - 1)))
<1>1. Positions(1..k)
  BY FS_Interval DEF Positions
<1>2. CASE k = 0
  <2>1. 1..k = {}
    BY <1>2
  <2> QED BY <1>1, <1>2, <2>1, SqueezedStep
<1>3. CASE k # 0
  <2>1. 1..k # {} /\ k \in 1..k /\ (1..k) \ {k} = 1..(k - 1) /\ 1..k \subseteq Int
    BY <1>3
  <2>2. Max(1..k) = k
    <3>1. Max(1..k) \in 1..k /\ \A v \in 1..k : Max(1..k) >= v
      BY <1>1, <2>1, HasGreatest DEF Positions
    <3> QED BY <2>1, <3>1
  <2>3. SqueezedAt(m, s, 1..k) = Squeezed(m, s[Max(1..k)], SqueezedAt(m, s, (1..k) \ {Max(1..k)}))
    BY <1>1, <2>1, SqueezedStep
  <2> QED BY <1>3, <2>1, <2>2, <2>3
<1> QED BY <1>2, <1>3

LEMMA MergedIsSqueezed ==
    ASSUME NEW ts \in Seq(Triplets)
    PROVE  Merged(ts) = SqueezedAt("merge", ts, 1..Len(ts))
<1> DEFINE D == DOMAIN ts
           Loop(g) == g = [T \in SUBSET D |->
                              IF T = {} THEN <<>>
                              ELSE IF g[T \ {Max(T)}] # <<>> /\ SameCell(Last(g[T \ {Max(T)}]), ts[Max(T)])
                                   THEN [g[T \ {Max(T)}] EXCEPT ![Len(g[T \ {Max(T)}])].val = @ + ts[Max(T)].val]
                                   ELSE Append(g[T \ {Max(T)}], ts[Max(T)])]
<1>1. Merged(ts) = (CHOOSE g : Loop(g))[D]
  BY DEF Merged, FoldLeft, MapThenFoldSet
<1>2. ASSUME NEW g
      PROVE  Loop(g) <=> Squeezes("merge", ts, D, g)
  BY DEF Squeezes, Squeezed
<1>3. D = 1..Len(ts) /\ Positions(D)
  BY ListOf DEF Positions
<1> HIDE DEF D, Loop
<1>4. PICK h : Squeezes("merge", ts, D, h)
  BY <1>3, SqueezesExist
<1>5. Loop(CHOOSE g : Loop(g))
  BY <1>2, <1>4
<1>6. Squeezes("merge", ts, D, CHOOSE g : Loop(g)) /\ Squeezes("merge", ts, D, CHOOSE g : Squeezes("merge", ts, D, g))
  BY <1>2, <1>4, <1>5
<1>7. (CHOOSE g : Loop(g)) = (CHOOSE g : Squeezes("merge", ts, D, g))
  BY <1>3, <1>6, SqueezesOnce
<1> QED BY <1>1, <1>3, <1>7 DEF SqueezedAt

LEMMA WithoutZerosIsSqueezed ==
    ASSUME NEW ts \in Seq(Triplets)
    PROVE  WithoutZeros(ts) = SqueezedAt("drop", ts, 1..Len(ts))
<1> DEFINE D == DOMAIN ts
           Loop(g) == g = [T \in SUBSET D |->
                              IF T = {} THEN <<>>
                              ELSE IF ts[Max(T)].val # 0 THEN Append(g[T \ {Max(T)}], ts[Max(T)])
                                   ELSE g[T \ {Max(T)}]]
<1>1. WithoutZeros(ts) = (CHOOSE g : Loop(g))[D]
  BY DEF WithoutZeros, FoldLeft, MapThenFoldSet
<1>2. ASSUME NEW g
      PROVE  Loop(g) <=> Squeezes("drop", ts, D, g)
  BY DEF Squeezes, Squeezed
<1>3. D = 1..Len(ts) /\ Positions(D)
  BY ListOf DEF Positions
<1> HIDE DEF D, Loop
<1>4. PICK h : Squeezes("drop", ts, D, h)
  BY <1>3, SqueezesExist
<1>5. Loop(CHOOSE g : Loop(g))
  BY <1>2, <1>4
<1>6. Squeezes("drop", ts, D, CHOOSE g : Loop(g)) /\ Squeezes("drop", ts, D, CHOOSE g : Squeezes("drop", ts, D, g))
  BY <1>2, <1>4, <1>5
<1>7. (CHOOSE g : Loop(g)) = (CHOOSE g : Squeezes("drop", ts, D, g))
  BY <1>3, <1>6, SqueezesOnce
<1> QED BY <1>1, <1>3, <1>7 DEF SqueezedAt

-----------------------------------------------------------------------------
(* What a cell is worth.                                                   *)

\* What triplet t contributes to the cell (r, c).
Part(t, r, c) == IF t.row = r /\ t.col = c THEN t.val ELSE 0
Parts(ts, r, c) == [k \in DOMAIN ts |-> Part(ts[k], r, c)]
Worth(ts, r, c) == Sum(Parts(ts, r, c), DOMAIN ts)

LEMMA PartIsInteger ==
    ASSUME NEW t \in Triplets, NEW r, NEW c
    PROVE  Part(t, r, c) \in Int
  BY DEF Part, Triplets

LEMMA PartsAreIntegers ==
    ASSUME NEW ts \in Seq(Triplets), NEW r, NEW c
    PROVE  IntegerOn(Parts(ts, r, c), DOMAIN ts) /\ IsFiniteSet(DOMAIN ts)
<1>1. \A k \in DOMAIN ts : ts[k] \in Triplets
  BY ListOf
<1>2. \A k \in DOMAIN ts : Parts(ts, r, c)[k] \in Int
  BY <1>1, PartIsInteger DEF Parts
<1> QED BY <1>2, ListOf DEF IntegerOn

\* The entry the class computes is that sum.
LEMMA CoeffIsWorth ==
    ASSUME NEW A, A.triplets \in Seq(Triplets), NEW r, NEW c
    PROVE  CooCoeff(A, r, c) = Worth(A.triplets, r, c)
<1> DEFINE ts == A.triplets
           K == {k \in DOMAIN ts : SameCell(ts[k], [row |-> r, col |-> c])}
           f == [k \in DOMAIN ts |-> ts[k].val]
           Loop(g) == g = [T \in SUBSET K |-> IF T = {} THEN 0 ELSE ts[Pick(T)].val + g[T \ {Pick(T)}]]
<1>1. CooCoeff(A, r, c) = (CHOOSE g : Loop(g))[K]
  BY DEF CooCoeff, MapThenSumSet, MapThenFoldSet, Pick
<1>2. K \subseteq DOMAIN ts /\ IsFiniteSet(DOMAIN ts) /\ IsFiniteSet(K)
  BY ListOf, FS_Subset
<1>3. ASSUME NEW g
      PROVE  Loop(g) <=> FoldsTo(f, K, g)
  <2> DEFINE X(T) == IF T = {} THEN 0 ELSE ts[Pick(T)].val + g[T \ {Pick(T)}]
             Y(T) == IF T = {} THEN 0 ELSE f[Pick(T)] + g[T \ {Pick(T)}]
  <2>1. ASSUME NEW T \in SUBSET K
        PROVE  X(T) = Y(T)
    <3>1. CASE T # {}
      <4>1. Pick(T) \in DOMAIN ts
        BY <2>1, <3>1 DEF Pick
      <4> QED BY <3>1, <4>1
    <3> QED BY <3>1
  <2> HIDE DEF X, Y, K, f
  <2>2. [T \in SUBSET K |-> X(T)] = [T \in SUBSET K |-> Y(T)]
    BY <2>1
  <2> QED BY <2>2 DEF FoldsTo, X, Y
<1> HIDE DEF Loop
<1>4. PICK h : FoldsTo(f, K, h)
  BY <1>2, FoldsExist
<1>5. Loop(CHOOSE g : Loop(g))
  BY <1>3, <1>4
<1>6. FoldsTo(f, K, CHOOSE g : Loop(g)) /\ FoldsTo(f, K, CHOOSE g : FoldsTo(f, K, g))
  BY <1>3, <1>4, <1>5
<1>7. (CHOOSE g : Loop(g)) = (CHOOSE g : FoldsTo(f, K, g))
  BY <1>2, <1>6, FoldsOnce
<1>8. CooCoeff(A, r, c) = Sum(f, K)
  BY <1>1, <1>7, SumIsFold DEF Sum
<1>9. \A k \in DOMAIN ts : Parts(ts, r, c)[k] = IF k \in K THEN f[k] ELSE 0
  BY DEF Parts, Part, SameCell
<1>10. Sum(f, K) = Sum(Parts(ts, r, c), K)
  <2> HIDE DEF f, K
  <2> QED BY <1>2, <1>9, SumAgrees
<1>11. Sum(Parts(ts, r, c), DOMAIN ts) = Sum(Parts(ts, r, c), K)
  <2>1. \A k \in (DOMAIN ts) \ K : Parts(ts, r, c)[k] = 0
    BY <1>9
  <2>2. IntegerOn(Parts(ts, r, c), DOMAIN ts)
    BY PartsAreIntegers
  <2> HIDE DEF f, K
  <2> QED BY <1>2, <2>1, <2>2, SumWithoutZeros
<1> QED BY <1>8, <1>10, <1>11 DEF Worth

LEMMA WorthIsInteger ==
    ASSUME NEW ts \in Seq(Triplets), NEW r, NEW c
    PROVE  Worth(ts, r, c) \in Int
  BY PartsAreIntegers, SumInteger DEF Worth

LEMMA NothingIsWorth ==
    ASSUME NEW r, NEW c
    PROVE  Worth(<<>>, r, c) = 0
<1>1. DOMAIN <<>> = {}
  OBVIOUS
<1> QED BY <1>1, SumEmpty DEF Worth

LEMMA AppendedList ==
    ASSUME NEW ts \in Seq(Triplets), NEW t \in Triplets
    PROVE  /\ Append(ts, t) \in Seq(Triplets) /\ Append(ts, t) # <<>> /\ Len(Append(ts, t)) = Len(ts) + 1
           /\ Append(ts, t)[Len(ts) + 1] = t
           /\ \A k \in DOMAIN ts : Append(ts, t)[k] = ts[k] /\ k # Len(ts) + 1
           /\ DOMAIN Append(ts, t) = DOMAIN ts \cup {Len(ts) + 1}
           /\ Len(ts) + 1 \notin DOMAIN ts
<1>1. DOMAIN ts = 1..Len(ts) /\ Len(ts) \in Nat
  BY ListOf
<1>2. /\ Append(ts, t) \in Seq(Triplets) /\ Append(ts, t) # <<>> /\ Len(Append(ts, t)) = Len(ts) + 1
      /\ Append(ts, t)[Len(ts) + 1] = t /\ \A k \in 1..Len(ts) : Append(ts, t)[k] = ts[k]
  BY AppendProperties
<1>3. DOMAIN Append(ts, t) = 1..(Len(ts) + 1)
  BY <1>2, ListOf
<1>4. 1..(Len(ts) + 1) = (1..Len(ts)) \cup {Len(ts) + 1} /\ Len(ts) + 1 \notin 1..Len(ts)
  BY <1>1
<1> QED BY <1>1, <1>2, <1>3, <1>4

\* A triplet at the end adds what it says to its cell.
LEMMA AppendedWorth ==
    ASSUME NEW ts \in Seq(Triplets), NEW t \in Triplets, NEW r, NEW c
    PROVE  Worth(Append(ts, t), r, c) = Worth(ts, r, c) + Part(t, r, c)
<1> DEFINE us == Append(ts, t)
           n == Len(ts) + 1
           D == DOMAIN ts
           E == DOMAIN us
<1>1. us \in Seq(Triplets) /\ us[n] = t /\ (\A k \in D : us[k] = ts[k] /\ k # n) /\ E = D \cup {n} /\ n \notin D
  BY AppendedList
<1>2. IntegerOn(Parts(us, r, c), E) /\ IsFiniteSet(E) /\ IntegerOn(Parts(ts, r, c), D) /\ IsFiniteSet(D)
  BY <1>1, PartsAreIntegers
<1>3. \A k \in D : Parts(us, r, c)[k] = Parts(ts, r, c)[k]
  BY <1>1 DEF Parts
<1>4. Parts(us, r, c)[n] = Part(t, r, c)
  BY <1>1 DEF Parts
<1>5. Worth(us, r, c) = Sum(Parts(us, r, c), E) /\ Worth(ts, r, c) = Sum(Parts(ts, r, c), D)
  BY DEF Worth
<1> HIDE DEF us, n, D, E
<1>6. n \in E /\ E \ {n} = D
  BY <1>1
<1>7. Sum(Parts(us, r, c), E) = Parts(us, r, c)[n] + Sum(Parts(us, r, c), E \ {n})
  BY <1>2, <1>6, SumTakes
<1>8. Sum(Parts(us, r, c), D) = Sum(Parts(ts, r, c), D)
  BY <1>2, <1>3, SumAgrees
<1>9. Worth(us, r, c) = Part(t, r, c) + Worth(ts, r, c)
  BY <1>4, <1>5, <1>6, <1>7, <1>8
<1>10. Part(t, r, c) \in Int /\ Worth(ts, r, c) \in Int
  BY PartIsInteger, WorthIsInteger
<1>11. Worth(us, r, c) = Worth(ts, r, c) + Part(t, r, c)
  BY <1>9, <1>10
<1> QED BY <1>11 DEF us

\* The last triplet of the list takes up the value of t.
TakenUp(ts, t) == [ts EXCEPT ![Len(ts)].val = @ + t.val]

LEMMA RaisedTriplet ==
    ASSUME NEW a \in Triplets, NEW v \in Int
    PROVE  /\ [a EXCEPT !.val = @ + v] \in Triplets
           /\ [a EXCEPT !.val = @ + v].row = a.row /\ [a EXCEPT !.val = @ + v].col = a.col
           /\ [a EXCEPT !.val = @ + v].val = a.val + v
  BY DEF Triplets

LEMMA TakenUpList ==
    ASSUME NEW ts \in Seq(Triplets), ts # <<>>, NEW t \in Triplets
    PROVE  /\ TakenUp(ts, t) \in Seq(Triplets) /\ Len(TakenUp(ts, t)) = Len(ts) /\ DOMAIN TakenUp(ts, t) = DOMAIN ts
           /\ Len(ts) \in DOMAIN ts
           /\ \A k \in DOMAIN ts : k # Len(ts) => TakenUp(ts, t)[k] = ts[k]
           /\ \A k \in DOMAIN ts : SameCell(TakenUp(ts, t)[k], ts[k])
           /\ TakenUp(ts, t)[Len(ts)].val = ts[Len(ts)].val + t.val
<1> DEFINE n == Len(ts)
           e == [ts[n] EXCEPT !.val = @ + t.val]
<1>1. DOMAIN ts = 1..n /\ n \in Nat /\ (\A k \in DOMAIN ts : ts[k] \in Triplets) /\ ts \in [1..n -> Triplets]
  BY ListOf, LenProperties
<1>2. n # 0
  BY EmptySeq
<1>3. n \in 1..n /\ ts[n] \in Triplets
  BY <1>1, <1>2
<1>4. e \in Triplets /\ e.row = ts[n].row /\ e.col = ts[n].col /\ e.val = ts[n].val + t.val
  <2>1. ts[n] \in Triplets /\ t.val \in Int
    BY <1>3 DEF Triplets
  <2> QED BY <2>1, RaisedTriplet
<1>5. TakenUp(ts, t) = [ts EXCEPT ![n] = e]
  BY <1>1, <1>3 DEF TakenUp
<1> HIDE DEF e
<1>6. /\ [ts EXCEPT ![n] = e] \in Seq(Triplets) /\ Len([ts EXCEPT ![n] = e]) = n
      /\ \A j \in 1..n : [ts EXCEPT ![n] = e][j] = IF j = n THEN e ELSE ts[j]
  BY <1>3, <1>4, ExceptSeq
<1>7. DOMAIN TakenUp(ts, t) = 1..n
  BY <1>5, <1>6, ListOf
<1>8. \A k \in DOMAIN ts : SameCell(TakenUp(ts, t)[k], ts[k])
  BY <1>1, <1>4, <1>5, <1>6 DEF SameCell
<1> QED BY <1>1, <1>3, <1>4, <1>5, <1>6, <1>7, <1>8

LEMMA TakenUpWorth ==
    ASSUME NEW ts \in Seq(Triplets), ts # <<>>, NEW t \in Triplets, SameCell(ts[Len(ts)], t), NEW r, NEW c
    PROVE  Worth(TakenUp(ts, t), r, c) = Worth(ts, r, c) + Part(t, r, c)
<1> DEFINE us == TakenUp(ts, t)
           n == Len(ts)
           D == DOMAIN ts
           f == Parts(us, r, c)
           g == Parts(ts, r, c)
<1>1. /\ us \in Seq(Triplets) /\ DOMAIN us = D /\ n \in D /\ (\A k \in D : k # n => us[k] = ts[k])
      /\ SameCell(us[n], ts[n]) /\ us[n].val = ts[n].val + t.val
  BY TakenUpList
<1>2. IntegerOn(f, D) /\ IsFiniteSet(D) /\ IntegerOn(g, D)
  BY <1>1, PartsAreIntegers
<1>3. \A k \in D \ {n} : f[k] = g[k]
  BY <1>1 DEF Parts
<1>4. f[n] = g[n] + Part(t, r, c)
  <2>1. f[n] = Part(us[n], r, c) /\ g[n] = Part(ts[n], r, c)
    BY <1>1 DEF Parts
  <2>2. ts[n] \in Triplets /\ t.val \in Int
    BY <1>1, ListOf DEF Triplets
  <2>3. us[n].row = t.row /\ us[n].col = t.col /\ ts[n].row = t.row /\ ts[n].col = t.col
    BY <1>1 DEF SameCell
  <2> HIDE DEF us, n, f, g
  <2>4. CASE t.row = r /\ t.col = c
    BY <1>1, <2>1, <2>3, <2>4 DEF Part
  <2>5. CASE ~(t.row = r /\ t.col = c)
    BY <2>1, <2>3, <2>5 DEF Part
  <2> QED BY <2>4, <2>5
<1>5. Worth(us, r, c) = Sum(f, D) /\ Worth(ts, r, c) = Sum(g, D)
  BY <1>1 DEF Worth
<1> HIDE DEF us, n, D, f, g
<1>6. Sum(f, D) = f[n] + Sum(f, D \ {n}) /\ Sum(g, D) = g[n] + Sum(g, D \ {n})
  BY <1>1, <1>2, SumTakes
<1>7. IsFiniteSet(D \ {n}) /\ IntegerOn(g, D \ {n}) /\ g[n] \in Int
  BY <1>1, <1>2, FS_Subset DEF IntegerOn
<1>8. Sum(f, D \ {n}) = Sum(g, D \ {n}) /\ Sum(g, D \ {n}) \in Int
  BY <1>3, <1>7, SumAgrees, SumInteger
<1>9. Part(t, r, c) \in Int
  BY PartIsInteger
<1>10. Worth(us, r, c) = Worth(ts, r, c) + Part(t, r, c)
  BY <1>4, <1>5, <1>6, <1>7, <1>8, <1>9
<1> QED BY <1>10 DEF us

-----------------------------------------------------------------------------
(* What the two folds keep.                                                *)

\* Upwards from 0, with a set for the property.
LEMMA Upwards ==
    ASSUME NEW n \in Nat, NEW G, 0 \in G, \A k \in 1..n : k - 1 \in G => k \in G
    PROVE  \A k \in 0..n : k \in G
<1> DEFINE D == {k \in 0..n : k \notin G}
<1> SUFFICES ASSUME D # {}  PROVE FALSE
  OBVIOUS
<1>1. IsFiniteSet(0..n)
  BY FS_Interval
<1>2. D \subseteq 0..n /\ D \subseteq Int /\ IsFiniteSet(D)
  BY <1>1, FS_Subset
<1> DEFINE k == Min(D)
<1>3. k \in D /\ \A v \in D : k <= v
  <2> HIDE DEF D
  <2> QED BY <1>2, HasLeast
<1>4. k \in 1..n /\ k - 1 \in 0..n
  BY <1>3
<1>5. k - 1 \notin D
  BY <1>2, <1>3, <1>4
<1> QED BY <1>3, <1>4, <1>5

\* One step.
LEMMA SqueezedWorth ==
    ASSUME NEW m, NEW t \in Triplets, NEW kept \in Seq(Triplets), NEW r, NEW c
    PROVE  /\ Squeezed(m, t, kept) \in Seq(Triplets)
           /\ Worth(Squeezed(m, t, kept), r, c) = Worth(kept, r, c) + Part(t, r, c)
<1>1. CASE m = "merge" /\ kept # <<>> /\ SameCell(Last(kept), t)
  <2>1. Squeezed(m, t, kept) = TakenUp(kept, t) /\ SameCell(kept[Len(kept)], t)
    BY <1>1 DEF Squeezed, TakenUp, Last
  <2> QED BY <1>1, <2>1, TakenUpList, TakenUpWorth
<1>2. CASE \/ m = "merge" /\ ~(kept # <<>> /\ SameCell(Last(kept), t))
           \/ m # "merge" /\ t.val # 0
  <2>1. Squeezed(m, t, kept) = Append(kept, t)
    BY <1>2 DEF Squeezed
  <2> QED BY <2>1, AppendedList, AppendedWorth
<1>3. CASE m # "merge" /\ t.val = 0
  <2>1. Squeezed(m, t, kept) = kept
    BY <1>3 DEF Squeezed
  <2>2. Part(t, r, c) = 0
    BY <1>3 DEF Part
  <2>3. Worth(kept, r, c) \in Int
    BY WorthIsInteger
  <2> QED BY <2>1, <2>2, <2>3
<1> QED BY <1>1, <1>2, <1>3

\* What is kept of the first k triplets.
Kept(m, ts, k) == SqueezedAt(m, ts, 1..k)

LEMMA KeptStep ==
    ASSUME NEW m, NEW ts \in Seq(Triplets)
    PROVE  /\ Kept(m, ts, 0) = <<>>
           /\ \A k \in 1..Len(ts) : /\ Kept(m, ts, k) = Squeezed(m, ts[k], Kept(m, ts, k - 1))
                                    /\ ts[k] \in Triplets /\ k \in Int
<1>1. DOMAIN ts = 1..Len(ts) /\ Len(ts) \in Nat /\ \A k \in DOMAIN ts : ts[k] \in Triplets /\ k \in Int
  BY ListOf
<1>2. \A k \in 1..Len(ts) : k \in Nat /\ k # 0
  BY <1>1
<1> QED BY <1>1, <1>2, SqueezedInOrder DEF Kept

\* The triplets kept are worth, in every cell, what the triplets read are.
LEMMA KeptWorth ==
    ASSUME NEW m, NEW ts \in Seq(Triplets), NEW r, NEW c, NEW k \in 0..Len(ts)
    PROVE  /\ Kept(m, ts, k) \in Seq(Triplets)
           /\ Worth(Kept(m, ts, k), r, c) = Sum(Parts(ts, r, c), 1..k)
<1> DEFINE n == Len(ts)
           f == Parts(ts, r, c)
           G == {i \in 0..n : Kept(m, ts, i) \in Seq(Triplets) /\ Worth(Kept(m, ts, i), r, c) = Sum(f, 1..i)}
<1>1. DOMAIN ts = 1..n /\ n \in Nat /\ IntegerOn(f, 1..n)
  BY ListOf, PartsAreIntegers
<1>2. 0 \in G
  <2>1. Kept(m, ts, 0) = <<>> /\ <<>> \in Seq(Triplets)
    BY KeptStep, EmptySeq
  <2>2. 1..0 = {}
    OBVIOUS
  <2>3. Worth(<<>>, r, c) = 0 /\ Sum(f, {}) = 0
    BY NothingIsWorth, SumEmpty
  <2>4. Kept(m, ts, 0) \in Seq(Triplets) /\ Worth(Kept(m, ts, 0), r, c) = Sum(f, 1..0)
    <3> HIDE DEF f
    <3> QED BY <2>1, <2>2, <2>3
  <2>5. 0 \in 0..n
    BY <1>1
  <2> QED BY <2>4, <2>5
<1>3. ASSUME NEW i \in 1..n, i - 1 \in G
      PROVE  i \in G
  <2> DEFINE h == Kept(m, ts, i - 1)
  <2>1. Kept(m, ts, i) = Squeezed(m, ts[i], h) /\ ts[i] \in Triplets
    BY KeptStep
  <2>2. h \in Seq(Triplets) /\ Worth(h, r, c) = Sum(f, 1..(i - 1))
    BY <1>3
  <2> HIDE DEF h
  <2>3. Kept(m, ts, i) \in Seq(Triplets) /\ Worth(Kept(m, ts, i), r, c) = Worth(h, r, c) + Part(ts[i], r, c)
    BY <2>1, <2>2, SqueezedWorth
  <2>4. f[i] = Part(ts[i], r, c) /\ f[i] \in Int
    BY <1>1, <2>1, PartIsInteger DEF Parts
  <2>5. 1..i \subseteq 1..n /\ i \in 1..i /\ (1..i) \ {i} = 1..(i - 1)
    BY <1>1
  <2>6. IsFiniteSet(1..i) /\ IntegerOn(f, 1..i) /\ IsFiniteSet(1..(i - 1)) /\ IntegerOn(f, 1..(i - 1))
    <3>1. 1..(i - 1) \subseteq 1..n /\ i \in Int /\ i - 1 \in Int
      BY <1>1
    <3> HIDE DEF f, n
    <3>2. IsFiniteSet(1..i) /\ IsFiniteSet(1..(i - 1))
      BY <3>1, FS_Interval
    <3> QED BY <1>1, <2>5, <3>1, <3>2 DEF IntegerOn
  <2> HIDE DEF f
  <2>7. Sum(f, 1..i) = f[i] + Sum(f, 1..(i - 1))
    BY <2>5, <2>6, SumTakes
  <2>8. Sum(f, 1..(i - 1)) \in Int
    BY <2>6, SumInteger
  <2>9. Worth(Kept(m, ts, i), r, c) = Sum(f, 1..i)
    BY <2>2, <2>3, <2>4, <2>7, <2>8
  <2> QED BY <2>3, <2>9
<1> HIDE DEF G
<1>4. k \in G
  BY <1>1, <1>2, <1>3, Upwards
<1> QED BY <1>4 DEF G

\* The whole list.
LEMMA SqueezingKeepsWorth ==
    ASSUME NEW m, NEW ts \in Seq(Triplets), NEW r, NEW c
    PROVE  /\ Kept(m, ts, Len(ts)) \in Seq(Triplets)
           /\ Worth(Kept(m, ts, Len(ts)), r, c) = Worth(ts, r, c)
<1>1. DOMAIN ts = 1..Len(ts) /\ Len(ts) \in 0..Len(ts)
  BY ListOf
<1> QED BY <1>1, KeptWorth DEF Worth

LEMMA SortedWorth ==
    ASSUME NEW ts \in Seq(Triplets), NEW order \in Orders, NEW r, NEW c
    PROVE  Worth(StableSort(ts, order), r, c) = Worth(ts, r, c)
<1> DEFINE D == DOMAIN ts
           us == StableSort(ts, order)
           f == Parts(ts, r, c)
<1>1. PICK s : Sources(ts, order, s)
  BY SortRearranges
<1>2. /\ s \in [D -> D] /\ (\A k \in D, l \in D : s[k] = s[l] => k = l)
      /\ {s[k] : k \in D} = D /\ us = [k \in D |-> ts[s[k]]]
  BY <1>1 DEF Sources
<1>3. Parts(us, r, c) = [k \in D |-> f[s[k]]] /\ DOMAIN us = D
  <2>1. DOMAIN us = D
    BY <1>2
  <2>2. ASSUME NEW k \in D  PROVE Part(us[k], r, c) = f[s[k]]
    BY <1>2 DEF Parts
  <2> HIDE DEF us, f, D
  <2> QED BY <2>1, <2>2 DEF Parts
<1>4. IsFiniteSet(D) /\ IntegerOn(f, D)
  BY PartsAreIntegers
<1> HIDE DEF us, f, D
<1>5. Sum([k \in D |-> f[s[k]]], D) = Sum(f, D)
  <2>1. Sum([k \in D |-> f[s[k]]], D) = Sum(f, {s[k] : k \in D})
    <3>1. s \in [D -> D]
      BY <1>2
    <3>2. \A k \in D, l \in D : s[k] = s[l] => k = l
      BY <1>2
    <3>3. IsFiniteSet(D)
      BY <1>4
    <3>4. IntegerOn(f, D)
      BY <1>4
    <3> QED BY ONLY <3>1, <3>2, <3>3, <3>4, SumRenamed
  <2> QED BY <1>2, <2>1
<1> QED BY <1>3, <1>5 DEF Worth, us, f, D

-----------------------------------------------------------------------------
(* Order, cells and duplicates.                                            *)

\* No triplet comes after a greater one, or after one as great either.
Ascends(ts, order) == \A i, j \in DOMAIN ts : i < j => ~Less(ts[j], ts[i], order)
Climbs(ts, order) == \A i, j \in DOMAIN ts : i < j => Less(ts[i], ts[j], order)
NoneTwice(ts) == \A i, j \in DOMAIN ts : i < j => ~SameCell(ts[i], ts[j])
\* us has no cell that ts does not have.
CellsFrom(us, ts) == \A i \in DOMAIN us : \E p \in DOMAIN ts : SameCell(us[i], ts[p])

LEMMA ClimbingIsOrdered ==
    ASSUME NEW ts \in Seq(Triplets), NEW order \in Orders, Climbs(ts, order)
    PROVE  Ascends(ts, order) /\ NoneTwice(ts)
<1>1. \A k \in DOMAIN ts : ts[k] \in Triplets
  BY ListOf
<1> QED BY <1>1, CellsCompare DEF Climbs, Ascends, NoneTwice

LEMMA SortedList ==
    ASSUME NEW ts \in Seq(Triplets), NEW order \in Orders
    PROVE  /\ StableSort(ts, order) \in Seq(Triplets) /\ DOMAIN StableSort(ts, order) = DOMAIN ts
           /\ Ascends(StableSort(ts, order), order)
           /\ CellsFrom(StableSort(ts, order), ts)
           /\ NoneTwice(ts) => NoneTwice(StableSort(ts, order))
<1> DEFINE D == DOMAIN ts
           us == StableSort(ts, order)
<1>1. PICK s : Sources(ts, order, s)
  BY SortRearranges
<1>2. /\ s \in [D -> D] /\ (\A k \in D, l \in D : s[k] = s[l] => k = l) /\ us = [k \in D |-> ts[s[k]]]
      /\ \A k \in D, l \in D : k < l => <<s[k], s[l]>> \in SortsBefore(ts, order)
  BY <1>1 DEF Sources
<1>3. D = 1..Len(ts) /\ Len(ts) \in Nat /\ \A k \in D : ts[k] \in Triplets /\ k \in Int
  BY ListOf
<1>4. DOMAIN us = D /\ \A k \in D : us[k] = ts[s[k]] /\ s[k] \in D /\ us[k] \in Triplets
  BY <1>2, <1>3
<1>5. us \in Seq(Triplets)
  <2>1. us \in [1..Len(ts) -> Triplets]
    BY <1>2, <1>3, <1>4
  <2> HIDE DEF us
  <2> QED BY <1>3, <2>1
<1> HIDE DEF us, D
<1>6. ASSUME NEW i \in D, NEW j \in D, i < j
      PROVE  ~Less(us[j], us[i], order)
  <2>1. Precedes(ts, order, s[i], s[j])
    <3>1. s[i] \in DOMAIN ts /\ s[j] \in DOMAIN ts /\ <<s[i], s[j]>> \in SortsBefore(ts, order)
      BY <1>2, <1>4, <1>6 DEF D
    <3> QED BY <3>1, SortsBeforeIs
  <2>2. Less(us[i], us[j], order) \/ SameCell(us[i], us[j])
    BY <1>4, <2>1 DEF Precedes
  <2>3. us[i] \in Triplets /\ us[j] \in Triplets
    BY <1>4
  <2> QED BY <2>2, <2>3, CellsCompare
<1>7. CellsFrom(us, ts)
  BY <1>4 DEF CellsFrom, SameCell, D
<1>8. ASSUME NoneTwice(ts), NEW i \in D, NEW j \in D, i < j
      PROVE  ~SameCell(us[i], us[j])
  <2>1. s[i] \in D /\ s[j] \in D /\ s[i] # s[j] /\ s[i] \in Int /\ s[j] \in Int /\ us[i] = ts[s[i]] /\ us[j] = ts[s[j]]
    BY <1>2, <1>3, <1>4, <1>8
  <2>2. CASE s[i] < s[j]
    BY <1>8, <2>1, <2>2 DEF NoneTwice, D
  <2>3. CASE s[j] < s[i]
    BY <1>8, <2>1, <2>3 DEF NoneTwice, D, SameCell
  <2> QED BY <2>1, <2>2, <2>3
<1>9. Ascends(us, order) /\ (NoneTwice(ts) => NoneTwice(us))
  BY <1>4, <1>6, <1>8 DEF Ascends, NoneTwice
<1> QED BY <1>4, <1>5, <1>7, <1>9 DEF us, D

\* One turn of the loop that merges, when the next triplet is not less than the last one kept.
LEMMA MergedStep ==
    ASSUME NEW order \in Orders, NEW t \in Triplets, NEW kept \in Seq(Triplets), Climbs(kept, order),
           kept # <<>> => ~Less(t, kept[Len(kept)], order)
    PROVE  /\ Squeezed("merge", t, kept) \in Seq(Triplets) /\ Squeezed("merge", t, kept) # <<>>
           /\ Climbs(Squeezed("merge", t, kept), order)
           /\ SameCell(Squeezed("merge", t, kept)[Len(Squeezed("merge", t, kept))], t)
<1> DEFINE D == DOMAIN kept
           n == Len(kept)
<1>1. D = 1..n /\ n \in Nat /\ \A k \in D : kept[k] \in Triplets /\ k \in Int
  BY ListOf
<1>2. CASE kept # <<>> /\ SameCell(Last(kept), t)
  <2> DEFINE h == TakenUp(kept, t)
  <2>1. Squeezed("merge", t, kept) = h /\ SameCell(kept[n], t)
    BY <1>2 DEF Squeezed, TakenUp, Last
  <2>2. /\ h \in Seq(Triplets) /\ Len(h) = n /\ DOMAIN h = D /\ n \in D
        /\ \A k \in D : SameCell(h[k], kept[k])
    BY <1>2, TakenUpList
  <2> HIDE DEF h, D, n
  <2>3. \A k \in D : h[k] \in Triplets
    BY <2>2, ListOf
  <2>4. ASSUME NEW i \in D, NEW j \in D, i < j
        PROVE  Less(h[i], h[j], order)
    <3>1. Less(kept[i], kept[j], order)
      BY <2>4 DEF Climbs, D
    <3>2. /\ h[i] \in Triplets /\ h[j] \in Triplets /\ kept[i] \in Triplets /\ kept[j] \in Triplets
          /\ SameCell(h[i], kept[i]) /\ SameCell(h[j], kept[j])
      BY <1>1, <2>2, <2>3
    <3>3. Less(h[i], kept[j], order)
      BY <3>1, <3>2, CellsCompare
    <3> QED BY <3>2, <3>3, CellsCompare
  <2>5. Climbs(h, order)
    BY <2>2, <2>4 DEF Climbs
  <2>6. SameCell(h[n], t)
    BY <2>1, <2>2 DEF SameCell
  <2>7. h # <<>>
    BY <1>1, <2>2
  <2> QED BY <2>1, <2>2, <2>5, <2>6, <2>7
<1>3. CASE ~(kept # <<>> /\ SameCell(Last(kept), t))
  <2> DEFINE h == Append(kept, t)
  <2>1. Squeezed("merge", t, kept) = h
    BY <1>3 DEF Squeezed
  <2>2. /\ h \in Seq(Triplets) /\ h # <<>> /\ Len(h) = n + 1 /\ h[n + 1] = t /\ DOMAIN h = D \cup {n + 1}
        /\ \A k \in D : h[k] = kept[k] /\ k # n + 1
    BY AppendedList
  <2>3. ASSUME NEW i \in D
        PROVE  Less(kept[i], t, order)
    <3>1. kept # <<>> /\ n \in D /\ n \in Int
      BY <1>1
    <3>2. kept[n] \in Triplets /\ kept[i] \in Triplets
      BY <1>1, <3>1
    <3>3. ~SameCell(kept[n], t) /\ ~Less(t, kept[n], order)
      BY <1>3, <3>1 DEF Last
    <3>4. Less(kept[n], t, order)
      BY <3>2, <3>3, CellsCompare
    <3>5. CASE i = n
      BY <3>4, <3>5
    <3>6. CASE i < n
      <4>1. Less(kept[i], kept[n], order)
        BY <3>1, <3>6 DEF Climbs
      <4> QED BY <3>2, <3>4, <4>1, CellsCompare
    <3> QED BY <1>1, <3>5, <3>6
  <2> HIDE DEF h, D, n
  <2>4. ASSUME NEW i \in DOMAIN h, NEW j \in DOMAIN h, i < j
        PROVE  Less(h[i], h[j], order)
    <3>1. i \in D
      BY <1>1, <2>2, <2>4
    <3>2. CASE j = n + 1
      BY <2>2, <2>3, <3>1, <3>2
    <3>3. CASE j \in D
      <4>1. Less(kept[i], kept[j], order)
        BY <2>4, <3>1, <3>3 DEF Climbs, D
      <4> QED BY <2>2, <3>1, <3>3, <4>1
    <3> QED BY <2>2, <3>2, <3>3
  <2>5. Climbs(h, order)
    BY <2>4 DEF Climbs
  <2>6. SameCell(h[Len(h)], t)
    BY <2>2 DEF SameCell
  <2> QED BY <2>1, <2>2, <2>5, <2>6
<1> QED BY <1>2, <1>3

LEMMA KeptClimbs ==
    ASSUME NEW order \in Orders, NEW ts \in Seq(Triplets), Ascends(ts, order), NEW k \in 0..Len(ts)
    PROVE  Climbs(Kept("merge", ts, k), order)
<1> DEFINE n == Len(ts)
           H(i) == Kept("merge", ts, i)
           Fine(i) == /\ H(i) \in Seq(Triplets) /\ Climbs(H(i), order)
                      /\ i # 0 => H(i) # <<>> /\ SameCell(H(i)[Len(H(i))], ts[i])
           G == {i \in 0..n : Fine(i)}
<1>1. DOMAIN ts = 1..n /\ n \in Nat /\ \A i \in DOMAIN ts : ts[i] \in Triplets /\ i \in Int
  BY ListOf
<1>2. 0 \in G
  <2>1. H(0) = <<>> /\ <<>> \in Seq(Triplets)
    BY KeptStep, EmptySeq
  <2>2. Climbs(<<>>, order)
    BY DEF Climbs
  <2>3. Fine(0)
    BY <2>1, <2>2
  <2>4. 0 \in 0..n
    BY <1>1
  <2> HIDE DEF Fine
  <2> QED BY <2>3, <2>4
<1>3. ASSUME NEW i \in 1..n, i - 1 \in G
      PROVE  i \in G
  <2> DEFINE h == H(i - 1)
             t == ts[i]
  <2>1. H(i) = Squeezed("merge", t, h) /\ t \in Triplets
    BY KeptStep
  <2>2. h \in Seq(Triplets) /\ Climbs(h, order)
    BY <1>3
  <2>3. ASSUME h # <<>>
        PROVE  ~Less(t, h[Len(h)], order)
    <3>1. i # 1
      BY <2>3, KeptStep
    <3>2. i - 1 \in DOMAIN ts /\ i \in DOMAIN ts /\ i - 1 < i /\ i - 1 # 0
      BY <1>1, <3>1
    <3>3. SameCell(h[Len(h)], ts[i - 1])
      BY <1>3, <3>2
    <3>4. ~Less(t, ts[i - 1], order)
      BY <3>2 DEF Ascends
    <3>5. h[Len(h)] \in Triplets
      <4> HIDE DEF h
      <4>1. Len(h) \in DOMAIN h
        BY <2>2, <2>3, TakenUpList, <2>1
      <4> QED BY <2>2, <4>1, ListOf
    <3>6. ts[i - 1] \in Triplets
      BY <1>1, <3>2
    <3> HIDE DEF h, t
    <3> QED BY <2>1, <3>3, <3>4, <3>5, <3>6, CellsCompare
  <2> HIDE DEF h, t, H
  <2>4. /\ H(i) \in Seq(Triplets) /\ H(i) # <<>> /\ Climbs(H(i), order)
        /\ SameCell(H(i)[Len(H(i))], t)
    BY <2>1, <2>2, <2>3, MergedStep
  <2>5. i \in 0..n
    BY <1>1
  <2> QED BY <2>4, <2>5 DEF t
<1> HIDE DEF G
<1>4. k \in G
  BY <1>1, <1>2, <1>3, Upwards
<1> QED BY <1>4 DEF G

\* Every triplet kept has the cell of one that was read.
LEMMA KeptCells ==
    ASSUME NEW m, NEW ts \in Seq(Triplets), NEW k \in 0..Len(ts)
    PROVE  \A a \in DOMAIN Kept(m, ts, k) : \E p \in DOMAIN ts : SameCell(Kept(m, ts, k)[a], ts[p])
<1> DEFINE n == Len(ts)
           H(i) == Kept(m, ts, i)
           D == DOMAIN ts
           Fine(h) == \A a \in DOMAIN h : \E p \in D : SameCell(h[a], ts[p])
           G == {i \in 0..n : H(i) \in Seq(Triplets) /\ Fine(H(i))}
<1>1. D = 1..n /\ n \in Nat /\ \A i \in D : ts[i] \in Triplets /\ i \in Int
  BY ListOf
<1>2. 0 \in G
  <2>1. H(0) = <<>> /\ <<>> \in Seq(Triplets)
    BY KeptStep, EmptySeq
  <2>2. Fine(<<>>)
    OBVIOUS
  <2>3. H(0) \in Seq(Triplets) /\ Fine(H(0))
    BY <2>1, <2>2
  <2>4. 0 \in 0..n
    BY <1>1
  <2> HIDE DEF H, Fine
  <2> QED BY <2>3, <2>4
<1>3. ASSUME NEW i \in 1..n, i - 1 \in G
      PROVE  i \in G
  <2> DEFINE h == H(i - 1)
             t == ts[i]
  <2>1. H(i) = Squeezed(m, t, h) /\ t \in Triplets /\ i \in D
    BY <1>1, KeptStep
  <2>2. h \in Seq(Triplets) /\ Fine(h)
    BY <1>3
  <2>3. H(i) \in Seq(Triplets)
    BY <2>1, <2>2, SqueezedWorth
  <2> HIDE DEF h, H
  <2>4. Fine(H(i))
    <3>1. CASE m = "merge" /\ h # <<>> /\ SameCell(Last(h), t)
      <4>1. H(i) = TakenUp(h, t)
        BY <2>1, <3>1 DEF Squeezed, TakenUp
      <4>2. DOMAIN H(i) = DOMAIN h /\ \A a \in DOMAIN h : SameCell(H(i)[a], h[a])
        BY <2>1, <2>2, <3>1, <4>1, TakenUpList
      <4> QED BY <2>2, <4>2 DEF SameCell
    <3>2. CASE \/ m = "merge" /\ ~(h # <<>> /\ SameCell(Last(h), t))
               \/ m # "merge" /\ t.val # 0
      <4>1. H(i) = Append(h, t)
        BY <2>1, <3>2 DEF Squeezed
      <4>2. /\ DOMAIN H(i) = DOMAIN h \cup {Len(h) + 1} /\ H(i)[Len(h) + 1] = t
            /\ \A a \in DOMAIN h : H(i)[a] = h[a]
        BY <2>1, <2>2, <4>1, AppendedList
      <4>3. SameCell(t, ts[i])
        BY DEF SameCell
      <4> HIDE DEF t
      <4> QED BY <2>1, <2>2, <4>2, <4>3
    <3>3. CASE m # "merge" /\ t.val = 0
      <4>1. H(i) = h
        BY <2>1, <3>3 DEF Squeezed
      <4> QED BY <2>2, <4>1
    <3> QED BY <3>1, <3>2, <3>3
  <2>5. i \in 0..n
    BY <1>1
  <2> QED BY <2>3, <2>4, <2>5
<1> HIDE DEF G
<1>4. k \in G
  BY <1>1, <1>2, <1>3, Upwards
<1> QED BY <1>4 DEF G

\* What is left when zeros are dropped stands in its old order.
LEMMA KeptInOrder ==
    ASSUME NEW ts \in Seq(Triplets), NEW k \in 0..Len(ts)
    PROVE  \A a, b \in DOMAIN Kept("drop", ts, k) :
              a < b => \E p, q \in DOMAIN ts : p < q /\ Kept("drop", ts, k)[a] = ts[p] /\ Kept("drop", ts, k)[b] = ts[q]
<1> DEFINE n == Len(ts)
           H(i) == Kept("drop", ts, i)
           One(h, i) == \A a \in DOMAIN h : \E p \in 1..i : h[a] = ts[p]
           Two(h, i) == \A a, b \in DOMAIN h : a < b => \E p, q \in 1..i : p < q /\ h[a] = ts[p] /\ h[b] = ts[q]
           G == {i \in 0..n : H(i) \in Seq(Triplets) /\ One(H(i), i) /\ Two(H(i), i)}
<1>1. DOMAIN ts = 1..n /\ n \in Nat /\ \A i \in DOMAIN ts : ts[i] \in Triplets /\ i \in Int
  BY ListOf
<1>2. 0 \in G
  <2>1. H(0) = <<>> /\ <<>> \in Seq(Triplets)
    BY KeptStep, EmptySeq
  <2>2. One(<<>>, 0) /\ Two(<<>>, 0)
    OBVIOUS
  <2> HIDE DEF H, One, Two
  <2>3. H(0) \in Seq(Triplets) /\ One(H(0), 0) /\ Two(H(0), 0)
    BY <2>1, <2>2
  <2>4. 0 \in 0..n
    BY <1>1
  <2> QED BY <2>3, <2>4
<1>3. ASSUME NEW i \in 1..n, i - 1 \in G
      PROVE  i \in G
  <2> DEFINE h == H(i - 1)
             t == ts[i]
  <2>1. H(i) = Squeezed("drop", t, h) /\ t \in Triplets /\ i \in Int
    BY KeptStep
  <2>2. h \in Seq(Triplets) /\ One(h, i - 1) /\ Two(h, i - 1)
    BY <1>3
  <2>3. H(i) \in Seq(Triplets)
    BY <2>1, <2>2, SqueezedWorth
  <2>4. 1..(i - 1) \subseteq 1..i /\ i \in 1..i /\ \A p \in 1..(i - 1) : p < i
    BY <2>1
  <2> HIDE DEF h, H
  <2>5. One(H(i), i) /\ Two(H(i), i)
    <3>1. CASE t.val # 0
      <4>1. H(i) = Append(h, t)
        BY <2>1, <3>1 DEF Squeezed
      <4>2. /\ DOMAIN H(i) = DOMAIN h \cup {Len(h) + 1} /\ H(i)[Len(h) + 1] = t
            /\ \A a \in DOMAIN h : H(i)[a] = h[a] /\ a < Len(h) + 1
        <5>1. DOMAIN h = 1..Len(h) /\ Len(h) \in Nat
          BY <2>2, ListOf
        <5>2. \A a \in DOMAIN h : a < Len(h) + 1
          BY <5>1
        <5>3. /\ DOMAIN Append(h, t) = DOMAIN h \cup {Len(h) + 1} /\ Append(h, t)[Len(h) + 1] = t
              /\ \A a \in DOMAIN h : Append(h, t)[a] = h[a]
          <6>1. h \in Seq(Triplets) /\ t \in Triplets
            BY <2>1, <2>2
          <6> HIDE DEF t
          <6> QED BY ONLY <6>1, AppendedList
        <5> QED BY <4>1, <5>2, <5>3
      <4>3. ASSUME NEW a \in DOMAIN H(i)
            PROVE  \E p \in 1..i : H(i)[a] = ts[p]
        <5>1. CASE a \in DOMAIN h
          <6>1. PICK p \in 1..(i - 1) : h[a] = ts[p]
            BY <2>2, <5>1
          <6> QED BY <2>4, <4>2, <5>1, <6>1
        <5>2. CASE a = Len(h) + 1
          BY <2>4, <4>2, <5>2
        <5> QED BY <4>2, <5>1, <5>2
      <4>4. ASSUME NEW a \in DOMAIN H(i), NEW b \in DOMAIN H(i), a < b
            PROVE  \E p, q \in 1..i : p < q /\ H(i)[a] = ts[p] /\ H(i)[b] = ts[q]
        <5>1. a \in DOMAIN h
          <6>1. DOMAIN h = 1..Len(h) /\ Len(h) \in Nat
            BY <2>2, ListOf
          <6> QED BY <4>2, <4>4, <6>1
        <5>2. CASE b \in DOMAIN h
          <6>1. PICK p \in 1..(i - 1), q \in 1..(i - 1) : p < q /\ h[a] = ts[p] /\ h[b] = ts[q]
            BY <2>2, <4>4, <5>1, <5>2
          <6> QED BY <2>4, <4>2, <5>1, <5>2, <6>1
        <5>3. CASE b = Len(h) + 1
          <6>1. PICK p \in 1..(i - 1) : h[a] = ts[p]
            BY <2>2, <5>1
          <6> QED BY <2>4, <4>2, <5>1, <5>3, <6>1
        <5> QED BY <4>2, <5>2, <5>3
      <4> QED BY <4>3, <4>4
    <3>2. CASE t.val = 0
      <4>1. H(i) = h
        BY <2>1, <3>2 DEF Squeezed
      <4> QED BY <2>2, <2>4, <4>1
    <3> QED BY <3>1, <3>2
  <2>6. i \in 0..n
    BY <1>1
  <2> HIDE DEF One, Two
  <2> QED BY <2>3, <2>5, <2>6
<1> HIDE DEF G
<1>4. k \in G
  BY <1>1, <1>2, <1>3, Upwards
<1>5. 1..k \subseteq DOMAIN ts
  BY <1>1
<1> QED BY <1>4, <1>5 DEF G

\* A list in order, merged: the same matrix, with no cell twice.
LEMMA MergedList ==
    ASSUME NEW ts \in Seq(Triplets), NEW order \in Orders, Ascends(ts, order)
    PROVE  /\ Merged(ts) \in Seq(Triplets) /\ CellsFrom(Merged(ts), ts)
           /\ Ascends(Merged(ts), order) /\ NoneTwice(Merged(ts))
           /\ \A r, c : Worth(Merged(ts), r, c) = Worth(ts, r, c)
<1> DEFINE us == Kept("merge", ts, Len(ts))
<1>1. us = Merged(ts) /\ Len(ts) \in 0..Len(ts)
  BY MergedIsSqueezed, ListOf DEF Kept
<1>2. us \in Seq(Triplets) /\ \A r, c : Worth(us, r, c) = Worth(ts, r, c)
  BY SqueezingKeepsWorth
<1>3. Climbs(us, order)
  BY <1>1, KeptClimbs
<1>4. CellsFrom(us, ts)
  BY <1>1, KeptCells DEF CellsFrom
<1> HIDE DEF us
<1>5. Ascends(us, order) /\ NoneTwice(us)
  BY <1>2, <1>3, ClimbingIsOrdered
<1> QED BY <1>1, <1>2, <1>4, <1>5

\* A list without its zeros: the same matrix, in the same order.
LEMMA DroppedList ==
    ASSUME NEW ts \in Seq(Triplets)
    PROVE  /\ WithoutZeros(ts) \in Seq(Triplets) /\ CellsFrom(WithoutZeros(ts), ts)
           /\ \A order \in Orders : Ascends(ts, order) => Ascends(WithoutZeros(ts), order)
           /\ NoneTwice(ts) => NoneTwice(WithoutZeros(ts))
           /\ \A r, c : Worth(WithoutZeros(ts), r, c) = Worth(ts, r, c)
<1> DEFINE us == Kept("drop", ts, Len(ts))
<1>1. us = WithoutZeros(ts) /\ Len(ts) \in 0..Len(ts)
  BY WithoutZerosIsSqueezed, ListOf DEF Kept
<1>2. us \in Seq(Triplets) /\ \A r, c : Worth(us, r, c) = Worth(ts, r, c)
  BY SqueezingKeepsWorth
<1>3. \A a, b \in DOMAIN us : a < b => \E p, q \in DOMAIN ts : p < q /\ us[a] = ts[p] /\ us[b] = ts[q]
  BY <1>1, KeptInOrder
<1>4. CellsFrom(us, ts)
  BY <1>1, KeptCells DEF CellsFrom
<1> HIDE DEF us
<1>5. \A order \in Orders : Ascends(ts, order) => Ascends(us, order)
  BY <1>3 DEF Ascends
<1>6. NoneTwice(ts) => NoneTwice(us)
  BY <1>3 DEF NoneTwice
<1> QED BY <1>1, <1>2, <1>4, <1>5, <1>6

-----------------------------------------------------------------------------
(* The object and its calls.                                               *)

Objects == [rows : 0 .. MaxDim, cols : 0 .. MaxDim, triplets : Seq(Triplets),
            sorted : BOOLEAN, order : Orders, dups : BOOLEAN]
Inside(ts, rows, cols) == \A k \in DOMAIN ts : ts[k].row < rows /\ ts[k].col < cols
SaysTrue(A) == (A.sorted => Ascends(A.triplets, A.order)) /\ (~A.dups => NoneTwice(A.triplets))
IsWorth(ts, w) == \A cell \in AllCells : Worth(ts, cell[1], cell[2]) = w[cell]

\* The object is a matrix whose flags are true and whose cells are worth w.
Holds(A, w) ==
    /\ A \in Objects /\ Inside(A.triplets, A.rows, A.cols)
    /\ SaysTrue(A) /\ IsWorth(A.triplets, w)
CooInvariant == added \in [AllCells -> Int] /\ Holds(coo, added)

LEMMA ObjectFields ==
    ASSUME NEW A, NEW w, Holds(A, w)
    PROVE  /\ A.triplets \in Seq(Triplets) /\ A.order \in Orders /\ A.sorted \in BOOLEAN /\ A.dups \in BOOLEAN
           /\ A.rows \in 0..MaxDim /\ A.cols \in 0..MaxDim /\ MaxDim \in Nat
           /\ Inside(A.triplets, A.rows, A.cols) /\ SaysTrue(A) /\ IsWorth(A.triplets, w)
  BY CooAssumption DEF Holds, Objects

\* What the invariant says is what the class promises.
LEMMA InvariantIsSound == CooInvariant => CooSound
<1> SUFFICES ASSUME CooInvariant  PROVE CooSound
  OBVIOUS
<1> DEFINE ts == coo.triplets
<1>1. /\ ts \in Seq(Triplets) /\ coo.order \in Orders /\ coo.sorted \in BOOLEAN /\ coo.dups \in BOOLEAN
      /\ coo.rows \in 0..MaxDim /\ coo.cols \in 0..MaxDim /\ MaxDim \in Nat
      /\ Inside(ts, coo.rows, coo.cols) /\ SaysTrue(coo) /\ IsWorth(ts, added)
  BY ObjectFields DEF CooInvariant
<1>2. \A k \in DOMAIN ts : ts[k] \in Triplets
  BY <1>1, ListOf
<1>3. CooTypeOK
  <2>1. ASSUME NEW k \in DOMAIN ts
        PROVE  ts[k].row \in Indices(coo.rows) /\ ts[k].col \in Indices(coo.cols) /\ ts[k].val \in Int
    <3>1. ts[k].row \in Nat /\ ts[k].col \in Nat /\ ts[k].val \in Int
      BY <1>2 DEF Triplets
    <3>2. ts[k].row < coo.rows /\ ts[k].col < coo.cols
      BY <1>1 DEF Inside
    <3> QED BY <1>1, <3>1, <3>2 DEF Indices
  <2> QED BY <1>1, <2>1 DEF CooTypeOK
<1>4. FlagsTrue
  BY <1>1 DEF FlagsTrue, SaysTrue, Ascends, NoneTwice
<1>5. MeaningKept
  <2>1. \A cell \in AllCells : CooCoeff(coo, cell[1], cell[2]) = Worth(ts, cell[1], cell[2])
    BY <1>1, CoeffIsWorth
  <2> QED BY <1>1, <2>1 DEF MeaningKept, IsWorth
<1> QED BY <1>3, <1>4, <1>5 DEF CooSound

\* Another list for the same matrix.
LEMMA Relisted ==
    ASSUME NEW A, NEW w, Holds(A, w), NEW B \in Objects, B.rows = A.rows, B.cols = A.cols,
           CellsFrom(B.triplets, A.triplets), SaysTrue(B),
           \A r, c : Worth(B.triplets, r, c) = Worth(A.triplets, r, c)
    PROVE  Holds(B, w)
<1>1. Inside(A.triplets, A.rows, A.cols) /\ IsWorth(A.triplets, w)
  BY ObjectFields
<1>2. Inside(B.triplets, B.rows, B.cols)
  BY <1>1 DEF Inside, CellsFrom, SameCell
<1>3. IsWorth(B.triplets, w)
  BY <1>1 DEF IsWorth
<1> QED BY <1>2, <1>3 DEF Holds

LEMMA SortedHolds ==
    ASSUME NEW A, NEW w, Holds(A, w), NEW order \in Orders
    PROVE  Holds(SortedBy(A, order), w) /\ SortedBy(A, order).sorted /\ SortedBy(A, order).order = order
<1> DEFINE B == SortedBy(A, order)
           ts == A.triplets
           us == StableSort(ts, order)
<1>1. ts \in Seq(Triplets) /\ A.dups \in BOOLEAN /\ SaysTrue(A) /\ A \in Objects
  BY ObjectFields DEF Holds
<1>2. /\ us \in Seq(Triplets) /\ Ascends(us, order) /\ CellsFrom(us, ts)
      /\ NoneTwice(ts) => NoneTwice(us)
  BY <1>1, SortedList
<1>3. \A r, c : Worth(us, r, c) = Worth(ts, r, c)
  BY <1>1, SortedWorth
<1> HIDE DEF us
<1>4. /\ B \in Objects /\ B.rows = A.rows /\ B.cols = A.cols /\ B.triplets = us
      /\ B.sorted = TRUE /\ B.order = order /\ B.dups = A.dups
  BY <1>1, <1>2 DEF SortedBy, Objects, us
<1> HIDE DEF B
<1>5. SaysTrue(B)
  BY <1>1, <1>2, <1>4 DEF SaysTrue
<1>6. Holds(B, w)
  BY <1>2, <1>3, <1>4, <1>5, Relisted
<1> QED BY <1>4, <1>6 DEF B

LEMMA SortStep == CooInvariant /\ (\E order \in Orders : Sort(order)) => CooInvariant'
<1> SUFFICES ASSUME CooInvariant, NEW order \in Orders, Sort(order)  PROVE CooInvariant'
  OBVIOUS
<1>1. Holds(SortedBy(coo, order), added)
  BY SortedHolds DEF CooInvariant
<1>2. coo' = SortedBy(coo, order) /\ added' = added
  BY DEF Sort
<1> QED BY <1>1, <1>2 DEF CooInvariant, Holds, Inside, SaysTrue, IsWorth

LEMMA DuplicatesHold ==
    ASSUME NEW A, NEW w, Holds(A, w)
    PROVE  Holds(WithoutDuplicates(A), w)
<1>1. A.triplets \in Seq(Triplets) /\ A.order \in Orders /\ A.sorted \in BOOLEAN /\ SaysTrue(A) /\ A \in Objects
  BY ObjectFields DEF Holds
<1>2. CASE Len(A.triplets) <= 1
  <2> DEFINE B == [A EXCEPT !.dups = FALSE]
             ts == A.triplets
  <2>1. DOMAIN ts = 1..Len(ts) /\ Len(ts) \in Nat
    BY <1>1, ListOf
  <2>2. NoneTwice(ts)
    BY <1>2, <2>1 DEF NoneTwice
  <2>3. /\ B \in Objects /\ B.rows = A.rows /\ B.cols = A.cols /\ B.triplets = ts
        /\ B.sorted = A.sorted /\ B.order = A.order
    BY <1>1 DEF Objects
  <2>4. WithoutDuplicates(A) = B
    BY <1>2 DEF WithoutDuplicates
  <2> HIDE DEF B
  <2>5. SaysTrue(B)
    BY <1>1, <2>2, <2>3 DEF SaysTrue
  <2>6. CellsFrom(B.triplets, ts)
    BY <2>3 DEF CellsFrom, SameCell
  <2> QED BY <2>3, <2>4, <2>5, <2>6, Relisted
<1>3. CASE ~(Len(A.triplets) <= 1)
  <2> DEFINE S == IF A.sorted THEN A ELSE SortedBy(A, A.order)
             us == Merged(S.triplets)
             B == [S EXCEPT !.triplets = us, !.dups = FALSE]
  <2>1. Holds(S, w) /\ S.sorted
    BY <1>1, SortedHolds
  <2>2. WithoutDuplicates(A) = B
    BY <1>3 DEF WithoutDuplicates
  <2> HIDE DEF S
  <2>3. S.triplets \in Seq(Triplets) /\ S.order \in Orders /\ SaysTrue(S) /\ S \in Objects
    BY <2>1, ObjectFields DEF Holds
  <2>4. Ascends(S.triplets, S.order)
    BY <2>1, <2>3 DEF SaysTrue
  <2>5. /\ us \in Seq(Triplets) /\ CellsFrom(us, S.triplets) /\ Ascends(us, S.order) /\ NoneTwice(us)
        /\ \A r, c : Worth(us, r, c) = Worth(S.triplets, r, c)
    BY <2>3, <2>4, MergedList
  <2> HIDE DEF us
  <2>6. /\ B \in Objects /\ B.rows = S.rows /\ B.cols = S.cols /\ B.triplets = us
        /\ B.order = S.order
    BY <2>3, <2>5 DEF Objects
  <2> HIDE DEF B
  <2>7. SaysTrue(B)
    BY <2>5, <2>6 DEF SaysTrue
  <2>8. Holds(B, w)
    BY <2>1, <2>5, <2>6, <2>7, Relisted
  <2> QED BY <2>2, <2>8
<1> QED BY <1>2, <1>3

LEMMA SumDuplicatesStep == CooInvariant /\ SumDuplicates => CooInvariant'
<1> SUFFICES ASSUME CooInvariant, SumDuplicates  PROVE CooInvariant'
  OBVIOUS
<1>1. Holds(WithoutDuplicates(coo), added)
  BY DuplicatesHold DEF CooInvariant
<1>2. coo' = WithoutDuplicates(coo) /\ added' = added
  BY DEF SumDuplicates
<1> QED BY <1>1, <1>2 DEF CooInvariant, Holds, Inside, SaysTrue, IsWorth

LEMMA DropZerosStep == CooInvariant /\ DropZeros => CooInvariant'
<1> SUFFICES ASSUME CooInvariant, DropZeros  PROVE CooInvariant'
  OBVIOUS
<1> DEFINE us == WithoutZeros(coo.triplets)
           B == [coo EXCEPT !.triplets = us]
<1>1. Holds(coo, added)
  BY DEF CooInvariant
<1>2. coo.triplets \in Seq(Triplets) /\ coo.order \in Orders /\ SaysTrue(coo) /\ coo \in Objects
  BY <1>1, ObjectFields DEF Holds
<1>3. /\ us \in Seq(Triplets) /\ CellsFrom(us, coo.triplets)
      /\ \A order \in Orders : Ascends(coo.triplets, order) => Ascends(us, order)
      /\ NoneTwice(coo.triplets) => NoneTwice(us)
      /\ \A r, c : Worth(us, r, c) = Worth(coo.triplets, r, c)
  BY <1>2, DroppedList
<1>4. coo' = B /\ added' = added
  BY DEF DropZeros
<1> HIDE DEF us
<1>5. /\ B \in Objects /\ B.rows = coo.rows /\ B.cols = coo.cols /\ B.triplets = us
      /\ B.sorted = coo.sorted /\ B.order = coo.order /\ B.dups = coo.dups
  BY <1>2, <1>3 DEF Objects
<1> HIDE DEF B
<1>6. SaysTrue(B)
  BY <1>2, <1>3, <1>5 DEF SaysTrue
<1>7. Holds(B, added)
  BY <1>1, <1>3, <1>5, <1>6, Relisted
<1> QED BY <1>4, <1>7 DEF CooInvariant, Holds, Inside, SaysTrue, IsWorth

\* A triplet inside, appended, and nothing said about the list any more.
LEMMA AppendedHolds ==
    ASSUME NEW A, NEW w \in [AllCells -> Int], Holds(A, w),
           NEW r \in Indices(MaxDim), NEW c \in Indices(MaxDim), NEW v \in Int, NEW B \in Objects,
           B.triplets = Append(A.triplets, Triplet(r, c, v)), ~B.sorted, B.dups,
           A.rows <= B.rows, A.cols <= B.cols, r < B.rows, c < B.cols
    PROVE  /\ Holds(B, [w EXCEPT ![<<r, c>>] = @ + v])
           /\ [w EXCEPT ![<<r, c>>] = @ + v] \in [AllCells -> Int]
<1> DEFINE t == Triplet(r, c, v)
           x == [w EXCEPT ![<<r, c>>] = @ + v]
           ts == A.triplets
           us == Append(ts, t)
<1>1. ts \in Seq(Triplets) /\ Inside(ts, A.rows, A.cols) /\ IsWorth(ts, w) /\ MaxDim \in Nat
      /\ A.rows \in Int /\ A.cols \in Int
  BY ObjectFields
<1>2. B.rows \in Int /\ B.cols \in Int
  BY <1>1 DEF Objects
<1>3. r \in Nat /\ c \in Nat /\ t \in Triplets /\ t.row = r /\ t.col = c /\ t.val = v /\ <<r, c>> \in AllCells
  BY <1>1 DEF Indices, Triplet, Triplets, AllCells, Cells
<1>4. x \in [AllCells -> Int] /\ x[<<r, c>>] = w[<<r, c>>] + v
      /\ \A cell \in AllCells : cell # <<r, c>> => x[cell] = w[cell]
  BY <1>3
<1> HIDE DEF t, x
<1>5. /\ DOMAIN us = DOMAIN ts \cup {Len(ts) + 1} /\ us[Len(ts) + 1] = t
      /\ \A k \in DOMAIN ts : us[k] = ts[k]
  BY <1>1, <1>3, AppendedList
<1>6. Inside(us, B.rows, B.cols)
  <2>1. ASSUME NEW k \in DOMAIN ts
        PROVE  ts[k].row < B.rows /\ ts[k].col < B.cols
    <3>1. ts[k].row < A.rows /\ ts[k].col < A.cols
      BY <1>1 DEF Inside
    <3>2. ts[k].row \in Int /\ ts[k].col \in Int
      <4>1. ts[k] \in Triplets
        BY <1>1, ListOf
      <4> QED BY <4>1 DEF Triplets
    <3> QED BY <1>1, <1>2, <3>1, <3>2
  <2> HIDE DEF us
  <2> QED BY <1>3, <1>5, <2>1 DEF Inside
<1>7. IsWorth(us, x)
  <2>1. ASSUME NEW cell \in AllCells
        PROVE  Worth(us, cell[1], cell[2]) = x[cell]
    <3>1. Worth(us, cell[1], cell[2]) = Worth(ts, cell[1], cell[2]) + Part(t, cell[1], cell[2])
      BY <1>1, <1>3, AppendedWorth
    <3>2. Worth(ts, cell[1], cell[2]) = w[cell] /\ w[cell] \in Int
      BY <1>1 DEF IsWorth
    <3>3. CASE cell = <<r, c>>
      <4>1. Part(t, cell[1], cell[2]) = v
        BY <1>3, <3>3 DEF Part
      <4> QED BY <1>4, <3>1, <3>2, <3>3, <4>1
    <3>4. CASE cell # <<r, c>>
      <4>1. ~(cell[1] = r /\ cell[2] = c)
        BY <3>4 DEF AllCells, Cells
      <4>2. Part(t, cell[1], cell[2]) = 0
        BY <1>3, <4>1 DEF Part
      <4> QED BY <1>4, <3>1, <3>2, <3>4, <4>2
    <3> QED BY <3>3, <3>4
  <2> QED BY <2>1 DEF IsWorth
<1>8. B.triplets = us
  BY DEF t
<1> HIDE DEF us
<1>9. SaysTrue(B)
  BY DEF SaysTrue
<1>10. Holds(B, x)
  BY <1>6, <1>7, <1>8, <1>9 DEF Holds
<1> QED BY <1>4, <1>10 DEF x

LEMMA GreaterOf ==
    ASSUME NEW a \in Int, NEW b \in Int
    PROVE  Max({a, b}) \in {a, b} /\ a <= Max({a, b}) /\ b <= Max({a, b})
<1>1. IsFiniteSet({a}) /\ {a, b} = {a} \cup {b}
  BY FS_Singleton
<1>2. IsFiniteSet({a, b})
  BY <1>1, FS_AddElement
<1>3. {a, b} # {} /\ {a, b} \subseteq Int
  OBVIOUS
<1>4. Max({a, b}) \in {a, b} /\ \A v \in {a, b} : Max({a, b}) >= v
  BY <1>2, <1>3, HasGreatest
<1> QED BY <1>4

LEMMA AddStep ==
    ASSUME CooInvariant, NEW r \in Indices(MaxDim), NEW c \in Indices(MaxDim), NEW v \in Values,
           AddEntry(r, c, v) \/ AddEntryUnchecked(r, c, v)
    PROVE  CooInvariant'
<1> DEFINE x == [added EXCEPT ![<<r, c>>] = @ + v]
<1>1. Holds(coo, added) /\ added \in [AllCells -> Int]
  BY DEF CooInvariant
<1>2. /\ coo \in Objects /\ coo.rows \in 0..MaxDim /\ coo.cols \in 0..MaxDim /\ MaxDim \in Nat
      /\ coo.triplets \in Seq(Triplets)
  BY <1>1, ObjectFields DEF Holds
<1>3. v \in Int /\ r \in Nat /\ c \in Nat /\ r + 1 \in 0..MaxDim /\ c + 1 \in 0..MaxDim
  BY <1>2, CooAssumption DEF Indices
<1>4. Append(coo.triplets, Triplet(r, c, v)) \in Seq(Triplets)
  <2>1. Triplet(r, c, v) \in Triplets
    BY <1>3 DEF Triplet, Triplets
  <2> QED BY <1>2, <2>1, AppendedList
<1>5. CASE AddEntry(r, c, v)
  <2> DEFINE B == Appended(coo, Triplet(r, c, v))
  <2>1. coo' = B /\ added' = x /\ r < coo.rows /\ c < coo.cols
    BY <1>5 DEF AddEntry
  <2>2. /\ B \in Objects /\ B.rows = coo.rows /\ B.cols = coo.cols
        /\ B.triplets = Append(coo.triplets, Triplet(r, c, v)) /\ B.sorted = FALSE /\ B.dups = TRUE
    BY <1>2, <1>4 DEF Appended, Objects
  <2> HIDE DEF B
  <2>3. coo.rows <= B.rows /\ coo.cols <= B.cols /\ r < B.rows /\ c < B.cols
    BY <1>2, <2>1, <2>2
  <2>4. Holds(B, x) /\ x \in [AllCells -> Int]
    BY <1>1, <1>3, <2>2, <2>3, AppendedHolds
  <2> HIDE DEF x
  <2> QED BY <2>1, <2>4 DEF CooInvariant, Holds, Inside, SaysTrue, IsWorth
<1>6. CASE AddEntryUnchecked(r, c, v)
  <2> DEFINE rows == Max({coo.rows, r + 1})
             cols == Max({coo.cols, c + 1})
             B == [Appended(coo, Triplet(r, c, v)) EXCEPT !.rows = rows, !.cols = cols]
  <2>1. coo' = B /\ added' = x
    BY <1>6 DEF AddEntryUnchecked, Appended
  <2>2. /\ rows \in {coo.rows, r + 1} /\ coo.rows <= rows /\ r + 1 <= rows
        /\ cols \in {coo.cols, c + 1} /\ coo.cols <= cols /\ c + 1 <= cols
    <3>1. coo.rows \in Int /\ coo.cols \in Int /\ r + 1 \in Int /\ c + 1 \in Int
      BY <1>2, <1>3
    <3>2. rows \in {coo.rows, r + 1} /\ coo.rows <= rows /\ r + 1 <= rows
      BY ONLY <3>1, GreaterOf
    <3>3. cols \in {coo.cols, c + 1} /\ coo.cols <= cols /\ c + 1 <= cols
      BY ONLY <3>1, GreaterOf
    <3> QED BY <3>2, <3>3
  <2> HIDE DEF rows, cols
  <2>3. rows \in 0..MaxDim /\ cols \in 0..MaxDim /\ r < rows /\ c < cols
    BY <1>2, <1>3, <2>2
  <2>4. /\ B \in Objects /\ B.rows = rows /\ B.cols = cols
        /\ B.triplets = Append(coo.triplets, Triplet(r, c, v)) /\ B.sorted = FALSE /\ B.dups = TRUE
    BY <1>2, <1>4, <2>3 DEF Appended, Objects
  <2> HIDE DEF B
  <2>5. coo.rows <= B.rows /\ coo.cols <= B.cols /\ r < B.rows /\ c < B.cols
    BY <2>2, <2>3, <2>4
  <2>6. Holds(B, x) /\ x \in [AllCells -> Int]
    BY <1>1, <1>3, <2>4, <2>5, AppendedHolds
  <2> HIDE DEF x
  <2> QED BY <2>1, <2>6 DEF CooInvariant, Holds, Inside, SaysTrue, IsWorth
<1> QED BY <1>5, <1>6

LEMMA SetDimensionsStep ==
    ASSUME CooInvariant, NEW rows \in 0 .. MaxDim, NEW cols \in 0 .. MaxDim, SetDimensions(rows, cols)
    PROVE  CooInvariant'
<1> DEFINE B == [coo EXCEPT !.rows = rows, !.cols = cols]
<1>1. Holds(coo, added)
  BY DEF CooInvariant
<1>2. coo \in Objects /\ SaysTrue(coo) /\ IsWorth(coo.triplets, added)
  BY <1>1 DEF Holds
<1>3. coo' = B /\ added' = added /\ Inside(coo.triplets, rows, cols)
  BY DEF SetDimensions, Inside
<1>4. /\ B \in Objects /\ B.rows = rows /\ B.cols = cols /\ B.triplets = coo.triplets
      /\ B.sorted = coo.sorted /\ B.order = coo.order /\ B.dups = coo.dups
  BY <1>2 DEF Objects
<1> HIDE DEF B
<1>5. Holds(B, added)
  BY <1>2, <1>3, <1>4 DEF Holds, SaysTrue
<1> QED BY <1>3, <1>5 DEF CooInvariant, Holds, Inside, SaysTrue, IsWorth

\* An object without triplets.
LEMMA EmptyHolds ==
    ASSUME NEW B \in Objects, B.triplets = <<>>
    PROVE  Holds(B, NothingAdded) /\ NothingAdded \in [AllCells -> Int]
<1>1. Inside(B.triplets, B.rows, B.cols)
  BY DEF Inside
<1>2. SaysTrue(B)
  BY DEF SaysTrue, Ascends, NoneTwice
<1>3. IsWorth(B.triplets, NothingAdded) /\ NothingAdded \in [AllCells -> Int]
  BY NothingIsWorth DEF IsWorth, NothingAdded
<1> QED BY <1>1, <1>2, <1>3 DEF Holds

LEMMA ClearStep == CooInvariant /\ Clear => CooInvariant'
<1> SUFFICES ASSUME CooInvariant, Clear  PROVE CooInvariant'
  OBVIOUS
<1> DEFINE B == [coo EXCEPT !.triplets = <<>>, !.sorted = TRUE, !.dups = FALSE]
<1>1. coo' = B /\ added' = NothingAdded
  BY DEF Clear
<1>2. coo \in Objects /\ <<>> \in Seq(Triplets)
  BY EmptySeq DEF CooInvariant, Holds
<1>3. B \in Objects /\ B.triplets = <<>>
  BY <1>2 DEF Objects
<1> HIDE DEF B
<1>4. Holds(B, NothingAdded) /\ NothingAdded \in [AllCells -> Int]
  BY <1>3, EmptyHolds
<1> QED BY <1>1, <1>4 DEF CooInvariant, Holds, Inside, SaysTrue, IsWorth, NothingAdded

LEMMA InitHolds == CooInit => CooInvariant
<1> SUFFICES ASSUME CooInit  PROVE CooInvariant
  OBVIOUS
<1>1. coo = NoMatrix /\ added = NothingAdded
  BY DEF CooInit
<1>2. NoMatrix \in Objects /\ NoMatrix.triplets = <<>>
  BY CooAssumption, EmptySeq DEF NoMatrix, Objects, Orders
<1> QED BY <1>1, <1>2, EmptyHolds DEF CooInvariant

\* A coordinate matrix assembled by any sequence of calls, of any size, is a matrix, says no
\* more of its list of triplets than holds, and is worth in every cell what was added to it
\* (coo_matrix.cpp).
THEOREM MatrixSound == CooSpec => []CooSound
<1>1. CooInvariant /\ [CooNext]_cooVars => CooInvariant'
  <2> SUFFICES ASSUME CooInvariant, [CooNext]_cooVars  PROVE CooInvariant'
    OBVIOUS
  <2>1. CASE \E r \in Indices(MaxDim), c \in Indices(MaxDim), v \in Values :
                AddEntry(r, c, v) \/ AddEntryUnchecked(r, c, v)
    BY <2>1, AddStep
  <2>2. CASE \E rows \in 0 .. MaxDim, cols \in 0 .. MaxDim : SetDimensions(rows, cols)
    BY <2>2, SetDimensionsStep
  <2>3. CASE Clear
    BY <2>3, ClearStep
  <2>4. CASE \E order \in Orders : Sort(order)
    BY <2>4, SortStep
  <2>5. CASE SumDuplicates
    BY <2>5, SumDuplicatesStep
  <2>6. CASE DropZeros
    BY <2>6, DropZerosStep
  <2>7. CASE UNCHANGED cooVars
    BY <2>7 DEF cooVars, CooInvariant, Holds, Inside, SaysTrue, IsWorth
  <2> QED BY <2>1, <2>2, <2>3, <2>4, <2>5, <2>6, <2>7 DEF CooNext
<1> QED BY <1>1, InitHolds, InvariantIsSound, PTL DEF CooSpec

================================================================================
