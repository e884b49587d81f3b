---------------------------- MODULE PresolveRecovery ----------------------------
(***************************************************************************)
(* The way back, proved: undoing what presolve recorded turns every        *)
(* solution of the working model into a solution of the model at the same  *)
(* objective value, at every moment of the run.  Besides the divisions of  *)
(* the passes, those of the actions are assumed to come out even and the   *)
(* restored points to stay below the threshold (RestoringExact), and the   *)
(* bounds to be on their own side of it (BoundsSided).                     *)
(* Last, what postsolve promises: the solution it recovers is optimal in   *)
(* the original model.  It is feasible and costs what the solver's did; no *)
(* solution of the model costs less because each is one of the presolved   *)
(* model at no greater cost (PresolveProofs), where the solver's dual      *)
(* values bound them all (WeakDuality).                                    *)
(***************************************************************************)
EXTENDS PresolveProofs

-----------------------------------------------------------------------------
(* Undoing actions one after another: the fold behind Restored.  As for    *)
(* sums, the sets of counterexamples are formed and a least one refuted.   *)

\* The actions of s at the places in T undone, the last one first.
UndoneAt(s, p, T) == MapThenFoldSet(Restore, p, LAMBDA k : s[k], LAMBDA S : Min(S), T)

\* g is the recursive function behind it, on the subsets of S.
Undoes(s, p, S, g) == g = [T \in SUBSET S |-> IF T = {} THEN p ELSE Restore(s[Min(T)], g[T \ {Min(T)}])]

Places(S) == IsFiniteSet(S) /\ S \subseteq Nat

LEMMA PlacesBelow ==
    ASSUME NEW S, Places(S)
    PROVE  /\ IsFiniteSet(S)
           /\ \A T \in SUBSET S : Places(T) /\ (T # {} => Min(T) \in T)
  BY FS_Subset, MinIsLeast DEF Places

LEMMA UndoneIsFold ==
    ASSUME NEW s, NEW p, NEW S
    PROVE  UndoneAt(s, p, S) = (CHOOSE g : Undoes(s, p, S, g))[S]
  BY DEF UndoneAt, MapThenFoldSet, Undoes

LEMMA UndoesAt ==
    ASSUME NEW s, NEW p, NEW S, NEW g, Undoes(s, p, S, g), NEW T, T \subseteq S
    PROVE  g[T] = IF T = {} THEN p ELSE Restore(s[Min(T)], g[T \ {Min(T)}])
  BY DEF Undoes

LEMMA UndoesOnce ==
    ASSUME NEW s, NEW p, NEW S, Places(S),
           NEW g, NEW h, Undoes(s, p, S, g), Undoes(s, p, S, h)
    PROVE  g = h
<1> DEFINE D == {T \in SUBSET S : g[T] # h[T]}
<1>1. CASE D = {}
  BY <1>1 DEF Undoes
<1>2. CASE D # {}
  <2>1. PICK T \in D : \A U \in D : U \subseteq T => U = T
    <3>1. D \subseteq SUBSET S
      OBVIOUS
    <3> HIDE DEF D
    <3> QED BY <1>2, <3>1, LeastSubset, PlacesBelow
  <2>2. CASE T = {}
    BY <2>1, <2>2, UndoesAt
  <2>3. CASE T # {}
    <3>1. Min(T) \in T
      BY <2>1, <2>3, PlacesBelow
    <3>2. g[T \ {Min(T)}] = h[T \ {Min(T)}]
      BY <2>1, <3>1
    <3> QED BY <2>1, <2>3, <3>2, UndoesAt
  <2> QED BY <2>2, <2>3
<1> QED BY <1>1, <1>2

LEMMA UndoesBelow ==
    ASSUME NEW s, NEW p, NEW S, NEW g, Undoes(s, p, S, g), NEW T, T \subseteq S
    PROVE  Undoes(s, p, T, [U \in SUBSET T |-> g[U]])
<1> DEFINE h == [U \in SUBSET T |-> g[U]]
<1>1. ASSUME NEW U \in SUBSET T
      PROVE  h[U] = IF U = {} THEN p ELSE Restore(s[Min(U)], h[U \ {Min(U)}])
  <2>1. U \in SUBSET T /\ U \ {Min(U)} \in SUBSET T
    BY <1>1
  <2>2. h[U] = g[U] /\ h[U \ {Min(U)}] = g[U \ {Min(U)}]
    BY <2>1
  <2>3. g[U] = IF U = {} THEN p ELSE Restore(s[Min(U)], g[U \ {Min(U)}])
    BY <2>1, UndoesAt
  <2> HIDE DEF h
  <2> QED BY <2>2, <2>3
<1> QED BY <1>1 DEF Undoes

LEMMA UndoesExist ==
    ASSUME NEW s, NEW p, NEW S, Places(S)
    PROVE  \E g : Undoes(s, p, S, g)
<1> DEFINE D == {T \in SUBSET S : ~\E g : Undoes(s, p, T, g)}
           G(T) == CHOOSE g : Undoes(s, p, T, g)
<1> SUFFICES ASSUME D # {}  PROVE FALSE
  OBVIOUS
<1>1. PICK T \in D : \A U \in D : U \subseteq T => U = T
  <2>1. D \subseteq SUBSET S
    OBVIOUS
  <2> HIDE DEF D
  <2> QED BY <2>1, LeastSubset, PlacesBelow
<1>2. \A U \in SUBSET T : U # T => Undoes(s, p, U, G(U))
  BY <1>1
<1>3. \A U \in SUBSET T : Places(U) /\ (U # {} => Min(U) \in U)
  BY <1>1, PlacesBelow
<1> HIDE DEF G, D
<1> DEFINE Rest(U) == U \ {Min(U)}
           g == [U \in SUBSET T |-> IF U = {} THEN p ELSE Restore(s[Min(U)], G(Rest(U))[Rest(U)])]
<1>4. \A U \in SUBSET T : U # {} => Min(U) \in U
  BY <1>3
<1>5. ASSUME NEW U \in SUBSET T, U # T  PROVE G(U)[U] = g[U]
  <2>1. CASE U = {}
    BY <1>2, <1>5, <2>1, UndoesAt
  <2>2. CASE U # {}
    <3> DEFINE R == Rest(U)
    <3>1. R \subseteq U /\ R \in SUBSET T /\ R # T
      BY <1>4, <2>2
    <3>2. Undoes(s, p, R, [V \in SUBSET R |-> G(U)[V]])
      <4>1. Undoes(s, p, U, G(U)) /\ R \subseteq U
        BY <1>2, <1>5, <3>1
      <4> HIDE DEF R
      <4> QED BY <4>1, UndoesBelow
    <3>3. Undoes(s, p, R, G(R))
      BY <1>2, <3>1
    <3>4. G(R) = [V \in SUBSET R |-> G(U)[V]]
      BY <1>3, <3>1, <3>2, <3>3, UndoesOnce
    <3>5. G(U)[U] = Restore(s[Min(U)], G(U)[R])
      BY <1>2, <1>5, <2>2, UndoesAt
    <3>6. G(R)[R] = G(U)[R]
      BY <3>4
    <3> QED BY <2>2, <3>5, <3>6
  <2> QED BY <2>1, <2>2
<1>6. \A U \in SUBSET T : g[U] = IF U = {} THEN p ELSE Restore(s[Min(U)], g[Rest(U)])
  <2> SUFFICES ASSUME NEW U \in SUBSET T, U # {}
               PROVE  g[U] = Restore(s[Min(U)], g[Rest(U)])
    OBVIOUS
  <2>1. Rest(U) \in SUBSET T /\ Rest(U) # T
    BY <1>4
  <2>2. G(Rest(U))[Rest(U)] = g[Rest(U)]
    BY <1>5, <2>1
  <2>3. g[U] = Restore(s[Min(U)], G(Rest(U))[Rest(U)])
    OBVIOUS
  <2> QED BY <2>2, <2>3
<1>7. Undoes(s, p, T, g)
  BY <1>6 DEF Undoes
<1> QED BY <1>1, <1>7 DEF D

LEMMA UndoneStep ==
    ASSUME NEW s, NEW p, NEW S, Places(S)
    PROVE  UndoneAt(s, p, S) = IF S = {} THEN p ELSE Restore(s[Min(S)], UndoneAt(s, p, S \ {Min(S)}))
<1> DEFINE G(T) == CHOOSE g : Undoes(s, p, T, g)
<1>1. \A T \in SUBSET S : Places(T)
  BY PlacesBelow
<1>2. \A T \in SUBSET S : Undoes(s, p, T, G(T))
  BY <1>1, UndoesExist
<1>3. \A T \in SUBSET S : UndoneAt(s, p, T) = G(T)[T]
  BY UndoneIsFold
<1> HIDE DEF G
<1>4. CASE S = {}
  <2>1. G(S)[S] = p
    BY <1>2, <1>4, UndoesAt
  <2> QED BY <1>3, <1>4, <2>1
<1>5. CASE S # {}
  <2> DEFINE R == S \ {Min(S)}
  <2>1. G(S)[S] = Restore(s[Min(S)], G(S)[R])
    BY <1>2, <1>5, UndoesAt
  <2>2. Undoes(s, p, R, [T \in SUBSET R |-> G(S)[T]])
    BY <1>2, UndoesBelow
  <2>3. Undoes(s, p, R, G(R)) /\ Places(R)
    BY <1>1, <1>2
  <2>4. G(R) = [T \in SUBSET R |-> G(S)[T]]
    BY <2>2, <2>3, UndoesOnce
  <2>5. G(R)[R] = G(S)[R]
    BY <2>4
  <2>6. UndoneAt(s, p, S) = G(S)[S] /\ UndoneAt(s, p, R) = G(R)[R]
    BY <1>3
  <2> QED BY <1>5, <2>1, <2>5, <2>6
<1> QED BY <1>4, <1>5

-----------------------------------------------------------------------------
(* Undoing a stack from its top.                                           *)

LEMMA UndoneToIsAt ==
    ASSUME NEW s, NEW n, NEW p
    PROVE  UndoneTo(s, n, p) = UndoneAt(s, p, (n + 1)..Len(s))
  BY DEF UndoneTo, UndoneAt

\* Nothing undone, and one action more.
LEMMA UndoneToTop ==
    ASSUME NEW s, Len(s) \in Nat, NEW p
    PROVE  UndoneTo(s, Len(s), p) = p
<1> DEFINE S == (Len(s) + 1)..Len(s)
<1>1. S = {} /\ Places(S)
  BY FS_EmptySet DEF Places
<1>2. UndoneTo(s, Len(s), p) = UndoneAt(s, p, S)
  BY UndoneToIsAt
<1> HIDE DEF S
<1> QED BY <1>1, <1>2, UndoneStep

LEMMA UndoneToBelow ==
    ASSUME NEW s, Len(s) \in Nat, NEW n \in 1..Len(s), NEW p
    PROVE  UndoneTo(s, n - 1, p) = Restore(s[n], UndoneTo(s, n, p))
<1> DEFINE S == n..Len(s)
<1>1. S \subseteq Nat /\ S # {} /\ n \in S /\ \A k \in S : n <= k
  OBVIOUS
<1>2. Places(S)
  BY <1>1, FS_Interval DEF Places
<1>3. S \ {n} = (n + 1)..Len(s) /\ (n - 1) + 1 = n
  OBVIOUS
<1>4. UndoneTo(s, n - 1, p) = UndoneAt(s, p, S) /\ UndoneTo(s, n, p) = UndoneAt(s, p, S \ {n})
  BY <1>3, UndoneToIsAt
<1> HIDE DEF S
<1>5. Min(S) = n
  <2>1. Min(S) \in S /\ \A k \in S : Min(S) <= k
    BY <1>1, MinIsLeast
  <2>2. Min(S) \in Nat /\ Min(S) <= n /\ n <= Min(S)
    BY <1>1, <2>1
  <2> QED BY <2>2
<1> QED BY <1>1, <1>2, <1>4, <1>5, UndoneStep

LEMMA RestoredIsUndone ==
    ASSUME NEW x, x.stack \in Seq(ToSet(x.stack)), NEW p
    PROVE  Restored(x, p) = UndoneTo(x.stack, 0, p)
<1>1. DOMAIN x.stack = 1..Len(x.stack) /\ Len(x.stack) \in Nat
  OBVIOUS
<1>2. (0 + 1)..Len(x.stack) = DOMAIN x.stack
  BY <1>1
<1> QED BY <1>2 DEF Restored, UndoneTo, FoldRight

\* t is stack s with action e on top.
OnTop(e, s, t) == s \in Seq(ToSet(s)) /\ t = Append(s, e)

\* An action pushed is undone first.
LEMMA UndoneToPushed ==
    ASSUME NEW s, NEW e, NEW t, OnTop(e, s, t), NEW p, NEW n \in 0..Len(s)
    PROVE  UndoneTo(t, n, p) = UndoneTo(s, n, Restore(e, p))
<1> DEFINE L == Len(s)
           q == Restore(e, p)
           D == {m \in 0..L : UndoneTo(t, L - m, p) # UndoneTo(s, L - m, q)}
<1>1. L \in Nat /\ Len(t) = L + 1 /\ (\A k \in 1..L : t[k] = s[k]) /\ t[L + 1] = e
  BY Pushed DEF OnTop
<1> SUFFICES ASSUME D # {}  PROVE FALSE
  <2>1. L - n \in 0..L /\ L - (L - n) = n
    BY <1>1
  <2> QED BY <2>1
<1> DEFINE m == Min(D)
<1>2. m \in D /\ \A k \in D : m <= k
  <2>1. D \subseteq Nat
    BY <1>1
  <2> HIDE DEF D
  <2> QED BY <2>1, MinIsLeast
<1>3. m \in 0..L
  BY <1>2
<1> HIDE DEF m
<1>4. CASE m = 0
  <2>1. UndoneTo(s, L, q) = q
    BY <1>1, UndoneToTop
  <2>2. UndoneTo(t, L, p) = Restore(e, UndoneTo(t, L + 1, p))
    <3>1. L + 1 \in 1..Len(t) /\ (L + 1) - 1 = L /\ Len(t) \in Nat
      BY <1>1
    <3> HIDE DEF L
    <3> QED BY <1>1, <3>1, UndoneToBelow
  <2>3. UndoneTo(t, L + 1, p) = p
    <3>1. Len(t) \in Nat
      BY <1>1
    <3>2. UndoneTo(t, Len(t), p) = p
      BY <3>1, UndoneToTop
    <3> QED BY <1>1, <3>2
  <2>4. L - 0 = L
    BY <1>1
  <2> QED BY <1>2, <1>4, <2>1, <2>2, <2>3, <2>4
<1>5. CASE m # 0
  <2> DEFINE k == L - m
  <2>1. m - 1 \in 0..L /\ L - (m - 1) = k + 1 /\ k + 1 \in 1..L /\ k \in 0..L /\ (k + 1) - 1 = k
        /\ k + 1 \in 1..Len(t) /\ Len(t) \in Nat
    BY <1>1, <1>3, <1>5
  <2>2. m - 1 \notin D
    <3>1. m \in Nat /\ ~(m <= m - 1)
      BY <1>3
    <3> HIDE DEF D
    <3> QED BY <1>2, <3>1
  <2>3. UndoneTo(t, k + 1, p) = UndoneTo(s, k + 1, q)
    BY <2>1, <2>2
  <2>4. UndoneTo(t, k, p) # UndoneTo(s, k, q)
    BY <1>2
  <2> HIDE DEF k, D, q
  <2>5. UndoneTo(t, k, p) = Restore(t[k + 1], UndoneTo(t, k + 1, p))
    <3> DEFINE j == k + 1
    <3>1. j \in 1..Len(t) /\ j - 1 = k
      BY <2>1
    <3> HIDE DEF j
    <3>2. UndoneTo(t, j - 1, p) = Restore(t[j], UndoneTo(t, j, p))
      BY <2>1, <3>1, UndoneToBelow
    <3> QED BY <3>1, <3>2 DEF j
  <2>6. UndoneTo(s, k, q) = Restore(s[k + 1], UndoneTo(s, k + 1, q))
    <3> DEFINE j == k + 1
    <3>1. j \in 1..Len(s) /\ j - 1 = k
      BY <2>1
    <3> HIDE DEF j
    <3>2. UndoneTo(s, j - 1, q) = Restore(s[j], UndoneTo(s, j, q))
      BY <1>1, <3>1, UndoneToBelow
    <3> QED BY <3>1, <3>2 DEF j
  <2> QED BY <1>1, <2>1, <2>3, <2>4, <2>5, <2>6
<1> QED BY <1>4, <1>5

-----------------------------------------------------------------------------
(* What the working model's solutions are worth once the stack is undone.  *)

\* A point that satisfies the model run() was given.
Solves(q) ==
    /\ \A j \in Cols : lp.lo[j] <= q[j] /\ q[j] <= lp.up[j]
    /\ \A i \in Rows : lp.rlo[i] <= Activity(i, q, Cols) /\ Activity(i, q, Cols) <= lp.rup[i]

\* What Recoverable says of one solution, and of all that come out well.
Recovers(x, p) ==
    Solves(UndoneTo(x.stack, 0, p)) /\ Objective(UndoneTo(x.stack, 0, p)) = ObjectiveIn(x, p)

RecoversAll(x) == \A p : Fits(x, p) /\ RestoresWell(x.stack, p) => Recovers(x, p)

\* The division that undoing action e from p makes comes out even.
EvenAt(e, p) == e.type = "SingletonColumn" => Divides(e.coeff, e.rhs - Activity(e.row, p, e.others))

LEMMA RestoresWellPushed ==
    ASSUME NEW s, NEW e, NEW t, OnTop(e, s, t), NEW p, RestoresWell(t, p)
    PROVE  Small(p) /\ Small(Restore(e, p)) /\ EvenAt(e, p) /\ RestoresWell(s, Restore(e, p))
<1> DEFINE q == Restore(e, p)
           L == Len(s)
<1>1. L \in Nat /\ Len(t) = L + 1 /\ (\A k \in 1..L : t[k] = s[k]) /\ t[L + 1] = e
  BY Pushed DEF OnTop
<1>2. \A n \in 0..Len(t) :
         LET w == UndoneTo(t, n, p)
         IN /\ Small(w)
            /\ n > 0 => EvenAt(t[n], w)
  BY DEF RestoresWell, Small, EvenAt, Vector
<1>3. UndoneTo(t, L + 1, p) = p
  <2>1. Len(t) \in Nat
    BY <1>1
  <2>2. UndoneTo(t, Len(t), p) = p
    BY <2>1, UndoneToTop
  <2> QED BY <1>1, <2>2
<1>4. Small(p) /\ EvenAt(e, p)
  <2>1. L + 1 \in 0..Len(t) /\ L + 1 > 0
    BY <1>1
  <2> HIDE DEF L
  <2> QED BY <1>1, <1>2, <1>3, <2>1
<1>5. \A n \in 0..L : UndoneTo(t, n, p) = UndoneTo(s, n, q)
  BY UndoneToPushed
<1>6. UndoneTo(s, L, q) = q
  BY <1>1, UndoneToTop
<1>7. Small(q)
  <2>1. L \in 0..L /\ L \in 0..Len(t)
    BY <1>1
  <2> HIDE DEF L, q
  <2> QED BY <1>2, <1>5, <1>6, <2>1
<1>8. ASSUME NEW n \in 0..L
      PROVE  Small(UndoneTo(s, n, q)) /\ (n > 0 => EvenAt(s[n], UndoneTo(s, n, q)))
  <2>1. n \in 0..Len(t) /\ (n > 0 => t[n] = s[n])
    BY <1>1
  <2> HIDE DEF L, q
  <2> QED BY <1>2, <1>5, <1>8, <2>1
<1>9. RestoresWell(s, q)
  <2> HIDE DEF q
  <2> QED BY <1>8 DEF RestoresWell, Small, EvenAt, Vector
<1> QED BY <1>4, <1>7, <1>9

\* What comes out well is small.
LEMMA RestoresWellSmall ==
    ASSUME NEW s, s \in Seq(ToSet(s)), NEW p, RestoresWell(s, p)
    PROVE  Small(p)
<1>1. Len(s) \in Nat /\ Len(s) \in 0..Len(s)
  OBVIOUS
<1>2. UndoneTo(s, Len(s), p) = p
  BY <1>1, UndoneToTop
<1> QED BY <1>1, <1>2 DEF RestoresWell, Small, Vector

\* q satisfies x where p satisfies y, at the same objective value.
Pulled(x, q, y, p) == Fits(y, p) => Fits(x, q) /\ ObjectiveIn(x, q) = ObjectiveIn(y, p)

\* Undoing what was pushed between x and y leads from solutions of y back to those of x.
Pulls(x, y) ==
    \/ y.stack = x.stack /\ \A p : Small(p) => Pulled(x, p, y, p)
    \/ \E e : /\ y.stack = Append(x.stack, e)
              /\ \A p : Small(p) /\ Small(Restore(e, p)) /\ EvenAt(e, p) => Pulled(x, Restore(e, p), y, p)

LEMMA PulledBack ==
    ASSUME NEW x, x.stack \in Seq(ToSet(x.stack)), NEW y, Pulls(x, y), RecoversAll(x)
    PROVE  RecoversAll(y)
<1> SUFFICES ASSUME NEW p, Fits(y, p), RestoresWell(y.stack, p)
             PROVE  Recovers(y, p)
  BY DEF RecoversAll
<1>1. CASE y.stack = x.stack /\ \A q : Small(q) => Pulled(x, q, y, q)
  <2>1. Small(p)
    BY <1>1, RestoresWellSmall
  <2>2. Recovers(x, p) /\ ObjectiveIn(x, p) = ObjectiveIn(y, p)
    BY <1>1, <2>1 DEF RecoversAll, Pulled
  <2> QED BY <1>1, <2>2 DEF Recovers
<1>2. ASSUME NEW e, y.stack = Append(x.stack, e),
             \A q : Small(q) /\ Small(Restore(e, q)) /\ EvenAt(e, q) => Pulled(x, Restore(e, q), y, q)
      PROVE  Recovers(y, p)
  <2> DEFINE q == Restore(e, p)
             s == x.stack
             t == y.stack
  <2>1. Small(p) /\ Small(q) /\ EvenAt(e, p) /\ RestoresWell(s, q)
    <3>1. OnTop(e, s, t)
      BY <1>2 DEF OnTop
    <3> HIDE DEF s
    <3> QED BY <3>1, RestoresWellPushed
  <2>2. Fits(x, q) /\ ObjectiveIn(x, q) = ObjectiveIn(y, p)
    BY <1>2, <2>1 DEF Pulled
  <2>3. Recovers(x, q)
    BY <2>1, <2>2 DEF RecoversAll
  <2>4. UndoneTo(t, 0, p) = UndoneTo(s, 0, q)
    <3>1. 0 \in 0..Len(s) /\ OnTop(e, s, t)
      BY <1>2 DEF OnTop
    <3> HIDE DEF s, t
    <3> QED BY <3>1, UndoneToPushed
  <2> QED BY <2>2, <2>3, <2>4 DEF Recovers
<1> QED BY <1>1, <1>2 DEF Pulls

\* A context as it is built, whatever its status.
Fresh(x) ==
    /\ x.rows = Rows /\ x.cols = Cols /\ x.lo = lp.lo /\ x.up = lp.up
    /\ x.rlo = lp.rlo /\ x.rup = lp.rup /\ x.c = lp.c /\ x.offset = lp.offset /\ x.stack = <<>>

LEMMA FreshRecovers ==
    ASSUME lp \in Models, NEW x, Fresh(x)
    PROVE  RecoversAll(x)
<1> SUFFICES ASSUME NEW p, Fits(x, p), RestoresWell(<<>>, p)
             PROVE  Recovers(x, p)
  BY DEF RecoversAll, Fresh
<1>1. UndoneTo(<<>>, 0, p) = p
  <2>1. Len(<<>>) = 0 /\ Len(<<>>) \in Nat
    OBVIOUS
  <2>2. UndoneTo(<<>>, Len(<<>>), p) = p
    BY <2>1, UndoneToTop
  <2> QED BY <2>1, <2>2
<1>2. Small(p)
  <2>1. <<>> \in Seq(ToSet(<<>>))
    OBVIOUS
  <2> QED BY <2>1, RestoresWellSmall
<1>3. /\ \A j \in Cols : lp.lo[j] \in Int /\ lp.up[j] \in Int /\ p[j] \in Int /\ Finite(p[j])
      /\ \A i \in Rows : lp.rlo[i] \in Int /\ lp.rup[i] \in Int /\ Finite(Activity(i, p, Cols))
  BY <1>2, ModelsAssumption DEF Small, SmallPoint, Vector, Model
<1>4. \A i \in Rows : Activity(i, p, Cols) \in Int
  <2>1. \A i \in Rows : lp.a[i] \in Vector
    BY ModelsAssumption DEF Model, Vector
  <2> QED BY <1>2, <2>1, ActivityIsDot, DotInteger DEF Small
<1>5. \A j \in Cols : lp.lo[j] <= p[j] /\ p[j] <= lp.up[j]
  BY <1>3, SizesAssumption DEF Fits, Fresh, Finite
<1>6. \A i \in Rows : lp.rlo[i] <= Activity(i, p, Cols) /\ Activity(i, p, Cols) <= lp.rup[i]
  <2> SUFFICES ASSUME NEW i \in Rows
               PROVE  lp.rlo[i] <= Activity(i, p, Cols) /\ Activity(i, p, Cols) <= lp.rup[i]
    OBVIOUS
  <2> DEFINE A == Activity(i, p, Cols)
  <2>1. A \in Int /\ Finite(A) /\ lp.rlo[i] \in Int /\ lp.rup[i] \in Int
    BY <1>3, <1>4
  <2>2. (lp.rlo[i] > -Threshold => lp.rlo[i] <= A) /\ (lp.rup[i] < Threshold => A <= lp.rup[i])
    BY DEF Fits, Fresh
  <2> HIDE DEF A
  <2> QED BY <2>1, <2>2, SizesAssumption DEF Finite, A
<1>7. Objective(p) = ObjectiveIn(x, p)
  BY DEF Objective, ObjectiveIn, Fresh
<1> QED BY <1>1, <1>5, <1>6, <1>7 DEF Recovers, Solves, Fresh

-----------------------------------------------------------------------------
(* Columns that are fixed.                                                 *)

\* q is p but for the value of column j.
Moved(q, p, j) == q \in Vector /\ p \in Vector /\ \A k \in Cols \ {j} : q[k] = p[k]

LEMMA DotMoved ==
    ASSUME NEW u \in Vector, NEW p, NEW S, S \subseteq Cols, NEW j \in S, NEW q, Moved(q, p, j)
    PROVE  /\ Dot(u, q, S) = u[j] * q[j] + Dot(u, p, S \ {j})
           /\ Dot(u, q, S) \in Int /\ Dot(u, p, S \ {j}) \in Int /\ u[j] * q[j] \in Int
<1> DEFINE R == S \ {j}
<1>1. q \in Vector /\ \A k \in R : q[k] = p[k]
  BY DEF Moved
<1>2. [k \in R |-> u[k] * q[k]] = [k \in R |-> u[k] * p[k]]
  BY <1>1
<1>3. Dot(u, q, R) = Dot(u, p, R)
  BY <1>2 DEF Dot
<1>4. /\ Dot(u, q, S) = u[j] * q[j] + Dot(u, q, S \ {j})
      /\ Dot(u, q, S) \in Int /\ Dot(u, q, S \ {j}) \in Int /\ u[j] * q[j] \in Int
  BY <1>1, DotTakes
<1> QED BY <1>3, <1>4

LEMMA FixVariableStack ==
    ASSUME NEW x, Shaped(x), NEW j, NEW v
    PROVE  \E e : /\ FixVariable(x, j, v).stack = Append(x.stack, e)
                  /\ e.type = "FixedVariable"
                  /\ \A p : Restore(e, p) = [p EXCEPT ![j] = v]
<1> DEFINE e == [type |-> "FixedVariable", col |-> j, val |-> v, cost |-> x.c[j]]
           shifted(i, b) == IF i \in ColEntries(x, j) /\ Finite(b) THEN b - lp.a[i][j] * v ELSE b
           w == [x EXCEPT !.lo[j] = v, !.up[j] = v,
                          !.offset = @ + x.c[j] * v,
                          !.rlo = [i \in Rows |-> shifted(i, @[i])],
                          !.rup = [i \in Rows |-> shifted(i, @[i])]]
           z == Push(w, e)
<1>1. FixVariable(x, j, v) = RemoveCol(z, j)
  BY DEF FixVariable
<1>2. e.type = "FixedVariable" /\ e.col = j /\ e.val = v
  OBVIOUS
<1> HIDE DEF shifted, e
<1>3. w.stack = x.stack /\ DOMAIN w = Fields
  BY DEF Shaped, Fields
<1> HIDE DEF w
<1>4. z.stack = Append(x.stack, e) /\ DOMAIN z = Fields
  BY <1>3 DEF Push, Fields
<1> HIDE DEF z
<1>5. RemoveCol(z, j).stack = z.stack
  BY <1>4 DEF RemoveCol, Fields
<1>6. \A p : Restore(e, p) = [p EXCEPT ![j] = v]
  BY <1>2 DEF Restore
<1> QED BY <1>1, <1>2, <1>4, <1>5, <1>6

\* A column fixed within its bounds can be put back at that value.
LEMMA FixVariablePulls ==
    ASSUME ModelOK, NEW x, Shaped(x), Numbers(x), NEW j \in x.cols, NEW v \in Int,
           x.lo[j] > -Threshold => x.lo[j] <= v, x.up[j] < Threshold => v <= x.up[j]
    PROVE  Pulls(x, FixVariable(x, j, v))
<1> DEFINE y == FixVariable(x, j, v)
           S == x.cols \ {j}
           shifted(i, b) == IF i \in ColEntries(x, j) /\ Finite(b) THEN b - lp.a[i][j] * v ELSE b
<1>1. /\ y.rows = x.rows /\ y.cols = S
      /\ y.lo = [x.lo EXCEPT ![j] = v] /\ y.up = [x.up EXCEPT ![j] = v]
      /\ y.c = x.c /\ y.offset = x.offset + x.c[j] * v
      /\ y.rlo = [i \in Rows |-> shifted(i, x.rlo[i])]
      /\ y.rup = [i \in Rows |-> shifted(i, x.rup[i])]
  BY FixVariableFields
<1>2. PICK e : /\ y.stack = Append(x.stack, e)
               /\ e.type = "FixedVariable"
               /\ \A p : Restore(e, p) = [p EXCEPT ![j] = v]
  BY FixVariableStack
<1> HIDE DEF y
<1>3. x.cols \subseteq Cols /\ x.rows \subseteq Rows /\ j \in Cols
  BY DEF Shaped
<1>4. \A k \in S : y.lo[k] = x.lo[k] /\ y.up[k] = x.up[k]
  BY <1>1, <1>3 DEF Numbers, Vector
<1>5. ASSUME NEW p, Small(p), Small(Restore(e, p)), Fits(y, p)
      PROVE  Fits(x, Restore(e, p)) /\ ObjectiveIn(x, Restore(e, p)) = ObjectiveIn(y, p)
  <2> DEFINE q == [p EXCEPT ![j] = v]
  <2>1. Restore(e, p) = q /\ Small(q)
    BY <1>2, <1>5
  <2>2. p \in Vector /\ q \in Vector /\ q[j] = v /\ \A k \in S : q[k] = p[k]
    BY <1>3, <1>5 DEF Small, Vector
  <2>3. ASSUME NEW u \in Vector
        PROVE  /\ Dot(u, q, x.cols) = u[j] * v + Dot(u, p, S)
               /\ Dot(u, q, x.cols) \in Int /\ Dot(u, p, S) \in Int /\ u[j] * v \in Int
    <3> DEFINE T == x.cols
    <3>1. T \subseteq Cols /\ j \in T /\ Moved(q, p, j)
      BY <1>3, <2>2 DEF Moved, Vector
    <3> HIDE DEF T, q
    <3>2. /\ Dot(u, q, T) = u[j] * q[j] + Dot(u, p, T \ {j})
          /\ Dot(u, q, T) \in Int /\ Dot(u, p, T \ {j}) \in Int /\ u[j] * q[j] \in Int
      BY <2>3, <3>1, DotMoved
    <3> QED BY <2>2, <3>2 DEF T
  <2> HIDE DEF q
  <2>4. ASSUME NEW k \in x.cols
        PROVE  (x.lo[k] > -Threshold => x.lo[k] <= q[k]) /\ (x.up[k] < Threshold => q[k] <= x.up[k])
    <3>1. CASE k = j
      BY <2>2, <3>1
    <3>2. CASE k # j
      BY <1>1, <1>4, <1>5, <2>2, <2>4, <3>2 DEF Fits
    <3> QED BY <3>1, <3>2
  <2>5. ASSUME NEW i \in x.rows
        PROVE  /\ x.rlo[i] > -Threshold => x.rlo[i] <= Activity(i, q, x.cols)
               /\ x.rup[i] < Threshold => Activity(i, q, x.cols) <= x.rup[i]
    <3> DEFINE A == Activity(i, q, x.cols)
               B == Activity(i, p, S)
               s == lp.a[i][j] * v
               low == x.rlo[i]
               high == x.rup[i]
    <3>1. A = s + B /\ A \in Int /\ B \in Int /\ s \in Int
      <4> DEFINE u == lp.a[i]
      <4>1. u \in Vector
        BY <1>3, <2>5 DEF ModelOK
      <4> HIDE DEF u
      <4>2. /\ Dot(u, q, x.cols) = u[j] * v + Dot(u, p, S)
            /\ Dot(u, q, x.cols) \in Int /\ Dot(u, p, S) \in Int /\ u[j] * v \in Int
        BY <2>3, <4>1
      <4> QED BY <4>2, ActivityIsDot DEF u
    <3>2. low \in Int /\ high \in Int
      BY <1>3, <2>5 DEF Numbers
    <3>3. Finite(A) /\ Finite(B)
      BY <1>3, <1>5, <2>1, <2>5 DEF Small, SmallPoint
    <3>4. /\ y.rlo[i] = shifted(i, low) /\ y.rup[i] = shifted(i, high)
          /\ y.rlo[i] > -Threshold => y.rlo[i] <= B
          /\ y.rup[i] < Threshold => B <= y.rup[i]
      BY <1>1, <1>3, <1>5, <2>5 DEF Fits
    <3>5. CASE i \in ColEntries(x, j)
      <4>1. /\ y.rlo[i] = (IF Finite(low) THEN low - s ELSE low)
            /\ y.rup[i] = (IF Finite(high) THEN high - s ELSE high)
        BY <3>4, <3>5
      <4> HIDE DEF A, B, s, low, high
      <4>2. (low > -Threshold => low <= A) /\ (high < Threshold => A <= high)
        BY <3>1, <3>2, <3>3, <3>4, <4>1, SizesAssumption DEF Finite
      <4> QED BY <4>2 DEF A, low, high
    <3>6. CASE i \notin ColEntries(x, j)
      <4>1. lp.a[i][j] = 0
        BY <2>5, <3>6 DEF ColEntries
      <4>2. s = 0
        BY <4>1
      <4> HIDE DEF s, A
      <4>3. A = B
        BY <3>1, <4>2
      <4> QED BY <3>4, <3>6, <4>3 DEF A
    <3> QED BY <3>5, <3>6
  <2>6. Fits(x, q)
    BY <2>4, <2>5 DEF Fits
  <2>7. ObjectiveIn(x, q) = ObjectiveIn(y, p)
    <3> DEFINE D == Dot(x.c, q, x.cols)
               E == Dot(x.c, p, S)
               s == x.c[j] * v
    <3>1. D = s + E /\ E \in Int /\ s \in Int /\ x.offset \in Int
      <4> DEFINE u == x.c
      <4>1. u \in Vector /\ x.offset \in Int
        BY DEF Numbers
      <4> HIDE DEF u
      <4>2. Dot(u, q, x.cols) = u[j] * v + Dot(u, p, S) /\ Dot(u, p, S) \in Int /\ u[j] * v \in Int
        BY <2>3, <4>1
      <4> QED BY <4>1, <4>2 DEF u
    <3>2. ObjectiveIn(x, q) = x.offset + D /\ ObjectiveIn(y, p) = (x.offset + s) + E
      BY <1>1, ObjectiveIsDot
    <3> HIDE DEF D, E, s
    <3> QED BY <3>1, <3>2
  <2> QED BY <2>1, <2>6, <2>7
<1>6. Pulls(x, y)
  BY <1>2, <1>5 DEF Pulls, Pulled
<1> QED BY <1>6 DEF y

-----------------------------------------------------------------------------
(* Rows that are dropped.                                                  *)

LEMMA DropRowStack ==
    ASSUME NEW x, Shaped(x), NEW i
    PROVE  \E e : /\ DropRow(x, i).stack = Append(x.stack, e)
                  /\ e.type = "RedundantRow"
                  /\ \A p : Restore(e, p) = p
<1> DEFINE e == [type |-> "RedundantRow", row |-> i]
<1>1. e.type = "RedundantRow"
  OBVIOUS
<1> HIDE DEF e
<1>2. DropRow(x, i).stack = Append(x.stack, e)
  BY DEF DropRow, RemoveRow, Push, Shaped, Fields, e
<1>3. \A p : Restore(e, p) = p
  BY <1>1 DEF Restore
<1> QED BY <1>1, <1>2, <1>3

\* The bounds of row i that count hold at p.
RowHolds(x, i, p) ==
    /\ x.rlo[i] > -Threshold => x.rlo[i] <= Activity(i, p, x.cols)
    /\ x.rup[i] < Threshold => Activity(i, p, x.cols) <= x.rup[i]

\* p keeps the column bounds of x that count.
InBox(x, p) ==
    \A j \in x.cols : (x.lo[j] > -Threshold => x.lo[j] <= p[j]) /\ (x.up[j] < Threshold => p[j] <= x.up[j])

\* A row that every point of the box satisfies may go.
LEMMA DropRowPulls ==
    ASSUME NEW x, Shaped(x), NEW i, \A p : Small(p) /\ InBox(x, p) => RowHolds(x, i, p)
    PROVE  Pulls(x, DropRow(x, i))
<1> DEFINE y == DropRow(x, i)
<1>1. RowDropped(x, y, i)
  BY DropRowFields
<1>2. PICK e : /\ y.stack = Append(x.stack, e)
               /\ e.type = "RedundantRow"
               /\ \A p : Restore(e, p) = p
  BY DropRowStack
<1> HIDE DEF y
<1>3. ASSUME NEW p, Small(p), Fits(y, p)
      PROVE  Fits(x, p) /\ ObjectiveIn(x, p) = ObjectiveIn(y, p)
  <2>1. InBox(x, p)
    BY <1>1, <1>3 DEF RowDropped, Fits, InBox
  <2>2. RowHolds(x, i, p)
    BY <1>3, <2>1
  <2>3. Fits(x, p)
    BY <1>1, <1>3, <2>1, <2>2 DEF RowDropped, Fits, InBox, RowHolds
  <2>4. ObjectiveIn(x, p) = ObjectiveIn(y, p)
    BY <1>1 DEF RowDropped, ObjectiveIn
  <2> QED BY <2>3, <2>4
<1>4. Pulls(x, y)
  BY <1>2, <1>3 DEF Pulls, Pulled
<1> QED BY <1>4 DEF y

\* A row without entries reads 0.
LEMMA EmptyRowReads ==
    ASSUME ModelOK, Shaped(ctx), NEW i \in ctx.rows, RowEntries(ctx, i) = {}, NEW p, Small(p)
    PROVE  Activity(i, p, ctx.cols) = 0
<1>1. i \in Rows /\ lp.a[i] \in Vector /\ p \in Vector /\ {} \subseteq Cols
  BY DEF Shaped, ModelOK, Small
<1>2. Activity(i, p, ctx.cols) = Dot(lp.a[i], p, {})
  BY <1>1, ActivityOfEntries
<1>3. Dot(lp.a[i], p, {}) = Sum(Terms(lp.a[i], p), {})
  BY <1>1, DotIsSum
<1> QED BY <1>2, <1>3, SumEmpty

-----------------------------------------------------------------------------
(* Singleton rows.                                                         *)

\* The interval a singleton row leaves its column is no more than the row says.
LEMMA ImpliedReads ==
    ASSUME NEW i, NEW j, RowDivides(i, j), NEW v \in Int, Finite(v),
           lp.a[i][j] \in Int, lp.a[i][j] # 0, ctx.rlo[i] \in Int, ctx.rup[i] \in Int,
           Implied(i, j).lo > -Threshold => Implied(i, j).lo <= v,
           Implied(i, j).up < Threshold => v <= Implied(i, j).up
    PROVE  /\ ctx.rlo[i] > -Threshold => ctx.rlo[i] <= lp.a[i][j] * v
           /\ ctx.rup[i] < Threshold => lp.a[i][j] * v <= ctx.rup[i]
<1> DEFINE a == lp.a[i][j]
           q == Quotient(ctx.rlo[i], a)
           r == Quotient(ctx.rup[i], a)
           low == IF ctx.rlo[i] > -Threshold THEN q ELSE IF a > 0 THEN -Threshold ELSE Threshold
           high == IF ctx.rup[i] < Threshold THEN r ELSE IF a > 0 THEN Threshold ELSE -Threshold
<1>1. ctx.rlo[i] > -Threshold => q \in Int /\ a * q = ctx.rlo[i]
  <2>1. ctx.rlo[i] > -Threshold => q \in Int /\ q * a = ctx.rlo[i]
    BY QuotientExact DEF RowDivides
  <2>2. q \in Int => a * q = q * a
    OBVIOUS
  <2> QED BY <2>1, <2>2
<1>2. ctx.rup[i] < Threshold => r \in Int /\ a * r = ctx.rup[i]
  <2>1. ctx.rup[i] < Threshold => r \in Int /\ r * a = ctx.rup[i]
    BY QuotientExact DEF RowDivides
  <2>2. r \in Int => a * r = r * a
    OBVIOUS
  <2> QED BY <2>1, <2>2
<1>3. a \in Int /\ (a > 0 \/ a < 0)
  OBVIOUS
<1>4. Implied(i, j) = IF a > 0 THEN [lo |-> low, up |-> high] ELSE [lo |-> high, up |-> low]
  BY DEF Implied
<1>5. /\ q \in Int => (a > 0 /\ q <= v => a * q <= a * v) /\ (a < 0 /\ v <= q => a * q <= a * v)
      /\ r \in Int => (a > 0 /\ v <= r => a * v <= a * r) /\ (a < 0 /\ r <= v => a * v <= a * r)
  <2> HIDE DEF a, q, r
  <2> QED BY <1>3, ProductOrder
<1>6. CASE a > 0
  <2>1. Implied(i, j).lo = low /\ Implied(i, j).up = high
    BY <1>4, <1>6
  <2>2. ctx.rlo[i] > -Threshold => q <= v
    <3> HIDE DEF q, a
    <3> QED BY <1>1, <2>1, SizesAssumption DEF Finite
  <2>3. ctx.rup[i] < Threshold => v <= r
    <3> HIDE DEF r, a
    <3> QED BY <1>2, <2>1, SizesAssumption DEF Finite
  <2> HIDE DEF q, r, a
  <2> QED BY <1>1, <1>2, <1>5, <1>6, <2>2, <2>3 DEF a
<1>7. CASE a < 0
  <2>1. Implied(i, j).lo = high /\ Implied(i, j).up = low
    BY <1>3, <1>4, <1>7
  <2>2. ctx.rlo[i] > -Threshold => v <= q
    <3> HIDE DEF q, a
    <3> QED BY <1>1, <2>1, SizesAssumption DEF Finite
  <2>3. ctx.rup[i] < Threshold => r <= v
    <3> HIDE DEF r, a
    <3> QED BY <1>2, <2>1, SizesAssumption DEF Finite
  <2> HIDE DEF q, r, a
  <2> QED BY <1>1, <1>2, <1>5, <1>7, <2>2, <2>3 DEF a
<1> QED BY <1>3, <1>6, <1>7

\* A row that became bounds of its column says no more than they do.
LEMMA BecameBoundsPulls ==
    ASSUME ModelOK, Shaped(ctx), Exact(ctx), Numbers(ctx), NEW i \in SingletonRows,
           RowDivides(i, Min(RowEntries(ctx, i))),
           NEW y, RowBecameBounds(y, i, Min(RowEntries(ctx, i)), UnderRow(i, Min(RowEntries(ctx, i))).lo,
                                  UnderRow(i, Min(RowEntries(ctx, i))).up),
           NEW p, Small(p), Fits(y, p)
    PROVE  Fits(ctx, p) /\ ObjectiveIn(ctx, p) = ObjectiveIn(y, p)
<1> DEFINE j == Min(RowEntries(ctx, i))
           new == UnderRow(i, j)
           low == new.lo
           high == new.up
<1>1. i \in ctx.rows /\ i \in Rows /\ RowEntries(ctx, i) = {j} /\ j \in ctx.cols /\ j \in Cols
  BY OnlyEntry DEF SingletonRows, Shaped
<1>2. lp.a[i] \in Vector /\ lp.a[i][j] \in Int /\ lp.a[i][j] # 0
  BY <1>1 DEF ModelOK, Vector, RowEntries
<1>3. ctx.lo[j] \in Int /\ ctx.up[j] \in Int /\ ctx.rlo[i] \in Int /\ ctx.rup[i] \in Int
  BY <1>1 DEF Numbers, Vector
<1>4. Implied(i, j).lo \in Int /\ Implied(i, j).up \in Int
  BY ImpliedIsInteger
<1>5. low = Greater(ctx.lo[j], Implied(i, j).lo) /\ high = Lesser(ctx.up[j], Implied(i, j).up)
  BY DEF UnderRow
<1>6. /\ y.rows = ctx.rows \ {i} /\ y.cols = ctx.cols
      /\ y.lo = [ctx.lo EXCEPT ![j] = low] /\ y.up = [ctx.up EXCEPT ![j] = high]
      /\ y.c = ctx.c /\ y.offset = ctx.offset /\ y.rlo = ctx.rlo /\ y.rup = ctx.rup
  BY DEF RowBecameBounds
<1>7. y.lo[j] = low /\ y.up[j] = high
      /\ \A k \in ctx.cols : k # j => y.lo[k] = ctx.lo[k] /\ y.up[k] = ctx.up[k]
  <2> HIDE DEF low, high, j
  <2> QED BY <1>1, <1>6 DEF Shaped, Numbers, Vector
<1> HIDE DEF low, high, new
<1>8. p \in Vector /\ p[j] \in Int /\ Finite(p[j])
  BY <1>1 DEF Small, SmallPoint, Vector
<1>9. (low > -Threshold => low <= p[j]) /\ (high < Threshold => p[j] <= high)
  BY <1>1, <1>6, <1>7 DEF Fits
<1> HIDE DEF j
<1>10. /\ ctx.lo[j] > -Threshold => ctx.lo[j] <= p[j]
       /\ ctx.up[j] < Threshold => p[j] <= ctx.up[j]
       /\ Implied(i, j).lo > -Threshold => Implied(i, j).lo <= p[j]
       /\ Implied(i, j).up < Threshold => p[j] <= Implied(i, j).up
  BY <1>3, <1>4, <1>5, <1>8, <1>9, SizesAssumption DEF Greater, Lesser
<1>11. /\ ctx.rlo[i] > -Threshold => ctx.rlo[i] <= lp.a[i][j] * p[j]
       /\ ctx.rup[i] < Threshold => lp.a[i][j] * p[j] <= ctx.rup[i]
  BY <1>2, <1>3, <1>8, <1>10, ImpliedReads DEF j
<1>12. Activity(i, p, ctx.cols) = lp.a[i][j] * p[j]
  BY <1>1, <1>8, SingletonReads
<1>13. Fits(ctx, p)
  BY <1>6, <1>7, <1>10, <1>11, <1>12 DEF Fits
<1>14. ObjectiveIn(ctx, p) = ObjectiveIn(y, p)
  BY <1>6 DEF ObjectiveIn
<1> QED BY <1>13, <1>14

-----------------------------------------------------------------------------
(* Singleton columns.                                                      *)

\* The bounds carried over to the row are no less than those of the column.
LEMMA CarriedReads ==
    ASSUME NEW j, NEW i, ctx.lo[j] \in Int, ctx.up[j] \in Int, ctx.rlo[i] \in Int,
           lp.a[i][j] \in Int, lp.a[i][j] # 0, ctx.lo[j] < Threshold, -Threshold < ctx.up[j],
           NEW v \in Int, NEW b \in Int, Finite(b), ctx.rlo[i] = lp.a[i][j] * v + b,
           Carried(j, i).lo > -Threshold => Carried(j, i).lo <= b,
           Carried(j, i).up < Threshold => b <= Carried(j, i).up
    PROVE  /\ ctx.lo[j] > -Threshold => ctx.lo[j] <= v
           /\ ctx.up[j] < Threshold => v <= ctx.up[j]
<1> DEFINE a == lp.a[i][j]
           most == IF a > 0 THEN ctx.up[j] ELSE ctx.lo[j]
           least == IF a > 0 THEN ctx.lo[j] ELSE ctx.up[j]
           r == ctx.rlo[i]
           s == a * v
           t == a * most
           w == a * least
<1>1. a \in Int /\ a # 0 /\ most \in Int /\ least \in Int /\ r \in Int
  OBVIOUS
<1>2. /\ Carried(j, i).lo = IF Finite(most) THEN r - t ELSE -Threshold
      /\ Carried(j, i).up = IF Finite(least) THEN r - w ELSE Threshold
  BY DEF Carried
<1>3. s \in Int /\ t \in Int /\ w \in Int
  <2> HIDE DEF a, most, least
  <2> QED BY <1>1
<1>4. r = s + b
  OBVIOUS
<1>5. (Finite(most) => s <= t) /\ (Finite(least) => w <= s)
  <2> HIDE DEF a, most, least, r, s, t, w
  <2> QED BY <1>1, <1>2, <1>3, <1>4, SizesAssumption DEF Finite
<1>6. /\ a > 0 => (v <= most <=> a * v <= a * most) /\ (least <= v <=> a * least <= a * v)
      /\ a < 0 => (most <= v <=> a * v <= a * most) /\ (v <= least <=> a * least <= a * v)
  <2> HIDE DEF a, most, least
  <2> QED BY <1>1, ProductOrder
<1>7. CASE a > 0
  <2>1. (Finite(most) => v <= most) /\ (Finite(least) => least <= v)
    <3> HIDE DEF a, most, least
    <3> QED BY <1>5, <1>6, <1>7
  <2> QED BY <1>7, <2>1 DEF Finite
<1>8. CASE a < 0
  <2>1. (Finite(most) => most <= v) /\ (Finite(least) => v <= least)
    <3> HIDE DEF a, most, least
    <3> QED BY <1>5, <1>6, <1>8
  <2>2. most = ctx.lo[j] /\ least = ctx.up[j]
    BY <1>1, <1>8
  <2> QED BY <2>1, <2>2 DEF Finite
<1> QED BY <1>1, <1>7, <1>8

\* A substituted column can be put back at the value its row gives it.
LEMMA SubstitutedPulls ==
    ASSUME ModelOK, Shaped(ctx), Exact(ctx), Numbers(ctx), BoundsSided, ~Proved(ctx), NEW j \in SingletonCols,
           ColumnDivides(j, SubstitutionRow(j)), NEW y, ColumnSubstituted(y, j, SubstitutionRow(j)),
           NEW p, Small(p), NEW q, Small(q), Moved(q, p, j),
           ctx.rlo[SubstitutionRow(j)] = lp.a[SubstitutionRow(j)][j] * q[j]
               + Activity(SubstitutionRow(j), p, RowEntries(ctx, SubstitutionRow(j)) \ {j}),
           Fits(y, p)
    PROVE  Fits(ctx, q) /\ ObjectiveIn(ctx, q) = ObjectiveIn(y, p)
<1> DEFINE i == SubstitutionRow(j)
           u == lp.a[i]
           a == u[j]
           v == q[j]
           S == ctx.cols \ {j}
           B == Dot(u, p, S)
           r == ctx.rlo[i]
<1>0. /\ j \in ctx.cols /\ j \in Cols /\ i \in ctx.rows /\ i \in Rows /\ ctx.cols \subseteq Cols
      /\ ctx.rlo[i] = ctx.rup[i] /\ ctx.rows \subseteq Rows
  BY OnlyRow DEF SingletonCols, Shaped
<1>1. /\ u \in Vector /\ p \in Vector /\ q \in Vector /\ ctx.c \in Vector /\ a \in Int /\ a # 0
      /\ v \in Int /\ r \in Int /\ ctx.c[j] \in Int /\ ctx.offset \in Int
      /\ ctx.lo[j] \in Int /\ ctx.up[j] \in Int /\ ctx.lo[j] < Threshold /\ -Threshold < ctx.up[j]
  <2>1. i \in ColEntries(ctx, j)
    BY OnlyRow
  <2> QED BY <1>0, <2>1 DEF ModelOK, Numbers, Small, Vector, ColEntries, BoundsSided
<1>2. ASSUME NEW w \in Vector
      PROVE  /\ Dot(w, q, ctx.cols) = w[j] * q[j] + Dot(w, p, S)
             /\ Dot(w, q, ctx.cols) \in Int /\ Dot(w, p, S) \in Int /\ w[j] * q[j] \in Int
  <2> DEFINE T == ctx.cols
  <2>1. T \subseteq Cols /\ j \in T
    BY <1>0
  <2> HIDE DEF T
  <2>2. /\ Dot(w, q, T) = w[j] * q[j] + Dot(w, p, T \ {j})
        /\ Dot(w, q, T) \in Int /\ Dot(w, p, T \ {j}) \in Int /\ w[j] * q[j] \in Int
    BY <1>2, <2>1, DotMoved
  <2> QED BY <2>2 DEF T
<1>3. B \in Int /\ Activity(i, p, S) = B /\ Activity(i, q, ctx.cols) = a * v + B
  <2> DEFINE w == u
  <2>1. w \in Vector
    BY <1>1
  <2> HIDE DEF w
  <2>2. Dot(w, q, ctx.cols) = w[j] * q[j] + Dot(w, p, S) /\ Dot(w, p, S) \in Int
    BY <1>2, <2>1
  <2> QED BY <2>2, ActivityIsDot DEF w
<1>4. r = a * v + B
  <2> DEFINE R == RowEntries(ctx, i) \ {j}
             w == u
  <2>1. w \in Vector /\ p \in Vector /\ S \subseteq Cols /\ R \subseteq S /\ \A k \in S \ R : w[k] = 0
    BY <1>0, <1>1 DEF RowEntries
  <2> HIDE DEF S, R, w
  <2>2. Dot(w, p, S) = Dot(w, p, R)
    BY <2>1, DotWithoutZeros
  <2>3. Activity(i, p, R) = Dot(w, p, R)
    BY ActivityIsDot DEF w
  <2>4. r = a * v + Activity(i, p, R)
    BY DEF R
  <2> QED BY <2>2, <2>3, <2>4 DEF w
<1>5. /\ y.rows = ctx.rows /\ y.cols = S /\ y.lo = ctx.lo /\ y.up = ctx.up
      /\ y.c = CostsWithout(j, i)
      /\ y.offset = ctx.offset + Quotient(ctx.c[j] * r, a)
      /\ y.rlo = [ctx.rlo EXCEPT ![i] = Carried(j, i).lo]
      /\ y.rup = [ctx.rup EXCEPT ![i] = Carried(j, i).up]
  BY DEF ColumnSubstituted
<1>6. \A k \in S : q[k] = p[k]
  BY <1>0 DEF Moved
<1>7. Fits(ctx, q)
  <2>1. (ctx.lo[j] > -Threshold => ctx.lo[j] <= v) /\ (ctx.up[j] < Threshold => v <= ctx.up[j])
    <3>1. y.rlo[i] = Carried(j, i).lo /\ y.rup[i] = Carried(j, i).up
      BY <1>0, <1>5 DEF Numbers
    <3>2. /\ Carried(j, i).lo > -Threshold => Carried(j, i).lo <= B
          /\ Carried(j, i).up < Threshold => B <= Carried(j, i).up
      <4>1. i \in y.rows /\ y.cols = S
        BY <1>0, <1>5
      <4>2. /\ y.rlo[i] > -Threshold => y.rlo[i] <= Activity(i, p, S)
            /\ y.rup[i] < Threshold => Activity(i, p, S) <= y.rup[i]
        <5> HIDE DEF i, S
        <5> QED BY <4>1 DEF Fits
      <4> QED BY <1>3, <3>1, <4>2
    <3>3. Finite(B)
      BY <1>0, <1>3 DEF Small, SmallPoint
    <3> HIDE DEF v, B, i
    <3> QED BY <1>1, <1>3, <1>4, <3>2, <3>3, CarriedReads
  <2>2. ASSUME NEW k \in ctx.cols
        PROVE  (ctx.lo[k] > -Threshold => ctx.lo[k] <= q[k]) /\ (ctx.up[k] < Threshold => q[k] <= ctx.up[k])
    <3>1. CASE k = j
      BY <2>1, <3>1
    <3>2. CASE k # j
      BY <1>5, <1>6, <2>2, <3>2 DEF Fits
    <3> QED BY <3>1, <3>2
  <2>3. ASSUME NEW k \in ctx.rows
        PROVE  /\ ctx.rlo[k] > -Threshold => ctx.rlo[k] <= Activity(k, q, ctx.cols)
               /\ ctx.rup[k] < Threshold => Activity(k, q, ctx.cols) <= ctx.rup[k]
    <3>1. CASE k = i
      <4>1. Activity(i, q, ctx.cols) = r /\ ctx.rup[i] = r
        BY <1>0, <1>3, <1>4
      <4> HIDE DEF i
      <4> QED BY <1>1, <3>1, <4>1
    <3>2. CASE k # i
      <4>1. y.rlo[k] = ctx.rlo[k] /\ y.rup[k] = ctx.rup[k]
        BY <1>0, <1>5, <2>3, <3>2 DEF Numbers
      <4>2. lp.a[k][j] = 0
        BY <2>3, <3>2, OnlyRow DEF ColEntries
      <4>3. Activity(k, q, ctx.cols) = Activity(k, p, S)
        <5> DEFINE w == lp.a[k]
        <5>1. w \in Vector /\ w[j] = 0
          BY <1>0, <2>3, <4>2 DEF ModelOK
        <5> HIDE DEF w
        <5>2. Dot(w, q, ctx.cols) = w[j] * q[j] + Dot(w, p, S) /\ Dot(w, p, S) \in Int
          BY <1>2, <5>1
        <5>3. w[j] * q[j] = 0
          BY <1>1, <5>1
        <5>4. Dot(w, q, ctx.cols) = Dot(w, p, S)
          BY <5>2, <5>3
        <5> QED BY <5>4, ActivityIsDot DEF w
      <4>4. /\ y.rlo[k] > -Threshold => y.rlo[k] <= Activity(k, p, S)
            /\ y.rup[k] < Threshold => Activity(k, p, S) <= y.rup[k]
        BY <1>5, <2>3 DEF Fits
      <4> QED BY <4>1, <4>3, <4>4
    <3> QED BY <3>1, <3>2
  <2> QED BY <2>2, <2>3 DEF Fits
<1>8. ObjectiveIn(ctx, q) = ObjectiveIn(y, p)
  <2> DEFINE c == ctx.c
             e == CostsWithout(j, i)
             t == c[j]
             z == Quotient(ctx.c[j] * r, a)
             D == Dot(c, p, S)
             E == Dot(e, p, S)
  <2>1. z \in Int /\ z * a = t * r
    BY QuotientExact DEF ColumnDivides
  <2>2. e \in Vector /\ c \in Vector /\ \A k \in S : a * e[k] = a * c[k] - t * u[k]
    BY <1>0, <1>1, CostsWithoutExact
  <2>3. D \in Int /\ E \in Int /\ Dot(c, q, ctx.cols) = t * v + D
    <3>1. S \subseteq Cols
      BY <1>0
    <3> HIDE DEF c, e, S
    <3>2. D \in Int /\ E \in Int
      BY <1>1, <2>2, <3>1, DotInteger
    <3>3. Dot(c, q, ctx.cols) = c[j] * q[j] + Dot(c, p, S)
      BY <1>2, <2>2
    <3> QED BY <3>2, <3>3
  <2>4. a * E = a * D - t * B
    <3>1. S \subseteq Cols /\ t \in Int
      BY <1>0, <1>1
    <3>2. u \in Vector /\ p \in Vector /\ a \in Int
      BY <1>1
    <3> HIDE DEF S, u, a, c, e, t
    <3>3. Combination(e, c, u, a, t, S)
      BY <2>2 DEF Combination
    <3>4. a * Dot(e, p, S) = a * Dot(c, p, S) - t * Dot(u, p, S)
      BY <2>2, <3>1, <3>2, <3>3, DotCombines
    <3> QED BY <3>4
  <2>5. z + E = t * v + D
    <3>1. t \in Int
      BY <1>1
    <3> HIDE DEF i, a, r, v, B, c, e, t, z, D, E
    <3> QED BY <1>1, <1>3, <1>4, <2>1, <2>3, <2>4, <3>1, SubstitutionCosts
  <2>6. ObjectiveIn(y, p) = (ctx.offset + z) + E
    BY <1>5, ObjectiveIsDot
  <2>7. ObjectiveIn(ctx, q) = ctx.offset + (t * v + D)
    BY <2>3, ObjectiveIsDot
  <2>8. t * v \in Int
    BY <1>1
  <2> HIDE DEF z, E, D, t, v
  <2> DEFINE w == t * v
  <2>9. w \in Int /\ z + E = w + D /\ z \in Int /\ E \in Int /\ D \in Int /\ ctx.offset \in Int
    BY <1>1, <2>1, <2>3, <2>5, <2>8
  <2> HIDE DEF w
  <2>10. (ctx.offset + z) + E = ctx.offset + (w + D)
    BY <2>9
  <2> QED BY <2>6, <2>7, <2>10 DEF w
<1> QED BY <1>7, <1>8

-----------------------------------------------------------------------------
(* One step, back.                                                         *)

Whole == Ready /\ ~Proved(ctx) /\ Uncrossed /\ ForcedRowHolds /\ BoundsSided

\* y is x with no looser bounds of the columns.
Tighter(x, y) ==
    /\ y.rows = x.rows /\ y.cols = x.cols /\ y.rlo = x.rlo /\ y.rup = x.rup
    /\ y.c = x.c /\ y.offset = x.offset /\ y.stack = x.stack
    /\ y.lo \in Vector /\ y.up \in Vector
    /\ \A k \in x.cols : x.lo[k] <= y.lo[k] /\ y.up[k] <= x.up[k]

LEMMA TighterPulls ==
    ASSUME NEW x, Shaped(x), Numbers(x), NEW y, Tighter(x, y)
    PROVE  Pulls(x, y)
<1>1. ASSUME NEW p, Small(p), Fits(y, p)
      PROVE  Fits(x, p) /\ ObjectiveIn(x, p) = ObjectiveIn(y, p)
  <2>1. ASSUME NEW k \in x.cols
        PROVE  (x.lo[k] > -Threshold => x.lo[k] <= p[k]) /\ (x.up[k] < Threshold => p[k] <= x.up[k])
    <3>1. x.lo[k] \in Int /\ x.up[k] \in Int /\ y.lo[k] \in Int /\ y.up[k] \in Int /\ p[k] \in Int
      BY <1>1, <2>1 DEF Shaped, Numbers, Tighter, Small, Vector
    <3>2. (y.lo[k] > -Threshold => y.lo[k] <= p[k]) /\ (y.up[k] < Threshold => p[k] <= y.up[k])
      BY <1>1, <2>1 DEF Tighter, Fits
    <3>3. x.lo[k] <= y.lo[k] /\ y.up[k] <= x.up[k]
      BY <2>1 DEF Tighter
    <3> QED BY <3>1, <3>2, <3>3, SizesAssumption
  <2>2. Fits(x, p)
    BY <1>1, <2>1 DEF Tighter, Fits
  <2>3. ObjectiveIn(x, p) = ObjectiveIn(y, p)
    BY DEF Tighter, ObjectiveIn
  <2> QED BY <2>2, <2>3
<1> QED BY <1>1 DEF Pulls, Pulled, Tighter

\* A status says nothing of the solutions.
LEMMA StatusPulls ==
    ASSUME Ready, NEW status, ctx' = [ctx EXCEPT !.status = status]
    PROVE  Pulls(ctx, ctx') /\ ctx'.status = status
<1>1. Tighter(ctx, ctx') /\ ctx'.status = status
  BY DEF Ready, Shaped, Fields, Numbers, Vector, Tighter
<1> DEFINE y == ctx'
<1>2. Tighter(ctx, y)
  BY <1>1
<1> HIDE DEF y
<1>3. Pulls(ctx, y)
  BY <1>2, TighterPulls DEF Ready
<1> QED BY <1>1, <1>3 DEF y

LEMMA SamePulls ==
    ASSUME Ready, UNCHANGED ctx
    PROVE  Pulls(ctx, ctx')
<1> DEFINE y == ctx'
<1>1. Tighter(ctx, y)
  BY DEF Ready, Shaped, Numbers, Vector, Tighter
<1> HIDE DEF y
<1>2. Pulls(ctx, y)
  BY <1>1, TighterPulls DEF Ready
<1> QED BY <1>2 DEF y

LEMMA EmptyRowPulls ==
    ASSUME Whole, EmptyRow, ~Proved(ctx')
    PROVE  Pulls(ctx, ctx')
<1> PICK i \in Rows : EmptyRow!(i)
  BY DEF EmptyRow
<1>1. i \in ctx.rows /\ ctx.rowDegree[i] = 0
  BY DEF At, EmptyRows
<1>2. EmptyRowHolds(i)
  <2> SUFFICES ASSUME ~EmptyRowHolds(i)  PROVE FALSE
    OBVIOUS
  <2>1. ctx' = [ctx EXCEPT !.status = "Infeasible"]
    BY DEF Prove
  <2> QED BY <2>1, StatusPulls DEF Whole, Proved
<1>3. ctx' = DropRow(ctx, i)
  BY <1>2 DEF Did
<1>4. RowEntries(ctx, i) = {}
  <2>1. Cardinality(RowEntries(ctx, i)) = 0
    BY <1>1 DEF Whole, Ready, Exact
  <2>2. IsFiniteSet(RowEntries(ctx, i))
    BY FiniteRowsAndCols, FS_Subset DEF RowEntries, Whole, Ready, Shaped
  <2> QED BY <2>1, <2>2, FS_EmptySet
<1>5. ASSUME NEW p, Small(p)
      PROVE  RowHolds(ctx, i, p)
  <2>1. Activity(i, p, ctx.cols) = 0
    BY <1>1, <1>4, <1>5, EmptyRowReads DEF Whole, Ready
  <2> QED BY <1>2, <2>1 DEF RowHolds, EmptyRowHolds
<1> QED BY <1>3, <1>5, DropRowPulls DEF Whole, Ready

LEMMA EmptyColumnPulls ==
    ASSUME Whole, EmptyColumn, ~Proved(ctx')
    PROVE  Pulls(ctx, ctx')
<1> PICK j \in Cols : EmptyColumn!(j)
  BY DEF EmptyColumn
<1> DEFINE unbounded == (ctx.c[j] > 0 /\ ctx.lo[j] <= -Threshold) \/ (ctx.c[j] < 0 /\ ctx.up[j] >= Threshold)
           v == LeastCost(j)
<1>1. j \in ctx.cols /\ ctx.lo[j] \in Int /\ ctx.up[j] \in Int /\ ctx.c[j] \in Int
  BY DEF At, EmptyCols, Whole, Ready, Numbers, Vector
<1>2. ASSUME ctx.lo[j] > ctx.up[j] \/ unbounded  PROVE FALSE
  <2>1. \E status \in {"Infeasible", "Unbounded"} : ctx' = [ctx EXCEPT !.status = status]
    BY <1>2 DEF Prove
  <2> QED BY <2>1, StatusPulls DEF Whole, Proved
<1>3. ctx' = FixVariable(ctx, j, v)
  BY <1>2 DEF Did
<1>4. v \in Int /\ ctx.lo[j] <= v /\ v <= ctx.up[j]
  BY <1>1, <1>2 DEF LeastCost, Greater, Lesser
<1> HIDE DEF v
<1> QED BY <1>1, <1>3, <1>4, FixVariablePulls DEF Whole, Ready

LEMMA FixedVariablePulls ==
    ASSUME Whole, FixedVariable, ~Proved(ctx')
    PROVE  Pulls(ctx, ctx')
<1> PICK j \in Cols : FixedVariable!(j)
  BY DEF FixedVariable
<1> DEFINE v == ctx.lo[j]
<1>1. j \in ctx.cols /\ ~(ctx.lo[j] < ctx.up[j]) /\ ctx.lo[j] \in Int /\ ctx.up[j] \in Int
  BY DEF At, ClosedCols, Whole, Ready, Numbers, Vector
<1>2. ASSUME ctx.lo[j] > ctx.up[j]  PROVE FALSE
  <2>1. ctx' = [ctx EXCEPT !.status = "Infeasible"]
    BY <1>2 DEF Prove
  <2> QED BY <2>1, StatusPulls DEF Whole, Proved
<1>3. ctx' = FixVariable(ctx, j, v)
  BY <1>2 DEF Did
<1>4. v \in Int /\ ctx.lo[j] <= v /\ v <= ctx.up[j]
  BY <1>1, <1>2
<1> HIDE DEF v
<1> QED BY <1>1, <1>3, <1>4, FixVariablePulls DEF Whole, Ready

LEMMA SingletonRowPulls ==
    ASSUME Whole, SingletonRow, ~Proved(ctx')
    PROVE  Pulls(ctx, ctx')
<1> PICK i \in Rows : SingletonRow!(i)
  BY DEF SingletonRow
<1> DEFINE j == Min(RowEntries(ctx, i))
           new == UnderRow(i, j)
           action == [type |-> "SingletonRow", row |-> i, col |-> j, coeff |-> lp.a[i][j],
                      lo |-> ctx.rlo[i], up |-> ctx.rup[i]]
           y == RemoveRow(Push([ctx EXCEPT !.lo[j] = new.lo, !.up[j] = new.up], action), i)
<1>1. i \in SingletonRows /\ pc = "singletonRows"
  BY DEF At
<1>2. RowDivides(i, j)
  BY <1>1 DEF Whole, Ready, DivisionsExact, RowDivides
<1>3. ASSUME new.lo > new.up  PROVE FALSE
  <2>1. ctx' = [ctx EXCEPT !.status = "Infeasible"]
    BY <1>3 DEF Prove
  <2> QED BY <2>1, StatusPulls DEF Whole, Proved
<1>4. ctx' = y
  BY <1>3 DEF Did
<1>5. action.type = "SingletonRow"
  OBVIOUS
<1>6. RowBecameBounds(y, i, j, new.lo, new.up) /\ y.stack = Append(ctx.stack, action)
  <2> HIDE DEF new, action, j
  <2> QED BY DEF RowBecameBounds, RemoveRow, Push, Whole, Ready, Shaped, Fields
<1> HIDE DEF y, action
<1>7. \A p : Restore(action, p) = p
  BY <1>5 DEF Restore
<1>8. ASSUME NEW p, Small(p), Fits(y, p)
      PROVE  Fits(ctx, p) /\ ObjectiveIn(ctx, p) = ObjectiveIn(y, p)
  BY <1>1, <1>2, <1>6, <1>8, BecameBoundsPulls DEF Whole, Ready
<1>9. Pulls(ctx, y)
  BY <1>6, <1>7, <1>8 DEF Pulls, Pulled
<1> QED BY <1>4, <1>9

LEMMA SingletonColumnPulls ==
    ASSUME Whole, SingletonColumn
    PROVE  Pulls(ctx, ctx')
<1> PICK j \in Cols : SingletonColumn!(j)
  BY DEF SingletonColumn
<1> DEFINE i == SubstitutionRow(j)
           a == lp.a[i][j]
           others == RowEntries(ctx, i) \ {j}
           action == [type |-> "SingletonColumn", col |-> j, row |-> i, coeff |-> a,
                      cost |-> ctx.c[j], rhs |-> ctx.rlo[i], others |-> others]
           w == [ctx EXCEPT
                   !.c = [k \in Cols |-> IF k \in others
                                         THEN @[k] - Quotient(ctx.c[j] * lp.a[i][k], a) ELSE @[k]],
                   !.offset = @ + Quotient(ctx.c[j] * ctx.rlo[i], a),
                   !.rlo[i] = Carried(j, i).lo, !.rup[i] = Carried(j, i).up]
           y == RemoveCol(Push(w, action), j)
<1>1. j \in SingletonCols /\ j \in ctx.cols /\ i \in ctx.rows /\ i \in Rows /\ pc = "singletonCols"
      /\ ctx.cols \subseteq Cols
  BY OnlyRow DEF At, Whole, Ready, SingletonCols, Shaped
<1>2. ColumnDivides(j, i)
  BY <1>1 DEF Whole, Ready, DivisionsExact, ColumnDivides
<1>3. ctx' = y
  BY DEF Did
<1>4. /\ action.type = "SingletonColumn" /\ action.col = j /\ action.row = i /\ action.coeff = a
      /\ action.rhs = ctx.rlo[i] /\ action.others = others
  OBVIOUS
<1>5. ColumnSubstituted(y, j, i) /\ y.stack = Append(ctx.stack, action)
  <2>1. /\ DOMAIN w = Fields
        /\ w.rows = ctx.rows /\ w.cols = ctx.cols /\ w.lo = ctx.lo /\ w.up = ctx.up
        /\ w.c = CostsWithout(j, i) /\ w.status = ctx.status /\ w.stack = ctx.stack
        /\ w.offset = ctx.offset + Quotient(ctx.c[j] * ctx.rlo[i], a)
        /\ w.rlo = [ctx.rlo EXCEPT ![i] = Carried(j, i).lo]
        /\ w.rup = [ctx.rup EXCEPT ![i] = Carried(j, i).up]
    <3>1. CostsWithout(j, i) = [k \in Cols |-> IF k \in others
                                THEN ctx.c[k] - Quotient(ctx.c[j] * lp.a[i][k], a) ELSE ctx.c[k]]
      BY DEF CostsWithout
    <3> QED BY <3>1 DEF Whole, Ready, Shaped, Fields
  <2> HIDE DEF w, action, a, i
  <2>2. /\ y.rows = w.rows /\ y.cols = w.cols \ {j} /\ y.lo = w.lo /\ y.up = w.up
        /\ y.c = w.c /\ y.offset = w.offset /\ y.rlo = w.rlo /\ y.rup = w.rup /\ y.status = w.status
        /\ y.stack = Append(w.stack, action)
    BY <2>1 DEF RemoveCol, Push, Fields
  <2> HIDE DEF y
  <2> QED BY <2>1, <2>2 DEF ColumnSubstituted, a, i
<1> HIDE DEF y, action
<1>6. ASSUME NEW p, Small(p), Small(Restore(action, p)), EvenAt(action, p), Fits(y, p)
      PROVE  Fits(ctx, Restore(action, p)) /\ ObjectiveIn(ctx, Restore(action, p)) = ObjectiveIn(y, p)
  <2> DEFINE q == Restore(action, p)
             A == Activity(i, p, others)
  <2>1. q = [p EXCEPT ![j] = Quotient(ctx.rlo[i] - A, a)]
    BY <1>4 DEF Restore
  <2>2. Quotient(ctx.rlo[i] - A, a) \in Int /\ Quotient(ctx.rlo[i] - A, a) * a = ctx.rlo[i] - A
    <3>1. Divides(a, ctx.rlo[i] - A)
      BY <1>4, <1>6 DEF EvenAt
    <3> QED BY <3>1, QuotientExact
  <2> HIDE DEF q
  <2>3. Moved(q, p, j) /\ q[j] = Quotient(ctx.rlo[i] - A, a)
    BY <1>6, <2>1, <2>2 DEF Moved, Small, Vector, q
  <2>4. A \in Int /\ ctx.rlo[i] \in Int /\ a \in Int
    <3>1. others \subseteq Cols /\ lp.a[i] \in Vector /\ p \in Vector
      BY <1>1, <1>6 DEF RowEntries, Whole, Ready, ModelOK, Small
    <3>2. A = Dot(lp.a[i], p, others)
      BY ActivityIsDot
    <3>3. A \in Int
      <4> HIDE DEF others, i, A
      <4> QED BY <3>1, <3>2, DotInteger
    <3> QED BY <1>1, <3>1, <3>3 DEF Whole, Ready, Numbers, Vector
  <2>5. ctx.rlo[i] = a * q[j] + A
    <3> DEFINE v == q[j]
               r == ctx.rlo[i]
    <3>1. v \in Int /\ v * a = r - A /\ r \in Int
      BY <2>2, <2>3, <2>4
    <3> HIDE DEF v, A, a, r
    <3>2. v * a = a * v /\ v * a \in Int
      BY <2>4, <3>1
    <3> QED BY <2>4, <3>1, <3>2 DEF v, r
  <2>6. Small(q)
    BY <1>6 DEF q
  <2>7. /\ ctx.rlo[SubstitutionRow(j)] = lp.a[SubstitutionRow(j)][j] * q[j]
               + Activity(SubstitutionRow(j), p, RowEntries(ctx, SubstitutionRow(j)) \ {j})
        /\ ColumnDivides(j, SubstitutionRow(j)) /\ ColumnSubstituted(y, j, SubstitutionRow(j))
    BY <1>2, <1>5, <2>5
  <2>8. ModelOK /\ Shaped(ctx) /\ Exact(ctx) /\ Numbers(ctx) /\ BoundsSided /\ ~Proved(ctx)
    BY DEF Whole, Ready
  <2>9. Small(p) /\ Fits(y, p)
    BY <1>6
  <2> HIDE DEF i, a, others, A
  <2>10. Fits(ctx, q) /\ ObjectiveIn(ctx, q) = ObjectiveIn(y, p)
    BY <1>1, <2>3, <2>6, <2>7, <2>8, <2>9, SubstitutedPulls
  <2> QED BY <2>10 DEF q
<1>7. Pulls(ctx, y)
  BY <1>5, <1>6 DEF Pulls, Pulled
<1> QED BY <1>3, <1>7

\* A redundant row holds wherever its columns keep their bounds.
LEMMA RedundantHolds ==
    ASSUME ModelOK, Shaped(ctx), Numbers(ctx), NEW i \in ctx.rows, Redundant(i), NEW p, Small(p), InBox(ctx, p)
    PROVE  RowHolds(ctx, i, p)
<1> DEFINE R == RowEntries(ctx, i)
           A == Dot(lp.a[i], p, R)
<1>1. /\ i \in Rows /\ lp.a[i] \in Vector /\ p \in Vector /\ R \subseteq ctx.cols /\ R \subseteq Cols
      /\ ctx.rlo[i] \in Int /\ ctx.rup[i] \in Int
  BY DEF Shaped, ModelOK, Small, RowEntries, Numbers
<1>2. EntryFacts(i, p)
  <2>1. ASSUME NEW k \in R
        PROVE  /\ lp.a[i][k] \in Int /\ lp.a[i][k] # 0 /\ p[k] \in Int /\ Finite(p[k])
               /\ HoldsHigh(lp.a[i][k], HighEnd(i, k), p[k])
               /\ HoldsLow(lp.a[i][k], LowEnd(i, k), p[k])
    <3>1. k \in ctx.cols /\ k \in Cols /\ lp.a[i][k] # 0
      BY <1>1, <2>1 DEF RowEntries
    <3>2. lp.a[i][k] \in Int /\ p[k] \in Int /\ Finite(p[k])
      BY <1>1, <3>1 DEF Vector, Small, SmallPoint
    <3>3. (ctx.lo[k] > -Threshold => ctx.lo[k] <= p[k]) /\ (ctx.up[k] < Threshold => p[k] <= ctx.up[k])
      BY <3>1 DEF InBox
    <3> QED BY <3>1, <3>2, <3>3 DEF HoldsHigh, HoldsLow, HighEnd, LowEnd
  <2> QED BY <1>1, <2>1 DEF EntryFacts
<1>3. LowOpen(i) = {} /\ HighOpen(i) = {} /\ MinActivity(i) >= ctx.rlo[i] /\ MaxActivity(i) <= ctx.rup[i]
  BY DEF Redundant
<1>4. MinActivity(i) = Dot(lp.a[i], Lows(i), R) /\ MaxActivity(i) = Dot(lp.a[i], Highs(i), R)
  BY <1>3, ActivitiesAreDots
<1>5. MinActivity(i) <= A /\ A <= MaxActivity(i)
  <2>1. R \subseteq RowEntries(ctx, i) /\ R \cap LowOpen(i) = {} /\ R \cap HighOpen(i) = {}
    BY <1>3
  <2> HIDE DEF R
  <2>2. Dot(lp.a[i], Lows(i), R) <= Dot(lp.a[i], p, R) /\ Dot(lp.a[i], p, R) <= Dot(lp.a[i], Highs(i), R)
    BY <1>2, <2>1, EndsBound
  <2> QED BY <1>4, <2>2
<1>6. A \in Int /\ MinActivity(i) \in Int /\ MaxActivity(i) \in Int
  BY <1>1, <1>4, EndsAreIntegers, DotInteger
<1>7. Activity(i, p, ctx.cols) = A
  BY <1>1, ActivityOfEntries
<1> HIDE DEF A
<1> QED BY <1>1, <1>3, <1>5, <1>6, <1>7 DEF RowHolds

LEMMA ForcingRedundancyPulls ==
    ASSUME Whole, ForcingRedundancy, ~Proved(ctx')
    PROVE  Pulls(ctx, ctx')
<1> PICK i \in Rows : ForcingRedundancy!(i)
  BY DEF ForcingRedundancy
<1>1. i \in ctx.rows
  BY DEF At, ActivityRows
<1>2. CASE Impossible(i)
  <2>1. ctx' = [ctx EXCEPT !.status = "Infeasible"]
    BY <1>2 DEF Prove
  <2> QED BY <2>1, StatusPulls DEF Whole, Proved
<1>3. CASE ~Impossible(i) /\ Redundant(i)
  <2>1. ctx' = DropRow(ctx, i)
    BY <1>3 DEF Did
  <2>2. \A p : Small(p) /\ InBox(ctx, p) => RowHolds(ctx, i, p)
    BY <1>1, <1>3, RedundantHolds DEF Whole, Ready
  <2> QED BY <2>1, <2>2, DropRowPulls DEF Whole, Ready
<1>4. CASE ~Impossible(i) /\ ~Redundant(i)
  BY <1>4, SamePulls DEF Whole
<1> QED BY <1>2, <1>3, <1>4

LEMMA ForceColumnPulls ==
    ASSUME Whole, ForceColumn
    PROVE  Pulls(ctx, ctx')
<1> DEFINE i == cursor
           k == Min(RowEntries(ctx, i))
           v == IF pc = "forceLow" THEN LowEnd(i, k) ELSE HighEnd(i, k)
<1>1. i \in ctx.rows /\ pc \in {"forceLow", "forceHigh"}
  BY DEF ForceColumn, Whole, Ready, ForcingRowActive
<1>2. CASE RowEntries(ctx, i) = {}
  <2>1. ctx' = DropRow(ctx, i)
    BY <1>2 DEF ForceColumn
  <2>2. MinActivity(i) = 0 /\ MaxActivity(i) = 0
    <3>1. RowEntries(ctx, i) \ LowOpen(i) = {} /\ RowEntries(ctx, i) \ HighOpen(i) = {}
      BY <1>2
    <3>2. {} \subseteq Cols /\ lp.a[i] \in Vector /\ Lows(i) \in Vector /\ Highs(i) \in Vector
      BY <1>1, EndsAreIntegers DEF Whole, Ready, ModelOK, Shaped
    <3>3. MinActivity(i) = Dot(lp.a[i], Lows(i), {}) /\ MaxActivity(i) = Dot(lp.a[i], Highs(i), {})
      BY <3>1, ActivitiesAreDots DEF Whole, Ready
    <3>4. Dot(lp.a[i], Lows(i), {}) = Sum(Terms(lp.a[i], Lows(i)), {})
      BY <3>2, DotIsSum
    <3>5. Dot(lp.a[i], Highs(i), {}) = Sum(Terms(lp.a[i], Highs(i)), {})
      BY <3>2, DotIsSum
    <3> QED BY <3>3, <3>4, <3>5, SumEmpty
  <2>3. (ctx.rlo[i] > -Threshold => ctx.rlo[i] <= 0) /\ (ctx.rup[i] < Threshold => 0 <= ctx.rup[i])
    BY <1>1, <2>2 DEF Whole, ForcedRowHolds
  <2>4. ASSUME NEW p, Small(p)
        PROVE  RowHolds(ctx, i, p)
    <3>1. Activity(i, p, ctx.cols) = 0
      BY <1>1, <1>2, <2>4, EmptyRowReads DEF Whole, Ready
    <3> QED BY <2>3, <3>1 DEF RowHolds
  <2> QED BY <2>1, <2>4, DropRowPulls DEF Whole, Ready
<1>3. CASE RowEntries(ctx, i) # {}
  <2>1. k \in RowEntries(ctx, i) /\ k \in ctx.cols /\ k \in Cols
    BY <1>3, RowEntriesLeast DEF RowEntries, Whole, Ready, Shaped
  <2>2. ctx' = FixVariable(ctx, k, v)
    BY <1>1, <1>3 DEF ForceColumn
  <2> HIDE DEF k
  <2>3. ctx.lo[k] \in Int /\ ctx.up[k] \in Int /\ ctx.lo[k] <= ctx.up[k]
    BY <2>1 DEF Whole, Uncrossed, Ready, Numbers, Vector
  <2>4. v \in Int /\ ctx.lo[k] <= v /\ v <= ctx.up[k]
    BY <2>3 DEF LowEnd, HighEnd
  <2> HIDE DEF v
  <2> QED BY <2>1, <2>2, <2>4, FixVariablePulls DEF Whole, Ready
<1> QED BY <1>2, <1>3

LEMMA BoundTighteningPulls ==
    ASSUME Whole, BoundTightening, ~Proved(ctx')
    PROVE  Pulls(ctx, ctx')
<1> PICK i \in Rows : BoundTightening!(i)
  BY DEF BoundTightening
<1> DEFINE newLo == [k \in Cols |-> IF k \in Tightens(i) THEN NewLower(i, k) ELSE ctx.lo[k]]
           newUp == [k \in Cols |-> IF k \in Tightens(i) THEN NewUpper(i, k) ELSE ctx.up[k]]
<1>1. i \in ctx.rows /\ i \in Rows /\ ctx.rowDegree[i] > 1 /\ pc = "tightening" /\ RowEntries(ctx, i) \subseteq ctx.cols
  BY DEF At, TighteningRows, RowEntries
<1>2. ASSUME Crosses(i) # {}  PROVE FALSE
  <2>1. ctx' = [ctx EXCEPT !.status = "Infeasible"]
    BY <1>2 DEF Prove
  <2> QED BY <2>1, StatusPulls DEF Whole, Proved
<1>3. ctx' = [ctx EXCEPT !.lo = newLo, !.up = newUp]
  BY <1>2 DEF Did
<1>4. ASSUME NEW k \in RowEntries(ctx, i)
      PROVE  /\ NewLower(i, k) \in Int /\ NewUpper(i, k) \in Int
             /\ ctx.lo[k] <= NewLower(i, k) /\ NewUpper(i, k) <= ctx.up[k]
  <2>1. EntryDivides(i, k)
    BY <1>1, <1>4 DEF Whole, Ready, DivisionsExact, EntryDivides
  <2>2. HighEndUnder(i, k) \in Int /\ LowEndUnder(i, k) \in Int
    BY <1>1, <1>4, <2>1, NewEndsAreIntegers DEF Whole, Ready
  <2>3. ctx.lo[k] \in Int /\ ctx.up[k] \in Int /\ lp.a[i][k] \in Int
    BY <1>1, <1>4 DEF Whole, Ready, Shaped, Numbers, Vector, ModelOK
  <2>4. /\ lp.a[i][k] > 0 => HighEndUnder(i, k) <= ctx.up[k]
        /\ ~(lp.a[i][k] > 0) => HighEndUnder(i, k) >= ctx.lo[k]
    <3> DEFINE q == Quotient(HighRoom(i, k), lp.a[i][k])
    <3>1. ctx.rup[i] < Threshold /\ LowOpen(i) \subseteq {k} => q \in Int
      BY <2>1, QuotientExact DEF EntryDivides
    <3>2. HighEndUnder(i, k) = IF ctx.rup[i] < Threshold /\ LowOpen(i) \subseteq {k}
            THEN IF lp.a[i][k] > 0 THEN Lesser(HighEnd(i, k), q) ELSE Greater(HighEnd(i, k), q)
            ELSE HighEnd(i, k)
      BY DEF HighEndUnder
    <3>3. HighEnd(i, k) = IF lp.a[i][k] > 0 THEN ctx.up[k] ELSE ctx.lo[k]
      BY DEF HighEnd
    <3> HIDE DEF q
    <3> QED BY <2>3, <3>1, <3>2, <3>3 DEF Lesser, Greater
  <2>5. /\ lp.a[i][k] > 0 => LowEndUnder(i, k) >= ctx.lo[k]
        /\ ~(lp.a[i][k] > 0) => LowEndUnder(i, k) <= ctx.up[k]
    <3> DEFINE q == Quotient(LowRoom(i, k), lp.a[i][k])
    <3>1. ctx.rlo[i] > -Threshold /\ OpenAbove(i, k) = {} => q \in Int
      BY <2>1, QuotientExact DEF EntryDivides
    <3>2. LowEndUnder(i, k) = IF ctx.rlo[i] > -Threshold /\ OpenAbove(i, k) = {}
            THEN IF lp.a[i][k] > 0 THEN Greater(LowEnd(i, k), q) ELSE Lesser(LowEnd(i, k), q)
            ELSE LowEnd(i, k)
      BY DEF LowEndUnder
    <3>3. LowEnd(i, k) = IF lp.a[i][k] > 0 THEN ctx.lo[k] ELSE ctx.up[k]
      BY DEF LowEnd
    <3> HIDE DEF q
    <3> QED BY <2>3, <3>1, <3>2, <3>3 DEF Lesser, Greater
  <2> QED BY <2>2, <2>3, <2>4, <2>5 DEF NewLower, NewUpper
<1>5. Tightens(i) \subseteq RowEntries(ctx, i)
  BY DEF Tightens
<1>6. \A k \in Cols : ctx.lo[k] \in Int /\ ctx.up[k] \in Int
  BY DEF Whole, Ready, Numbers, Vector
<1>7. newLo \in Vector /\ newUp \in Vector
  BY <1>4, <1>5, <1>6 DEF Vector
<1>8. \A k \in ctx.cols : ctx.lo[k] <= newLo[k] /\ newUp[k] <= ctx.up[k]
  BY <1>4, <1>5, <1>6 DEF Whole, Ready, Shaped
<1> HIDE DEF newLo, newUp
<1> DEFINE y == ctx'
<1>9. Tighter(ctx, y)
  BY <1>3, <1>7, <1>8 DEF Whole, Ready, Shaped, Fields, Tighter
<1> HIDE DEF y
<1>10. Pulls(ctx, y)
  BY <1>9, TighterPulls DEF Whole, Ready
<1> QED BY <1>10 DEF y

LEMMA EveryStepPulls ==
    ASSUME Whole, [Next]_vars, ~Proved(ctx')
    PROVE  Pulls(ctx, ctx')
<1>0. Ready
  BY DEF Whole
<1>1. CASE UNCHANGED ctx
  BY <1>0, <1>1, SamePulls
<1>2. CASE \E status : ctx' = [ctx EXCEPT !.status = status]
  BY <1>0, <1>2, StatusPulls
<1>3. CASE UNCHANGED vars \/ PassLimitReached \/ EndPart \/ BeginIteration \/ EndIteration \/ Finish
  BY <1>1, <1>2, <1>3 DEF vars, PassLimitReached, EndPart, BeginIteration, EndIteration, Finish
<1> QED BY <1>3, EmptyRowPulls, EmptyColumnPulls, FixedVariablePulls, SingletonRowPulls, SingletonColumnPulls,
           ForcingRedundancyPulls, ForceColumnPulls, BoundTighteningPulls DEF Next

\* A reduction leaves the status or sets one of the two that are proofs.
LEMMA PassStepStatus ==
    ASSUME Shaped(ctx), ForcingRowActive, PassStep
    PROVE  ctx'.status \in {ctx.status, "Infeasible", "Unbounded"}
<1>a. \A status : ctx' = [ctx EXCEPT !.status = status] => ctx'.status = status
  BY DEF Shaped, Fields
<1>b. ASSUME NEW i \in ctx.rows, ctx' = DropRow(ctx, i)
      PROVE  ctx'.status = ctx.status
  BY <1>b, DropRowGone DEF RowGone
<1>c. ASSUME NEW j \in ctx.cols, NEW v, ctx' = FixVariable(ctx, j, v)
      PROVE  ctx'.status = ctx.status
  BY <1>c, FixVariableGone DEF ColGone
<1>1. CASE EmptyRow
  BY <1>1, <1>a, <1>b DEF EmptyRow, At, EmptyRows, Did, Prove
<1>2. CASE EmptyColumn
  BY <1>2, <1>a, <1>c DEF EmptyColumn, At, EmptyCols, Did, Prove
<1>3. CASE FixedVariable
  BY <1>3, <1>a, <1>c DEF FixedVariable, At, ClosedCols, Did, Prove
<1>4. CASE SingletonRow
  <2> PICK i \in Rows : SingletonRow!(i)
    BY <1>4 DEF SingletonRow
  <2> DEFINE j == Min(RowEntries(ctx, i))
             new == UnderRow(i, j)
             action == [type |-> "SingletonRow", row |-> i, col |-> j, coeff |-> lp.a[i][j],
                        lo |-> ctx.rlo[i], up |-> ctx.rup[i]]
  <2>1. CASE new.lo > new.up
    BY <2>1, <1>a DEF Prove
  <2>2. CASE ~(new.lo > new.up)
    <3>1. ctx' = RemoveRow(Push([ctx EXCEPT !.lo[j] = new.lo, !.up[j] = new.up], action), i)
      BY <2>2 DEF Did
    <3> HIDE DEF new, action, j
    <3> QED BY <3>1 DEF RemoveRow, Push, Shaped, Fields
  <2> QED BY <2>1, <2>2
<1>5. CASE SingletonColumn
  BY <1>5, SingletonColumnGone DEF ColGone
<1>6. CASE ForcingRedundancy
  BY <1>6, <1>a, <1>b DEF ForcingRedundancy, At, ActivityRows, Did, Prove
<1>7. CASE ForceColumn
  <2> DEFINE i == cursor
             k == Min(RowEntries(ctx, i))
  <2>1. i \in ctx.rows /\ ctx.cols \subseteq Cols
    BY <1>7 DEF ForceColumn, ForcingRowActive, Shaped
  <2>2. CASE RowEntries(ctx, i) = {}
    BY <1>7, <1>b, <2>1, <2>2 DEF ForceColumn
  <2>3. CASE RowEntries(ctx, i) # {}
    <3>1. k \in ctx.cols
      BY <2>1, <2>3, RowEntriesLeast DEF RowEntries, Shaped
    <3> QED BY <1>7, <1>c, <2>3, <3>1 DEF ForceColumn
  <2> QED BY <2>2, <2>3
<1>8. CASE BoundTightening
  <2> PICK i \in Rows : BoundTightening!(i)
    BY <1>8 DEF BoundTightening
  <2>1. CASE Crosses(i) # {}
    BY <2>1, <1>a DEF Prove
  <2>2. CASE Crosses(i) = {}
    BY <2>2 DEF Did, Shaped, Fields
  <2> QED BY <2>1, <2>2
<1> QED BY <1>1, <1>2, <1>3, <1>4, <1>5, <1>6, <1>7, <1>8 DEF PassStep

\* Only the head of the loop forgets a proof.
LEMMA ProvedStays ==
    ASSUME Shaped(ctx), ForcingRowActive, Proved(ctx), ~Proved(ctx'), [Next]_vars
    PROVE  pc = "iterate" /\ ctx.cols = {} /\ \E status : ctx' = [ctx EXCEPT !.status = status]
<1>1. \A status : ctx' = [ctx EXCEPT !.status = status] => ctx'.status = status
  BY DEF Shaped, Fields
<1>2. CASE BeginIteration
  BY <1>2 DEF BeginIteration
<1>3. CASE Finish
  <2>1. ctx'.status = ctx.status
    BY <1>1, <1>3 DEF Finish, FinalStatus
  <2> QED BY <2>1 DEF Proved
<1>4. CASE UNCHANGED vars \/ PassLimitReached \/ EndPart \/ EndIteration
  BY <1>4 DEF vars, PassLimitReached, EndPart, EndIteration
<1>5. CASE PassStep
  BY <1>5, PassStepStatus DEF Proved
<1> QED BY <1>2, <1>3, <1>4, <1>5 DEF Next, PassStep

-----------------------------------------------------------------------------
(* The invariant: as long as nothing is proved, every solution leads back. *)

Recovering == ~Proved(ctx) => RecoversAll(ctx)

\* The model does not change, so what a context recovers does not either.
LEMMA SameUndone ==
    ASSUME lp' = lp
    PROVE  \A n, p : UndoneTo(ctx.stack, n, p)' = UndoneTo(ctx'.stack, n, p)
  BY DEF UndoneTo, MapThenFoldSet, Restore, Activity

LEMMA SameRestoresWell ==
    ASSUME lp' = lp
    PROVE  \A p : RestoresWell(ctx.stack, p)' <=> RestoresWell(ctx'.stack, p)
  BY SameUndone DEF RestoresWell, SmallPoint, Activity

LEMMA SameRecovers ==
    ASSUME lp' = lp, RecoversAll(ctx')
    PROVE  RecoversAll(ctx)'
<1> SUFFICES ASSUME NEW p, Fits(ctx, p)', RestoresWell(ctx.stack, p)'
             PROVE  Recovers(ctx, p)'
  BY DEF RecoversAll
<1>1. Fits(ctx', p)
  BY DEF Fits, Activity
<1>2. RestoresWell(ctx'.stack, p)
  BY SameRestoresWell
<1>3. Recovers(ctx', p)
  BY <1>1, <1>2 DEF RecoversAll
<1>4. Recovers(ctx, p)' <=> Recovers(ctx', p)
  BY SameUndone DEF Recovers, Solves, Objective, ObjectiveIn, Activity
<1> QED BY <1>3, <1>4

LEMMA RecoveringStep ==
    ASSUME ActiveInductive, Ready, RecoveryInductive, BoundsSided, Recovering, [Next]_vars
    PROVE  Recovering'
<1> SUFFICES ASSUME ~Proved(ctx')
             PROVE  RecoversAll(ctx)'
  BY DEF Recovering
<1>0. lp' = lp /\ lp \in Models
  BY Frame DEF ActiveInductive, ControlOK
<1> DEFINE y == ctx'
<1>1. CASE ~Proved(ctx)
  <2>1. Whole
    BY <1>1 DEF Whole, RecoveryInductive
  <2>2. Pulls(ctx, y)
    BY <2>1, EveryStepPulls
  <2>3. ctx.stack \in Seq(ToSet(ctx.stack)) /\ RecoversAll(ctx)
    BY <1>1 DEF Recovering, ActiveInductive, ControlOK
  <2> HIDE DEF y
  <2>4. RecoversAll(y)
    BY <2>2, <2>3, PulledBack
  <2> QED BY <1>0, <2>4, SameRecovers DEF y
<1>2. CASE Proved(ctx)
  <2>1. pc = "iterate" /\ \E status : ctx' = [ctx EXCEPT !.status = status]
    BY <1>2, ProvedStays DEF Ready
  <2>2. ctx = NewContext(lp)
    BY <1>2, <2>1 DEF RecoveryInductive, ProvedAtStart
  <2>3. Fresh(y)
    BY <2>1, <2>2 DEF NewContext, Fresh
  <2> HIDE DEF y
  <2>4. RecoversAll(y)
    BY <1>0, <2>3, FreshRecovers
  <2> QED BY <1>0, <2>4, SameRecovers DEF y
<1> QED BY <1>1, <1>2

-----------------------------------------------------------------------------
(* The conjuncts of RecoveryInductive.                                     *)

LEMMA ProvedAtStartStep ==
    ASSUME ControlOK, ProvedAtStart, [Next]_vars
    PROVE  ProvedAtStart'
<1> SUFFICES ASSUME pc' = "iterate", Proved(ctx)'
             PROVE  ctx' = NewContext(lp)'
  BY DEF ProvedAtStart
<1>1. CASE UNCHANGED vars
  <2>1. pc = "iterate" /\ Proved(ctx) /\ ctx' = ctx /\ lp' = lp
    BY <1>1 DEF vars, Proved
  <2>2. ctx = NewContext(lp)
    BY <2>1 DEF ProvedAtStart
  <2> QED BY <2>1, <2>2 DEF NewContext, CrossedBounds
<1>2. CASE BeginIteration \/ EndPart
  <2>1. \A k \in 0..7 : PartAfter(k) # "iterate"
    BY NextPart, PartNames
  <2> QED BY <1>2, <2>1, PartNames DEF BeginIteration, EndPart
<1>3. CASE PassLimitReached \/ Finish
  BY <1>3 DEF PassLimitReached, Finish
<1>4. CASE EndIteration
  <2>1. ~Proved(ctx) /\ UNCHANGED ctx
    BY <1>4 DEF EndIteration
  <2> QED BY <2>1 DEF Proved
<1>5. CASE PassStep
  <2>1. InIteration'
    BY <1>5, PassStepSteers
  <2> QED BY <2>1, PartNames DEF InIteration
<1> QED BY <1>1, <1>2, <1>3, <1>4, <1>5 DEF Next, PassStep

\* No bounds of x cross; none is on the other side of the threshold.
Ordered(x) == (\A j \in x.cols : x.lo[j] <= x.up[j]) /\ (\A i \in x.rows : x.rlo[i] <= x.rup[i])

Sided(x) ==
    /\ \A j \in x.cols : x.lo[j] < Threshold /\ -Threshold < x.up[j]
    /\ \A i \in x.rows : x.rlo[i] < Threshold /\ -Threshold < x.rup[i]

\* The bounds of a row are shifted together, or the one that counts stays on its side.
LEMMA FixVariableOrdered ==
    ASSUME ModelOK, NEW x, Shaped(x), Numbers(x), Ordered(x), Sided(x), NEW j \in x.cols, NEW v \in Int,
           NEW y, y = FixVariable(x, j, v), Sided(y)
    PROVE  Ordered(y)
<1> DEFINE shifted(i, b) == IF i \in ColEntries(x, j) /\ Finite(b) THEN b - lp.a[i][j] * v ELSE b
<1>1. /\ y.rows = x.rows /\ y.cols = x.cols \ {j}
      /\ y.lo = [x.lo EXCEPT ![j] = v] /\ y.up = [x.up EXCEPT ![j] = v]
      /\ y.rlo = [i \in Rows |-> shifted(i, x.rlo[i])]
      /\ y.rup = [i \in Rows |-> shifted(i, x.rup[i])]
  BY FixVariableFields
<1>2. x.cols \subseteq Cols /\ x.rows \subseteq Rows
  BY DEF Shaped
<1>3. \A k \in y.cols : y.lo[k] <= y.up[k]
  BY <1>1, <1>2 DEF Numbers, Vector, Ordered
<1>4. ASSUME NEW i \in y.rows
      PROVE  y.rlo[i] <= y.rup[i]
  <2> DEFINE t == lp.a[i][j] * v
  <2>1. t \in Int
    <3>1. lp.a[i][j] \in Int
      BY <1>1, <1>2, <1>4 DEF ModelOK, Vector
    <3> QED BY <3>1
  <2>2. x.rlo[i] \in Int /\ x.rup[i] \in Int /\ x.rlo[i] <= x.rup[i]
        /\ x.rlo[i] < Threshold /\ -Threshold < x.rup[i]
    BY <1>1, <1>2, <1>4 DEF Numbers, Ordered, Sided
  <2>3. y.rlo[i] < Threshold /\ -Threshold < y.rup[i]
    BY <1>4 DEF Sided
  <2>4. /\ y.rlo[i] = IF i \in ColEntries(x, j) /\ Finite(x.rlo[i]) THEN x.rlo[i] - t ELSE x.rlo[i]
        /\ y.rup[i] = IF i \in ColEntries(x, j) /\ Finite(x.rup[i]) THEN x.rup[i] - t ELSE x.rup[i]
    BY <1>1, <1>2, <1>4
  <2> HIDE DEF t
  <2> QED BY <2>1, <2>2, <2>3, <2>4, SizesAssumption DEF Finite
<1> QED BY <1>3, <1>4 DEF Ordered

LEMMA CarriedOrdered ==
    ASSUME NEW j, NEW i, ctx.lo[j] \in Int, ctx.up[j] \in Int, ctx.rlo[i] \in Int,
           lp.a[i][j] \in Int, lp.a[i][j] # 0, ctx.lo[j] <= ctx.up[j],
           Carried(j, i).lo < Threshold, -Threshold < Carried(j, i).up
    PROVE  Carried(j, i).lo <= Carried(j, i).up
<1> DEFINE a == lp.a[i][j]
           most == IF a > 0 THEN ctx.up[j] ELSE ctx.lo[j]
           least == IF a > 0 THEN ctx.lo[j] ELSE ctx.up[j]
           r == ctx.rlo[i]
           t == a * most
           w == a * least
           low == Carried(j, i).lo
           high == Carried(j, i).up
<1>1. a \in Int /\ a # 0 /\ most \in Int /\ least \in Int /\ r \in Int
  OBVIOUS
<1>2. /\ low = IF Finite(most) THEN r - t ELSE -Threshold
      /\ high = IF Finite(least) THEN r - w ELSE Threshold
  BY DEF Carried
<1>3. t \in Int /\ w \in Int
  <2> HIDE DEF a, most, least
  <2> QED BY <1>1
<1>4. (a > 0 => least <= most) /\ (a < 0 => most <= least)
  OBVIOUS
<1>5. w <= t
  <2> HIDE DEF a, most, least
  <2>1. (a > 0 => (least <= most <=> a * least <= a * most)) /\ (a < 0 => (most <= least <=> a * least <= a * most))
    BY <1>1, ProductOrder
  <2> QED BY <1>1, <1>4, <2>1
<1>6. low < Threshold /\ -Threshold < high
  OBVIOUS
<1> HIDE DEF a, most, least, r, t, w, low, high
<1>7. low <= high
  BY <1>1, <1>2, <1>3, <1>5, <1>6, SizesAssumption
<1> QED BY <1>7 DEF low, high

LEMMA SingletonRowOrdered ==
    ASSUME Ready, Ordered(ctx), SingletonRow
    PROVE  Ordered(ctx') \/ ctx'.status = "Infeasible"
<1> PICK i \in Rows : SingletonRow!(i)
  BY DEF SingletonRow
<1> DEFINE j == Min(RowEntries(ctx, i))
           new == UnderRow(i, j)
           action == [type |-> "SingletonRow", row |-> i, col |-> j, coeff |-> lp.a[i][j],
                      lo |-> ctx.rlo[i], up |-> ctx.rup[i]]
           y == RemoveRow(Push([ctx EXCEPT !.lo[j] = new.lo, !.up[j] = new.up], action), i)
<1>1. CASE new.lo > new.up
  <2>1. ctx' = [ctx EXCEPT !.status = "Infeasible"]
    BY <1>1 DEF Prove
  <2> QED BY <2>1 DEF Ready, Shaped, Fields
<1>2. CASE ~(new.lo > new.up)
  <2>1. ctx' = y
    BY <1>2 DEF Did
  <2>2. i \in SingletonRows /\ pc = "singletonRows"
    BY DEF At
  <2>3. new.lo \in Int /\ new.up \in Int
    <3>1. RowDivides(i, j)
      BY <2>2 DEF Ready, DivisionsExact, RowDivides
    <3> QED BY <2>2, <3>1, UnderRowHolds DEF Ready
  <2>4. RowBecameBounds(y, i, j, new.lo, new.up)
    <3> HIDE DEF new, action, j
    <3> QED BY DEF RowBecameBounds, RemoveRow, Push, Ready, Shaped, Fields
  <2>5. new.lo <= new.up
    BY <1>2, <2>3
  <2> HIDE DEF y, new, j
  <2>6. Ordered(y)
    BY <2>4, <2>5 DEF RowBecameBounds, Ordered, Ready, Numbers, Shaped, Vector
  <2> QED BY <2>1, <2>6
<1> QED BY <1>1, <1>2

LEMMA SingletonColumnOrdered ==
    ASSUME Ready, Ordered(ctx), SingletonColumn, Sided(ctx')
    PROVE  Ordered(ctx')
<1> PICK j \in Cols : SingletonColumn!(j)
  BY DEF SingletonColumn
<1> DEFINE i == SubstitutionRow(j)
           a == lp.a[i][j]
           others == RowEntries(ctx, i) \ {j}
           action == [type |-> "SingletonColumn", col |-> j, row |-> i, coeff |-> a,
                      cost |-> ctx.c[j], rhs |-> ctx.rlo[i], others |-> others]
           w == [ctx EXCEPT
                   !.c = [k \in Cols |-> IF k \in others
                                         THEN @[k] - Quotient(ctx.c[j] * lp.a[i][k], a) ELSE @[k]],
                   !.offset = @ + Quotient(ctx.c[j] * ctx.rlo[i], a),
                   !.rlo[i] = Carried(j, i).lo, !.rup[i] = Carried(j, i).up]
           y == RemoveCol(Push(w, action), j)
<1>1. j \in ctx.cols /\ i \in ctx.rows /\ i \in Rows /\ ctx.cols \subseteq Cols /\ ctx.rows \subseteq Rows /\ a # 0
  <2>1. j \in SingletonCols /\ j \in ctx.cols
    BY DEF At, SingletonCols
  <2>2. i \in ctx.rows /\ i \in ColEntries(ctx, j)
    BY <2>1, OnlyRow DEF Ready
  <2> QED BY <2>1, <2>2 DEF ColEntries, Ready, Shaped
<1>2. ctx' = y
  BY DEF Did
<1>3. /\ y.rows = ctx.rows /\ y.cols = ctx.cols \ {j} /\ y.lo = ctx.lo /\ y.up = ctx.up
      /\ y.rlo = [ctx.rlo EXCEPT ![i] = Carried(j, i).lo]
      /\ y.rup = [ctx.rup EXCEPT ![i] = Carried(j, i).up]
  <2>1. /\ DOMAIN w = Fields
        /\ w.rows = ctx.rows /\ w.cols = ctx.cols /\ w.lo = ctx.lo /\ w.up = ctx.up
        /\ w.rlo = [ctx.rlo EXCEPT ![i] = Carried(j, i).lo]
        /\ w.rup = [ctx.rup EXCEPT ![i] = Carried(j, i).up]
    BY DEF Ready, Shaped, Fields
  <2> HIDE DEF w, action, i
  <2> QED BY <2>1 DEF RemoveCol, Push, Fields
<1> HIDE DEF y
<1>4. y.rlo[i] = Carried(j, i).lo /\ y.rup[i] = Carried(j, i).up
  BY <1>1, <1>3 DEF Ready, Numbers
<1>5. Carried(j, i).lo < Threshold /\ -Threshold < Carried(j, i).up
  BY <1>1, <1>2, <1>3, <1>4 DEF Sided
<1>6. Carried(j, i).lo <= Carried(j, i).up
  <2>1. ctx.lo[j] \in Int /\ ctx.up[j] \in Int /\ ctx.rlo[i] \in Int /\ lp.a[i][j] \in Int /\ ctx.lo[j] <= ctx.up[j]
    BY <1>1 DEF Ready, Numbers, Vector, ModelOK, Ordered
  <2> HIDE DEF i
  <2> QED BY <1>1, <1>5, <2>1, CarriedOrdered
<1>7. Ordered(y)
  <2> HIDE DEF i
  <2> QED BY <1>1, <1>3, <1>4, <1>6 DEF Ordered, Ready, Numbers
<1> QED BY <1>2, <1>7

LEMMA BoundTighteningOrdered ==
    ASSUME Ready, Ordered(ctx), BoundTightening
    PROVE  Ordered(ctx') \/ ctx'.status = "Infeasible"
<1> PICK i \in Rows : BoundTightening!(i)
  BY DEF BoundTightening
<1>1. CASE Crosses(i) # {}
  BY <1>1 DEF Prove, Ready, Shaped, Fields
<1>2. CASE Crosses(i) = {}
  <2> DEFINE newLo == [k \in Cols |-> IF k \in Tightens(i) THEN NewLower(i, k) ELSE ctx.lo[k]]
             newUp == [k \in Cols |-> IF k \in Tightens(i) THEN NewUpper(i, k) ELSE ctx.up[k]]
  <2>1. i \in ctx.rows /\ ctx.rowDegree[i] > 1 /\ pc = "tightening"
    BY DEF At, TighteningRows
  <2>2. ctx' = [ctx EXCEPT !.lo = newLo, !.up = newUp]
    BY <1>2 DEF Did
  <2>3. ASSUME NEW k \in Tightens(i)
        PROVE  NewLower(i, k) <= NewUpper(i, k)
    <3>1. k \in RowEntries(ctx, i)
      BY <2>3 DEF Tightens
    <3>2. EntryDivides(i, k)
      BY <2>1, <3>1 DEF Ready, DivisionsExact, EntryDivides
    <3>3. HighEndUnder(i, k) \in Int /\ LowEndUnder(i, k) \in Int
      BY <2>1, <3>1, <3>2, NewEndsAreIntegers DEF Ready
    <3>4. ~(NewLower(i, k) > NewUpper(i, k))
      BY <1>2, <3>1 DEF Crosses
    <3> QED BY <3>3, <3>4 DEF NewLower, NewUpper
  <2>4. \A k \in ctx.cols : newLo[k] <= newUp[k]
    BY <2>3 DEF Ordered, Ready, Shaped
  <2> HIDE DEF newLo, newUp
  <2>5. ctx'.cols = ctx.cols /\ ctx'.rows = ctx.rows /\ ctx'.rlo = ctx.rlo /\ ctx'.rup = ctx.rup
        /\ ctx'.lo = newLo /\ ctx'.up = newUp
    BY <2>2 DEF Ready, Shaped, Fields
  <2> QED BY <2>4, <2>5 DEF Ordered
<1> QED BY <1>1, <1>2

LEMMA OrderedStep ==
    ASSUME Ready, Ordered(ctx), Sided(ctx), [Next]_vars, ~Proved(ctx'), Sided(ctx')
    PROVE  Ordered(ctx')
<1> DEFINE y == ctx'
<1>a. ASSUME NEW status, ctx' = [ctx EXCEPT !.status = status]
      PROVE  Ordered(ctx') /\ ctx'.status = status
  BY <1>a DEF Ordered, Ready, Shaped, Fields
<1>b. ASSUME NEW i \in ctx.rows, ctx' = DropRow(ctx, i)
      PROVE  Ordered(ctx')
  BY <1>b, DropRowFields DEF RowDropped, Ordered, Ready
<1>c. ASSUME NEW j \in ctx.cols, NEW v \in Int, ctx' = FixVariable(ctx, j, v)
      PROVE  Ordered(ctx')
  <2>1. y = FixVariable(ctx, j, v) /\ Sided(y)
    BY <1>c
  <2> HIDE DEF y
  <2>2. Ordered(y)
    BY <2>1, FixVariableOrdered DEF Ready
  <2> QED BY <2>2 DEF y
<1>d. \A j \in ctx.cols : ctx.lo[j] \in Int /\ ctx.up[j] \in Int
  BY DEF Ready, Shaped, Numbers, Vector
<1> HIDE DEF y
<1>1. CASE UNCHANGED vars \/ PassLimitReached \/ EndPart
  BY <1>1 DEF vars, PassLimitReached, EndPart, Ordered
<1>2. CASE BeginIteration \/ EndIteration \/ Finish
  BY <1>2, <1>a DEF BeginIteration, EndIteration, Finish, Ordered
<1>3. CASE EmptyRow
  BY <1>3, <1>a, <1>b DEF EmptyRow, At, EmptyRows, Did, Prove, Proved
<1>4. CASE EmptyColumn
  <2> PICK j \in Cols : EmptyColumn!(j)
    BY <1>4 DEF EmptyColumn
  <2>1. j \in ctx.cols
    BY DEF At, EmptyCols
  <2>2. LeastCost(j) \in Int
    BY <1>d, <2>1 DEF LeastCost, Lesser, Greater
  <2> QED BY <1>a, <1>c, <2>1, <2>2 DEF Did, Prove, Proved
<1>5. CASE FixedVariable
  BY <1>5, <1>a, <1>c, <1>d DEF FixedVariable, At, ClosedCols, Did, Prove, Proved
<1>6. CASE ForcingRedundancy
  <2> PICK i \in Rows : ForcingRedundancy!(i)
    BY <1>6 DEF ForcingRedundancy
  <2>1. i \in ctx.rows
    BY DEF At, ActivityRows
  <2> QED BY <1>a, <1>b, <2>1 DEF Did, Prove, Proved, Ordered
<1>7. CASE ForceColumn
  <2> DEFINE i == cursor
             k == Min(RowEntries(ctx, i))
             v == IF pc = "forceLow" THEN LowEnd(i, k) ELSE HighEnd(i, k)
  <2>1. i \in ctx.rows /\ ctx.cols \subseteq Cols
    BY <1>7 DEF ForceColumn, ForcingRowActive, Ready, Shaped
  <2>2. CASE RowEntries(ctx, i) = {}
    BY <1>7, <1>b, <2>1, <2>2 DEF ForceColumn
  <2>3. CASE RowEntries(ctx, i) # {}
    <3>1. k \in ctx.cols
      BY <2>1, <2>3, RowEntriesLeast DEF RowEntries, Ready, Shaped
    <3>2. ctx' = FixVariable(ctx, k, v)
      BY <1>7, <2>3 DEF ForceColumn
    <3> HIDE DEF k
    <3>3. v \in Int
      BY <1>d, <3>1 DEF LowEnd, HighEnd
    <3> HIDE DEF v
    <3> QED BY <1>c, <3>1, <3>2, <3>3
  <2> QED BY <2>2, <2>3
<1> QED BY <1>1, <1>2, <1>3, <1>4, <1>5, <1>6, <1>7, SingletonRowOrdered, SingletonColumnOrdered,
           BoundTighteningOrdered DEF Next, Proved

\* v satisfies the bounds of row i of x, where they count.
Allows(x, i, v) == (x.rlo[i] > -Threshold => x.rlo[i] <= v) /\ (x.rup[i] < Threshold => v <= x.rup[i])

\* One column of a forcing row fixed: the bounds move as the activity does.
LEMMA AllowsRest ==
    ASSUME ModelOK, NEW x, Shaped(x), Numbers(x), Sided(x), NEW i \in x.rows, NEW k \in RowEntries(x, i),
           NEW v \in Int, NEW y, y = FixVariable(x, k, v),
           NEW A \in Int, NEW B \in Int, A = lp.a[i][k] * v + B, Allows(x, i, A)
    PROVE  Allows(y, i, B)
<1> DEFINE shifted(l, b) == IF l \in ColEntries(x, k) /\ Finite(b) THEN b - lp.a[l][k] * v ELSE b
           t == lp.a[i][k] * v
<1>1. k \in x.cols /\ i \in Rows /\ i \in ColEntries(x, k) /\ k \in Cols
  BY DEF RowEntries, ColEntries, Shaped
<1>2. /\ y.rows = x.rows /\ y.cols = x.cols \ {k}
      /\ y.lo = [x.lo EXCEPT ![k] = v] /\ y.up = [x.up EXCEPT ![k] = v]
      /\ y.rlo = [l \in Rows |-> shifted(l, x.rlo[l])]
      /\ y.rup = [l \in Rows |-> shifted(l, x.rup[l])]
  BY <1>1, FixVariableFields
<1>3. t \in Int
  <2>1. lp.a[i][k] \in Int
    BY <1>1 DEF ModelOK, Vector
  <2> QED BY <2>1
<1>4. /\ y.rlo[i] = IF Finite(x.rlo[i]) THEN x.rlo[i] - t ELSE x.rlo[i]
      /\ y.rup[i] = IF Finite(x.rup[i]) THEN x.rup[i] - t ELSE x.rup[i]
  BY <1>1, <1>2
<1>5. /\ x.rlo[i] \in Int /\ x.rup[i] \in Int /\ x.rlo[i] < Threshold /\ -Threshold < x.rup[i]
      /\ A = t + B
  BY <1>1 DEF Numbers, Sided
<1> HIDE DEF t
<1> QED BY <1>3, <1>4, <1>5, SizesAssumption DEF Allows, Finite

LEMMA ForceColumnHolds ==
    ASSUME Ready, ~Proved(ctx), ForcedRowHolds, Sided(ctx), ForceColumn, pc' = pc
    PROVE  ForcedRowHolds'
<1> DEFINE i == cursor
           S == RowEntries(ctx, i)
           k == Min(S)
           T == S \ {k}
           v == IF pc = "forceLow" THEN LowEnd(i, k) ELSE HighEnd(i, k)
           u == lp.a[i]
<1>1. /\ S # {} /\ lp' = lp /\ cursor' = cursor /\ ctx' = FixVariable(ctx, k, v)
      /\ pc \in {"forceLow", "forceHigh"}
  BY DEF ForceColumn, args
<1>2. i \in ctx.rows /\ i \in Rows /\ k \in S /\ k \in ctx.cols /\ k \in Cols /\ S \subseteq Cols
  <2>1. i \in ctx.rows /\ i \in Rows
    BY <1>1 DEF Ready, ForcingRowActive, Shaped
  <2>2. k \in S
    BY <1>1, RowEntriesLeast DEF Ready
  <2> QED BY <2>1, <2>2 DEF RowEntries, Ready, Shaped
<1>3. S' = T
  <2>1. ctx'.cols = ctx.cols \ {k}
    <3>1. Shaped(ctx) /\ k \in ctx.cols
      BY <1>2 DEF Ready
    <3> HIDE DEF k, v
    <3>2. /\ FixVariable(ctx, k, v).cols = ctx.cols \ {k}
          /\ FixVariable(ctx, k, v).lo = [ctx.lo EXCEPT ![k] = v]
          /\ FixVariable(ctx, k, v).up = [ctx.up EXCEPT ![k] = v]
      BY <3>1, FixVariableBox
    <3> QED BY <1>1, <3>2
  <2> HIDE DEF k
  <2> QED BY <1>1, <2>1 DEF RowEntries
<1>4. \A l \in S' : LowEnd(i, l)' = LowEnd(i, l) /\ HighEnd(i, l)' = HighEnd(i, l)
  BY <1>1, ForceColumnEnds
<1>5. u \in Vector /\ Lows(i) \in Vector /\ Highs(i) \in Vector
      /\ \A l \in Cols : Lows(i)[l] = LowEnd(i, l) /\ Highs(i)[l] = HighEnd(i, l)
  BY <1>2, EndsAreIntegers DEF Ready, ModelOK
<1>6. LowOpen(i)' = LowOpen(i) \cap T /\ HighOpen(i)' = HighOpen(i) \cap T
  <2>1. LowOpen(i)' = {l \in S' : ~Finite(LowEnd(i, l)')} /\ HighOpen(i)' = {l \in S' : ~Finite(HighEnd(i, l)')}
    BY <1>1 DEF LowOpen, HighOpen, Finite
  <2> HIDE DEF S
  <2>2. LowOpen(i) = {l \in S : ~Finite(LowEnd(i, l))} /\ HighOpen(i) = {l \in S : ~Finite(HighEnd(i, l))}
    BY DEF LowOpen, HighOpen, S
  <2> QED BY <1>3, <1>4, <2>1, <2>2
<1>7. v \in Int /\ v = IF pc = "forceLow" THEN Lows(i)[k] ELSE Highs(i)[k]
  BY <1>2, <1>5 DEF Vector
<1>8. Sided(ctx) /\ ModelOK /\ Shaped(ctx) /\ Numbers(ctx)
  BY DEF Ready
<1> DEFINE y == ctx'
<1>9. y = FixVariable(ctx, k, v)
  BY <1>1
<1>a. ASSUME NEW e \in Vector, v = e[k], Allows(ctx, i, Dot(u, e, S))
      PROVE  Allows(y, i, Dot(u, e, T))
  <2>1. Dot(u, e, S) = u[k] * v + Dot(u, e, T) /\ Dot(u, e, S) \in Int /\ Dot(u, e, T) \in Int
    BY <1>2, <1>5, <1>a, DotTakes
  <2> DEFINE A == Dot(u, e, S)
             B == Dot(u, e, T)
  <2>2. A = lp.a[i][k] * v + B /\ A \in Int /\ B \in Int /\ k \in RowEntries(ctx, i) /\ Allows(ctx, i, A)
    BY <1>2, <1>a, <2>1
  <2> HIDE DEF A, B, k, v, y, i
  <2>3. Allows(y, i, B)
    BY <1>2, <1>7, <1>8, <1>9, <2>2, AllowsRest
  <2> QED BY <2>3 DEF B
<1>b. CASE pc = "forceLow"
  <2>1. LowOpen(i) = {} /\ Allows(ctx, i, MinActivity(i)) /\ v = Lows(i)[k]
    BY <1>7, <1>b DEF ForcedRowHolds, Allows
  <2>2. LowOpen(i)' = {}
    BY <1>6, <2>1
  <2>3. MinActivity(i) = Dot(u, Lows(i), S)
    <3>1. MinActivity(i) = Dot(u, Lows(i), S \ {})
      BY <2>1, ActivitiesAreDots DEF Ready
    <3> QED BY <3>1
  <2>4. MinActivity(i)' = Dot(u, Lows(i), T)
    <3>1. MinActivity(i)' = SumFunction([l \in S' \ {} |-> lp.a[i][l] * LowEnd(i, l)'])
      BY <1>1, <2>2 DEF MinActivity
    <3>2. [l \in S' \ {} |-> lp.a[i][l] * LowEnd(i, l)'] = [l \in T |-> u[l] * Lows(i)[l]]
      BY <1>2, <1>3, <1>4, <1>5
    <3> QED BY <3>1, <3>2 DEF Dot
  <2>5. Allows(ctx', i, MinActivity(i)')
    BY <1>5, <1>a, <2>1, <2>3, <2>4
  <2> QED BY <1>1, <1>b, <2>2, <2>5 DEF ForcedRowHolds, Allows
<1>c. CASE pc = "forceHigh"
  <2>1. HighOpen(i) = {} /\ Allows(ctx, i, MaxActivity(i)) /\ v = Highs(i)[k]
    BY <1>7, <1>c DEF ForcedRowHolds, Allows
  <2>2. HighOpen(i)' = {}
    BY <1>6, <2>1
  <2>3. MaxActivity(i) = Dot(u, Highs(i), S)
    <3>1. MaxActivity(i) = Dot(u, Highs(i), S \ {})
      BY <2>1, ActivitiesAreDots DEF Ready
    <3> QED BY <3>1
  <2>4. MaxActivity(i)' = Dot(u, Highs(i), T)
    <3>1. MaxActivity(i)' = SumFunction([l \in S' \ {} |-> lp.a[i][l] * HighEnd(i, l)'])
      BY <1>1, <2>2 DEF MaxActivity
    <3>2. [l \in S' \ {} |-> lp.a[i][l] * HighEnd(i, l)'] = [l \in T |-> u[l] * Highs(i)[l]]
      BY <1>2, <1>3, <1>4, <1>5
    <3> QED BY <3>1, <3>2 DEF Dot
  <2>5. Allows(ctx', i, MaxActivity(i)')
    BY <1>5, <1>a, <2>1, <2>3, <2>4
  <2> QED BY <1>1, <1>c, <2>2, <2>5 DEF ForcedRowHolds, Allows
<1> QED BY <1>1, <1>b, <1>c

LEMMA ForcedRowHoldsStep ==
    ASSUME Ready, Uncrossed, ForcedRowHolds, BoundsSided, [Next]_vars
    PROVE  ForcedRowHolds'
<1>0. lp' = lp
  BY Frame
<1>1. CASE UNCHANGED vars
  <2>1. ctx' = ctx /\ pc' = pc /\ cursor' = cursor /\ lp' = lp
    BY <1>1 DEF vars
  <2>2. /\ LowOpen(cursor)' = LowOpen(cursor) /\ HighOpen(cursor)' = HighOpen(cursor)
        /\ MinActivity(cursor)' = MinActivity(cursor) /\ MaxActivity(cursor)' = MaxActivity(cursor)
    BY <2>1 DEF LowOpen, HighOpen, MinActivity, MaxActivity, RowEntries, LowEnd, HighEnd, Finite
  <2> QED BY <2>1, <2>2 DEF ForcedRowHolds, Proved
<1>2. CASE ForcingRedundancy
  <2> PICK i \in Rows : ForcingRedundancy!(i)
    BY <1>2 DEF ForcingRedundancy
  <2>1. i \in ActivityRows /\ i \in ctx.rows /\ i \in Rows /\ ctx.rowDegree[i] > 0
    BY DEF At, ActivityRows
  <2>2. CASE Impossible(i) \/ Redundant(i)
    <3>1. pc' \notin {"forceLow", "forceHigh"}
      BY <2>2 DEF At, Did, Prove
    <3> QED BY <3>1 DEF ForcedRowHolds
  <2>3. CASE ~(Impossible(i) \/ Redundant(i))
    <3> SUFFICES ASSUME ~Proved(ctx')
                 PROVE  ForcedRowHolds'
      BY DEF ForcedRowHolds, Proved
    <3>1. /\ cursor' = i /\ ctx' = ctx
          /\ pc' = IF ForcesLow(i) THEN "forceLow" ELSE "forceHigh"
          /\ ForcesLow(i) \/ ForcesHigh(i)
      BY <2>1, <2>3 DEF ActivityRows
    <3>2. RowEntries(ctx, i) # {}
      <4>1. Cardinality(RowEntries(ctx, i)) > 0
        BY <2>1 DEF Ready, Exact
      <4> QED BY <4>1, FS_EmptySet
    <3>3. ctx.rlo[i] \in Int /\ ctx.rup[i] \in Int /\ ctx.rlo[i] <= ctx.rup[i]
      BY <2>1, <3>1, <3>2 DEF Ready, Numbers, Uncrossed, RowEntries
    <3>4. /\ LowOpen(cursor)' = LowOpen(i) /\ HighOpen(cursor)' = HighOpen(i)
          /\ MinActivity(cursor)' = MinActivity(i) /\ MaxActivity(cursor)' = MaxActivity(i)
      BY <1>0, <3>1 DEF LowOpen, HighOpen, MinActivity, MaxActivity, RowEntries, LowEnd, HighEnd, Finite
    <3>5. ForcesLow(i) => LowOpen(i) = {} /\ Allows(ctx, i, MinActivity(i))
      BY <3>3 DEF ForcesLow, Allows
    <3>6. ForcesHigh(i) => HighOpen(i) = {} /\ Allows(ctx, i, MaxActivity(i))
      BY <3>3 DEF ForcesHigh, Allows
    <3> QED BY <3>1, <3>4, <3>5, <3>6 DEF ForcedRowHolds, Allows
  <2> QED BY <2>2, <2>3
<1>3. CASE ForceColumn
  <2>1. CASE pc' = pc
    <3>1. CASE Proved(ctx)
      <4>1. Proved(ctx')
        BY <1>3, <2>1, <3>1, ProvedStays DEF Ready, ForceColumn
      <4> QED BY <4>1 DEF ForcedRowHolds, Proved
    <3>2. CASE ~Proved(ctx)
      BY <1>3, <2>1, <3>2, ForceColumnHolds DEF BoundsSided, Sided
    <3> QED BY <3>1, <3>2
  <2>2. CASE pc' = "forcing"
    BY <2>2 DEF ForcedRowHolds
  <2> QED BY <1>3, <2>1, <2>2 DEF ForceColumn
<1>4. CASE Next /\ ~ForcingRedundancy /\ ~ForceColumn
  BY <1>4, OnlyForcingForces DEF ForcedRowHolds
<1> QED BY <1>1, <1>2, <1>3, <1>4

LEMMA RecoveryStep ==
    ASSUME ActiveInductive, Ready, RecoveryInductive, BoundsSided, BoundsSided', [Next]_vars
    PROVE  RecoveryInductive'
<1>1. ProvedAtStart'
  BY ProvedAtStartStep DEF ActiveInductive, RecoveryInductive
<1>2. ForcedRowHolds'
  BY ForcedRowHoldsStep DEF RecoveryInductive
<1>3. Uncrossed'
  <2> SUFFICES ASSUME ~Proved(ctx'), ctx'.cols # {}
               PROVE  Ordered(ctx')
    BY DEF Uncrossed, Ordered, Proved
  <2>1. CASE Proved(ctx)
    <3>1. ctx.cols = {} /\ \E status : ctx' = [ctx EXCEPT !.status = status]
      BY <2>1, ProvedStays DEF Ready
    <3>2. ctx'.cols = {}
      BY <3>1 DEF Ready, Shaped, Fields
    <3> QED BY <3>2
  <2>2. CASE ~Proved(ctx)
    <3>1. ctx.cols # {}
      <4>1. ctx'.cols \subseteq ctx.cols
        <5>1. \A i, j : RemoveRow(ctx, i).cols = ctx.cols /\ RemoveCol(ctx, j).cols = ctx.cols \ {j}
          BY DEF Ready, RemoveRow, RemoveCol, Shaped, Fields
        <5> QED BY <5>1, StepEffect DEF Ready, NothingGone, SameActive, ColGone, RowGone
      <4> QED BY <4>1
    <3>2. Ordered(ctx) /\ Sided(ctx) /\ Sided(ctx')
      BY <2>2, <3>1 DEF RecoveryInductive, Uncrossed, Ordered, BoundsSided, Sided, Proved
    <3> QED BY <3>2, OrderedStep
  <2> QED BY <2>1, <2>2
<1> QED BY <1>1, <1>2, <1>3 DEF RecoveryInductive

LEMMA InitRecovery ==
    ASSUME Init
    PROVE  RecoveryInductive /\ Recovering
<1>1. /\ lp \in Model /\ lp \in Models /\ pc = "iterate" /\ ctx = NewContext(lp)
      /\ ctx.rows = Rows /\ ctx.cols = Cols /\ ctx.lo = lp.lo /\ ctx.up = lp.up
      /\ ctx.rlo = lp.rlo /\ ctx.rup = lp.rup /\ ctx.c = lp.c /\ ctx.offset = lp.offset
      /\ ctx.stack = <<>>
      /\ ctx.status = IF CrossedBounds(lp) THEN "Infeasible" ELSE "Unchanged"
  BY ModelsAssumption DEF Init, NewContext
<1>2. Uncrossed
  <2>1. \A j \in Cols : lp.lo[j] \in Int /\ lp.up[j] \in Int
    BY <1>1 DEF Model
  <2>2. \A i \in Rows : lp.rlo[i] \in Int /\ lp.rup[i] \in Int
    BY <1>1 DEF Model
  <2>3. CASE CrossedBounds(lp)
    BY <1>1, <2>3 DEF Uncrossed, Proved
  <2>4. CASE ~CrossedBounds(lp)
    <3>1. \A j \in Cols : lp.lo[j] <= lp.up[j]
      BY <2>1, <2>4 DEF CrossedBounds
    <3>2. \A i \in Rows : lp.rlo[i] <= lp.rup[i]
      BY <2>2, <2>4 DEF CrossedBounds
    <3> QED BY <1>1, <3>1, <3>2 DEF Uncrossed
  <2> QED BY <2>3, <2>4
<1>3. Fresh(ctx)
  BY <1>1 DEF Fresh
<1>4. RecoversAll(ctx)
  BY <1>1, <1>3, FreshRecovers
<1> QED BY <1>1, <1>2, <1>4 DEF RecoveryInductive, ProvedAtStart, ForcedRowHolds, Recovering

-----------------------------------------------------------------------------
(* The theorems.                                                           *)

\* Where no bound is on the wrong side of the threshold, a solution of the working model
\* keeps every bound that counts.
LEMMA SolutionFits ==
    ASSUME ~Proved(ctx), BoundsSided, Shaped(ctx), Numbers(ctx), NEW p, FeasibleIn(ctx, p)
    PROVE  Fits(ctx, p)
<1>1. ASSUME NEW j \in ctx.cols
      PROVE  /\ ctx.lo[j] > -Threshold => ctx.lo[j] <= p[j]
             /\ ctx.up[j] < Threshold => p[j] <= ctx.up[j]
  <2>1. ctx.lo[j] \in Int /\ ctx.up[j] \in Int /\ ctx.lo[j] < Threshold /\ -Threshold < ctx.up[j]
    BY <1>1 DEF Shaped, Numbers, Vector, BoundsSided
  <2> QED BY <1>1, <2>1, SizesAssumption DEF FeasibleIn, Finite
<1>2. ASSUME NEW i \in ctx.rows
      PROVE  /\ ctx.rlo[i] > -Threshold => ctx.rlo[i] <= Activity(i, p, ctx.cols)
             /\ ctx.rup[i] < Threshold => Activity(i, p, ctx.cols) <= ctx.rup[i]
  <2>1. ctx.rlo[i] \in Int /\ ctx.rup[i] \in Int /\ ctx.rlo[i] < Threshold /\ -Threshold < ctx.rup[i]
    BY <1>2 DEF Shaped, Numbers, Vector, BoundsSided
  <2> QED BY <1>2, <2>1, SizesAssumption DEF FeasibleIn, Finite
<1> QED BY <1>1, <1>2 DEF Fits

LEMMA RecoveringRecovers ==
    ASSUME ActiveInductive, Ready, BoundsSided, Recovering, RestoringExact
    PROVE  Recoverable
<1> SUFFICES ASSUME ~Proved(ctx), NEW p \in Points, FeasibleIn(ctx, p)
             PROVE  LET q == Restored(ctx, p)
                    IN Feasible({q}) = {q} /\ Objective(q) = ObjectiveIn(ctx, p)
  BY DEF ActiveInductive, Recoverable
<1>1. Fits(ctx, p) /\ RestoresWell(ctx.stack, p)
  BY SolutionFits DEF Ready, RestoringExact
<1>2. Recovers(ctx, p)
  BY <1>1 DEF Recovering, RecoversAll
<1>3. Restored(ctx, p) = UndoneTo(ctx.stack, 0, p)
  BY RestoredIsUndone DEF ActiveInductive, ControlOK
<1> DEFINE q == Restored(ctx, p)
<1>4. Solves(q) /\ Objective(q) = ObjectiveIn(ctx, p)
  BY <1>2, <1>3 DEF Recovers
<1> HIDE DEF q
<1>5. Feasible({q}) = {q}
  BY <1>4 DEF Feasible, Between, Solves
<1> QED BY <1>4, <1>5 DEF q

LEMMA RecoveryInvariant ==
    Spec /\ []DivisionsExact /\ []BoundsSided => [](RecoveryInductive /\ Recovering)
<1>1. Init => RecoveryInductive /\ Recovering
  BY InitRecovery
<1>2. TypeOK => NumbersOK
  BY DEF TypeOK
<1>3. /\ ActiveInductive /\ NumbersOK /\ DivisionsExact /\ BoundsSided /\ BoundsSided'
      /\ RecoveryInductive /\ Recovering /\ [Next]_vars
      => RecoveryInductive' /\ Recovering'
  BY ReadyNow, RecoveryStep, RecoveringStep
<1> QED BY <1>1, <1>2, <1>3, ActiveInvariant, TypesCorrect, PTL DEF Spec

\* Wherever the points restored from the solutions of the working model come out even,
\* undoing what presolve recorded turns each of them into a solution of the model at the
\* same objective value (docs/presolve.md 1.2); no row and no column is restored twice.
THEOREM SolutionsRecovered ==
    Spec /\ []DivisionsExact /\ []BoundsSided => [](RestoringExact => Recoverable)
<1>1. TypeOK => NumbersOK
  BY DEF TypeOK
<1>2. /\ ActiveInductive /\ NumbersOK /\ DivisionsExact /\ BoundsSided /\ Recovering
      => (RestoringExact => Recoverable)
  BY ReadyNow, RecoveringRecovers
<1> QED BY <1>1, <1>2, RecoveryInvariant, ActiveInvariant, TypesCorrect, PTL

\* The inductive invariant of presolve, which TLC checks on an instance where what it
\* starts with is no hypothesis.
THEOREM Invariance ==
    Spec /\ SmallPoints /\ []DivisionsExact /\ []BoundsSided /\ []RestoringExact => []Inductive
<1>1. SmallPoints /\ [Next]_vars => SmallPoints'
  BY SmallPointsStep
<1>2. /\ SmallPoints /\ DivisionsExact /\ BoundsSided /\ RestoringExact /\ TypeOK
      /\ ActiveInductive /\ SolutionsInductive /\ RecoveryInductive
      => Inductive
  BY DEF Inductive
<1> QED BY <1>1, <1>2, TypesCorrect, ActiveInvariant, SolutionsInvariant, RecoveryInvariant, PTL DEF Spec

-----------------------------------------------------------------------------
(* Weak duality.                                                           *)

\* What the rows in R take off the cost of column j, and the costs once they have.
Shares(j, y) == [i \in Rows |-> lp.a[i][j] * y[i]]
Reduced(c, y, R) == [j \in Cols |-> c[j] - Sum(Shares(j, y), R)]

LEMMA SharesAreIntegers ==
    ASSUME ModelOK, NEW y \in [Rows -> Int], NEW j \in Cols, NEW R, R \subseteq Rows
    PROVE  /\ IsFiniteSet(R) /\ IntegerOn(Shares(j, y), R) /\ Sum(Shares(j, y), R) \in Int
           /\ \A i \in Rows : Shares(j, y)[i] = lp.a[i][j] * y[i] /\ Shares(j, y)[i] \in Int
<1>1. \A i \in Rows : lp.a[i][j] \in Int /\ y[i] \in Int
  BY DEF ModelOK, Vector
<1>2. \A i \in Rows : Shares(j, y)[i] = lp.a[i][j] * y[i] /\ Shares(j, y)[i] \in Int
  BY <1>1 DEF Shares
<1>3. IsFiniteSet(R) /\ IntegerOn(Shares(j, y), R)
  BY <1>2, FiniteRowsAndCols, FS_Subset DEF IntegerOn
<1> QED BY <1>2, <1>3, SumInteger

LEMMA ReducedIsVector ==
    ASSUME ModelOK, NEW c \in Vector, NEW y \in [Rows -> Int], NEW R, R \subseteq Rows
    PROVE  Reduced(c, y, R) \in Vector
<1>1. \A j \in Cols : c[j] \in Int /\ Sum(Shares(j, y), R) \in Int
  BY SharesAreIntegers DEF Vector
<1> QED BY <1>1 DEF Reduced, Vector

\* A row more takes its share.
LEMMA ReducedByOne ==
    ASSUME ModelOK, NEW c \in Vector, NEW y \in [Rows -> Int], NEW R, R \subseteq Rows, NEW i \in R
    PROVE  Combination(Reduced(c, y, R), Reduced(c, y, R \ {i}), lp.a[i], 1, y[i], Cols)
<1> SUFFICES ASSUME NEW j \in Cols
             PROVE  1 * Reduced(c, y, R)[j] = 1 * Reduced(c, y, R \ {i})[j] - y[i] * lp.a[i][j]
  BY DEF Combination
<1> DEFINE f == Shares(j, y)
           t == y[i] * lp.a[i][j]
           Q == R \ {i}
<1>1. i \in Rows /\ Q \subseteq Rows /\ c[j] \in Int /\ lp.a[i][j] \in Int /\ y[i] \in Int
  BY DEF Vector, ModelOK
<1>2. IsFiniteSet(R) /\ IntegerOn(f, R) /\ Sum(f, R) \in Int /\ Sum(f, Q) \in Int
      /\ f[i] = lp.a[i][j] * y[i] /\ f[i] \in Int
  BY <1>1, SharesAreIntegers
<1>3. Sum(f, R) = f[i] + Sum(f, R \ {i})
  <2> HIDE DEF f
  <2> QED BY <1>2, SumTakes
<1>4. f[i] = t
  BY <1>1, <1>2
<1>5. Reduced(c, y, R)[j] = c[j] - Sum(f, R) /\ Reduced(c, y, Q)[j] = c[j] - Sum(f, Q)
  BY DEF Reduced
<1> HIDE DEF f, t, Q
<1>6. Sum(f, R) = t + Sum(f, Q)
  BY <1>3, <1>4 DEF Q
<1>7. t \in Int
  BY <1>2, <1>4
<1>8. 1 * Reduced(c, y, R)[j] = 1 * Reduced(c, y, Q)[j] - t
  BY <1>1, <1>2, <1>5, <1>6, <1>7
<1> QED BY <1>8 DEF t, Q

\* Where q is no better than p for any row's dual value nor for any reduced cost, it is no
\* better for the costs: the rows give their shares back one after another.
LEMMA WeakDuality ==
    ASSUME ModelOK, NEW c \in Vector, NEW y \in [Rows -> Int], NEW p \in Vector, NEW q \in Vector,
           NEW S, S \subseteq Cols,
           \A i \in Rows : y[i] * Dot(lp.a[i], p, S) <= y[i] * Dot(lp.a[i], q, S),
           \A j \in S : Reduced(c, y, Rows)[j] * p[j] <= Reduced(c, y, Rows)[j] * q[j]
    PROVE  Dot(c, p, S) <= Dot(c, q, S)
<1> DEFINE Bounds(R) == Dot(Reduced(c, y, R), p, S) <= Dot(Reduced(c, y, R), q, S)
           D == {R \in SUBSET Rows : Bounds(R)}
<1>1. Rows \in D
  <2> DEFINE u == Reduced(c, y, Rows)
  <2>1. u \in Vector /\ \A j \in S : u[j] * p[j] <= u[j] * q[j]
    BY ReducedIsVector
  <2> HIDE DEF u
  <2>2. Dot(u, p, S) <= Dot(u, q, S)
    BY <2>1, DotAtMost
  <2> QED BY <2>2 DEF u
<1>2. PICK T \in D : \A U \in D : U \subseteq T => U = T
  <2>1. IsFiniteSet(Rows) /\ D \subseteq SUBSET Rows /\ D # {}
    BY <1>1, FiniteRowsAndCols
  <2> HIDE DEF D
  <2> QED BY <2>1, LeastSubset
<1>3. T \subseteq Rows /\ Bounds(T)
  BY <1>2
<1>4. ASSUME NEW i \in T  PROVE FALSE
  <2> DEFINE U == T \ {i}
             u == Reduced(c, y, T)
             v == Reduced(c, y, U)
             w == lp.a[i]
             b == y[i]
  <2>1. U \subseteq Rows /\ U \subseteq T /\ U # T /\ i \in Rows
    BY <1>3, <1>4
  <2>2. u \in Vector /\ v \in Vector /\ w \in Vector /\ b \in Int /\ 1 \in Int
    BY <1>3, <2>1, ReducedIsVector DEF ModelOK
  <2>3. Combination(u, v, w, 1, b, S)
    BY <1>3, <1>4, ReducedByOne DEF Combination
  <2>4. /\ Dot(u, p, S) <= Dot(u, q, S)
        /\ b * Dot(w, p, S) <= b * Dot(w, q, S)
    BY <1>3, <2>1
  <2> HIDE DEF u, v, w, b, U
  <2>5. /\ 1 * Dot(u, p, S) = 1 * Dot(v, p, S) - b * Dot(w, p, S)
        /\ 1 * Dot(u, q, S) = 1 * Dot(v, q, S) - b * Dot(w, q, S)
    BY <2>2, <2>3, DotCombines
  <2>6. /\ Dot(u, p, S) \in Int /\ Dot(v, p, S) \in Int /\ Dot(w, p, S) \in Int
        /\ Dot(u, q, S) \in Int /\ Dot(v, q, S) \in Int /\ Dot(w, q, S) \in Int
    BY <2>2, DotInteger
  <2> DEFINE P == b * Dot(w, p, S)
             Q == b * Dot(w, q, S)
  <2>7. P \in Int /\ Q \in Int
    BY <2>2, <2>6
  <2>8. P <= Q /\ 1 * Dot(u, p, S) = 1 * Dot(v, p, S) - P /\ 1 * Dot(u, q, S) = 1 * Dot(v, q, S) - Q
    BY <2>4, <2>5
  <2> HIDE DEF P, Q
  <2>9. Dot(v, p, S) <= Dot(v, q, S)
    BY <2>4, <2>6, <2>7, <2>8
  <2>10. U \in D
    BY <2>1, <2>9 DEF v
  <2> HIDE DEF D
  <2> QED BY <1>2, <2>1, <2>10
<1>5. T = {}
  BY <1>4
<1>6. Reduced(c, y, {}) = c
  <2>1. \A j \in Cols : Sum(Shares(j, y), {}) = 0 /\ c[j] \in Int
    BY SumEmpty DEF Vector
  <2> QED BY <2>1 DEF Reduced, Vector
<1> QED BY <1>3, <1>5, <1>6

LEMMA SignedOrder ==
    ASSUME NEW d \in Int, NEW v \in Int, NEW w \in Int, d > 0 => v <= w, d < 0 => w <= v
    PROVE  d * v <= d * w
<1>1. CASE d > 0
  BY <1>1, ProductOrder
<1>2. CASE d < 0
  BY <1>2, ProductOrder
<1>3. CASE d = 0
  BY <1>3
<1> QED BY <1>1, <1>2, <1>3

LEMMA ReducedCostIsReduced ==
    ASSUME NEW c, NEW y, NEW j \in Cols
    PROVE  ReducedCost(j, c[j], y) = Reduced(c, y, Rows)[j]
<1> DEFINE f == Shares(j, y)
<1>1. SumFunction([i \in Rows |-> lp.a[i][j] * y[i]]) = SumFunction(f)
  BY DEF Shares
<1>2. DOMAIN f = Rows
  BY DEF Shares
<1> HIDE DEF f
<1>3. SumFunction(f) = Sum(f, Rows)
  BY <1>2 DEF SumFunction, Sum
<1> QED BY <1>1, <1>3 DEF ReducedCost, Reduced, f

\* A value that is at a bound it has is below, or above, every other value that keeps it:
\* a bound that is met is one that counts.
LEMMA AtItsBound ==
    ASSUME NEW d \in Int, NEW v \in Int, Finite(v), NEW w \in Int, NEW low, NEW high,
           Complementary(v, low, high, d),
           Finite(low) => low <= w, Finite(high) => w <= high
    PROVE  d * v <= d * w
<1>1. (d > 0 => v <= w) /\ (d < 0 => w <= v)
  BY DEF Complementary
<1> QED BY <1>1, SignedOrder

\* No solution of a working model costs less than one that has dual values to match.
LEMMA OptimalIsLeast ==
    ASSUME ModelOK, Shaped(ctx), Numbers(ctx),
           NEW y \in [Rows -> Int], \A i \in Rows \ ctx.rows : y[i] = 0,
           NEW p, Small(p), OptimalFor(ctx, p, y), NEW q, Small(q), FeasibleIn(ctx, q)
    PROVE  ObjectiveIn(ctx, p) <= ObjectiveIn(ctx, q)
<1> DEFINE S == ctx.cols
           c == ctx.c
           u == Reduced(c, y, Rows)
<1>1. S \subseteq Cols /\ ctx.rows \subseteq Rows /\ c \in Vector /\ p \in Vector /\ q \in Vector /\ ctx.offset \in Int
  BY DEF Shaped, Numbers, Small
<1>2. u \in Vector
  BY <1>1, ReducedIsVector
<1>3. ASSUME NEW i \in Rows
      PROVE  y[i] * Dot(lp.a[i], p, S) <= y[i] * Dot(lp.a[i], q, S)
  <2> DEFINE A == Dot(lp.a[i], p, S)
             B == Dot(lp.a[i], q, S)
             d == y[i]
  <2>1. A \in Int /\ B \in Int /\ d \in Int
    BY <1>1, DotInteger DEF ModelOK
  <2>2. Activity(i, p, S) = A /\ Activity(i, q, S) = B
    BY ActivityIsDot
  <2>3. CASE i \in ctx.rows
    <3>1. Finite(A)
      BY <1>1, <2>2 DEF Small, SmallPoint
    <3>2. Complementary(A, ctx.rlo[i], ctx.rup[i], d)
      BY <2>2, <2>3 DEF OptimalFor
    <3>3. (Finite(ctx.rlo[i]) => ctx.rlo[i] <= B) /\ (Finite(ctx.rup[i]) => B <= ctx.rup[i])
      BY <2>2, <2>3 DEF FeasibleIn
    <3> HIDE DEF A, B, d
    <3>4. d * A <= d * B
      BY <2>1, <3>1, <3>2, <3>3, AtItsBound
    <3> QED BY <3>4 DEF A, B, d
  <2>4. CASE i \notin ctx.rows
    <3>1. d = 0
      BY <2>4
    <3> HIDE DEF A, B, d
    <3>2. d * A <= d * B
      BY <2>1, <3>1
    <3> QED BY <3>2 DEF A, B, d
  <2> QED BY <2>3, <2>4
<1>4. ASSUME NEW j \in S
      PROVE  u[j] * p[j] <= u[j] * q[j]
  <2> DEFINE d == u[j]
             v == p[j]
             w == q[j]
  <2>1. j \in Cols /\ d \in Int /\ v \in Int /\ w \in Int /\ Finite(v)
    BY <1>1, <1>2 DEF Vector, Small, SmallPoint
  <2>2. Complementary(v, ctx.lo[j], ctx.up[j], d)
    BY <2>1, ReducedCostIsReduced DEF OptimalFor
  <2>3. (Finite(ctx.lo[j]) => ctx.lo[j] <= w) /\ (Finite(ctx.up[j]) => w <= ctx.up[j])
    BY DEF FeasibleIn
  <2> HIDE DEF d, v, w
  <2>4. d * v <= d * w
    BY <2>1, <2>2, <2>3, AtItsBound
  <2> QED BY <2>4 DEF d, v, w
<1>5. Dot(c, p, S) <= Dot(c, q, S)
  <2> HIDE DEF S, c
  <2> QED BY <1>1, <1>3, <1>4, WeakDuality
<1>6. Dot(c, p, S) \in Int /\ Dot(c, q, S) \in Int
  BY <1>1, DotInteger
<1>7. ObjectiveIn(ctx, p) = ctx.offset + Dot(c, p, S) /\ ObjectiveIn(ctx, q) = ctx.offset + Dot(c, q, S)
  BY ObjectiveIsDot
<1> HIDE DEF S, c
<1> QED BY <1>1, <1>5, <1>6, <1>7

-----------------------------------------------------------------------------
(* What undoing leaves alone.                                              *)

\* Undoing an action changes no column but the one it restores.
LEMMA RestoreKeeps ==
    ASSUME NEW e, NEW p \in Vector, NEW j \in Cols,
           e.type \in {"FixedVariable", "SingletonColumn"} => e.col # j
    PROVE  Restore(e, p)[j] = p[j]
<1>1. CASE e.type = "FixedVariable"
  BY <1>1 DEF Restore, Vector
<1>2. CASE e.type = "SingletonColumn"
  BY <1>2 DEF Restore, Vector
<1>3. CASE e.type \notin {"FixedVariable", "SingletonColumn"}
  BY <1>3 DEF Restore
<1> QED BY <1>1, <1>2, <1>3

\* The columns of the working model keep their values.
LEMMA UndoneKeeps ==
    ASSUME NEW s, s \in Seq(ToSet(s)), NEW p, RestoresWell(s, p), NEW j \in Cols,
           \A k \in DOMAIN s : s[k].type \in {"FixedVariable", "SingletonColumn"} => s[k].col # j
    PROVE  UndoneTo(s, 0, p)[j] = p[j]
<1> DEFINE L == Len(s)
           D == {m \in 0..L : UndoneTo(s, L - m, p)[j] # p[j]}
<1>1. L \in Nat /\ DOMAIN s = 1..L
  OBVIOUS
<1> SUFFICES ASSUME D # {}  PROVE FALSE
  <2>1. L \in 0..L /\ L - L = 0
    BY <1>1
  <2> QED BY <2>1
<1> DEFINE m == Min(D)
<1>2. m \in D /\ \A k \in D : m <= k
  <2>1. D \subseteq Nat
    BY <1>1
  <2> HIDE DEF D
  <2> QED BY <2>1, MinIsLeast
<1>3. m \in 0..L
  BY <1>2
<1> HIDE DEF m
<1>4. CASE m = 0
  <2>1. UndoneTo(s, L, p) = p
    BY <1>1, UndoneToTop
  <2>2. L - 0 = L
    BY <1>1
  <2> QED BY <1>2, <1>4, <2>1, <2>2
<1>5. CASE m # 0
  <2> DEFINE k == (L - m) + 1
  <2>1. m - 1 \in 0..L /\ L - (m - 1) = k /\ k \in 1..L /\ k - 1 = L - m /\ ~(m <= m - 1)
    BY <1>1, <1>3, <1>5
  <2>2. m - 1 \notin D
    <3> HIDE DEF D
    <3> QED BY <1>2, <2>1
  <2>3. UndoneTo(s, k, p)[j] = p[j]
    BY <2>1, <2>2
  <2>4. UndoneTo(s, k - 1, p)[j] # p[j]
    <3>1. UndoneTo(s, L - m, p)[j] # p[j]
      BY <1>2
    <3> QED BY <2>1, <3>1
  <2> HIDE DEF k, D
  <2>5. UndoneTo(s, k - 1, p) = Restore(s[k], UndoneTo(s, k, p))
    BY <1>1, <2>1, UndoneToBelow
  <2>6. UndoneTo(s, k, p) \in Vector
    <3>1. k \in 0..Len(s)
      BY <1>1, <2>1
    <3> QED BY <3>1 DEF RestoresWell, Vector
  <2>7. Restore(s[k], UndoneTo(s, k, p))[j] = UndoneTo(s, k, p)[j]
    BY <1>1, <2>1, <2>6, RestoreKeeps
  <2> QED BY <2>3, <2>4, <2>5, <2>7
<1> QED BY <1>4, <1>5

-----------------------------------------------------------------------------
(* The invariant of postsolve.                                             *)

Kinds == {"FixedVariable", "SingletonColumn", "RedundantRow", "SingletonRow"}

\* Nothing but these actions is ever recorded.
ActionsKnown == \A k \in DOMAIN ctx.stack : ctx.stack[k].type \in Kinds

LEMMA ActionsKnownStep ==
    ASSUME ControlOK, ForcingRowActive, ActionsKnown, [Next]_vars
    PROVE  ActionsKnown'
<1>1. ctx.stack \in Seq(ToSet(ctx.stack))
  BY DEF ControlOK
<1>2. ctx'.stack = ctx.stack \/ \E e : e.type \in Kinds /\ ctx'.stack = Append(ctx.stack, e)
  BY ControlShaped, StepEffect DEF NothingGone, ColGone, RowGone, Kinds
<1>3. ASSUME NEW e, e.type \in Kinds, ctx'.stack = Append(ctx.stack, e)
      PROVE  ActionsKnown'
  <2> DEFINE s == ctx.stack
             t == ctx'.stack
  <2>1. s \in Seq(ToSet(s)) /\ t = Append(s, e) /\ \A k \in DOMAIN s : s[k].type \in Kinds
    BY <1>1, <1>3 DEF ActionsKnown
  <2> HIDE DEF s, t
  <2>2. \A k \in DOMAIN t : t[k].type \in Kinds
    BY <1>3, <2>1, Pushed
  <2> QED BY <2>2 DEF t, ActionsKnown
<1> QED BY <1>2, <1>3 DEF ActionsKnown

SolFields == {"x", "y", "s", "objective", "is_feasible"}

\* The pair the solver returned, and how far it has been undone.
Undoing(p, y) ==
    /\ p \in Points /\ y \in Duals
    /\ \A i \in Rows \ ctx.rows : y[i] = 0
    /\ OptimalFor(ctx, p, y)
    /\ sol.x = UndoneTo(ctx.stack, left, p)

Returned ==
    /\ phase \in {"presolve", "undo", "recovered"}
    /\ DOMAIN sol = SolFields
    /\ LeftOK
    /\ phase # "presolve" => ~Proved(ctx) /\ \E p, y : Undoing(p, y)
    /\ phase = "recovered" => /\ left = 0
                              /\ sol.objective = Objective(sol.x)
                              /\ sol.is_feasible = (sol.x \in Feasible({sol.x}))

LEMMA InitReturned ==
    PostInit => Returned
  BY DEF PostInit, Returned, SolFields, LeftOK

\* The primal half of undoing an action is Restore.
LEMMA UndoneRestores ==
    ASSUME NEW e, e.type \in Kinds, NEW r, DOMAIN r = SolFields
    PROVE  Undone(e, r).x = Restore(e, r.x) /\ DOMAIN Undone(e, r) = SolFields
<1>1. CASE e.type = "FixedVariable"
  <2> DEFINE x == Restore(e, r.x)
             z == ReducedCost(e.col, e.cost, r.y)
  <2>1. Undone(e, r) = [r EXCEPT !.x = x, !.s[e.col] = z]
    BY <1>1 DEF Undone
  <2> HIDE DEF x, z
  <2>2. Undone(e, r).x = x /\ DOMAIN Undone(e, r) = SolFields
    BY <2>1 DEF SolFields
  <2> QED BY <2>2 DEF x
<1>2. CASE e.type = "SingletonColumn"
  <2> DEFINE x == Restore(e, r.x)
             z == Quotient(e.cost, e.coeff)
  <2>1. Undone(e, r) = [r EXCEPT !.x = x, !.y[e.row] = z, !.s[e.col] = 0]
    BY <1>2 DEF Undone
  <2> HIDE DEF x, z
  <2>2. Undone(e, r).x = x /\ DOMAIN Undone(e, r) = SolFields
    BY <2>1 DEF SolFields
  <2> QED BY <2>2 DEF x
<1>3. CASE e.type \in {"RedundantRow", "SingletonRow"}
  <2>1. \E z : Undone(e, r) = [r EXCEPT !.y[e.row] = z]
    BY <1>3 DEF Undone
  <2>2. Undone(e, r).x = r.x /\ DOMAIN Undone(e, r) = SolFields
    BY <2>1 DEF SolFields
  <2>3. Restore(e, r.x) = r.x
    BY <1>3 DEF Restore
  <2> QED BY <2>2, <2>3
<1> QED BY <1>1, <1>2, <1>3 DEF Kinds

LEMMA SameUndoing ==
    ASSUME lp' = lp, ctx' = ctx, left' = left, sol'.x = sol.x
    PROVE  \A p, y : Undoing(p, y) => Undoing(p, y)'
<1> SUFFICES ASSUME NEW p, NEW y, Undoing(p, y)
             PROVE  Undoing(p, y)'
  OBVIOUS
<1>1. UndoneTo(ctx.stack, left, p)' = UndoneTo(ctx.stack, left, p)
  BY DEF UndoneTo, MapThenFoldSet, Restore, Activity
<1>2. OptimalFor(ctx, p, y)'
  <2>1. OptimalFor(ctx, p, y)
    BY DEF Undoing
  <2> QED BY <2>1 DEF OptimalFor, FeasibleIn, Complementary, ReducedCost, Finite, Activity
<1> QED BY <1>1, <1>2 DEF Undoing

LEMMA ReturnedStep ==
    ASSUME ActiveInductive, ActionsKnown, Returned, [PostNext]_allVars
    PROVE  Returned'
<1>1. CASE UNCHANGED allVars
  <2>1. lp' = lp /\ ctx' = ctx /\ left' = left /\ sol' = sol /\ phase' = phase /\ pc' = pc
    BY <1>1 DEF allVars, vars, postsolved
  <2>2. \A p, y : Undoing(p, y) => Undoing(p, y)'
    BY <2>1, SameUndoing
  <2>3. (Objective(sol.x))' = Objective(sol.x) /\ (sol.x \in Feasible({sol.x}))' = (sol.x \in Feasible({sol.x}))
    BY <2>1 DEF Objective, Feasible, Activity, Between
  <2> QED BY <2>1, <2>2, <2>3 DEF Returned, LeftOK, Proved
<1>2. CASE PresolveStep
  BY <1>2 DEF PresolveStep, postsolved, Returned, LeftOK
<1>3. CASE Solve
  <2> PICK p \in {q \in Points : (\A j \in Cols \ ctx.cols : q[j] = 0) /\ FeasibleIn(ctx, q)},
           y \in {d \in Duals : \A i \in Rows \ ctx.rows : d[i] = 0} :
           /\ OptimalFor(ctx, p, y)
           /\ sol' = [sol EXCEPT !.x = p, !.y = y,
                                 !.s = [j \in Cols |-> IF j \in ctx.cols THEN ReducedCost(j, ctx.c[j], y) ELSE 0]]
    BY <1>3 DEF Solve
  <2>1. /\ p \in Points /\ y \in Duals /\ (\A i \in Rows \ ctx.rows : y[i] = 0) /\ OptimalFor(ctx, p, y)
        /\ phase' = "undo" /\ left' = Len(ctx.stack) /\ lp' = lp /\ ctx' = ctx /\ ~Proved(ctx)
    BY <1>3 DEF Solve, vars
  <2>2. sol'.x = p /\ DOMAIN sol' = SolFields
    <3> DEFINE s == [j \in Cols |-> IF j \in ctx.cols THEN ReducedCost(j, ctx.c[j], y) ELSE 0]
    <3>1. sol' = [sol EXCEPT !.x = p, !.y = y, !.s = s]
      OBVIOUS
    <3> HIDE DEF s
    <3> QED BY <3>1 DEF Returned, SolFields
  <2>3. Len(ctx.stack) \in Nat
    BY LenProperties DEF ActiveInductive, ControlOK
  <2>4. UndoneTo(ctx.stack, Len(ctx.stack), p) = p
    BY <2>3, UndoneToTop
  <2>5. UndoneTo(ctx.stack, left, p)' = UndoneTo(ctx.stack, Len(ctx.stack), p)
    BY <2>1 DEF UndoneTo, MapThenFoldSet, Restore, Activity
  <2>6. OptimalFor(ctx, p, y)'
    BY <2>1 DEF OptimalFor, FeasibleIn, Complementary, ReducedCost, Finite, Activity
  <2>7. Undoing(p, y)'
    BY <2>1, <2>2, <2>4, <2>5, <2>6 DEF Undoing
  <2> QED BY <2>1, <2>2, <2>3, <2>7 DEF Returned, LeftOK, Proved
<1>4. CASE Undo
  <2> PICK p, y : Undoing(p, y)
    BY <1>4 DEF Undo, Returned
  <2> DEFINE e == ctx.stack[left]
  <2>1. /\ left \in 1..Len(ctx.stack) /\ left' = left - 1 /\ lp' = lp /\ ctx' = ctx /\ phase = "undo" /\ phase' = "undo"
        /\ sol' = Undone(e, sol) /\ Len(ctx.stack) \in Nat /\ e.type \in Kinds
    <3>1. Len(ctx.stack) \in Nat /\ DOMAIN ctx.stack = 1..Len(ctx.stack)
      BY LenProperties DEF ActiveInductive, ControlOK
    <3>2. left \in 1..Len(ctx.stack)
      BY <1>4, <3>1 DEF Undo, Returned, LeftOK
    <3> QED BY <1>4, <3>1, <3>2 DEF Undo, NextAction, vars, ActionsKnown
  <2>2. sol'.x = Restore(e, sol.x) /\ DOMAIN sol' = SolFields
    <3>1. e.type \in Kinds /\ DOMAIN sol = SolFields
      BY <2>1 DEF Returned
    <3> HIDE DEF e
    <3> QED BY <2>1, <3>1, UndoneRestores
  <2>3. UndoneTo(ctx.stack, left - 1, p) = Restore(e, UndoneTo(ctx.stack, left, p))
    <3> DEFINE s == ctx.stack
               n == left
    <3>1. Len(s) \in Nat /\ n \in 1..Len(s)
      BY <2>1
    <3> HIDE DEF s, n
    <3>2. UndoneTo(s, n - 1, p) = Restore(s[n], UndoneTo(s, n, p))
      BY <3>1, UndoneToBelow
    <3> QED BY <3>2 DEF s, n
  <2>4. sol'.x = UndoneTo(ctx.stack, left - 1, p)
    BY <2>2, <2>3 DEF Undoing
  <2>5. UndoneTo(ctx.stack, left, p)' = UndoneTo(ctx.stack, left - 1, p)
    BY <2>1 DEF UndoneTo, MapThenFoldSet, Restore, Activity
  <2>6. OptimalFor(ctx, p, y)'
    <3>1. OptimalFor(ctx, p, y)
      BY DEF Undoing
    <3> QED BY <2>1, <3>1 DEF OptimalFor, FeasibleIn, Complementary, ReducedCost, Finite, Activity
  <2>7. Undoing(p, y)'
    BY <2>1, <2>4, <2>5, <2>6 DEF Undoing
  <2>8. left' \in 0..Len(ctx'.stack)
    BY <2>1
  <2> QED BY <2>1, <2>2, <2>7, <2>8 DEF Returned, LeftOK, Proved
<1>5. CASE Recover
  <2> DEFINE v == Objective(sol.x)
             f == sol.x \in Feasible({sol.x})
  <2>1. /\ sol' = [sol EXCEPT !.objective = v, !.is_feasible = f]
        /\ phase = "undo" /\ phase' = "recovered" /\ left = 0 /\ left' = left /\ lp' = lp /\ ctx' = ctx
    BY <1>5 DEF Recover, vars
  <2> HIDE DEF v, f
  <2>2. sol'.x = sol.x /\ sol'.objective = v /\ sol'.is_feasible = f /\ DOMAIN sol' = SolFields
    BY <2>1 DEF Returned, SolFields
  <2>3. \A p, y : Undoing(p, y) => Undoing(p, y)'
    BY <2>1, <2>2, SameUndoing
  <2>4. Objective(sol.x)' = v /\ (sol.x \in Feasible({sol.x}))' = f
    BY <2>1, <2>2 DEF v, f, Objective, Feasible, Activity, Between
  <2> QED BY <2>1, <2>2, <2>3, <2>4 DEF Returned, LeftOK, Proved
<1> QED BY <1>1, <1>2, <1>3, <1>4, <1>5 DEF PostNext

-----------------------------------------------------------------------------
(* The theorem.                                                            *)

LEMMA ReturnedIsOptimal ==
    ASSUME ActiveInductive, Ready, BoundsSided, Recovering, RestoringExact, SmallPoints, SolutionsInductive,
           Returned
    PROVE  RecoveredOptimal
<1> SUFFICES ASSUME phase = "recovered"
             PROVE  /\ sol.is_feasible
                    /\ sol.objective = ObjectiveIn(ctx, sol.x)
                    /\ \A q \in Feasible(Points) : sol.objective <= Objective(q)
  BY DEF RecoveredOptimal
<1> PICK p, y : Undoing(p, y)
  BY DEF Returned
<1> DEFINE x == Restored(ctx, p)
<1>1. /\ ~Proved(ctx) /\ p \in Points /\ FeasibleIn(ctx, p) /\ OptimalFor(ctx, p, y)
      /\ y \in [Rows -> Int] /\ (\A i \in Rows \ ctx.rows : y[i] = 0)
      /\ ctx.stack \in Seq(ToSet(ctx.stack))
  BY DualsAssumption DEF Returned, Undoing, OptimalFor, ActiveInductive, ControlOK
<1>2. Restored(ctx, p) = UndoneTo(ctx.stack, 0, p)
  BY <1>1, RestoredIsUndone
<1>3. sol.x = x /\ sol.objective = Objective(x) /\ sol.is_feasible = (x \in Feasible({x}))
  BY <1>2 DEF Returned, Undoing
<1>4. Feasible({x}) = {x} /\ Objective(x) = ObjectiveIn(ctx, p)
  BY <1>1, RecoveringRecovers DEF Recoverable
<1>5. ObjectiveIn(ctx, x) = ObjectiveIn(ctx, p)
  <2>1. RestoresWell(ctx.stack, p)
    BY <1>1 DEF RestoringExact
  <2>2. ctx.cols \subseteq Cols
    BY DEF Ready, Shaped
  <2>3. ASSUME NEW j \in ctx.cols
        PROVE  x[j] = p[j]
    <3>1. \A k \in DOMAIN ctx.stack :
             ctx.stack[k].type \in {"FixedVariable", "SingletonColumn"} => ctx.stack[k].col # j
      BY <2>3 DEF ActiveInductive, ActiveUnrecorded
    <3> DEFINE s == ctx.stack
    <3>2. s \in Seq(ToSet(s)) /\ RestoresWell(s, p) /\ j \in Cols
          /\ \A k \in DOMAIN s : s[k].type \in {"FixedVariable", "SingletonColumn"} => s[k].col # j
      BY <1>1, <2>1, <2>2, <2>3, <3>1
    <3> HIDE DEF s
    <3>3. UndoneTo(s, 0, p)[j] = p[j]
      BY <3>2, UndoneKeeps
    <3> QED BY <1>2, <3>3 DEF s
  <2> HIDE DEF x
  <2>4. [j \in ctx.cols |-> ctx.c[j] * x[j]] = [j \in ctx.cols |-> ctx.c[j] * p[j]]
    BY <2>3
  <2> QED BY <2>4 DEF ObjectiveIn
<1> HIDE DEF x
<1>6. ASSUME NEW q \in Feasible(Points)
      PROVE  Objective(x) <= Objective(q)
  <2>1. Small(q) /\ Fits(ctx, q) /\ ObjectiveIn(ctx, q) <= Objective(q)
    BY PointsAreSmall DEF SolutionsInductive, SolutionsFit
  <2>2. FeasibleIn(ctx, q)
    BY <2>1 DEF Fits, FeasibleIn, Finite
  <2>3. Small(p)
    BY <1>1, PointsAssumption DEF SmallPoints, Small, Vector
  <2>4. ObjectiveIn(ctx, p) <= ObjectiveIn(ctx, q)
    BY <1>1, <2>1, <2>2, <2>3, OptimalIsLeast DEF Ready
  <2>5. ObjectiveIn(ctx, p) \in Int /\ ObjectiveIn(ctx, q) \in Int /\ Objective(q) \in Int
    <3>1. p \in Vector /\ q \in Vector /\ ctx.cols \subseteq Cols /\ Cols \subseteq Cols
          /\ ctx.c \in Vector /\ ctx.offset \in Int /\ lp.c \in Vector /\ lp.offset \in Int
      BY <2>1, <2>3 DEF Ready, Small, Shaped, Numbers, ModelOK
    <3>2. Dot(ctx.c, p, ctx.cols) \in Int /\ Dot(ctx.c, q, ctx.cols) \in Int /\ Dot(lp.c, q, Cols) \in Int
      BY <3>1, DotInteger
    <3>3. /\ ObjectiveIn(ctx, p) = ctx.offset + Dot(ctx.c, p, ctx.cols)
          /\ ObjectiveIn(ctx, q) = ctx.offset + Dot(ctx.c, q, ctx.cols)
          /\ Objective(q) = lp.offset + Dot(lp.c, q, Cols)
      BY ObjectiveIsDot
    <3> QED BY <3>1, <3>2, <3>3
  <2> QED BY <1>4, <2>1, <2>4, <2>5
<1> QED BY <1>3, <1>4, <1>5, <1>6

LEMMA ReturnedInvariant == PostSpec => [](ActionsKnown /\ Returned)
<1>1. PostInit => ActionsKnown
  BY DEF PostInit, Init, NewContext, ActionsKnown
<1>2. ActiveInductive /\ ActionsKnown /\ [PostNext]_allVars => ActionsKnown'
  BY PostsolveStep, ActionsKnownStep DEF ActiveInductive
<1>3. ActiveInductive /\ ActionsKnown /\ Returned /\ [PostNext]_allVars => Returned'
  BY ReturnedStep
<1> QED BY <1>1, <1>2, <1>3, InitReturned, ActiveInvariant, PostsolveKeepsPresolve, PTL DEF PostSpec

\* The point recovered from an optimum of the presolved model is feasible and optimal in the
\* original model, at the presolved model's objective value (docs/presolve.md 1.2 and 4.3),
\* wherever the points restored on the way come out even.
THEOREM OptimumRecovered ==
    PostSpec /\ SmallPoints /\ []DivisionsExact /\ []BoundsSided => [](RestoringExact => RecoveredOptimal)
<1>1. TypeOK => NumbersOK
  BY DEF TypeOK
<1>2. SmallPoints /\ [Next]_vars => SmallPoints'
  BY SmallPointsStep
<1>3. /\ ActiveInductive /\ NumbersOK /\ DivisionsExact /\ BoundsSided /\ Recovering /\ SmallPoints
      /\ SolutionsInductive /\ Returned
      => (RestoringExact => RecoveredOptimal)
  BY ReadyNow, ReturnedIsOptimal
<1>4. Spec /\ SmallPoints => []SmallPoints
  BY <1>2, PTL DEF Spec
<1> QED BY <1>1, <1>3, <1>4, ReturnedInvariant, RecoveryInvariant, SolutionsInvariant, ActiveInvariant,
           TypesCorrect, PostsolveKeepsPresolve, PTL

=============================================================================
