---------------------------- MODULE PresolveProofs ----------------------------
(***************************************************************************)
(* What presolve guarantees for every model and every setting.             *)
(*                                                                         *)
(* First its bookkeeping: exact caches, one action for every removal,      *)
(* actions that can be undone in the reverse order, and a fixed point      *)
(* where nothing is left to remove.  Every step of the run either leaves   *)
(* rows, columns, degrees and stack alone, or takes away one column or one *)
(* row and pushes the action that restores it (StepEffect); the invariants *)
(* of ActiveInductive follow from that.                                    *)
(*                                                                         *)
(* Then its arithmetic, for every set of points: the numbers stay          *)
(* integers, every solution of the model is one of the working model that  *)
(* costs no more, and a model that is called infeasible has none.  The     *)
(* divisions are assumed to come out even (DivisionsExact) and the points  *)
(* to stay below the threshold from which a bound counts as absent         *)
(* (SmallPoints).                                                          *)
(***************************************************************************)
EXTENDS Postsolve, Sums, FiniteSetTheorems, SequenceTheorems, TLAPS

(* Numbers and finite sets.                                                *)

\* A set of natural numbers that is not empty has a least member, and Min is it.
LEMMA MinIsLeast ==
    ASSUME NEW S, S \subseteq Nat, S # {}
    PROVE  Min(S) \in S /\ \A k \in S : Min(S) <= k
<1>1. \E x \in S : \A y \in S : ~(<<y, x>> \in OpToRel(<, Nat))
  BY NatLessThanWellFounded, WFMin
<1>2. \A x, y \in S : ~(<<y, x>> \in OpToRel(<, Nat)) => x <= y
  BY DEF OpToRel
<1>3. \E x \in S : \A y \in S : x <= y
  BY <1>1, <1>2
<1> QED BY <1>3 DEF Min

LEMMA FiniteRowsAndCols == IsFiniteSet(Rows) /\ IsFiniteSet(Cols) /\ IsFiniteSet(Rows \X Cols)
<1>1. IsFiniteSet(Rows) /\ IsFiniteSet(Cols)
  BY SizesAssumption, FS_Interval DEF Rows, Cols
<1> QED BY <1>1, FS_Product

\* A counter that counts a set loses what the set loses.
LEMMA MinusCounts ==
    ASSUME NEW S, IsFiniteSet(S), NEW T, T \subseteq S
    PROVE  Minus(Cardinality(S), Cardinality(T)) = Cardinality(S \ T) /\ IsFiniteSet(T)
<1>1. IsFiniteSet(T) /\ Cardinality(T) <= Cardinality(S) /\ S \cap T = T
  BY FS_Subset
<1>2. Cardinality(S) \in Nat /\ Cardinality(T) \in Nat
  BY <1>1, FS_CardinalityType
<1>3. Cardinality(S \ T) = Cardinality(S) - Cardinality(T)
  BY <1>1, FS_Difference
<1> QED BY <1>1, <1>2, <1>3 DEF Minus

\* A set as large as its image: pairs with one component fixed.
LEMMA PairsWithCol ==
    ASSUME NEW S, IsFiniteSet(S), NEW j
    PROVE  Cardinality({<<i, j>> : i \in S}) = Cardinality(S)
<1> DEFINE T == {<<i, j>> : i \in S}
           f == [i \in S |-> <<i, j>>]
<1>1. f \in Bijection(S, T)
  BY DEF Bijection, Injection, Surjection, IsInjective
<1> QED BY <1>1, FS_Bijection DEF ExistsBijection

LEMMA PairsWithRow ==
    ASSUME NEW S, IsFiniteSet(S), NEW i
    PROVE  Cardinality({<<i, j>> : j \in S}) = Cardinality(S)
<1> DEFINE T == {<<i, j>> : j \in S}
           f == [j \in S |-> <<i, j>>]
<1>1. f \in Bijection(S, T)
  BY DEF Bijection, Injection, Surjection, IsInjective
<1> QED BY <1>1, FS_Bijection DEF ExistsBijection

-----------------------------------------------------------------------------
(* One column, one row taken away.                                         *)

\* The parts of a context that are about what is active.
Shaped(x) ==
    /\ DOMAIN x = Fields
    /\ x.rows \subseteq Rows /\ x.cols \subseteq Cols
    /\ x.rowDegree \in [Rows -> Nat] /\ x.colDegree \in [Cols -> Nat] /\ x.nnz \in Nat

\* CachesExact of any context.
Exact(x) ==
    /\ \A i \in Rows : x.rowDegree[i] = IF i \in x.rows THEN Cardinality(RowEntries(x, i)) ELSE 0
    /\ \A j \in Cols : x.colDegree[j] = IF j \in x.cols THEN Cardinality(ColEntries(x, j)) ELSE 0
    /\ x.nnz = Cardinality({e \in x.rows \X x.cols : lp.a[e[1]][e[2]] # 0})

\* What a reduction may change without touching what is active.
SameActive(x, y) ==
    /\ DOMAIN y = DOMAIN x
    /\ y.rows = x.rows /\ y.cols = x.cols
    /\ y.rowDegree = x.rowDegree /\ y.colDegree = x.colDegree /\ y.nnz = x.nnz

LEMMA SameActiveExact ==
    ASSUME NEW x, NEW y, SameActive(x, y), Shaped(x), Exact(x)
    PROVE  Shaped(y) /\ Exact(y)
  BY DEF SameActive, Shaped, Exact, RowEntries, ColEntries

LEMMA RemoveColExact ==
    ASSUME NEW x, Shaped(x), Exact(x), NEW j \in x.cols
    PROVE  Shaped(RemoveCol(x, j)) /\ Exact(RemoveCol(x, j))
<1> DEFINE y == RemoveCol(x, j)
<1>f. /\ DOMAIN y = Fields
      /\ y.rows = x.rows /\ y.cols = x.cols \ {j}
      /\ y.colDegree = [x.colDegree EXCEPT ![j] = 0]
      /\ y.rowDegree = [i \in Rows |-> IF i \in ColEntries(x, j) THEN Minus(x.rowDegree[i], 1) ELSE x.rowDegree[i]]
      /\ y.nnz = Minus(x.nnz, Cardinality(ColEntries(x, j)))
  BY DEF RemoveCol, Shaped, Fields
<1> HIDE DEF y
<1>1. \A i \in Rows : RowEntries(y, i) = RowEntries(x, i) \ {j}
  BY <1>f DEF RowEntries
<1>2. \A k \in Cols : ColEntries(y, k) = ColEntries(x, k)
  BY <1>f DEF ColEntries
<1>3. \A i \in Rows : y.rowDegree[i] = IF i \in y.rows THEN Cardinality(RowEntries(y, i)) ELSE 0
  <2> SUFFICES ASSUME NEW i \in Rows
               PROVE  y.rowDegree[i] = IF i \in y.rows THEN Cardinality(RowEntries(y, i)) ELSE 0
    OBVIOUS
  <2>1. IsFiniteSet(RowEntries(x, i))
    BY FiniteRowsAndCols, FS_Subset DEF RowEntries, Shaped
  <2>2. CASE i \in ColEntries(x, j)
    <3>1. {j} \subseteq RowEntries(x, i) /\ i \in x.rows
      BY <2>2 DEF RowEntries, ColEntries
    <3>2. Minus(Cardinality(RowEntries(x, i)), 1) = Cardinality(RowEntries(x, i) \ {j})
      BY <2>1, <3>1, MinusCounts, FS_Singleton
    <3> QED BY <1>1, <1>f, <2>2, <3>1, <3>2 DEF Exact
  <2>3. CASE i \notin ColEntries(x, j)
    <3>1. i \in x.rows => RowEntries(x, i) \ {j} = RowEntries(x, i)
      BY <2>3 DEF RowEntries, ColEntries
    <3> QED BY <1>1, <1>f, <2>3, <3>1 DEF Exact
  <2> QED BY <2>2, <2>3
<1>4. \A k \in Cols : y.colDegree[k] = IF k \in y.cols THEN Cardinality(ColEntries(y, k)) ELSE 0
  BY <1>2, <1>f DEF Exact, Shaped
<1>5. y.nnz = Cardinality({e \in y.rows \X y.cols : lp.a[e[1]][e[2]] # 0})
  <2> DEFINE S == {e \in x.rows \X x.cols : lp.a[e[1]][e[2]] # 0}
             T == {<<i, j>> : i \in ColEntries(x, j)}
  <2>1. IsFiniteSet(S)
    <3>1. S \subseteq Rows \X Cols
      BY DEF Shaped
    <3> QED BY <3>1, FiniteRowsAndCols, FS_Subset
  <2>2. T \subseteq S
    BY DEF ColEntries
  <2>3. IsFiniteSet(ColEntries(x, j))
    BY FiniteRowsAndCols, FS_Subset DEF ColEntries, Shaped
  <2>4. Cardinality(T) = Cardinality(ColEntries(x, j))
    BY <2>3, PairsWithCol
  <2>5. {e \in y.rows \X y.cols : lp.a[e[1]][e[2]] # 0} = S \ T
    <3>1. \A e \in S : e \in T <=> e[2] = j
      BY DEF ColEntries
    <3> QED BY <1>f, <3>1, <2>2
  <2>6. y.nnz = Minus(Cardinality(S), Cardinality(T))
    BY <1>f, <2>4 DEF Exact
  <2> QED BY <2>1, <2>2, <2>5, <2>6, MinusCounts
<1>6. Shaped(y)
  <2>1. \A n \in Nat, k \in Nat : Minus(n, k) \in Nat
    BY DEF Minus
  <2>2. Cardinality(ColEntries(x, j)) \in Nat
    BY FiniteRowsAndCols, FS_Subset, FS_CardinalityType DEF ColEntries, Shaped
  <2>3. y.colDegree \in [Cols -> Nat]
    BY <1>f DEF Shaped
  <2>4. y.rowDegree \in [Rows -> Nat]
    <3>1. \A i \in Rows : Minus(x.rowDegree[i], 1) \in Nat /\ x.rowDegree[i] \in Nat
      BY <2>1 DEF Shaped
    <3> QED BY <1>f, <3>1
  <2>5. y.nnz \in Nat
    <3>1. x.nnz \in Nat
      BY DEF Shaped
    <3>2. Minus(x.nnz, Cardinality(ColEntries(x, j))) \in Nat
      BY <2>1, <2>2, <3>1
    <3> QED BY <1>f, <3>2
  <2> QED BY <1>f, <2>3, <2>4, <2>5 DEF Shaped
<1>7. Exact(y)
  BY <1>3, <1>4, <1>5 DEF Exact
<1> USE DEF y
<1> QED BY <1>6, <1>7

LEMMA RemoveRowExact ==
    ASSUME NEW x, Shaped(x), Exact(x), NEW i \in x.rows
    PROVE  Shaped(RemoveRow(x, i)) /\ Exact(RemoveRow(x, i))
<1> DEFINE y == RemoveRow(x, i)
<1>f. /\ DOMAIN y = Fields
      /\ y.rows = x.rows \ {i} /\ y.cols = x.cols
      /\ y.rowDegree = [x.rowDegree EXCEPT ![i] = 0]
      /\ y.colDegree = [j \in Cols |-> IF j \in RowEntries(x, i) THEN Minus(x.colDegree[j], 1) ELSE x.colDegree[j]]
      /\ y.nnz = Minus(x.nnz, Cardinality(RowEntries(x, i)))
  BY DEF RemoveRow, Shaped, Fields
<1> HIDE DEF y
<1>1. \A j \in Cols : ColEntries(y, j) = ColEntries(x, j) \ {i}
  BY <1>f DEF ColEntries
<1>2. \A k \in Rows : RowEntries(y, k) = RowEntries(x, k)
  BY <1>f DEF RowEntries
<1>3. \A j \in Cols : y.colDegree[j] = IF j \in y.cols THEN Cardinality(ColEntries(y, j)) ELSE 0
  <2> SUFFICES ASSUME NEW j \in Cols
               PROVE  y.colDegree[j] = IF j \in y.cols THEN Cardinality(ColEntries(y, j)) ELSE 0
    OBVIOUS
  <2>1. IsFiniteSet(ColEntries(x, j))
    BY FiniteRowsAndCols, FS_Subset DEF ColEntries, Shaped
  <2>2. CASE j \in RowEntries(x, i)
    <3>1. {i} \subseteq ColEntries(x, j) /\ j \in x.cols
      BY <2>2 DEF RowEntries, ColEntries
    <3>2. Minus(Cardinality(ColEntries(x, j)), 1) = Cardinality(ColEntries(x, j) \ {i})
      BY <2>1, <3>1, MinusCounts, FS_Singleton
    <3> QED BY <1>1, <1>f, <2>2, <3>1, <3>2 DEF Exact
  <2>3. CASE j \notin RowEntries(x, i)
    <3>1. j \in x.cols => ColEntries(x, j) \ {i} = ColEntries(x, j)
      BY <2>3 DEF RowEntries, ColEntries
    <3> QED BY <1>1, <1>f, <2>3, <3>1 DEF Exact
  <2> QED BY <2>2, <2>3
<1>4. \A k \in Rows : y.rowDegree[k] = IF k \in y.rows THEN Cardinality(RowEntries(y, k)) ELSE 0
  BY <1>2, <1>f DEF Exact, Shaped
<1>5. y.nnz = Cardinality({e \in y.rows \X y.cols : lp.a[e[1]][e[2]] # 0})
  <2> DEFINE S == {e \in x.rows \X x.cols : lp.a[e[1]][e[2]] # 0}
             T == {<<i, j>> : j \in RowEntries(x, i)}
  <2>1. IsFiniteSet(S)
    <3>1. S \subseteq Rows \X Cols
      BY DEF Shaped
    <3> QED BY <3>1, FiniteRowsAndCols, FS_Subset
  <2>2. T \subseteq S
    BY DEF RowEntries
  <2>3. IsFiniteSet(RowEntries(x, i))
    BY FiniteRowsAndCols, FS_Subset DEF RowEntries, Shaped
  <2>4. Cardinality(T) = Cardinality(RowEntries(x, i))
    BY <2>3, PairsWithRow
  <2>5. {e \in y.rows \X y.cols : lp.a[e[1]][e[2]] # 0} = S \ T
    <3>1. \A e \in S : e \in T <=> e[1] = i
      BY DEF RowEntries
    <3> QED BY <1>f, <3>1, <2>2
  <2>6. y.nnz = Minus(Cardinality(S), Cardinality(T))
    BY <1>f, <2>4 DEF Exact
  <2> QED BY <2>1, <2>2, <2>5, <2>6, MinusCounts
<1>6. Shaped(y)
  <2>1. \A n \in Nat, k \in Nat : Minus(n, k) \in Nat
    BY DEF Minus
  <2>2. Cardinality(RowEntries(x, i)) \in Nat
    BY FiniteRowsAndCols, FS_Subset, FS_CardinalityType DEF RowEntries, Shaped
  <2>3. y.rowDegree \in [Rows -> Nat]
    BY <1>f DEF Shaped
  <2>4. y.colDegree \in [Cols -> Nat]
    <3>1. \A j \in Cols : Minus(x.colDegree[j], 1) \in Nat /\ x.colDegree[j] \in Nat
      BY <2>1 DEF Shaped
    <3> QED BY <1>f, <3>1
  <2>5. y.nnz \in Nat
    <3>1. x.nnz \in Nat
      BY DEF Shaped
    <3>2. Minus(x.nnz, Cardinality(RowEntries(x, i))) \in Nat
      BY <2>1, <2>2, <3>1
    <3> QED BY <1>f, <3>2
  <2> QED BY <1>f, <2>3, <2>4, <2>5 DEF Shaped
<1>7. Exact(y)
  BY <1>3, <1>4, <1>5 DEF Exact
<1> USE DEF y
<1> QED BY <1>6, <1>7

-----------------------------------------------------------------------------
(* What a step does to what is active and to the stack.                    *)

\* y is x without column j, and the action on top restores it from columns that stay.
ColGone(x, y, j) ==
    /\ j \in x.cols
    /\ SameActive(RemoveCol(x, j), y) /\ y.status = x.status
    /\ \E action :
          /\ y.stack = Append(x.stack, action)
          /\ action.type \in {"FixedVariable", "SingletonColumn"} /\ action.col = j
          /\ action.type = "SingletonColumn" => action.others \subseteq x.cols \ {j}

\* y is x without row i, and the action on top restores it.
RowGone(x, y, i) ==
    /\ i \in x.rows
    /\ SameActive(RemoveRow(x, i), y) /\ y.status = x.status
    /\ \E action :
          /\ y.stack = Append(x.stack, action)
          /\ action.type \in {"RedundantRow", "SingletonRow"} /\ action.row = i

NothingGone(x, y) == SameActive(x, y) /\ y.stack = x.stack /\ y.status \in Status \cup {x.status}

\* A removal reads no more than what is active.
LEMMA RemoveColReads ==
    ASSUME NEW x, NEW z, Shaped(x), SameActive(x, z), NEW j
    PROVE  /\ SameActive(RemoveCol(x, j), RemoveCol(z, j))
           /\ RemoveCol(z, j).stack = z.stack /\ RemoveCol(z, j).status = z.status
<1>1. DOMAIN z = Fields /\ DOMAIN x = Fields /\ ColEntries(z, j) = ColEntries(x, j)
  BY DEF Shaped, SameActive, ColEntries
<1> QED BY <1>1 DEF Shaped, SameActive, RemoveCol, Fields

LEMMA FixVariableGone ==
    ASSUME NEW x, Shaped(x), NEW j \in x.cols, NEW v
    PROVE  ColGone(x, FixVariable(x, j, v), j)
<1> DEFINE action == [type |-> "FixedVariable", col |-> j, val |-> v, cost |-> x.c[j]]
           y == FixVariable(x, j, v)
<1>0. PICK z : y = RemoveCol(z, j) /\ SameActive(x, z)
                /\ z.stack = Append(x.stack, action) /\ z.status = x.status
  <2> DEFINE shifted(i, b) == IF i \in ColEntries(x, j) /\ Finite(b) THEN b - lp.a[i][j] * v ELSE b
             w == [x EXCEPT !.lo[j] = v, !.up[j] = v,
                            !.offset = @ + x.c[j] * v,
                            !.rlo = [i \in Rows |-> shifted(i, @[i])],
                            !.rup = [i \in Rows |-> shifted(i, @[i])]]
             z == Push(w, action)
  <2>1. y = RemoveCol(z, j)
    BY DEF FixVariable
  <2> HIDE DEF shifted, action
  <2>2. SameActive(x, w) /\ w.stack = x.stack /\ w.status = x.status
    BY DEF Shaped, Fields, SameActive
  <2> HIDE DEF w
  <2>3. SameActive(x, z) /\ z.stack = Append(x.stack, action) /\ z.status = x.status
    BY <2>2 DEF Shaped, Fields, SameActive, Push
  <2> QED BY <2>1, <2>3
<1>1. SameActive(RemoveCol(x, j), y)
  BY <1>0, RemoveColReads
<1>2. y.stack = Append(x.stack, action) /\ y.status = x.status
  BY <1>0, RemoveColReads
<1>3. action.type = "FixedVariable" /\ action.col = j
  OBVIOUS
<1> HIDE DEF y, action
<1>4. ColGone(x, y, j)
  BY <1>1, <1>2, <1>3 DEF ColGone
<1> QED BY <1>4 DEF y

LEMMA DropRowGone ==
    ASSUME NEW x, Shaped(x), NEW i \in x.rows
    PROVE  RowGone(x, DropRow(x, i), i)
<1> DEFINE action == [type |-> "RedundantRow", row |-> i]
           y == DropRow(x, i)
<1>1. SameActive(RemoveRow(x, i), y)
  BY DEF Shaped, Fields, DropRow, RemoveRow, Push, SameActive
<1>2. y.stack = Append(x.stack, action) /\ y.status = x.status
  BY DEF Shaped, Fields, DropRow, RemoveRow, Push
<1>3. action.type = "RedundantRow" /\ action.row = i
  OBVIOUS
<1> HIDE DEF y, action
<1>4. RowGone(x, y, i)
  BY <1>1, <1>2, <1>3 DEF RowGone
<1> QED BY <1>4 DEF y

LEMMA RowEntriesLeast ==
    ASSUME Shaped(ctx), NEW i, RowEntries(ctx, i) # {}
    PROVE  Min(RowEntries(ctx, i)) \in RowEntries(ctx, i)
<1>1. RowEntries(ctx, i) \subseteq Nat
  BY SizesAssumption DEF RowEntries, Shaped, Cols
<1> QED BY <1>1, MinIsLeast

LEMMA ColEntriesLeast ==
    ASSUME Shaped(ctx), NEW j, ColEntries(ctx, j) # {}
    PROVE  Min(ColEntries(ctx, j)) \in ColEntries(ctx, j)
<1>1. ColEntries(ctx, j) \subseteq Nat
  BY SizesAssumption DEF ColEntries, Shaped, Rows
<1> QED BY <1>1, MinIsLeast

LEMMA SingletonRowGone ==
    ASSUME Shaped(ctx), SingletonRow
    PROVE  NothingGone(ctx, ctx') \/ \E i \in Rows : RowGone(ctx, ctx', i)
<1> PICK i \in Rows : SingletonRow!(i)
  BY DEF SingletonRow
<1> DEFINE j == Min(RowEntries(ctx, i))
           new == UnderRow(i, j)
           action == [type |-> "SingletonRow", row |-> i, col |-> j, coeff |-> lp.a[i][j],
                      lo |-> ctx.rlo[i], up |-> ctx.rup[i]]
           z == Push([ctx EXCEPT !.lo[j] = new.lo, !.up[j] = new.up], action)
           y == RemoveRow(z, i)
<1>1. i \in ctx.rows
  BY DEF At, SingletonRows
<1>2. CASE new.lo > new.up
  BY <1>2 DEF Prove, NothingGone, SameActive, Shaped, Fields, Status
<1>3. CASE ~(new.lo > new.up)
  <2>1. ctx' = y
    BY <1>3 DEF Did
  <2>2. /\ DOMAIN z = Fields
        /\ z.rows = ctx.rows /\ z.cols = ctx.cols
        /\ z.rowDegree = ctx.rowDegree /\ z.colDegree = ctx.colDegree /\ z.nnz = ctx.nnz
        /\ z.stack = Append(ctx.stack, action) /\ z.status = ctx.status
    BY DEF Shaped, Fields, Push
  <2>3. action.type = "SingletonRow" /\ action.row = i
    OBVIOUS
  <2> HIDE DEF z, action
  <2>4. RowEntries(z, i) = RowEntries(ctx, i)
    BY <2>2 DEF RowEntries
  <2>5. SameActive(RemoveRow(ctx, i), y)
    BY <2>2, <2>4 DEF Shaped, Fields, RemoveRow, SameActive
  <2>6. y.stack = Append(ctx.stack, action) /\ y.status = ctx.status
    BY <2>2 DEF Fields, RemoveRow
  <2> HIDE DEF y
  <2> QED BY <1>1, <2>1, <2>3, <2>5, <2>6 DEF RowGone
<1> QED BY <1>2, <1>3

LEMMA SingletonColumnGone ==
    ASSUME Shaped(ctx), SingletonColumn
    PROVE  \E j \in Cols : ColGone(ctx, ctx', j)
<1> PICK j \in Cols : SingletonColumn!(j)
  BY DEF SingletonColumn
<1> DEFINE i == SubstitutionRow(j)
           a == lp.a[i][j]
           others == RowEntries(ctx, i) \ {j}
           action == [type |-> "SingletonColumn", col |-> j, row |-> i, coeff |-> a,
                      cost |-> ctx.c[j], rhs |-> ctx.rlo[i], others |-> others]
<1>1. j \in ctx.cols
  BY DEF At, SingletonCols
<1>0. PICK z : ctx' = RemoveCol(z, j) /\ SameActive(ctx, z)
                /\ z.stack = Append(ctx.stack, action) /\ z.status = ctx.status
  <2> DEFINE w == [ctx EXCEPT
                     !.c = [k \in Cols |-> IF k \in others
                                           THEN @[k] - Quotient(ctx.c[j] * lp.a[i][k], a) ELSE @[k]],
                     !.offset = @ + Quotient(ctx.c[j] * ctx.rlo[i], a),
                     !.rlo[i] = Carried(j, i).lo, !.rup[i] = Carried(j, i).up]
             z == Push(w, action)
  <2>1. ctx' = RemoveCol(z, j)
    BY DEF Did
  <2> HIDE DEF action, a, i, others
  <2>2. SameActive(ctx, w) /\ w.stack = ctx.stack /\ w.status = ctx.status
    BY DEF Shaped, Fields, SameActive
  <2> HIDE DEF w
  <2>3. SameActive(ctx, z) /\ z.stack = Append(ctx.stack, action) /\ z.status = ctx.status
    BY <2>2 DEF Shaped, Fields, SameActive, Push
  <2> QED BY <2>1, <2>3
<1>2. SameActive(RemoveCol(ctx, j), ctx')
  BY <1>0, RemoveColReads
<1>3. ctx'.stack = Append(ctx.stack, action) /\ ctx'.status = ctx.status
  BY <1>0, RemoveColReads
<1>4. action.type = "SingletonColumn" /\ action.col = j /\ action.others \subseteq ctx.cols \ {j}
  BY DEF RowEntries
<1> HIDE DEF action
<1> QED BY <1>1, <1>2, <1>3, <1>4 DEF ColGone

\* What one step of the run does to what is active.
LEMMA StepEffect ==
    ASSUME Shaped(ctx), ForcingRowActive, [Next]_vars
    PROVE  \/ NothingGone(ctx, ctx')
           \/ \E j \in Cols : ColGone(ctx, ctx', j)
           \/ \E i \in Rows : RowGone(ctx, ctx', i)
<1>a. ASSUME NEW status \in Status, ctx' = [ctx EXCEPT !.status = status]
      PROVE  NothingGone(ctx, ctx')
  BY <1>a DEF NothingGone, SameActive, Shaped, Fields
<1>b. ASSUME UNCHANGED ctx  PROVE NothingGone(ctx, ctx')
  BY <1>b DEF NothingGone, SameActive
<1>1. CASE UNCHANGED vars
  BY <1>1, <1>b DEF vars
<1>2. CASE BeginIteration
  BY <1>2, <1>a, <1>b DEF BeginIteration, Status
<1>3. CASE PassLimitReached \/ EndPart
  BY <1>3, <1>b DEF PassLimitReached, EndPart
<1>4. CASE EndIteration
  BY <1>4, <1>a, <1>b DEF EndIteration, Status
<1>5. CASE Finish
  BY <1>5, <1>a DEF Finish, FinalStatus, Proved, Status
<1>6. CASE EmptyRow
  <2> PICK i \in Rows : EmptyRow!(i)
    BY <1>6 DEF EmptyRow
  <2>1. i \in ctx.rows
    BY DEF At, EmptyRows
  <2> QED BY <1>a, <2>1, DropRowGone DEF Did, Prove, Status
<1>7. CASE EmptyColumn
  <2> PICK j \in Cols : EmptyColumn!(j)
    BY <1>7 DEF EmptyColumn
  <2>1. j \in ctx.cols
    BY DEF At, EmptyCols
  <2> QED BY <1>a, <2>1, FixVariableGone DEF Did, Prove, Status
<1>8. CASE FixedVariable
  <2> PICK j \in Cols : FixedVariable!(j)
    BY <1>8 DEF FixedVariable
  <2>1. j \in ctx.cols
    BY DEF At, ClosedCols
  <2> QED BY <1>a, <2>1, FixVariableGone DEF Did, Prove, Status
<1>9. CASE SingletonRow
  BY <1>9, SingletonRowGone
<1>10. CASE SingletonColumn
  BY <1>10, SingletonColumnGone
<1>11. CASE ForcingRedundancy
  <2> PICK i \in Rows : ForcingRedundancy!(i)
    BY <1>11 DEF ForcingRedundancy
  <2>1. i \in ctx.rows
    BY DEF At, ActivityRows
  <2> QED BY <1>a, <1>b, <2>1, DropRowGone DEF Did, Prove, Status
<1>12. CASE ForceColumn
  <2> DEFINE i == cursor
             k == Min(RowEntries(ctx, i))
  <2>1. i \in ctx.rows /\ ctx.rows \subseteq Rows /\ ctx.cols \subseteq Cols
    BY <1>12 DEF ForceColumn, ForcingRowActive, Shaped
  <2>2. CASE RowEntries(ctx, i) = {}
    BY <1>12, <2>1, <2>2, DropRowGone DEF ForceColumn
  <2>3. CASE RowEntries(ctx, i) # {}
    <3>1. k \in ctx.cols
      BY <2>3, RowEntriesLeast DEF RowEntries
    <3> QED BY <1>12, <2>1, <2>3, <3>1, FixVariableGone DEF ForceColumn
  <2> QED BY <2>2, <2>3
<1>13. CASE BoundTightening
  <2> PICK i \in Rows : BoundTightening!(i)
    BY <1>13 DEF BoundTightening
  <2>1. CASE Crosses(i) # {}
    BY <1>a, <2>1 DEF Prove, Status
  <2>2. CASE Crosses(i) = {}
    <3> DEFINE newLo == [k \in Cols |-> IF k \in Tightens(i) THEN NewLower(i, k) ELSE ctx.lo[k]]
               newUp == [k \in Cols |-> IF k \in Tightens(i) THEN NewUpper(i, k) ELSE ctx.up[k]]
    <3>1. ctx' = [ctx EXCEPT !.lo = newLo, !.up = newUp]
      BY <2>2 DEF Did
    <3> HIDE DEF newLo, newUp
    <3> QED BY <3>1 DEF NothingGone, SameActive, Shaped, Fields
  <2> QED BY <2>1, <2>2
<1> QED
  BY <1>1, <1>2, <1>3, <1>4, <1>5, <1>6, <1>7, <1>8, <1>9, <1>10, <1>11, <1>12, <1>13 DEF Next

\* Rows and columns are only ever taken away, and the model and the settings stay.
LEMMA Frame ==
    ASSUME [Next]_vars
    PROVE  UNCHANGED <<lp, options>>
  BY DEF Next, vars, args, BeginIteration, PassLimitReached, EndPart, EndIteration, Finish, EmptyRow,
         EmptyColumn, FixedVariable, SingletonRow, SingletonColumn, ForcingRedundancy, ForceColumn,
         BoundTightening, Did, Prove

LEMMA ExactStep ==
    ASSUME Shaped(ctx), Exact(ctx), ForcingRowActive, [Next]_vars
    PROVE  Shaped(ctx') /\ CachesExact'
<1>0. lp' = lp
  BY Frame
<1>1. ASSUME NothingGone(ctx, ctx')
      PROVE  Shaped(ctx') /\ Exact(ctx')
  BY <1>1, SameActiveExact DEF NothingGone
<1>2. ASSUME NEW j \in Cols, ColGone(ctx, ctx', j)
      PROVE  Shaped(ctx') /\ Exact(ctx')
  BY <1>2, RemoveColExact, SameActiveExact DEF ColGone
<1>3. ASSUME NEW i \in Rows, RowGone(ctx, ctx', i)
      PROVE  Shaped(ctx') /\ Exact(ctx')
  BY <1>3, RemoveRowExact, SameActiveExact DEF RowGone
<1>4. Shaped(ctx') /\ Exact(ctx')
  BY <1>1, <1>2, <1>3, StepEffect
<1> QED BY <1>0, <1>4 DEF Exact, CachesExact, RowEntries, ColEntries


-----------------------------------------------------------------------------
(* The stack.                                                              *)

\* Pushing keeps what is below.
LEMMA Pushed ==
    ASSUME NEW s, NEW e, NEW t, s \in Seq(ToSet(s)), t = Append(s, e)
    PROVE  /\ t \in Seq(ToSet(t))
           /\ Len(s) \in Nat /\ Len(t) = Len(s) + 1
           /\ DOMAIN s = 1..Len(s) /\ DOMAIN t = 1..Len(t)
           /\ \A k \in 1..Len(s) : t[k] = s[k]
           /\ t[Len(t)] = e
<1>1. s \in Seq(ToSet(s) \cup {e}) /\ e \in ToSet(s) \cup {e}
  BY SeqMonotonic
<1>2. /\ t \in Seq(ToSet(s) \cup {e})
      /\ Len(s) \in Nat /\ Len(t) = Len(s) + 1
      /\ DOMAIN s = 1..Len(s)
      /\ \A k \in 1..Len(s) : t[k] = s[k]
      /\ t[Len(t)] = e
  BY <1>1
<1>3. DOMAIN t = 1..Len(t) /\ t \in [1..Len(t) -> ToSet(s) \cup {e}]
  BY <1>2, LenProperties
<1>4. t \in Seq(ToSet(t))
  <2>1. \A k \in 1..Len(t) : t[k] \in ToSet(t)
    BY <1>3 DEF ToSet
  <2>2. t \in [1..Len(t) -> ToSet(t)]
    BY <1>3, <2>1
  <2>3. Len(t) \in Nat
    BY <1>2
  <2>4. Seq(ToSet(t)) = UNION {[1..n -> ToSet(t)] : n \in Nat}
    BY SeqDef
  <2>5. [1..Len(t) -> ToSet(t)] \in {[1..n -> ToSet(t)] : n \in Nat}
    BY <2>3
  <2> QED BY <2>2, <2>4, <2>5
<1> QED BY <1>2, <1>3, <1>4

\* The actions of a stack that restore column j, and row i.
ColRestorers(s, j) == {k \in DOMAIN s : s[k].type \in {"FixedVariable", "SingletonColumn"} /\ s[k].col = j}
RowRestorers(s, i) == {k \in DOMAIN s : s[k].type \in {"RedundantRow", "SingletonRow"} /\ s[k].row = i}

StackOK == ctx.stack \in Seq(ToSet(ctx.stack))

Records == StackOK /\ ActiveUnrecorded /\ RemovalsRecorded /\ OthersRecorded

LEMMA RecordsColGone ==
    ASSUME Shaped(ctx), Records, NEW j \in Cols, ColGone(ctx, ctx', j)
    PROVE  Records'
<1> DEFINE s == ctx.stack
           t == ctx'.stack
<1>1. PICK action :
          /\ t = Append(s, action)
          /\ action.type \in {"FixedVariable", "SingletonColumn"} /\ action.col = j
          /\ action.type = "SingletonColumn" => action.others \subseteq ctx.cols \ {j}
  BY DEF ColGone
<1>2. j \in ctx.cols /\ ctx'.cols = ctx.cols \ {j} /\ ctx'.rows = ctx.rows
  BY DEF ColGone, SameActive, RemoveCol, Shaped, Fields
<1>3. /\ t \in Seq(ToSet(t))
      /\ Len(s) \in Nat /\ Len(t) = Len(s) + 1
      /\ DOMAIN s = 1..Len(s) /\ DOMAIN t = 1..Len(t)
      /\ \A k \in 1..Len(s) : t[k] = s[k]
      /\ t[Len(t)] = action
  <2>1. s \in Seq(ToSet(s)) /\ t = Append(s, action)
    BY <1>1 DEF Records, StackOK
  <2> HIDE DEF s, t
  <2>2. s \in Seq(ToSet(s)) /\ t = Append(s, action) =>
            /\ t \in Seq(ToSet(t))
            /\ Len(s) \in Nat /\ Len(t) = Len(s) + 1
            /\ DOMAIN s = 1..Len(s) /\ DOMAIN t = 1..Len(t)
            /\ \A k \in 1..Len(s) : t[k] = s[k]
            /\ t[Len(t)] = action
    BY Pushed
  <2> QED BY <2>1, <2>2
<1> HIDE DEF s, t
<1>4. \A k \in DOMAIN t : k \in DOMAIN s \/ k = Len(t)
  BY <1>3
<1>5. Len(t) \in DOMAIN t /\ Len(t) \notin DOMAIN s
  BY <1>3
<1>6. ActiveUnrecorded'
  BY <1>1, <1>2, <1>3, <1>4 DEF Records, ActiveUnrecorded, s, t
<1>7. ColRestorers(t, j) = {Len(t)}
  <2>1. \A k \in DOMAIN s : ~(s[k].type \in {"FixedVariable", "SingletonColumn"} /\ s[k].col = j)
    BY <1>2 DEF Records, ActiveUnrecorded, s
  <2> QED BY <1>1, <1>3, <1>4, <1>5, <2>1 DEF ColRestorers
<1>8. \A k \in Cols : k # j => ColRestorers(t, k) = ColRestorers(s, k)
  BY <1>1, <1>3, <1>4 DEF ColRestorers
<1>9. \A i \in Rows : RowRestorers(t, i) = RowRestorers(s, i)
  BY <1>1, <1>3, <1>4 DEF RowRestorers
<1>10. RemovalsRecorded'
  <2>1. Cardinality(ColRestorers(t, j)) = 1
    BY <1>7, FS_Singleton
  <2>2. \A k \in Cols \ ctx.cols : Cardinality(ColRestorers(s, k)) = 1
    BY DEF Records, RemovalsRecorded, ColRestorers, s
  <2>3. \A k \in Cols \ ctx'.cols : Cardinality(ColRestorers(t, k)) = 1
    BY <1>2, <1>8, <2>1, <2>2
  <2>4. \A i \in Rows \ ctx'.rows : Cardinality(RowRestorers(t, i)) = 1
    BY <1>2, <1>9 DEF Records, RemovalsRecorded, RowRestorers, s
  <2> QED BY <2>3, <2>4 DEF RemovalsRecorded, ColRestorers, RowRestorers, t
<1>11. OthersRecorded'
  <2> SUFFICES ASSUME NEW n \in DOMAIN t, t[n].type = "SingletonColumn", NEW k \in t[n].others
               PROVE  k \in ctx'.cols \/ \E m \in (n + 1)..Len(t) :
                          t[m].type \in {"FixedVariable", "SingletonColumn"} /\ t[m].col = k
    BY DEF OthersRecorded, Known, t
  <2>1. CASE n = Len(t)
    BY <1>1, <1>2, <1>3, <2>1
  <2>2. CASE n \in DOMAIN s
    <3>1. k \in ctx.cols \/ \E m \in (n + 1)..Len(s) :
                          s[m].type \in {"FixedVariable", "SingletonColumn"} /\ s[m].col = k
      <4>1. t[n] = s[n]
        BY <1>3, <2>2
      <4>2. k \in Known(n)
        BY <2>2, <4>1 DEF Records, OthersRecorded, s
      <4> QED BY <4>2 DEF Known, s
    <3>2. CASE k \in ctx.cols
      BY <1>1, <1>2, <1>3, <2>2, <3>2
    <3>3. CASE \E m \in (n + 1)..Len(s) :
                          s[m].type \in {"FixedVariable", "SingletonColumn"} /\ s[m].col = k
      BY <1>3, <2>2, <3>3
    <3> QED BY <3>1, <3>2, <3>3
  <2> QED BY <1>4, <2>1, <2>2
<1> QED BY <1>3, <1>6, <1>10, <1>11 DEF Records, StackOK, t

LEMMA RecordsRowGone ==
    ASSUME Shaped(ctx), Records, NEW i \in Rows, RowGone(ctx, ctx', i)
    PROVE  Records'
<1> DEFINE s == ctx.stack
           t == ctx'.stack
<1>1. PICK action :
          /\ t = Append(s, action)
          /\ action.type \in {"RedundantRow", "SingletonRow"} /\ action.row = i
  BY DEF RowGone
<1>2. i \in ctx.rows /\ ctx'.rows = ctx.rows \ {i} /\ ctx'.cols = ctx.cols
  BY DEF RowGone, SameActive, RemoveRow, Shaped, Fields
<1>3. /\ t \in Seq(ToSet(t))
      /\ Len(s) \in Nat /\ Len(t) = Len(s) + 1
      /\ DOMAIN s = 1..Len(s) /\ DOMAIN t = 1..Len(t)
      /\ \A k \in 1..Len(s) : t[k] = s[k]
      /\ t[Len(t)] = action
  <2>1. s \in Seq(ToSet(s)) /\ t = Append(s, action)
    BY <1>1 DEF Records, StackOK
  <2> HIDE DEF s, t
  <2>2. s \in Seq(ToSet(s)) /\ t = Append(s, action) =>
            /\ t \in Seq(ToSet(t))
            /\ Len(s) \in Nat /\ Len(t) = Len(s) + 1
            /\ DOMAIN s = 1..Len(s) /\ DOMAIN t = 1..Len(t)
            /\ \A k \in 1..Len(s) : t[k] = s[k]
            /\ t[Len(t)] = action
    BY Pushed
  <2> QED BY <2>1, <2>2
<1> HIDE DEF s, t
<1>4. \A k \in DOMAIN t : k \in DOMAIN s \/ k = Len(t)
  BY <1>3
<1>5. Len(t) \in DOMAIN t /\ Len(t) \notin DOMAIN s
  BY <1>3
<1>6. ActiveUnrecorded'
  BY <1>1, <1>2, <1>3, <1>4 DEF Records, ActiveUnrecorded, s, t
<1>7. RowRestorers(t, i) = {Len(t)}
  <2>1. \A k \in DOMAIN s : ~(s[k].type \in {"RedundantRow", "SingletonRow"} /\ s[k].row = i)
    BY <1>2 DEF Records, ActiveUnrecorded, s
  <2> QED BY <1>1, <1>3, <1>4, <1>5, <2>1 DEF RowRestorers
<1>8. \A k \in Rows : k # i => RowRestorers(t, k) = RowRestorers(s, k)
  BY <1>1, <1>3, <1>4 DEF RowRestorers
<1>9. \A j \in Cols : ColRestorers(t, j) = ColRestorers(s, j)
  BY <1>1, <1>3, <1>4 DEF ColRestorers
<1>10. RemovalsRecorded'
  <2>1. Cardinality(RowRestorers(t, i)) = 1
    BY <1>7, FS_Singleton
  <2>2. \A k \in Rows \ ctx.rows : Cardinality(RowRestorers(s, k)) = 1
    BY DEF Records, RemovalsRecorded, RowRestorers, s
  <2>3. \A k \in Rows \ ctx'.rows : Cardinality(RowRestorers(t, k)) = 1
    BY <1>2, <1>8, <2>1, <2>2
  <2>4. \A j \in Cols \ ctx'.cols : Cardinality(ColRestorers(t, j)) = 1
    BY <1>2, <1>9 DEF Records, RemovalsRecorded, ColRestorers, s
  <2> QED BY <2>3, <2>4 DEF RemovalsRecorded, ColRestorers, RowRestorers, t
<1>11. OthersRecorded'
  <2> SUFFICES ASSUME NEW n \in DOMAIN t, t[n].type = "SingletonColumn", NEW k \in t[n].others
               PROVE  k \in ctx'.cols \/ \E m \in (n + 1)..Len(t) :
                          t[m].type \in {"FixedVariable", "SingletonColumn"} /\ t[m].col = k
    BY DEF OthersRecorded, Known, t
  <2>1. n \in DOMAIN s /\ t[n] = s[n]
    BY <1>1, <1>3, <1>4
  <2>2. k \in Known(n)
    BY <2>1 DEF Records, OthersRecorded, s
  <2>3. k \in ctx.cols \/ \E m \in (n + 1)..Len(s) :
                          s[m].type \in {"FixedVariable", "SingletonColumn"} /\ s[m].col = k
    BY <2>2 DEF Known, s
  <2> QED BY <1>2, <1>3, <2>1, <2>3
<1> QED BY <1>3, <1>6, <1>10, <1>11 DEF Records, StackOK, t

\* Every step keeps the records.
LEMMA RecordsStep ==
    ASSUME Shaped(ctx), ForcingRowActive, Records, [Next]_vars
    PROVE  Records'
<1>1. CASE NothingGone(ctx, ctx')
  <2>1. ctx'.stack = ctx.stack /\ ctx'.rows = ctx.rows /\ ctx'.cols = ctx.cols
    BY <1>1 DEF NothingGone, SameActive
  <2> QED BY <2>1 DEF Records, StackOK, ActiveUnrecorded, RemovalsRecorded, OthersRecorded, Known
<1> QED BY <1>1, RecordsColGone, RecordsRowGone, StepEffect

-----------------------------------------------------------------------------
(* The loops.                                                              *)

LEMMA PartNames ==
    /\ DOMAIN Parts = 1..7
    /\ ToSet(Parts) = {"emptyRows", "emptyCols", "fixed", "singletonRows", "singletonCols",
                       "forcing", "tightening"}
    /\ Parts[1] = "emptyRows" /\ Parts[2] = "emptyCols" /\ Parts[3] = "fixed"
    /\ Parts[4] = "singletonRows" /\ Parts[5] = "singletonCols" /\ Parts[6] = "forcing"
    /\ Parts[7] = "tightening"
    /\ \A n, m \in DOMAIN Parts : Parts[n] = Parts[m] => n = m
<1>1. DOMAIN Parts = 1..7 /\ ToSet(Parts) = {Parts[n] : n \in 1..7}
  BY DEF Parts, ToSet
<1>2. /\ Parts[1] = "emptyRows" /\ Parts[2] = "emptyCols" /\ Parts[3] = "fixed"
      /\ Parts[4] = "singletonRows" /\ Parts[5] = "singletonCols" /\ Parts[6] = "forcing"
      /\ Parts[7] = "tightening"
  BY DEF Parts
<1>3. \A n \in 1..7 : n = 1 \/ n = 2 \/ n = 3 \/ n = 4 \/ n = 5 \/ n = 6 \/ n = 7
  OBVIOUS
<1>4. {Parts[n] : n \in 1..7} = {"emptyRows", "emptyCols", "fixed", "singletonRows", "singletonCols",
                                  "forcing", "tightening"}
  BY <1>2, <1>3
<1> QED BY <1>1, <1>2, <1>3, <1>4

\* The part that runs next is the first enabled one; those between are not enabled.
LEMMA NextPart ==
    ASSUME NEW k \in 0..7
    PROVE  \/ /\ PartAfter(k) = "check"
              /\ \A n \in DOMAIN Parts : n > k => PassOf[Parts[n]] \notin options.enabled
           \/ \E m \in DOMAIN Parts :
              /\ m > k /\ PartAfter(k) = Parts[m]
              /\ \A n \in DOMAIN Parts : n > k /\ n < m => PassOf[Parts[n]] \notin options.enabled
<1> DEFINE later == {n \in DOMAIN Parts : n > k /\ PassOf[Parts[n]] \in options.enabled}
<1>1. PartAfter(k) = IF later = {} THEN "check" ELSE Parts[Min(later)]
  BY DEF PartAfter
<1>2. later \subseteq Nat
  BY PartNames
<1>3. CASE later = {}
  BY <1>1, <1>3
<1>4. CASE later # {}
  <2>1. Min(later) \in later /\ \A n \in later : Min(later) <= n
    BY <1>2, <1>4, MinIsLeast
  <2> DEFINE m == Min(later)
  <2>2. \A n \in DOMAIN Parts : n > k /\ n < m => n \notin later
    BY <2>1, PartNames
  <2>3. m \in DOMAIN Parts /\ m > k
    BY <2>1
  <2>4. \A n \in DOMAIN Parts : n > k /\ n < m => PassOf[Parts[n]] \notin options.enabled
    BY <2>2
  <2>5. PartAfter(k) = Parts[m]
    BY <1>1, <1>4
  <2> HIDE DEF m
  <2> QED BY <2>3, <2>4, <2>5
<1> QED BY <1>3, <1>4

\* The reductions of the passes.
PassStep ==
    \/ EmptyRow \/ EmptyColumn \/ FixedVariable \/ SingletonRow \/ SingletonColumn
    \/ ForcingRedundancy \/ ForceColumn \/ BoundTightening

\* Within an iteration the loops move their indices and stay in the iteration.
LEMMA PassStepSteers ==
    ASSUME ControlOK, PassStep
    PROVE  /\ InIteration /\ InIteration'
           /\ iter' = iter
           /\ reduced' \in {reduced, TRUE}
           /\ cursor' \in 0..Greater(M, N)
<1>1. \A k \in Rows \cup Cols : k \in 0..Greater(M, N)
  BY SizesAssumption DEF Rows, Cols, Greater
<1>2. cursor \in 0..Greater(M, N)
  BY DEF ControlOK
<1>a. ASSUME NEW k \in Rows \cup Cols, NEW x, Did(x, k), InIteration
      PROVE  InIteration' /\ iter' = iter /\ reduced' \in {reduced, TRUE} /\ cursor' \in 0..Greater(M, N)
  BY <1>a, <1>1 DEF Did, InIteration, args
<1>b. ASSUME NEW status, Prove(status)
      PROVE  InIteration' /\ iter' = iter /\ reduced' \in {reduced, TRUE} /\ cursor' \in 0..Greater(M, N)
  BY <1>b, <1>2 DEF Prove, InIteration, args
<1>3. CASE EmptyRow
  BY <1>3, <1>a, <1>b, PartNames DEF EmptyRow, At, InIteration
<1>4. CASE EmptyColumn
  BY <1>4, <1>a, <1>b, PartNames DEF EmptyColumn, At, InIteration
<1>5. CASE FixedVariable
  BY <1>5, <1>a, <1>b, PartNames DEF FixedVariable, At, InIteration
<1>6. CASE SingletonRow
  <2> PICK i \in Rows : SingletonRow!(i)
    BY <1>6 DEF SingletonRow
  <2>1. InIteration
    BY PartNames DEF At, InIteration
  <2>2. \/ Prove("Infeasible")
        \/ \E x : Did(x, i)
    OBVIOUS
  <2> QED BY <1>a, <1>b, <2>1, <2>2
<1>7. CASE SingletonColumn
  <2> PICK j \in Cols : SingletonColumn!(j)
    BY <1>7 DEF SingletonColumn
  <2>1. InIteration
    BY PartNames DEF At, InIteration
  <2>2. \E x : Did(x, j)
    OBVIOUS
  <2> QED BY <1>a, <2>1, <2>2
<1>8. CASE ForcingRedundancy
  <2> PICK i \in Rows : ForcingRedundancy!(i)
    BY <1>8 DEF ForcingRedundancy
  <2>1. InIteration
    BY PartNames DEF At, InIteration
  <2>2. CASE Impossible(i) \/ Redundant(i)
    BY <1>a, <1>b, <2>1, <2>2
  <2>3. CASE ~(Impossible(i) \/ Redundant(i))
    BY <1>1, <2>1, <2>3 DEF InIteration
  <2> QED BY <2>2, <2>3
<1>9. CASE ForceColumn
  BY <1>2, <1>9, PartNames DEF ForceColumn, InIteration, args
<1>10. CASE BoundTightening
  <2> PICK i \in Rows : BoundTightening!(i)
    BY <1>10 DEF BoundTightening
  <2>1. InIteration
    BY PartNames DEF At, InIteration
  <2>2. \/ Prove("Infeasible")
        \/ \E x : Did(x, i)
    OBVIOUS
  <2> QED BY <1>a, <1>b, <2>1, <2>2
<1> QED BY <1>3, <1>4, <1>5, <1>6, <1>7, <1>8, <1>9, <1>10 DEF PassStep

LEMMA ControlShaped ==
    ControlOK => Shaped(ctx) /\ StackOK
  BY DEF ControlOK, Shaped, StackOK

LEMMA ControlStep ==
    ASSUME ControlOK, CachesExact, ForcingRowActive, Records, [Next]_vars
    PROVE  ControlOK'
<1>1. Shaped(ctx') /\ StackOK'
  BY ControlShaped, ExactStep, RecordsStep DEF Exact, CachesExact, Records
<1>2. lp' \in Models /\ options' \in Settings /\ options' = options
  BY Frame DEF ControlOK
<1>3. ctx'.status \in Status
  <2>1. ctx'.status \in Status \cup {ctx.status}
    BY ControlShaped, StepEffect DEF NothingGone, ColGone, RowGone
  <2> QED BY <2>1 DEF ControlOK
<1>4. /\ pc' \in {"iterate", "forceLow", "forceHigh", "check", "finish", "done"} \cup ToSet(Parts)
      /\ cursor' \in 0..Greater(M, N)
      /\ iter' \in 0..options.max_passes
      /\ InIteration' => iter' < options.max_passes
      /\ reduced' \in BOOLEAN
  <2>0. /\ iter \in Nat /\ options.max_passes \in Nat /\ 0 \in 0..Greater(M, N)
        /\ \A k \in 0..7 : PartAfter(k) \in ToSet(Parts) \cup {"check"}
    <3>1. options.max_passes \in Nat
      BY SettingsAssumption DEF ControlOK, Setting
    <3>2. iter \in Nat
      BY <3>1 DEF ControlOK
    <3>3. 0 \in 0..Greater(M, N)
      BY SizesAssumption DEF Greater
    <3> QED BY <3>1, <3>2, <3>3, NextPart DEF ToSet
  <2>1. CASE UNCHANGED vars
    BY <2>1 DEF vars, ControlOK, InIteration
  <2>2. CASE BeginIteration
    <3>1. pc' \in ToSet(Parts) \cup {"check", "finish"} /\ cursor' = 0 /\ reduced' = FALSE
      BY <2>0, <2>2 DEF BeginIteration
    <3>2. iter' = iter /\ iter < options.max_passes /\ iter \in 0..options.max_passes
      BY <2>2 DEF BeginIteration, PassesLeft, ControlOK
    <3> QED BY <2>0, <3>1, <3>2 DEF InIteration
  <2>3. CASE PassLimitReached
    BY <2>3, PartNames DEF PassLimitReached, ControlOK, InIteration
  <2>4. CASE EndPart
    <3> PICK n \in DOMAIN Parts : EndPart!(n)
      BY <2>4 DEF EndPart
    <3>1. InIteration /\ pc' \in ToSet(Parts) \cup {"check"}
      BY <2>0, PartNames DEF InIteration, ToSet
    <3> QED BY <2>0, <3>1 DEF ControlOK
  <2>5. CASE EndIteration
    BY <2>0, <2>5, PartNames DEF EndIteration, ControlOK, InIteration
  <2>6. CASE Finish
    BY <2>6, PartNames DEF Finish, ControlOK, InIteration
  <2>7. CASE PassStep
    <3>1. /\ InIteration /\ InIteration' /\ iter' = iter
          /\ reduced' \in {reduced, TRUE} /\ cursor' \in 0..Greater(M, N)
      BY <2>7, PassStepSteers
    <3> QED BY <3>1 DEF ControlOK, InIteration
  <2> QED BY <2>1, <2>2, <2>3, <2>4, <2>5, <2>6, <2>7 DEF Next, PassStep
<1> QED BY <1>1, <1>2, <1>3, <1>4 DEF ControlOK, Shaped, StackOK

\* No step but these two begins or goes on fixing the columns of a forcing row.
LEMMA OnlyForcingForces ==
    ASSUME Next, ~ForcingRedundancy, ~ForceColumn
    PROVE  pc' \notin {"forceLow", "forceHigh"}
<1>1. \A k \in 0..7 : PartAfter(k) \notin {"forceLow", "forceHigh"}
  BY NextPart, PartNames
<1>2. CASE BeginIteration
  BY <1>1, <1>2 DEF BeginIteration
<1>3. CASE EndPart
  BY <1>1, <1>3, PartNames DEF EndPart
<1>4. CASE PassLimitReached \/ EndIteration \/ Finish
  BY <1>4 DEF PassLimitReached, EndIteration, Finish
<1>5. CASE EmptyRow \/ EmptyColumn \/ FixedVariable
  BY <1>5 DEF EmptyRow, EmptyColumn, FixedVariable, At, Did, Prove
<1>6. CASE SingletonRow
  BY <1>6 DEF SingletonRow, At, Did, Prove
<1>7. CASE SingletonColumn \/ BoundTightening
  BY <1>7 DEF SingletonColumn, BoundTightening, At, Did, Prove
<1> QED BY <1>2, <1>3, <1>4, <1>5, <1>6, <1>7 DEF Next

LEMMA ForcingRowStep ==
    ASSUME ControlOK, ForcingRowActive, [Next]_vars
    PROVE  ForcingRowActive'
<1> SUFFICES ASSUME pc' \in {"forceLow", "forceHigh"}
             PROVE  cursor' \in ctx'.rows
  BY DEF ForcingRowActive
<1>1. CASE UNCHANGED vars
  BY <1>1 DEF vars, ForcingRowActive
<1>2. CASE ForcingRedundancy
  BY <1>2 DEF ForcingRedundancy, At, ActivityRows, Prove, Did
<1>3. CASE ForceColumn
  <2>1. CASE RowEntries(ctx, cursor) = {}
    BY <1>3, <2>1 DEF ForceColumn
  <2>2. CASE RowEntries(ctx, cursor) # {}
    <3> DEFINE k == Min(RowEntries(ctx, cursor))
    <3>1. k \in ctx.cols
      BY <2>2, RowEntriesLeast, ControlShaped DEF RowEntries
    <3>2. \E v : ctx' = FixVariable(ctx, k, v)
      BY <1>3, <2>2 DEF ForceColumn
    <3>3. ctx'.rows = ctx.rows
      <4>1. SameActive(RemoveCol(ctx, k), ctx')
        BY <3>1, <3>2, FixVariableGone, ControlShaped DEF ColGone
      <4>2. RemoveCol(ctx, k).rows = ctx.rows
        BY ControlShaped DEF RemoveCol, Shaped, Fields
      <4> QED BY <4>1, <4>2 DEF SameActive
    <3> QED BY <1>3, <3>3 DEF ForceColumn, ForcingRowActive
  <2> QED BY <2>1, <2>2
<1>4. CASE Next /\ ~ForcingRedundancy /\ ~ForceColumn
  BY <1>4, OnlyForcingForces
<1> QED BY <1>1, <1>2, <1>3, <1>4

-----------------------------------------------------------------------------
(* The fixed point.                                                        *)

\* What the parts look for reads nothing of a context but these fields.
SameReads(x, y) ==
    /\ y.rows = x.rows /\ y.cols = x.cols
    /\ y.rowDegree = x.rowDegree /\ y.colDegree = x.colDegree
    /\ y.lo = x.lo /\ y.up = x.up /\ y.rlo = x.rlo /\ y.rup = x.rup

LEMMA WorkReads ==
    ASSUME lp' = lp, SameReads(ctx, ctx')
    PROVE  \A n \in DOMAIN Parts : Work(Parts[n])' = Work(Parts[n])
<1>1. /\ \A i : RowEntries(ctx, i)' = RowEntries(ctx, i)
      /\ \A j : ColEntries(ctx, j)' = ColEntries(ctx, j)
      /\ \A i, k : LowEnd(i, k)' = LowEnd(i, k) /\ HighEnd(i, k)' = HighEnd(i, k)
  BY DEF SameReads, RowEntries, ColEntries, LowEnd, HighEnd
<1>2. EmptyRows' = EmptyRows /\ EmptyCols' = EmptyCols /\ ClosedCols' = ClosedCols
  BY DEF SameReads, EmptyRows, EmptyCols, ClosedCols
<1>3. SingletonRows' = SingletonRows
  BY <1>1 DEF SameReads, SingletonRows
<1>4. SingletonCols' = SingletonCols
  <2>1. \A j : SubstitutionRow(j)' = SubstitutionRow(j)
    BY <1>1 DEF SubstitutionRow
  <2> QED BY <1>1, <2>1 DEF SameReads, SingletonCols
<1>5. \A i : LowOpen(i)' = LowOpen(i) /\ HighOpen(i)' = HighOpen(i)
  BY <1>1 DEF LowOpen, HighOpen
<1>6. \A i : MinActivity(i)' = MinActivity(i) /\ MaxActivity(i)' = MaxActivity(i)
  <2> TAKE i
  <2>1. /\ [k \in RowEntries(ctx, i) \ LowOpen(i) |-> lp.a[i][k] * LowEnd(i, k)]'
             = [k \in RowEntries(ctx, i) \ LowOpen(i) |-> lp.a[i][k] * LowEnd(i, k)]
        /\ [k \in RowEntries(ctx, i) \ HighOpen(i) |-> lp.a[i][k] * HighEnd(i, k)]'
             = [k \in RowEntries(ctx, i) \ HighOpen(i) |-> lp.a[i][k] * HighEnd(i, k)]
    BY <1>1, <1>5
  <2> QED BY <2>1 DEF MinActivity, MaxActivity
<1>7. ActivityRows' = ActivityRows
  <2>1. \A i : /\ Impossible(i)' = Impossible(i) /\ Redundant(i)' = Redundant(i)
               /\ ForcesLow(i)' = ForcesLow(i) /\ ForcesHigh(i)' = ForcesHigh(i)
    BY <1>5, <1>6 DEF SameReads, Impossible, Redundant, ForcesLow, ForcesHigh
  <2> QED BY <2>1 DEF SameReads, ActivityRows
<1>8. \A i, k : HighEndUnder(i, k)' = HighEndUnder(i, k)
  <2>1. \A i, k : HighRoom(i, k)' = HighRoom(i, k)
    BY <1>1, <1>5, <1>6 DEF SameReads, HighRoom
  <2> QED BY <1>1, <1>5, <2>1 DEF SameReads, HighEndUnder
<1>9. \A i, k : LowEndUnder(i, k)' = LowEndUnder(i, k)
  <2>1. \A i, k : OpenAbove(i, k)' = OpenAbove(i, k)
    BY <1>5, <1>8 DEF OpenAbove
  <2>2. \A i, k : LowRoom(i, k)' = LowRoom(i, k)
    BY <1>6, <1>8 DEF SameReads, LowRoom
  <2> QED BY <1>1, <2>1, <2>2 DEF SameReads, LowEndUnder
<1>10. TighteningRows' = TighteningRows
  <2>1. \A i, k : NewLower(i, k)' = NewLower(i, k) /\ NewUpper(i, k)' = NewUpper(i, k)
    BY <1>8, <1>9 DEF NewLower, NewUpper
  <2>2. \A i : Crosses(i)' = Crosses(i) /\ Tightens(i)' = Tightens(i)
    BY <1>1, <2>1 DEF SameReads, Crosses, Tightens
  <2> QED BY <2>2 DEF SameReads, TighteningRows
<1> QED BY <1>2, <1>3, <1>4, <1>7, <1>10 DEF Work

\* An index that a part works at is positive.
LEMMA WorkPositive ==
    ASSUME Shaped(ctx)
    PROVE  \A n \in DOMAIN Parts : Work(Parts[n]) \subseteq {k \in Nat : k > 0}
<1>1. /\ EmptyRows \subseteq Rows /\ EmptyCols \subseteq Cols /\ ClosedCols \subseteq Cols
      /\ SingletonRows \subseteq Rows /\ SingletonCols \subseteq Cols
      /\ ActivityRows \subseteq Rows /\ TighteningRows \subseteq Rows
  BY DEF Shaped, EmptyRows, EmptyCols, ClosedCols, SingletonRows, SingletonCols, ActivityRows, TighteningRows
<1>2. \A n \in DOMAIN Parts : Work(Parts[n]) \subseteq Rows \cup Cols
  BY <1>1, PartNames DEF Work
<1>3. Rows \cup Cols \subseteq {k \in Nat : k > 0}
  BY SizesAssumption DEF Rows, Cols
<1> QED BY <1>2, <1>3

\* A reduction or a proof leaves NothingLeft nothing to say.
LEMMA PassStepSays ==
    ASSUME PassStep
    PROVE  reduced' = TRUE \/ Proved(ctx') \/ pc' \in {"forceLow", "forceHigh"} \/ ~(DOMAIN ctx = Fields)
<1>a. ASSUME NEW status \in {"Infeasible", "Unbounded"}, Prove(status), DOMAIN ctx = Fields
      PROVE  Proved(ctx')
  BY <1>a DEF Prove, Proved, Fields
<1>1. CASE EmptyRow
  BY <1>1, <1>a DEF EmptyRow, Did
<1>2. CASE EmptyColumn
  BY <1>2, <1>a DEF EmptyColumn, Did
<1>3. CASE FixedVariable
  BY <1>3, <1>a DEF FixedVariable, Did
<1>4. CASE SingletonRow
  BY <1>4, <1>a DEF SingletonRow, Did
<1>5. CASE SingletonColumn
  BY <1>5, <1>a DEF SingletonColumn, Did
<1>6. CASE ForcingRedundancy
  BY <1>6, <1>a DEF ForcingRedundancy, Did
<1>7. CASE ForceColumn
  BY <1>7 DEF ForceColumn
<1>8. CASE BoundTightening
  BY <1>8, <1>a DEF BoundTightening, Did
<1> QED BY <1>1, <1>2, <1>3, <1>4, <1>5, <1>6, <1>7, <1>8 DEF PassStep

LEMMA NothingLeftStep ==
    ASSUME ControlOK, NothingLeft, [Next]_vars
    PROVE  NothingLeft'
<1> SUFFICES ASSUME ~reduced', ~Proved(ctx'), ctx'.cols # {}
             PROVE  /\ pc' = "iterate" => iter' = 0
                    /\ pc' \in ToSet(Parts) => cursor' = 0
                    /\ \A n \in DOMAIN Parts :
                          Ended(n)' /\ PassOf[Parts[n]] \in options'.enabled => Work(Parts[n])' = {}
  BY DEF NothingLeft
<1>0. lp' = lp /\ options' = options /\ DOMAIN ctx = Fields
  BY Frame DEF ControlOK
<1>a. ASSUME UNCHANGED ctx
      PROVE  \A n \in DOMAIN Parts : Work(Parts[n])' = Work(Parts[n])
  BY <1>0, <1>a, WorkReads DEF SameReads
<1>n. \A n \in DOMAIN Parts : n \in 1..7 /\ Parts[n] \in ToSet(Parts)
                             /\ Parts[n] \notin {"iterate", "forceLow", "forceHigh", "check", "finish", "done"}
  BY PartNames
<1>1. CASE UNCHANGED vars
  <2>1. ~reduced /\ ~Proved(ctx) /\ ctx.cols # {}
    BY <1>1 DEF vars
  <2> QED BY <1>1, <1>a, <2>1 DEF vars, NothingLeft, Ended
<1>2. CASE BeginIteration
  <2>1. UNCHANGED ctx /\ pc' = PartAfter(0) /\ cursor' = 0
    <3>1. CASE ctx.cols = {}
      <4>1. ctx'.cols = {}
        BY <1>0, <1>2, <3>1 DEF BeginIteration, Fields
      <4> QED BY <4>1
    <3> QED BY <1>2, <3>1 DEF BeginIteration
  <2>2. pc' \in ToSet(Parts) \cup {"check"}
    BY <2>1, NextPart DEF ToSet
  <2>3. \A n \in DOMAIN Parts : Ended(n)' => PassOf[Parts[n]] \notin options.enabled
    <3>1. \A n \in DOMAIN Parts : n > 0
      BY <1>n
    <3> QED BY <2>1, <3>1, <1>n, NextPart, PartNames DEF Ended
  <2> QED BY <1>0, <2>1, <2>2, <2>3, PartNames
<1>3. CASE PassLimitReached
  <2>1. pc' = "finish" /\ iter' = iter /\ iter = 0
    BY <1>3 DEF PassLimitReached, NothingLeft
  <2> QED BY <1>n, <2>1, PartNames DEF Ended
<1>4. CASE EndPart
  <2> PICK k \in DOMAIN Parts : EndPart!(k)
    BY <1>4 DEF EndPart
  <2>1. UNCHANGED ctx /\ cursor' = 0 /\ pc' = PartAfter(k) /\ ~reduced /\ ~Proved(ctx) /\ ctx.cols # {}
    OBVIOUS
  <2>2. cursor = 0
    BY <1>n, <2>1 DEF NothingLeft
  <2>3. Work(Parts[k]) = {}
    <3>1. \A l \in Work(Parts[k]) : l <= 0
      BY <2>2
    <3>2. Work(Parts[k]) \subseteq {l \in Nat : l > 0}
      BY WorkPositive, ControlShaped
    <3> QED BY <3>1, <3>2
  <2>4. \A n \in DOMAIN Parts : n < k /\ PassOf[Parts[n]] \in options.enabled => Work(Parts[n]) = {}
    BY <2>1 DEF NothingLeft, Ended
  <2>5. pc' \in ToSet(Parts) \cup {"check"}
    BY <1>n, <2>1, NextPart DEF ToSet
  <2>6. \A n \in DOMAIN Parts : Ended(n)' => n <= k \/ PassOf[Parts[n]] \notin options.enabled
    BY <1>n, <2>1, NextPart, PartNames DEF Ended
  <2>7. \A n \in DOMAIN Parts : n <= k => n < k \/ n = k
    BY <1>n
  <2> QED BY <1>0, <1>a, <2>1, <2>3, <2>4, <2>5, <2>6, <2>7, PartNames
<1>5. CASE EndIteration
  <2>1. UNCHANGED ctx
    <3>1. CASE ~Proved(ctx) /\ ctx.cols = {}
      <4>1. ctx'.cols = {}
        BY <1>0, <1>5, <3>1 DEF EndIteration, Fields
      <4> QED BY <4>1
    <3> QED BY <1>5, <3>1 DEF EndIteration
  <2>2. pc = "check" /\ pc' = "finish" /\ ~reduced /\ ~Proved(ctx) /\ ctx.cols # {}
    BY <1>5, <2>1 DEF EndIteration
  <2>3. \A n \in DOMAIN Parts : PassOf[Parts[n]] \in options.enabled => Work(Parts[n]) = {}
    BY <2>2 DEF NothingLeft, Ended
  <2> QED BY <1>0, <1>a, <2>1, <2>2, <2>3, PartNames
<1>6. CASE Finish
  <2>1. SameReads(ctx, ctx') /\ ctx'.status = FinalStatus
    BY <1>0, <1>6 DEF Finish, SameReads, Fields
  <2>2. ~reduced /\ ~Proved(ctx) /\ ctx.cols # {} /\ pc = "finish" /\ pc' = "done" /\ iter' = iter
    BY <1>6, <2>1 DEF Finish, FinalStatus, Proved, SameReads
  <2>3. \A n \in DOMAIN Parts : Ended(n)' => Ended(n)
    BY <1>n, <2>2 DEF Ended
  <2>4. \A n \in DOMAIN Parts : Work(Parts[n])' = Work(Parts[n])
    BY <1>0, <2>1, WorkReads
  <2> QED BY <1>0, <2>2, <2>3, <2>4, PartNames DEF NothingLeft
<1>7. CASE PassStep
  <2>1. pc' \in {"forceLow", "forceHigh"}
    BY <1>0, <1>7, PassStepSays
  <2> QED BY <1>n, <2>1, PartNames DEF Ended
<1> QED BY <1>1, <1>2, <1>3, <1>4, <1>5, <1>6, <1>7 DEF Next, PassStep

LEMMA ColumnsLeftStep ==
    ASSUME ControlOK, ColumnsLeft, [Next]_vars
    PROVE  ColumnsLeft'
<1> SUFFICES ASSUME pc' = "done", ctx'.status \in {"Reduced", "Unchanged"}
             PROVE  ctx'.cols # {}
  BY DEF ColumnsLeft
<1>0. DOMAIN ctx = Fields
  BY DEF ControlOK
<1>1. CASE UNCHANGED vars
  BY <1>1 DEF vars, ColumnsLeft
<1>2. CASE Finish
  <2>1. ctx'.status = FinalStatus /\ ctx'.cols = ctx.cols
    BY <1>0, <1>2 DEF Finish, Fields
  <2> QED BY <2>1 DEF FinalStatus, Proved
<1>3. CASE BeginIteration \/ EndPart
  BY <1>3, NextPart, PartNames DEF BeginIteration, EndPart
<1>4. CASE PassLimitReached \/ EndIteration
  BY <1>4 DEF PassLimitReached, EndIteration
<1>5. CASE PassStep
  BY <1>5, PassStepSteers, PartNames DEF InIteration
<1> QED BY <1>1, <1>2, <1>3, <1>4, <1>5 DEF Next, PassStep

-----------------------------------------------------------------------------
(* The invariant.                                                          *)

LEMMA InitActive == Init => ActiveInductive
<1> SUFFICES ASSUME Init  PROVE ActiveInductive
  OBVIOUS
<1>0. /\ DOMAIN ctx = Fields
      /\ ctx.rows = Rows /\ ctx.cols = Cols
      /\ ctx.rowDegree = [i \in Rows |-> Cardinality({j \in Cols : lp.a[i][j] # 0})]
      /\ ctx.colDegree = [j \in Cols |-> Cardinality({i \in Rows : lp.a[i][j] # 0})]
      /\ ctx.nnz = Cardinality({e \in Rows \X Cols : lp.a[e[1]][e[2]] # 0})
      /\ ctx.status \in {"Infeasible", "Unchanged"} /\ ctx.stack = <<>>
  BY DEF Init, NewContext, Fields
<1>1. /\ \A i : Cardinality({j \in Cols : lp.a[i][j] # 0}) \in Nat
      /\ \A j : Cardinality({i \in Rows : lp.a[i][j] # 0}) \in Nat
      /\ Cardinality({e \in Rows \X Cols : lp.a[e[1]][e[2]] # 0}) \in Nat
  <2>1. ASSUME NEW i  PROVE Cardinality({j \in Cols : lp.a[i][j] # 0}) \in Nat
    BY FiniteRowsAndCols, FS_Subset, FS_CardinalityType
  <2>2. ASSUME NEW j  PROVE Cardinality({i \in Rows : lp.a[i][j] # 0}) \in Nat
    BY FiniteRowsAndCols, FS_Subset, FS_CardinalityType
  <2>3. Cardinality({e \in Rows \X Cols : lp.a[e[1]][e[2]] # 0}) \in Nat
    BY FiniteRowsAndCols, FS_Subset, FS_CardinalityType
  <2> QED BY <2>1, <2>2, <2>3
<1>2. ControlOK
  <2>1. options.max_passes \in Nat
    BY SettingsAssumption DEF Init, Setting
  <2>2. 0 \in 0..Greater(M, N) /\ 0 \in 0..options.max_passes
    BY <2>1, SizesAssumption DEF Greater
  <2>3. ctx.stack \in Seq(ToSet(ctx.stack))
    BY <1>0, EmptySeq
  <2>4. ctx.rowDegree \in [Rows -> Nat]
    <3>1. \A i \in Rows : Cardinality({j \in Cols : lp.a[i][j] # 0}) \in Nat
      BY <1>1
    <3> QED BY <1>0, <3>1
  <2>5. ctx.colDegree \in [Cols -> Nat]
    <3>1. \A j \in Cols : Cardinality({i \in Rows : lp.a[i][j] # 0}) \in Nat
      BY <1>1
    <3> QED BY <1>0, <3>1
  <2>6. ctx.nnz \in Nat
    BY <1>0, <1>1
  <2> QED BY <1>0, <2>2, <2>3, <2>4, <2>5, <2>6, PartNames DEF Init, ControlOK, InIteration, Status
<1>3. CachesExact
  BY <1>0 DEF CachesExact, RowEntries, ColEntries
<1>4. ForcingRowActive /\ ColumnsLeft
  BY DEF Init, ForcingRowActive, ColumnsLeft
<1>5. NothingLeft
  BY PartNames DEF Init, NothingLeft, Ended
<1>6. ActiveUnrecorded /\ RemovalsRecorded /\ OthersRecorded
  <2>1. DOMAIN ctx.stack = {}
    BY <1>0
  <2> QED BY <1>0, <2>1 DEF ActiveUnrecorded, RemovalsRecorded, OthersRecorded
<1> QED BY <1>2, <1>3, <1>4, <1>5, <1>6 DEF ActiveInductive

LEMMA NextActive == ActiveInductive /\ [Next]_vars => ActiveInductive'
<1> SUFFICES ASSUME ActiveInductive, [Next]_vars  PROVE ActiveInductive'
  OBVIOUS
<1>1. Shaped(ctx) /\ Exact(ctx) /\ Records
  BY ControlShaped DEF ActiveInductive, Exact, CachesExact, Records
<1>2. CachesExact'
  BY <1>1, ExactStep DEF ActiveInductive
<1>3. Records'
  BY <1>1, RecordsStep DEF ActiveInductive
<1>4. ControlOK'
  BY <1>1, ControlStep DEF ActiveInductive
<1>5. ForcingRowActive' /\ NothingLeft' /\ ColumnsLeft'
  BY ForcingRowStep, NothingLeftStep, ColumnsLeftStep DEF ActiveInductive
<1> QED BY <1>2, <1>3, <1>4, <1>5 DEF ActiveInductive, Records

LEMMA ActiveInvariant == Spec => []ActiveInductive
  BY InitActive, NextActive, PTL DEF Spec

\* The cached degrees and the count of nonzeros, by which the passes decide and which
\* nothing recomputes, are those of what is active, whatever is removed and in which order.
THEOREM CachesCorrect == Spec => []CachesExact
  BY ActiveInvariant, PTL DEF ActiveInductive

\* Every column and row that is gone is restored by exactly one action.
THEOREM RemovalsOnce == Spec => []RemovalsRecorded
  BY ActiveInvariant, PTL DEF ActiveInductive

\* A run that no limit cut short leaves no empty and no singleton row, no empty and no
\* fixed column: the last iteration looked for each of them after anything had changed.
THEOREM FixedPointReached == Spec => []FixedPoint
<1>1. ActiveInductive => FixedPoint
  <2> SUFFICES ASSUME ActiveInductive, pc = "done", ~reduced, iter > 0, options.enabled = Passes,
                      ctx.status \in {"Reduced", "Unchanged"}
               PROVE  /\ \A i \in ctx.rows : Cardinality(RowEntries(ctx, i)) >= 2
                      /\ \A j \in ctx.cols : ColEntries(ctx, j) # {} /\ ctx.lo[j] < ctx.up[j]
    BY DEF FixedPoint
  <2>1. Shaped(ctx) /\ CachesExact
    BY ControlShaped DEF ActiveInductive
  <2>2. \A n \in DOMAIN Parts : PassOf[Parts[n]] \in Passes => Work(Parts[n]) = {}
    BY DEF ActiveInductive, NothingLeft, ColumnsLeft, Ended, Proved
  <2>3. EmptyRows = {} /\ EmptyCols = {} /\ ClosedCols = {} /\ SingletonRows = {}
    <3>1. \A n \in 1..4 : PassOf[Parts[n]] \in Passes
      BY PartNames DEF PassOf, Passes
    <3>2. Work(Parts[1]) = EmptyRows /\ Work(Parts[2]) = EmptyCols
          /\ Work(Parts[3]) = ClosedCols /\ Work(Parts[4]) = SingletonRows
      BY PartNames DEF Work
    <3> QED BY <2>2, <3>1, <3>2, PartNames
  <2>4. ASSUME NEW i \in ctx.rows  PROVE Cardinality(RowEntries(ctx, i)) >= 2
    <3>1. IsFiniteSet(RowEntries(ctx, i)) /\ Cardinality(RowEntries(ctx, i)) \in Nat
      BY <2>1, FiniteRowsAndCols, FS_Subset, FS_CardinalityType DEF RowEntries, Shaped
    <3>2. ctx.rowDegree[i] = Cardinality(RowEntries(ctx, i))
      BY <2>1 DEF CachesExact, Shaped
    <3>3. ctx.rowDegree[i] # 0 /\ ~(ctx.rowDegree[i] = 1 /\ RowEntries(ctx, i) # {})
      BY <2>3 DEF EmptyRows, SingletonRows
    <3>4. Cardinality(RowEntries(ctx, i)) # 1
      BY <3>1, <3>2, <3>3, FS_EmptySet
    <3> QED BY <3>1, <3>2, <3>3, <3>4
  <2>5. ASSUME NEW j \in ctx.cols  PROVE ColEntries(ctx, j) # {} /\ ctx.lo[j] < ctx.up[j]
    <3>1. ctx.colDegree[j] = Cardinality(ColEntries(ctx, j))
      BY <2>1 DEF CachesExact, Shaped
    <3>2. ctx.colDegree[j] # 0 /\ ctx.lo[j] < ctx.up[j]
      BY <2>3 DEF EmptyCols, ClosedCols
    <3> QED BY <3>1, <3>2, FS_EmptySet
  <2> QED BY <2>4, <2>5
<1> QED BY <1>1, ActiveInvariant, PTL

-----------------------------------------------------------------------------
(* Postsolve.                                                              *)

\* Solving and undoing leave presolve's result alone, so what holds of every run of
\* presolve holds while its actions are undone.
LEMMA PostsolveStep ==
    [PostNext]_allVars => [Next]_vars
  BY DEF PostNext, allVars, vars, PresolveStep, Solve, Undo, Recover

THEOREM PostsolveKeepsPresolve == PostSpec => Spec
  BY PostsolveStep, PTL DEF PostSpec, PostInit, Spec

\* When a substituted column is restored, every column it is computed from has its value:
\* undoing in the reverse order of recording is enough, whatever removed those columns.
THEOREM OthersAlwaysKnown == PostSpec => []OthersKnown
<1> DEFINE PostInductive == ActiveInductive /\ LeftOK
<1>1. PostInit => PostInductive
  BY InitActive DEF PostInit, LeftOK
<1>2. PostInductive /\ [PostNext]_allVars => PostInductive'
  <2> SUFFICES ASSUME PostInductive, [PostNext]_allVars  PROVE PostInductive'
    OBVIOUS
  <2>1. ActiveInductive'
    BY PostsolveStep, NextActive
  <2>2. Len(ctx.stack) \in Nat
    BY LenProperties DEF ActiveInductive, ControlOK
  <2>3. CASE UNCHANGED allVars
    BY <2>1, <2>3 DEF allVars, vars, postsolved, LeftOK
  <2>4. CASE PresolveStep \/ Recover
    BY <2>1, <2>4 DEF PresolveStep, Recover, postsolved, LeftOK
  <2>5. CASE Solve
    BY <2>1, <2>2, <2>5 DEF Solve, vars, LeftOK
  <2>6. CASE Undo
    <3>1. left \in 0..Len(ctx.stack) /\ left > 0 /\ left' = left - 1 /\ UNCHANGED ctx
      BY <2>6 DEF Undo, LeftOK, vars
    <3>2. left' \in 0..Len(ctx'.stack)
      BY <2>2, <3>1
    <3> QED BY <2>1, <3>2 DEF LeftOK
  <2> QED BY <2>3, <2>4, <2>5, <2>6 DEF PostNext
<1>3. PostInductive => OthersKnown
  <2> SUFFICES ASSUME PostInductive, phase = "undo", left > 0, NextAction.type = "SingletonColumn"
               PROVE  NextAction.others \subseteq Known(left)
    BY DEF OthersKnown
  <2>1. left \in DOMAIN ctx.stack
    <3>1. DOMAIN ctx.stack = 1..Len(ctx.stack) /\ Len(ctx.stack) \in Nat
      BY LenProperties DEF ActiveInductive, ControlOK
    <3> QED BY <3>1 DEF LeftOK
  <2> QED BY <2>1 DEF ActiveInductive, OthersRecorded, NextAction
<1> QED BY <1>1, <1>2, <1>3, PTL DEF PostSpec

-----------------------------------------------------------------------------
(* Integers.                                                               *)

LEMMA QuotientExact ==
    ASSUME NEW a, NEW v, Divides(a, v)
    PROVE  Quotient(v, a) \in Int /\ Quotient(v, a) * a = v
<1>1. Quotient(v, a) \in (-Infinity)..Infinity /\ Quotient(v, a) * a = v
  BY DEF Divides, Quotient
<1> QED BY <1>1, SizesAssumption

\* Multiplying by a positive number keeps an order, by a negative one turns it.
LEMMA ProductOrder ==
    ASSUME NEW a \in Int, NEW p \in Int, NEW q \in Int
    PROVE  /\ a > 0 => (p <= q <=> a * p <= a * q)
           /\ a < 0 => (q <= p <=> a * p <= a * q)
           /\ a # 0 /\ a * p = a * q => p = q
           /\ a * p \in Int
           /\ a * p = p * a
  OBVIOUS

-----------------------------------------------------------------------------
(* Products of two vectors, summed over some columns.                      *)

Vector == [Cols -> Int]
Terms(u, p) == [j \in Cols |-> u[j] * p[j]]
Dot(u, p, S) == SumFunction([j \in S |-> u[j] * p[j]])

LEMMA DotIsSum ==
    ASSUME NEW u \in Vector, NEW p \in Vector, NEW S, S \subseteq Cols
    PROVE  /\ Dot(u, p, S) = Sum(Terms(u, p), S)
           /\ IsFiniteSet(S) /\ IntegerOn(Terms(u, p), S)
           /\ \A j \in S : Terms(u, p)[j] = u[j] * p[j]
<1> DEFINE f == [j \in S |-> u[j] * p[j]]
<1>1. IsFiniteSet(S)
  BY FiniteRowsAndCols, FS_Subset
<1>2. Dot(u, p, S) = Sum(f, S)
  BY DEF Dot, SumFunction, Sum
<1>3. \A j \in S : f[j] = Terms(u, p)[j]
  BY DEF Terms
<1> HIDE DEF f
<1>4. Sum(f, S) = Sum(Terms(u, p), S)
  BY <1>1, <1>3, SumAgrees
<1>5. IntegerOn(Terms(u, p), S)
  BY DEF IntegerOn, Terms, Vector
<1> QED BY <1>1, <1>2, <1>4, <1>5 DEF Terms

LEMMA DotInteger ==
    ASSUME NEW u \in Vector, NEW p \in Vector, NEW S, S \subseteq Cols
    PROVE  Dot(u, p, S) \in Int
  BY DotIsSum, SumInteger

LEMMA DotTakes ==
    ASSUME NEW u \in Vector, NEW p \in Vector, NEW S, S \subseteq Cols, NEW j \in S
    PROVE  /\ Dot(u, p, S) = u[j] * p[j] + Dot(u, p, S \ {j})
           /\ Dot(u, p, S) \in Int /\ Dot(u, p, S \ {j}) \in Int /\ u[j] * p[j] \in Int
<1>1. Dot(u, p, S) = Sum(Terms(u, p), S) /\ Dot(u, p, S \ {j}) = Sum(Terms(u, p), S \ {j})
  BY DotIsSum
<1>2. Sum(Terms(u, p), S) = Terms(u, p)[j] + Sum(Terms(u, p), S \ {j})
  BY DotIsSum, SumTakes
<1>3. Terms(u, p)[j] = u[j] * p[j] /\ u[j] * p[j] \in Int
  BY DEF Terms, Vector
<1> QED BY <1>1, <1>2, <1>3, DotInteger

LEMMA DotWithoutZeros ==
    ASSUME NEW u \in Vector, NEW p \in Vector, NEW S, S \subseteq Cols, NEW Z, Z \subseteq S,
           \A j \in S \ Z : u[j] = 0
    PROVE  Dot(u, p, S) = Dot(u, p, Z)
<1>1. Dot(u, p, S) = Sum(Terms(u, p), S) /\ Dot(u, p, Z) = Sum(Terms(u, p), Z)
  BY DotIsSum
<1>2. \A j \in S \ Z : Terms(u, p)[j] = 0
  BY DEF Terms, Vector
<1>3. IsFiniteSet(S) /\ IntegerOn(Terms(u, p), S)
  BY DotIsSum
<1> QED BY <1>1, <1>2, <1>3, SumWithoutZeros

LEMMA DotAtMost ==
    ASSUME NEW u \in Vector, NEW p \in Vector, NEW q \in Vector, NEW S, S \subseteq Cols,
           \A j \in S : u[j] * p[j] <= u[j] * q[j]
    PROVE  /\ Dot(u, p, S) <= Dot(u, q, S)
           /\ Dot(u, q, S) <= Dot(u, p, S) => \A j \in S : u[j] * p[j] = u[j] * q[j]
<1>1. Dot(u, p, S) = Sum(Terms(u, p), S) /\ Dot(u, q, S) = Sum(Terms(u, q), S)
  BY DotIsSum
<1>2. \A j \in S : Terms(u, p)[j] = u[j] * p[j] /\ Terms(u, q)[j] = u[j] * q[j]
  BY DotIsSum
<1>3. IsFiniteSet(S) /\ IntegerOn(Terms(u, p), S) /\ IntegerOn(Terms(u, q), S)
  BY DotIsSum
<1>4. \A j \in S : Terms(u, p)[j] <= Terms(u, q)[j]
  BY <1>2
<1>5. Dot(u, p, S) <= Dot(u, q, S)
  BY <1>1, <1>3, <1>4, SumAtMost
<1>6. ASSUME Dot(u, q, S) <= Dot(u, p, S)
      PROVE  \A j \in S : Terms(u, p)[j] = Terms(u, q)[j]
  BY <1>1, <1>3, <1>4, <1>6, SumTight
<1> QED BY <1>2, <1>5, <1>6

\* A combination of two cost vectors costs the combination of their costs.
Combination(u, v, w, a, b, S) == \A j \in S : a * u[j] = a * v[j] - b * w[j]

LEMMA DotCombines ==
    ASSUME NEW u \in Vector, NEW v \in Vector, NEW w \in Vector, NEW p \in Vector,
           NEW S, S \subseteq Cols, NEW a \in Int, NEW b \in Int, Combination(u, v, w, a, b, S)
    PROVE  a * Dot(u, p, S) = a * Dot(v, p, S) - b * Dot(w, p, S)
<1>1. /\ Dot(u, p, S) = Sum(Terms(u, p), S)
      /\ Dot(v, p, S) = Sum(Terms(v, p), S)
      /\ Dot(w, p, S) = Sum(Terms(w, p), S)
  BY DotIsSum
<1>2. /\ IsFiniteSet(S) /\ IntegerOn(Terms(u, p), S) /\ IntegerOn(Terms(v, p), S)
      /\ IntegerOn(Terms(w, p), S)
  BY DotIsSum
<1>3. ASSUME NEW j \in S
      PROVE  a * Terms(u, p)[j] = (a * Terms(v, p)[j]) + ((-b) * Terms(w, p)[j])
  <2>1. u[j] \in Int /\ v[j] \in Int /\ w[j] \in Int /\ p[j] \in Int
    BY <1>3 DEF Vector
  <2>2. /\ Terms(u, p)[j] = u[j] * p[j] /\ Terms(v, p)[j] = v[j] * p[j]
        /\ Terms(w, p)[j] = w[j] * p[j]
    BY <1>3, DotIsSum
  <2> DEFINE k == u[j]  l == v[j]  m == w[j]  n == p[j]
  <2>3. a * k = a * l - b * m
    BY <1>3 DEF Combination
  <2> HIDE DEF k, l, m, n
  <2>4. k \in Int /\ l \in Int /\ m \in Int /\ n \in Int
    BY <2>1 DEF k, l, m, n
  <2>5. (a * k) * n = (a * l - b * m) * n
    BY <2>3
  <2>6. a * (k * n) = (a * (l * n)) + ((-b) * (m * n))
    BY <2>4, <2>5
  <2> QED BY <2>2, <2>6 DEF k, l, m, n
<1>4. -b \in Int
  OBVIOUS
<1>5. a * Sum(Terms(u, p), S) = (a * Sum(Terms(v, p), S)) + ((-b) * Sum(Terms(w, p), S))
  <2> DEFINE f == Terms(u, p)  g == Terms(v, p)  h == Terms(w, p)  c == -b
  <2>1. Combines(f, g, h, a, a, c, S)
    BY <1>3 DEF Combines
  <2>2. IntegerOn(f, S) /\ IntegerOn(g, S) /\ IntegerOn(h, S) /\ IsFiniteSet(S) /\ c \in Int
    BY <1>2, <1>4
  <2> HIDE DEF f, g, h, c
  <2>3. a * Sum(f, S) = (a * Sum(g, S)) + (c * Sum(h, S))
    BY <2>1, <2>2, SumCombines
  <2> QED BY <2>3 DEF f, g, h, c
<1>6. Sum(Terms(v, p), S) \in Int /\ Sum(Terms(w, p), S) \in Int
  BY <1>2, SumInteger
<1>7. \A m, n \in Int : (a * m) + ((-b) * n) = a * m - b * n
  OBVIOUS
<1>8. (a * Dot(v, p, S)) + ((-b) * Dot(w, p, S)) = a * Dot(v, p, S) - b * Dot(w, p, S)
  BY <1>1, <1>6, <1>7
<1> QED BY <1>1, <1>5, <1>8

-----------------------------------------------------------------------------
(* The model, the points and the numbers of a working model.               *)

ModelOK == (\A i \in Rows : lp.a[i] \in Vector) /\ lp.c \in Vector /\ lp.offset \in Int

\* NumbersOK of any context.
Numbers(x) ==
    /\ x.lo \in Vector /\ x.up \in Vector /\ x.c \in Vector
    /\ x.rlo \in [Rows -> Int] /\ x.rup \in [Rows -> Int] /\ x.offset \in Int

\* A point whose numbers are below the threshold.
Small(p) == p \in Vector /\ SmallPoint(p)

\* What SolutionsFit says of one point.
Kept(x, p) == Fits(x, p) /\ ObjectiveIn(x, p) <= Objective(p)

LEMMA ModelIsOK ==
    ControlOK => ModelOK
  BY ModelsAssumption DEF ControlOK, ModelOK, Model, Vector

LEMMA PointsAreSmall ==
    ASSUME SmallPoints, NEW p \in Feasible(Points)
    PROVE  Small(p)
  BY PointsAssumption DEF SmallPoints, Small, SmallPoint, Feasible, Vector

LEMMA ActivityIsDot ==
    \A i, p, S : Activity(i, p, S) = Dot(lp.a[i], p, S)
  BY DEF Activity, Dot

LEMMA ObjectiveIsDot ==
    /\ \A x, p : ObjectiveIn(x, p) = x.offset + Dot(x.c, p, x.cols)
    /\ \A p : Objective(p) = lp.offset + Dot(lp.c, p, Cols)
  BY DEF ObjectiveIn, Objective, Dot

\* The entries of a row carry its activity.
LEMMA ActivityOfEntries ==
    ASSUME ModelOK, NEW x, Shaped(x), NEW p \in Vector, NEW i \in Rows
    PROVE  /\ Activity(i, p, x.cols) = Dot(lp.a[i], p, RowEntries(x, i))
           /\ Activity(i, p, x.cols) \in Int
<1>1. x.cols \subseteq Cols /\ RowEntries(x, i) \subseteq x.cols /\ lp.a[i] \in Vector
  BY DEF Shaped, RowEntries, ModelOK
<1>2. \A j \in x.cols \ RowEntries(x, i) : lp.a[i][j] = 0
  BY DEF RowEntries
<1>3. Dot(lp.a[i], p, x.cols) = Dot(lp.a[i], p, RowEntries(x, i))
  BY <1>1, <1>2, DotWithoutZeros
<1> QED BY <1>1, <1>3, ActivityIsDot, DotInteger

-----------------------------------------------------------------------------
(* Fixing a column, dropping a row.                                        *)

LEMMA FixVariableFields ==
    ASSUME NEW x, Shaped(x), NEW j \in x.cols, NEW v
    PROVE  LET y == FixVariable(x, j, v)
               shifted(i, b) == IF i \in ColEntries(x, j) /\ Finite(b) THEN b - lp.a[i][j] * v ELSE b
           IN /\ DOMAIN y = Fields
              /\ y.rows = x.rows /\ y.cols = x.cols \ {j}
              /\ y.lo = [x.lo EXCEPT ![j] = v] /\ y.up = [x.up EXCEPT ![j] = v]
              /\ y.c = x.c /\ y.offset = x.offset + x.c[j] * v
              /\ y.rlo = [i \in Rows |-> shifted(i, x.rlo[i])]
              /\ y.rup = [i \in Rows |-> shifted(i, x.rup[i])]
              /\ y.status = x.status
<1> DEFINE shifted(i, b) == IF i \in ColEntries(x, j) /\ Finite(b) THEN b - lp.a[i][j] * v ELSE b
           newLow == [i \in Rows |-> shifted(i, x.rlo[i])]
           newUp == [i \in Rows |-> shifted(i, x.rup[i])]
           w == [x EXCEPT !.lo[j] = v, !.up[j] = v,
                          !.offset = @ + x.c[j] * v,
                          !.rlo = [i \in Rows |-> shifted(i, @[i])],
                          !.rup = [i \in Rows |-> shifted(i, @[i])]]
           action == [type |-> "FixedVariable", col |-> j, val |-> v, cost |-> x.c[j]]
           z == Push(w, action)
<1>1. FixVariable(x, j, v) = RemoveCol(z, j)
  BY DEF FixVariable
<1> HIDE DEF action
<1>2. /\ w.rlo = newLow /\ w.rup = newUp
      /\ DOMAIN w = Fields
      /\ w.rows = x.rows /\ w.cols = x.cols /\ w.status = x.status
      /\ w.lo = [x.lo EXCEPT ![j] = v] /\ w.up = [x.up EXCEPT ![j] = v]
      /\ w.c = x.c /\ w.offset = x.offset + x.c[j] * v
  <2> HIDE DEF shifted
  <2> QED BY DEF Shaped, Fields
<1> HIDE DEF w
<1>3. /\ z.rlo = newLow /\ z.rup = newUp
      /\ DOMAIN z = Fields
      /\ z.rows = x.rows /\ z.cols = x.cols /\ z.status = x.status
      /\ z.lo = [x.lo EXCEPT ![j] = v] /\ z.up = [x.up EXCEPT ![j] = v]
      /\ z.c = x.c /\ z.offset = x.offset + x.c[j] * v
  <2> HIDE DEF newLow, newUp
  <2> QED BY <1>2 DEF Push, Fields
<1> HIDE DEF z, newLow, newUp
<1>4. LET y == RemoveCol(z, j)
      IN  /\ y.rlo = z.rlo /\ y.rup = z.rup /\ DOMAIN y = DOMAIN z
          /\ y.rows = z.rows /\ y.cols = z.cols \ {j} /\ y.status = z.status
          /\ y.lo = z.lo /\ y.up = z.up /\ y.c = z.c /\ y.offset = z.offset
  BY <1>3 DEF RemoveCol, Fields
<1> QED BY <1>1, <1>3, <1>4 DEF newLow, newUp

LEMMA FixVariableBox ==
    ASSUME NEW x, Shaped(x), NEW j \in x.cols, NEW v
    PROVE  /\ FixVariable(x, j, v).cols = x.cols \ {j}
           /\ FixVariable(x, j, v).lo = [x.lo EXCEPT ![j] = v]
           /\ FixVariable(x, j, v).up = [x.up EXCEPT ![j] = v]
<1> DEFINE y == FixVariable(x, j, v)
           shifted(i, b) == IF i \in ColEntries(x, j) /\ Finite(b) THEN b - lp.a[i][j] * v ELSE b
<1>1. /\ y.rows = x.rows /\ y.cols = x.cols \ {j}
      /\ y.lo = [x.lo EXCEPT ![j] = v] /\ y.up = [x.up EXCEPT ![j] = v]
      /\ y.rlo = [i \in Rows |-> shifted(i, x.rlo[i])]
      /\ y.rup = [i \in Rows |-> shifted(i, x.rup[i])]
  BY FixVariableFields
<1> QED BY <1>1

\* A column is fixed at its value in p, or is in no row and costs no more than in p.
LEMMA FixVariableKeeps ==
    ASSUME ModelOK, NEW x, Shaped(x), Numbers(x), NEW j \in x.cols, NEW v \in Int,
           NEW p, Small(p), Kept(x, p),
           p[j] = v \/ (ColEntries(x, j) = {} /\ x.c[j] * v <= x.c[j] * p[j])
    PROVE  Kept(FixVariable(x, j, v), p)
<1> DEFINE y == FixVariable(x, j, v)
           shifted(i, b) == IF i \in ColEntries(x, j) /\ Finite(b) THEN b - lp.a[i][j] * v ELSE b
<1>1. /\ y.rows = x.rows /\ y.cols = x.cols \ {j}
      /\ y.lo = [x.lo EXCEPT ![j] = v] /\ y.up = [x.up EXCEPT ![j] = v]
      /\ y.c = x.c /\ y.offset = x.offset + x.c[j] * v
      /\ y.rlo = [i \in Rows |-> shifted(i, x.rlo[i])]
      /\ y.rup = [i \in Rows |-> shifted(i, x.rup[i])]
  BY FixVariableFields
<1> HIDE DEF y
<1>2. x.cols \subseteq Cols /\ x.rows \subseteq Rows /\ p \in Vector /\ j \in Cols /\ p[j] \in Int
  BY DEF Shaped, Small, SmallPoint, Vector
<1>3. \A k \in y.cols : y.lo[k] = x.lo[k] /\ y.up[k] = x.up[k]
  BY <1>1, <1>2 DEF Numbers, Vector
<1>4. ASSUME NEW i \in x.rows
      PROVE  /\ y.rlo[i] > -Threshold => y.rlo[i] <= Activity(i, p, y.cols)
             /\ y.rup[i] < Threshold => Activity(i, p, y.cols) <= y.rup[i]
  <2> DEFINE A == Activity(i, p, x.cols)
             B == Activity(i, p, y.cols)
             t == lp.a[i][j] * p[j]
             s == lp.a[i][j] * v
             low == x.rlo[i]
             high == x.rup[i]
  <2>1. A = t + B /\ A \in Int /\ B \in Int /\ t \in Int
    <3> DEFINE u == lp.a[i]
    <3>1. u \in Vector
      BY <1>2, <1>4 DEF ModelOK
    <3> HIDE DEF u
    <3>2. /\ Dot(u, p, x.cols) = u[j] * p[j] + Dot(u, p, x.cols \ {j})
          /\ Dot(u, p, x.cols) \in Int /\ Dot(u, p, x.cols \ {j}) \in Int /\ u[j] * p[j] \in Int
      BY <1>2, <3>1, DotTakes
    <3> QED BY <1>1, <3>2, ActivityIsDot DEF u
  <2>2. s \in Int /\ low \in Int /\ high \in Int
    BY <1>2, <1>4 DEF ModelOK, Numbers, Vector
  <2>3. Finite(A) /\ Finite(B)
    BY <1>1, <1>2, <1>4 DEF Small, SmallPoint
  <2>4. (low > -Threshold => low <= A) /\ (high < Threshold => A <= high)
    BY <1>4 DEF Kept, Fits
  <2>5. y.rlo[i] = shifted(i, low) /\ y.rup[i] = shifted(i, high)
    BY <1>1, <1>2, <1>4
  <2>6. CASE i \in ColEntries(x, j)
    <3>1. s = t
      BY <2>6
    <3>2. y.rlo[i] = (IF Finite(low) THEN low - s ELSE low) /\ y.rup[i] = (IF Finite(high) THEN high - s ELSE high)
      BY <2>5, <2>6
    <3> HIDE DEF A, B, t, s, low, high
    <3> QED BY <2>1, <2>2, <2>3, <2>4, <3>1, <3>2, SizesAssumption DEF Finite, B
  <2>7. CASE i \notin ColEntries(x, j)
    <3>1. lp.a[i][j] = 0
      BY <1>4, <2>7 DEF ColEntries
    <3>2. t = 0
      BY <1>2, <3>1
    <3> HIDE DEF t, A
    <3>3. A = B
      BY <2>1, <3>2
    <3> QED BY <2>4, <2>5, <2>7, <3>3
  <2> QED BY <2>6, <2>7
<1>5. Fits(y, p)
  BY <1>1, <1>3, <1>4 DEF Kept, Fits
<1>6. ObjectiveIn(y, p) <= Objective(p)
  <2> DEFINE D == Dot(x.c, p, x.cols)
             E == Dot(x.c, p, x.cols \ {j})
             t == x.c[j] * p[j]
             s == x.c[j] * v
  <2>1. D = t + E /\ D \in Int /\ E \in Int /\ t \in Int
    <3> DEFINE u == x.c
    <3>1. u \in Vector
      BY DEF Numbers
    <3> HIDE DEF u
    <3>2. /\ Dot(u, p, x.cols) = u[j] * p[j] + Dot(u, p, x.cols \ {j})
          /\ Dot(u, p, x.cols) \in Int /\ Dot(u, p, x.cols \ {j}) \in Int /\ u[j] * p[j] \in Int
      BY <1>2, <3>1, DotTakes
    <3> QED BY <3>2 DEF u
  <2>2. s \in Int /\ x.offset \in Int /\ s <= t
    BY <1>2, <2>1 DEF Numbers, Vector
  <2>3. ObjectiveIn(y, p) = x.offset + s + E /\ ObjectiveIn(x, p) = x.offset + D
    BY <1>1, ObjectiveIsDot
  <2>4. Objective(p) \in Int
    BY <1>2, ObjectiveIsDot, DotInteger DEF ModelOK
  <2>5. ObjectiveIn(x, p) <= Objective(p)
    BY DEF Kept
  <2> HIDE DEF D, E, t, s
  <2> QED BY <2>1, <2>2, <2>3, <2>4, <2>5
<1>7. Kept(y, p)
  BY <1>5, <1>6 DEF Kept
<1> QED BY <1>7 DEF y

LEMMA FixVariableNumbers ==
    ASSUME ModelOK, NEW x, Shaped(x), Numbers(x), NEW j \in x.cols, NEW v \in Int
    PROVE  Numbers(FixVariable(x, j, v))
<1> DEFINE y == FixVariable(x, j, v)
           shifted(i, b) == IF i \in ColEntries(x, j) /\ Finite(b) THEN b - lp.a[i][j] * v ELSE b
<1>1. /\ y.lo = [x.lo EXCEPT ![j] = v] /\ y.up = [x.up EXCEPT ![j] = v]
      /\ y.c = x.c /\ y.offset = x.offset + x.c[j] * v
      /\ y.rlo = [i \in Rows |-> shifted(i, x.rlo[i])]
      /\ y.rup = [i \in Rows |-> shifted(i, x.rup[i])]
  BY FixVariableFields
<1> HIDE DEF y
<1>2. j \in Cols
  BY DEF Shaped
<1>3. \A f \in Vector : [f EXCEPT ![j] = v] \in Vector
  BY DEF Vector
<1>4. y.lo \in Vector /\ y.up \in Vector /\ y.c \in Vector
  BY <1>1, <1>3 DEF Numbers
<1>5. \A i \in Rows, b \in Int : shifted(i, b) \in Int
  BY <1>2 DEF ModelOK, Vector
<1>6. y.rlo \in [Rows -> Int] /\ y.rup \in [Rows -> Int]
  <2> HIDE DEF shifted
  <2> QED BY <1>1, <1>5 DEF Numbers
<1>7. y.offset \in Int
  BY <1>1, <1>2 DEF Numbers, Vector
<1>8. Numbers(y)
  BY <1>4, <1>6, <1>7 DEF Numbers
<1> QED BY <1>8 DEF y

\* y is x without row i, its other numbers unchanged.
RowDropped(x, y, i) ==
    /\ y.rows = x.rows \ {i} /\ y.cols = x.cols
    /\ y.lo = x.lo /\ y.up = x.up /\ y.c = x.c /\ y.offset = x.offset
    /\ y.rlo = x.rlo /\ y.rup = x.rup

LEMMA DropRowFields ==
    ASSUME NEW x, Shaped(x), NEW i
    PROVE  RowDropped(x, DropRow(x, i), i)
  BY DEF RowDropped, DropRow, RemoveRow, Push, Shaped, Fields

LEMMA RowDroppedKeeps ==
    ASSUME NEW x, NEW y, NEW i, RowDropped(x, y, i)
    PROVE  /\ Numbers(x) => Numbers(y)
           /\ \A p : Kept(x, p) => Kept(y, p)
  BY DEF RowDropped, Numbers, Kept, Fits, ObjectiveIn

-----------------------------------------------------------------------------
(* A singleton row becomes bounds of its column.                           *)

LEMMA OnlyEntry ==
    ASSUME Shaped(ctx), Exact(ctx), NEW i \in SingletonRows
    PROVE  RowEntries(ctx, i) = {Min(RowEntries(ctx, i))} /\ Min(RowEntries(ctx, i)) \in ctx.cols
<1> DEFINE j == Min(RowEntries(ctx, i))
<1>1. i \in ctx.rows /\ i \in Rows /\ RowEntries(ctx, i) # {} /\ ctx.rowDegree[i] = 1
  BY DEF SingletonRows, Shaped
<1>2. Cardinality(RowEntries(ctx, i)) = 1
  BY <1>1 DEF Exact
<1>3. j \in RowEntries(ctx, i)
  BY <1>1, RowEntriesLeast
<1>4. IsFiniteSet(RowEntries(ctx, i))
  BY FiniteRowsAndCols, FS_Subset DEF RowEntries, Shaped
<1>5. Cardinality(RowEntries(ctx, i) \ {j}) = 0 /\ IsFiniteSet(RowEntries(ctx, i) \ {j})
  BY <1>2, <1>3, <1>4, FS_RemoveElement
<1>6. RowEntries(ctx, i) \ {j} = {}
  BY <1>5, FS_EmptySet
<1> QED BY <1>3, <1>6 DEF RowEntries

\* The divisions of a singleton row come out even.
RowDivides(i, j) ==
    /\ ctx.rlo[i] > -Threshold => Divides(lp.a[i][j], ctx.rlo[i])
    /\ ctx.rup[i] < Threshold => Divides(lp.a[i][j], ctx.rup[i])

LEMMA ImpliedIsInteger ==
    ASSUME NEW i, NEW j, RowDivides(i, j)
    PROVE  Implied(i, j).lo \in Int /\ Implied(i, j).up \in Int
  BY QuotientExact, SizesAssumption DEF RowDivides, Implied

LEMMA ImpliedHolds ==
    ASSUME NEW i, NEW j, RowDivides(i, j), NEW v \in Int,
           lp.a[i][j] \in Int, lp.a[i][j] # 0, ctx.rlo[i] \in Int, ctx.rup[i] \in Int,
           ctx.rlo[i] > -Threshold => ctx.rlo[i] <= lp.a[i][j] * v,
           ctx.rup[i] < Threshold => lp.a[i][j] * v <= ctx.rup[i]
    PROVE  /\ Implied(i, j).lo > -Threshold => Implied(i, j).lo <= v
           /\ Implied(i, j).up < Threshold => v <= Implied(i, j).up
<1> DEFINE a == lp.a[i][j]
           q == Quotient(ctx.rlo[i], a)
           r == Quotient(ctx.rup[i], a)
<1>1. ctx.rlo[i] > -Threshold => q \in Int /\ a * q <= a * v
  <2>1. ctx.rlo[i] > -Threshold => q \in Int /\ q * a = ctx.rlo[i]
    BY QuotientExact DEF RowDivides
  <2>2. q \in Int => a * q = q * a
    OBVIOUS
  <2> QED BY <2>1, <2>2
<1>2. ctx.rup[i] < Threshold => r \in Int /\ a * v <= a * r
  <2>1. ctx.rup[i] < Threshold => r \in Int /\ r * a = ctx.rup[i]
    BY QuotientExact DEF RowDivides
  <2>2. r \in Int => a * r = r * a
    OBVIOUS
  <2> QED BY <2>1, <2>2
<1>3. a > 0 \/ a < 0
  OBVIOUS
<1>4. a \in Int
  OBVIOUS
<1>5. /\ q \in Int /\ a * q <= a * v => (a > 0 => q <= v) /\ (a < 0 => v <= q)
      /\ r \in Int /\ a * v <= a * r => (a > 0 => v <= r) /\ (a < 0 => r <= v)
  <2> HIDE DEF a, q, r
  <2> QED BY <1>4, ProductOrder
<1>6. CASE a > 0
  BY <1>1, <1>2, <1>5, <1>6, SizesAssumption DEF Implied
<1>7. CASE a < 0
  BY <1>1, <1>2, <1>5, <1>7, SizesAssumption DEF Implied
<1> QED BY <1>3, <1>6, <1>7

\* A singleton row reads its only entry.
LEMMA SingletonReads ==
    ASSUME ModelOK, Shaped(ctx), NEW i \in ctx.rows, NEW j \in ctx.cols, RowEntries(ctx, i) = {j}, NEW p \in Vector
    PROVE  Activity(i, p, ctx.cols) = lp.a[i][j] * p[j]
<1> DEFINE u == lp.a[i]
           S == {j}
<1>1. Activity(i, p, ctx.cols) = Dot(u, p, S)
  BY ActivityOfEntries DEF Shaped
<1>2. u \in Vector /\ S \subseteq Cols /\ j \in S /\ S \ {j} = {}
  BY DEF ModelOK, Shaped
<1> HIDE DEF u, S
<1>3. Dot(u, p, S) = u[j] * p[j] + Dot(u, p, S \ {j}) /\ u[j] * p[j] \in Int
  BY <1>2, DotTakes
<1>4. Dot(u, p, S \ {j}) = 0
  <2>1. Dot(u, p, {}) = Sum(Terms(u, p), {})
    BY <1>2, DotIsSum
  <2> QED BY <1>2, <2>1, SumEmpty
<1> QED BY <1>1, <1>3, <1>4 DEF u

LEMMA UnderRowHolds ==
    ASSUME ModelOK, Shaped(ctx), Exact(ctx), Numbers(ctx), NEW i \in SingletonRows,
           RowDivides(i, Min(RowEntries(ctx, i)))
    PROVE  LET j == Min(RowEntries(ctx, i))
               new == UnderRow(i, j)
           IN /\ new.lo \in Int /\ new.up \in Int
              /\ \A p : Small(p) /\ Kept(ctx, p) =>
                    /\ new.lo > -Threshold => new.lo <= p[j]
                    /\ new.up < Threshold => p[j] <= new.up
                    /\ new.lo <= new.up
<1> DEFINE j == Min(RowEntries(ctx, i))
           new == UnderRow(i, j)
<1>1. i \in ctx.rows /\ i \in Rows /\ RowEntries(ctx, i) = {j} /\ j \in ctx.cols /\ j \in Cols
  BY OnlyEntry DEF SingletonRows, Shaped
<1>2. lp.a[i] \in Vector /\ lp.a[i][j] \in Int /\ lp.a[i][j] # 0
  BY <1>1 DEF ModelOK, Vector, RowEntries
<1>3. ctx.lo[j] \in Int /\ ctx.up[j] \in Int /\ ctx.rlo[i] \in Int /\ ctx.rup[i] \in Int
  BY <1>1 DEF Numbers, Vector
<1>4. Implied(i, j).lo \in Int /\ Implied(i, j).up \in Int
  BY ImpliedIsInteger
<1>5. new.lo = Greater(ctx.lo[j], Implied(i, j).lo) /\ new.up = Lesser(ctx.up[j], Implied(i, j).up)
  BY DEF UnderRow
<1>6. ASSUME NEW p, Small(p), Kept(ctx, p)
      PROVE  /\ new.lo > -Threshold => new.lo <= p[j]
             /\ new.up < Threshold => p[j] <= new.up
             /\ new.lo <= new.up
  <2>1. p \in Vector /\ p[j] \in Int /\ Finite(p[j])
    BY <1>1, <1>6 DEF Small, SmallPoint, Vector
  <2>2. Activity(i, p, ctx.cols) = lp.a[i][j] * p[j]
    BY <1>1, <2>1, SingletonReads
  <2>3. /\ ctx.rlo[i] > -Threshold => ctx.rlo[i] <= lp.a[i][j] * p[j]
        /\ ctx.rup[i] < Threshold => lp.a[i][j] * p[j] <= ctx.rup[i]
        /\ ctx.lo[j] > -Threshold => ctx.lo[j] <= p[j]
        /\ ctx.up[j] < Threshold => p[j] <= ctx.up[j]
    BY <1>1, <1>6, <2>2 DEF Kept, Fits
  <2>4. /\ Implied(i, j).lo > -Threshold => Implied(i, j).lo <= p[j]
        /\ Implied(i, j).up < Threshold => p[j] <= Implied(i, j).up
    BY <1>2, <1>3, <2>1, <2>3, ImpliedHolds
  <2> HIDE DEF j, new
  <2>5. (new.lo > -Threshold => new.lo <= p[j]) /\ (new.up < Threshold => p[j] <= new.up)
    BY <1>3, <1>4, <1>5, <2>1, <2>3, <2>4, SizesAssumption DEF Greater, Lesser
  <2>6. new.lo \in Int /\ new.up \in Int
    BY <1>3, <1>4, <1>5 DEF Greater, Lesser
  <2> QED BY <2>1, <2>5, <2>6, SizesAssumption DEF Finite
<1> HIDE DEF new
<1>7. new.lo \in Int /\ new.up \in Int
  BY <1>3, <1>4, <1>5 DEF Greater, Lesser
<1> QED BY <1>6, <1>7 DEF new

\* y is ctx with row i turned into the bounds of column j.
RowBecameBounds(y, i, j, low, high) ==
    /\ y.rows = ctx.rows \ {i} /\ y.cols = ctx.cols
    /\ y.lo = [ctx.lo EXCEPT ![j] = low] /\ y.up = [ctx.up EXCEPT ![j] = high]
    /\ y.c = ctx.c /\ y.offset = ctx.offset /\ y.rlo = ctx.rlo /\ y.rup = ctx.rup
    /\ y.status = ctx.status

LEMMA RowBecameBoundsKeeps ==
    ASSUME Shaped(ctx), NEW y, NEW i, NEW j \in ctx.cols, NEW low \in Int, NEW high \in Int,
           RowBecameBounds(y, i, j, low, high)
    PROVE  /\ Numbers(ctx) => Numbers(y)
           /\ \A p : /\ Numbers(ctx) /\ Kept(ctx, p)
                     /\ low > -Threshold => low <= p[j]
                     /\ high < Threshold => p[j] <= high
                     => Kept(y, p)
<1>1. j \in Cols /\ ctx.cols \subseteq Cols
  BY DEF Shaped
<1>2. ASSUME Numbers(ctx)
      PROVE  Numbers(y)
  <2>1. \A f \in Vector : [f EXCEPT ![j] = low] \in Vector /\ [f EXCEPT ![j] = high] \in Vector
    BY DEF Vector
  <2> QED BY <1>2, <2>1 DEF Numbers, RowBecameBounds
<1>3. ASSUME NEW p, Numbers(ctx), Kept(ctx, p),
             low > -Threshold => low <= p[j],
             high < Threshold => p[j] <= high
      PROVE  Kept(y, p)
  <2>1. ASSUME NEW k \in y.cols
        PROVE  (y.lo[k] > -Threshold => y.lo[k] <= p[k]) /\ (y.up[k] < Threshold => p[k] <= y.up[k])
    <3>1. k \in ctx.cols /\ ctx.lo \in [Cols -> Int] /\ ctx.up \in [Cols -> Int]
      BY <1>3, <2>1 DEF RowBecameBounds, Numbers, Vector
    <3>2. CASE k = j
      BY <1>1, <1>3, <3>1, <3>2 DEF RowBecameBounds
    <3>3. CASE k # j
      <4>1. y.lo[k] = ctx.lo[k] /\ y.up[k] = ctx.up[k]
        BY <1>1, <3>1, <3>3 DEF RowBecameBounds
      <4> QED BY <1>3, <3>1, <4>1 DEF Kept, Fits
    <3> QED BY <3>2, <3>3
  <2>2. \A k \in y.rows : /\ y.rlo[k] > -Threshold => y.rlo[k] <= Activity(k, p, y.cols)
                          /\ y.rup[k] < Threshold => Activity(k, p, y.cols) <= y.rup[k]
    BY <1>3 DEF Kept, Fits, RowBecameBounds
  <2>3. Fits(y, p)
    BY <2>1, <2>2 DEF Fits
  <2>4. ObjectiveIn(y, p) = ObjectiveIn(ctx, p)
    BY DEF ObjectiveIn, RowBecameBounds
  <2> QED BY <1>3, <2>3, <2>4 DEF Kept
<1> QED BY <1>2, <1>3

-----------------------------------------------------------------------------
(* A singleton column is substituted through its row.                      *)

LEMMA OnlyRow ==
    ASSUME Shaped(ctx), Exact(ctx), NEW j \in SingletonCols
    PROVE  ColEntries(ctx, j) = {SubstitutionRow(j)} /\ SubstitutionRow(j) \in ctx.rows
<1> DEFINE i == SubstitutionRow(j)
<1>1. j \in ctx.cols /\ j \in Cols /\ ColEntries(ctx, j) # {} /\ ctx.colDegree[j] = 1
  BY DEF SingletonCols, Shaped
<1>2. Cardinality(ColEntries(ctx, j)) = 1
  BY <1>1 DEF Exact
<1>3. i \in ColEntries(ctx, j)
  BY <1>1, ColEntriesLeast DEF SubstitutionRow
<1>4. IsFiniteSet(ColEntries(ctx, j))
  BY FiniteRowsAndCols, FS_Subset DEF ColEntries, Shaped
<1>5. Cardinality(ColEntries(ctx, j) \ {i}) = 0 /\ IsFiniteSet(ColEntries(ctx, j) \ {i})
  BY <1>2, <1>3, <1>4, FS_RemoveElement
<1>6. ColEntries(ctx, j) \ {i} = {}
  BY <1>5, FS_EmptySet
<1> QED BY <1>3, <1>6 DEF ColEntries

\* The costs after the substitution of column j through row i.
CostsWithout(j, i) ==
    [k \in Cols |-> IF k \in RowEntries(ctx, i) \ {j}
                    THEN ctx.c[k] - Quotient(ctx.c[j] * lp.a[i][k], lp.a[i][j]) ELSE ctx.c[k]]

\* y is ctx with column j substituted through row i.
ColumnSubstituted(y, j, i) ==
    /\ y.rows = ctx.rows /\ y.cols = ctx.cols \ {j}
    /\ y.lo = ctx.lo /\ y.up = ctx.up
    /\ y.c = CostsWithout(j, i)
    /\ y.offset = ctx.offset + Quotient(ctx.c[j] * ctx.rlo[i], lp.a[i][j])
    /\ y.rlo = [ctx.rlo EXCEPT ![i] = Carried(j, i).lo]
    /\ y.rup = [ctx.rup EXCEPT ![i] = Carried(j, i).up]
    /\ y.status = ctx.status

\* The divisions of a singleton column come out even.
ColumnDivides(j, i) ==
    /\ Divides(lp.a[i][j], ctx.c[j] * ctx.rlo[i])
    /\ \A k \in RowEntries(ctx, i) : Divides(lp.a[i][j], ctx.c[j] * lp.a[i][k])

LEMMA CostsWithoutExact ==
    ASSUME ModelOK, Shaped(ctx), Numbers(ctx), NEW j \in ctx.cols, NEW i \in ctx.rows, ColumnDivides(j, i)
    PROVE  /\ CostsWithout(j, i) \in Vector
           /\ \A k \in ctx.cols \ {j} :
                  lp.a[i][j] * CostsWithout(j, i)[k] = lp.a[i][j] * ctx.c[k] - ctx.c[j] * lp.a[i][k]
<1> DEFINE a == lp.a[i][j]
           d == CostsWithout(j, i)
           q(k) == Quotient(ctx.c[j] * lp.a[i][k], a)
<1>1. j \in Cols /\ i \in Rows /\ ctx.cols \subseteq Cols /\ lp.a[i] \in [Cols -> Int] /\ ctx.c \in [Cols -> Int]
  BY DEF Shaped, ModelOK, Numbers, Vector
<1>2. \A k \in RowEntries(ctx, i) : q(k) \in Int /\ q(k) * a = ctx.c[j] * lp.a[i][k]
  BY QuotientExact DEF ColumnDivides
<1>3. \A k \in Cols : d[k] = IF k \in RowEntries(ctx, i) \ {j} THEN ctx.c[k] - q(k) ELSE ctx.c[k]
  BY DEF CostsWithout
<1>4. d \in Vector
  <2>1. \A k \in Cols : d[k] \in Int
    <3> HIDE DEF q, d
    <3> QED BY <1>1, <1>2, <1>3
  <2> QED BY <2>1 DEF CostsWithout, Vector
<1>5. ASSUME NEW k \in ctx.cols \ {j}
      PROVE  a * d[k] = a * ctx.c[k] - ctx.c[j] * lp.a[i][k]
  <2>1. k \in Cols /\ a \in Int /\ ctx.c[k] \in Int /\ ctx.c[j] \in Int /\ lp.a[i][k] \in Int
    BY <1>1, <1>5
  <2>2. CASE k \in RowEntries(ctx, i)
    <3>1. d[k] = ctx.c[k] - q(k) /\ q(k) \in Int /\ q(k) * a = ctx.c[j] * lp.a[i][k]
      BY <1>2, <1>3, <1>5, <2>1, <2>2
    <3> DEFINE e == q(k)
               f == ctx.c[k]
    <3>2. e \in Int /\ f \in Int /\ a \in Int
      BY <2>1, <3>1
    <3>3. a * (f - e) = a * f - e * a
      <4> HIDE DEF e, f, a
      <4> QED BY <3>2
    <3> QED BY <3>1, <3>3
  <2>3. CASE k \notin RowEntries(ctx, i)
    <3>1. lp.a[i][k] = 0 /\ d[k] = ctx.c[k]
      BY <1>3, <1>5, <2>1, <2>3 DEF RowEntries
    <3>2. ctx.c[j] * lp.a[i][k] = 0 /\ a * ctx.c[k] \in Int
      BY <2>1, <3>1
    <3> QED BY <3>1, <3>2
  <2> QED BY <2>2, <2>3
<1> QED BY <1>4, <1>5

LEMMA CarriedHolds ==
    ASSUME NEW j, NEW i, ctx.lo[j] \in Int, ctx.up[j] \in Int, ctx.rlo[i] \in Int,
           lp.a[i][j] \in Int, lp.a[i][j] # 0
    PROVE  /\ Carried(j, i).lo \in Int /\ Carried(j, i).up \in Int
           /\ \A v, b \in Int :
                /\ ctx.lo[j] > -Threshold => ctx.lo[j] <= v
                /\ ctx.up[j] < Threshold => v <= ctx.up[j]
                /\ ctx.rlo[i] = lp.a[i][j] * v + b
                => /\ Carried(j, i).lo > -Threshold => Carried(j, i).lo <= b
                   /\ Carried(j, i).up < Threshold => b <= Carried(j, i).up
<1> DEFINE a == lp.a[i][j]
           most == IF a > 0 THEN ctx.up[j] ELSE ctx.lo[j]
           least == IF a > 0 THEN ctx.lo[j] ELSE ctx.up[j]
           r == ctx.rlo[i]
<1>1. a \in Int /\ a # 0 /\ most \in Int /\ least \in Int /\ r \in Int
  OBVIOUS
<1>2. /\ Carried(j, i).lo = IF Finite(most) THEN r - a * most ELSE -Threshold
      /\ Carried(j, i).up = IF Finite(least) THEN r - a * least ELSE Threshold
  BY DEF Carried
<1>3. ASSUME NEW v \in Int,
             ctx.lo[j] > -Threshold => ctx.lo[j] <= v,
             ctx.up[j] < Threshold => v <= ctx.up[j]
      PROVE  /\ Finite(most) => a * v <= a * most
             /\ Finite(least) => a * least <= a * v
  <2>1. /\ Finite(most) => IF a > 0 THEN v <= most ELSE most <= v
        /\ Finite(least) => IF a > 0 THEN least <= v ELSE v <= least
    BY <1>3 DEF Finite
  <2>2. /\ a > 0 => (v <= most <=> a * v <= a * most) /\ (least <= v <=> a * least <= a * v)
        /\ a < 0 => (most <= v <=> a * v <= a * most) /\ (v <= least <=> a * least <= a * v)
    <3> HIDE DEF a, most, least
    <3> QED BY <1>1, <1>3, ProductOrder
  <2>3. a > 0 \/ a < 0
    BY <1>1
  <2> HIDE DEF a, most, least
  <2> QED BY <2>1, <2>2, <2>3
<1>4. a * most \in Int /\ a * least \in Int /\ \A v \in Int : a * v \in Int
  <2> HIDE DEF a, most, least
  <2> QED BY <1>1
<1>5. -Threshold \in Int /\ Threshold \in Int
  BY SizesAssumption
<1>6. Carried(j, i).lo \in Int /\ Carried(j, i).up \in Int
  <2> HIDE DEF a, most, least, r
  <2> QED BY <1>1, <1>2, <1>4, <1>5
<1>7. ASSUME NEW v \in Int, NEW b \in Int,
             ctx.lo[j] > -Threshold => ctx.lo[j] <= v,
             ctx.up[j] < Threshold => v <= ctx.up[j],
             r = a * v + b
      PROVE  /\ Carried(j, i).lo > -Threshold => Carried(j, i).lo <= b
             /\ Carried(j, i).up < Threshold => b <= Carried(j, i).up
  <2>1. /\ Finite(most) => a * v <= a * most
        /\ Finite(least) => a * least <= a * v
    BY <1>3, <1>7
  <2> HIDE DEF a, most, least, r
  <2>2. a * v \in Int
    BY <1>4
  <2> DEFINE t == a * v
             m == a * most
             l == a * least
  <2>3. t \in Int /\ m \in Int /\ l \in Int /\ r = t + b /\ r \in Int
    BY <1>1, <1>4, <1>7, <2>2
  <2>4. (Finite(most) => t <= m) /\ (Finite(least) => l <= t)
    BY <2>1
  <2>5. /\ Carried(j, i).lo = IF Finite(most) THEN r - m ELSE -Threshold
        /\ Carried(j, i).up = IF Finite(least) THEN r - l ELSE Threshold
    BY <1>2
  <2> HIDE DEF t, m, l
  <2> QED BY <1>5, <2>3, <2>4, <2>5
<1> QED BY <1>6, <1>7

\* The algebra of the substituted cost.
LEMMA SubstitutionCosts ==
    ASSUME NEW a \in Int, a # 0, NEW t \in Int, NEW r \in Int, NEW v \in Int, NEW b \in Int,
           NEW d \in Int, NEW e \in Int, NEW q \in Int,
           q * a = t * r, r = a * v + b, a * e = a * d - t * b
    PROVE  q + e = t * v + d
<1>1. t * r = a * (t * v) + t * b
  <2>1. t * (a * v + b) = t * (a * v) + t * b
    BY Distributes
  <2>2. t * (a * v) = a * (t * v)
    OBVIOUS
  <2> QED BY <2>1, <2>2
<1>2. a * (q + e) = a * q + a * e /\ a * (t * v + d) = a * (t * v) + a * d
  <2>1. t * v \in Int
    OBVIOUS
  <2> QED BY <2>1, Distributes
<1>3. a * q = q * a
  OBVIOUS
<1> DEFINE x == q + e
           y == t * v + d
<1>4. x \in Int /\ y \in Int /\ a * (t * v) \in Int /\ t * b \in Int /\ a * d \in Int /\ a * q \in Int
  OBVIOUS
<1>5. a * x = a * y
  BY <1>1, <1>2, <1>3, <1>4
<1> HIDE DEF x, y
<1>6. x = y
  BY <1>4, <1>5, ProductOrder
<1> QED BY <1>6 DEF x, y

LEMMA ColumnSubstitutedNumbers ==
    ASSUME ModelOK, Shaped(ctx), Numbers(ctx), NEW j \in ctx.cols, NEW i \in ctx.rows, lp.a[i][j] # 0,
           ColumnDivides(j, i), NEW y, ColumnSubstituted(y, j, i)
    PROVE  Numbers(y)
<1>1. i \in Rows /\ j \in Cols
  BY DEF Shaped
<1>2. /\ lp.a[i][j] \in Int /\ ctx.lo[j] \in Int /\ ctx.up[j] \in Int /\ ctx.rlo[i] \in Int
      /\ ctx.offset \in Int
  BY <1>1 DEF ModelOK, Numbers, Vector
<1>3. Carried(j, i).lo \in Int /\ Carried(j, i).up \in Int
  BY <1>2, CarriedHolds
<1>4. Quotient(ctx.c[j] * ctx.rlo[i], lp.a[i][j]) \in Int
  BY QuotientExact DEF ColumnDivides
<1>5. y.c \in Vector
  BY CostsWithoutExact DEF ColumnSubstituted
<1>6. y.rlo \in [Rows -> Int] /\ y.rup \in [Rows -> Int]
  BY <1>1, <1>3 DEF ColumnSubstituted, Numbers
<1>7. y.offset \in Int
  BY <1>2, <1>4 DEF ColumnSubstituted
<1> QED BY <1>5, <1>6, <1>7 DEF ColumnSubstituted, Numbers

LEMMA ColumnSubstitutedKeeps ==
    ASSUME ModelOK, Shaped(ctx), Exact(ctx), Numbers(ctx), NEW j \in SingletonCols,
           ColumnDivides(j, SubstitutionRow(j)), NEW y, ColumnSubstituted(y, j, SubstitutionRow(j)),
           NEW p, Small(p), Kept(ctx, p)
    PROVE  Kept(y, p)
<1> DEFINE i == SubstitutionRow(j)
           u == lp.a[i]
           a == u[j]
           v == p[j]
           S == ctx.cols \ {j}
           B == Dot(u, p, S)
           r == ctx.rlo[i]
<1>0. /\ j \in ctx.cols /\ j \in Cols /\ i \in ctx.rows /\ i \in Rows /\ ctx.cols \subseteq Cols
      /\ ctx.rlo[i] = ctx.rup[i] /\ ctx.rows \subseteq Rows
  BY OnlyRow DEF SingletonCols, Shaped
<1>1. /\ u \in Vector /\ p \in Vector /\ ctx.c \in Vector /\ a \in Int /\ a # 0
      /\ v \in Int /\ r \in Int /\ ctx.c[j] \in Int /\ ctx.offset \in Int
      /\ ctx.lo[j] \in Int /\ ctx.up[j] \in Int
  <2>1. i \in ColEntries(ctx, j)
    BY OnlyRow
  <2> QED BY <1>0, <2>1 DEF ModelOK, Numbers, Small, Vector, ColEntries
<1>2. /\ Activity(i, p, ctx.cols) = a * v + B
      /\ Activity(i, p, S) = B
      /\ B \in Int /\ Activity(i, p, ctx.cols) \in Int
  <2>1. /\ Dot(u, p, ctx.cols) = u[j] * p[j] + Dot(u, p, ctx.cols \ {j})
        /\ Dot(u, p, ctx.cols) \in Int /\ Dot(u, p, ctx.cols \ {j}) \in Int
    <3> DEFINE w == u
               T == ctx.cols
    <3>1. w \in Vector /\ p \in Vector /\ T \subseteq Cols /\ j \in T
      BY <1>0, <1>1
    <3> HIDE DEF w, T
    <3>2. /\ Dot(w, p, T) = w[j] * p[j] + Dot(w, p, T \ {j})
          /\ Dot(w, p, T) \in Int /\ Dot(w, p, T \ {j}) \in Int
      BY <3>1, DotTakes
    <3> QED BY <3>2 DEF w, T
  <2> QED BY <2>1, ActivityIsDot
<1>3. r = a * v + B
  <2> DEFINE A == Activity(i, p, ctx.cols)
  <2>1. Finite(A) /\ A \in Int
    BY <1>0, <1>2 DEF Small, SmallPoint
  <2>2. (r > -Threshold => r <= A) /\ (r < Threshold => A <= r)
    BY <1>0 DEF Kept, Fits
  <2> HIDE DEF A, r
  <2>3. r = A
    BY <1>1, <2>1, <2>2, SizesAssumption DEF Finite
  <2> QED BY <1>2, <2>3 DEF A
<1>4. /\ ctx.lo[j] > -Threshold => ctx.lo[j] <= v
      /\ ctx.up[j] < Threshold => v <= ctx.up[j]
  BY <1>0 DEF Kept, Fits
<1>5. /\ y.rows = ctx.rows /\ y.cols = S /\ y.lo = ctx.lo /\ y.up = ctx.up
      /\ y.c = CostsWithout(j, i)
      /\ y.offset = ctx.offset + Quotient(ctx.c[j] * r, a)
      /\ y.rlo = [ctx.rlo EXCEPT ![i] = Carried(j, i).lo]
      /\ y.rup = [ctx.rup EXCEPT ![i] = Carried(j, i).up]
  BY DEF ColumnSubstituted
<1>6. Fits(y, p)
  <2>1. ASSUME NEW k \in S
        PROVE  (y.lo[k] > -Threshold => y.lo[k] <= p[k]) /\ (y.up[k] < Threshold => p[k] <= y.up[k])
    BY <1>5, <2>1 DEF Kept, Fits
  <2>2. ASSUME NEW k \in ctx.rows
        PROVE  /\ y.rlo[k] > -Threshold => y.rlo[k] <= Activity(k, p, S)
               /\ y.rup[k] < Threshold => Activity(k, p, S) <= y.rup[k]
    <3>1. CASE k = i
      <4>1. y.rlo[i] = Carried(j, i).lo /\ y.rup[i] = Carried(j, i).up
        BY <1>0, <1>5 DEF Numbers
      <4>2. /\ Carried(j, i).lo > -Threshold => Carried(j, i).lo <= B
            /\ Carried(j, i).up < Threshold => B <= Carried(j, i).up
        BY <1>1, <1>2, <1>3, <1>4, CarriedHolds
      <4> QED BY <1>2, <3>1, <4>1, <4>2
    <3>2. CASE k # i
      <4>1. y.rlo[k] = ctx.rlo[k] /\ y.rup[k] = ctx.rup[k]
        BY <1>0, <1>5, <2>2, <3>2 DEF Numbers
      <4>2. lp.a[k][j] = 0
        BY <2>2, <3>2, OnlyRow DEF ColEntries
      <4>3. Activity(k, p, ctx.cols) = Activity(k, p, S)
        <5> DEFINE w == lp.a[k]
        <5>1. w \in Vector /\ w[j] = 0
          BY <1>0, <2>2, <4>2 DEF ModelOK
        <5>2. S \subseteq ctx.cols /\ \A l \in ctx.cols \ S : l = j
          OBVIOUS
        <5> HIDE DEF w, S
        <5>3. Dot(w, p, ctx.cols) = Dot(w, p, S)
          BY <1>0, <1>1, <5>1, <5>2, DotWithoutZeros
        <5> QED BY <5>3, ActivityIsDot DEF w
      <4>4. /\ ctx.rlo[k] > -Threshold => ctx.rlo[k] <= Activity(k, p, ctx.cols)
            /\ ctx.rup[k] < Threshold => Activity(k, p, ctx.cols) <= ctx.rup[k]
        BY <2>2 DEF Kept, Fits
      <4> QED BY <4>1, <4>3, <4>4
    <3> QED BY <3>1, <3>2
  <2> QED BY <1>5, <2>1, <2>2 DEF Fits
<1>7. ObjectiveIn(y, p) = ObjectiveIn(ctx, p)
  <2> DEFINE c == ctx.c
             e == CostsWithout(j, i)
             t == c[j]
             q == Quotient(ctx.c[j] * r, a)
             D == Dot(c, p, S)
             E == Dot(e, p, S)
  <2>1. q \in Int /\ q * a = t * r
    BY QuotientExact DEF ColumnDivides
  <2>2. e \in Vector /\ c \in Vector /\ \A k \in S : a * e[k] = a * c[k] - t * u[k]
    BY <1>0, <1>1, CostsWithoutExact
  <2>3. D \in Int /\ E \in Int /\ Dot(c, p, ctx.cols) = t * v + D
    <3>1. S \subseteq Cols
      BY <1>0
    <3> HIDE DEF c, e
    <3>2. D \in Int /\ E \in Int
      BY <1>1, <2>2, <3>1, DotInteger
    <3>3. Dot(c, p, ctx.cols) = c[j] * p[j] + Dot(c, p, ctx.cols \ {j})
      BY <1>0, <1>1, <2>2, DotTakes
    <3> QED BY <3>2, <3>3
  <2>4. a * E = a * D - t * B
    <3>1. S \subseteq Cols /\ t \in Int
      BY <1>0, <1>1
    <3>2. u \in Vector /\ p \in Vector /\ a \in Int
      BY <1>1
    <3> HIDE DEF S, u, a, c, e, t
    <3>3. Combination(e, c, u, a, t, S)
      BY <2>2 DEF Combination
    <3>4. a * Dot(e, p, S) = a * Dot(c, p, S) - t * Dot(u, p, S)
      BY <2>2, <3>1, <3>2, <3>3, DotCombines
    <3> QED BY <3>4
  <2>5. q + E = t * v + D
    <3>1. t \in Int
      BY <1>1
    <3> HIDE DEF i, a, r, v, B, c, e, t, q, D, E
    <3> QED BY <1>1, <1>2, <1>3, <2>1, <2>3, <2>4, <3>1, SubstitutionCosts
  <2>6. ObjectiveIn(y, p) = (ctx.offset + q) + E
    BY <1>5, ObjectiveIsDot
  <2>7. ObjectiveIn(ctx, p) = ctx.offset + (t * v + D)
    BY <2>3, ObjectiveIsDot
  <2>8. t * v \in Int
    BY <1>1
  <2> HIDE DEF q, E, D, t, v
  <2> DEFINE w == t * v
  <2>9. w \in Int /\ q + E = w + D
    BY <2>5, <2>8
  <2> HIDE DEF w
  <2>10. (ctx.offset + q) + E = ctx.offset + (w + D)
    BY <1>1, <2>1, <2>3, <2>9
  <2> QED BY <2>6, <2>7, <2>10 DEF w
<1> QED BY <1>6, <1>7 DEF Kept

-----------------------------------------------------------------------------
(* The activity of a row over the box of its columns.                      *)

Lows(i) == [k \in Cols |-> LowEnd(i, k)]
Highs(i) == [k \in Cols |-> HighEnd(i, k)]

LEMMA EndsAreIntegers ==
    ASSUME Numbers(ctx), NEW i
    PROVE  /\ \A k \in Cols : LowEnd(i, k) \in Int /\ HighEnd(i, k) \in Int
           /\ Lows(i) \in Vector /\ Highs(i) \in Vector
           /\ \A k \in Cols : Lows(i)[k] = LowEnd(i, k) /\ Highs(i)[k] = HighEnd(i, k)
  BY DEF Numbers, Vector, Lows, Highs, LowEnd, HighEnd

LEMMA ActivitiesAreDots ==
    ASSUME Shaped(ctx), NEW i
    PROVE  /\ MinActivity(i) = Dot(lp.a[i], Lows(i), RowEntries(ctx, i) \ LowOpen(i))
           /\ MaxActivity(i) = Dot(lp.a[i], Highs(i), RowEntries(ctx, i) \ HighOpen(i))
<1>1. RowEntries(ctx, i) \subseteq Cols
  BY DEF Shaped, RowEntries
<1>2. /\ \A k \in Cols : Lows(i)[k] = LowEnd(i, k)
      /\ \A k \in Cols : Highs(i)[k] = HighEnd(i, k)
  BY DEF Lows, Highs
<1> DEFINE S == RowEntries(ctx, i) \ LowOpen(i)
           T == RowEntries(ctx, i) \ HighOpen(i)
<1>3. [k \in S |-> lp.a[i][k] * LowEnd(i, k)] = [k \in S |-> lp.a[i][k] * Lows(i)[k]]
  BY <1>1, <1>2
<1>4. [k \in T |-> lp.a[i][k] * HighEnd(i, k)] = [k \in T |-> lp.a[i][k] * Highs(i)[k]]
  BY <1>1, <1>2
<1> QED BY <1>3, <1>4 DEF MinActivity, MaxActivity, Dot

\* e bounds a * v from above, from below, where it counts as a bound at all.
HoldsHigh(a, e, v) == IF a > 0 THEN e < Threshold => v <= e ELSE e > -Threshold => e <= v
HoldsLow(a, e, v) == IF a > 0 THEN e > -Threshold => e <= v ELSE e < Threshold => v <= e

LEMMA FiniteEnds ==
    ASSUME NEW a \in Int, a # 0, NEW e \in Int, NEW v \in Int
    PROVE  /\ HoldsHigh(a, e, v) /\ Finite(e) => a * v <= a * e
           /\ HoldsLow(a, e, v) /\ Finite(e) => a * e <= a * v
           /\ a * e = a * v => e = v
<1>1. /\ a > 0 => (v <= e <=> a * v <= a * e) /\ (e <= v <=> a * e <= a * v)
      /\ a < 0 => (e <= v <=> a * v <= a * e) /\ (v <= e <=> a * e <= a * v)
      /\ a * e = a * v => e = v
  BY ProductOrder
<1> QED BY <1>1 DEF HoldsHigh, HoldsLow, Finite

\* What Fits says of a row's columns, at the ends they have in it ...
EntryFacts(i, p) ==
    /\ lp.a[i] \in Vector /\ p \in Vector /\ RowEntries(ctx, i) \subseteq Cols
    /\ \A k \in RowEntries(ctx, i) :
          /\ lp.a[i][k] \in Int /\ lp.a[i][k] # 0 /\ p[k] \in Int /\ Finite(p[k])
          /\ HoldsHigh(lp.a[i][k], HighEnd(i, k), p[k])
          /\ HoldsLow(lp.a[i][k], LowEnd(i, k), p[k])

\* ... and of the row itself.
RowFacts(i, p) ==
    /\ EntryFacts(i, p)
    /\ ctx.rlo[i] \in Int /\ ctx.rup[i] \in Int
    /\ ctx.rlo[i] > -Threshold => ctx.rlo[i] <= Dot(lp.a[i], p, RowEntries(ctx, i))
    /\ ctx.rup[i] < Threshold => Dot(lp.a[i], p, RowEntries(ctx, i)) <= ctx.rup[i]

LEMMA RowFactsHold ==
    ASSUME ModelOK, Shaped(ctx), Numbers(ctx), NEW i \in ctx.rows, NEW p, Small(p), Kept(ctx, p)
    PROVE  RowFacts(i, p)
<1>1. /\ i \in Rows /\ ctx.cols \subseteq Cols /\ lp.a[i] \in Vector /\ p \in Vector
      /\ RowEntries(ctx, i) \subseteq ctx.cols
      /\ ctx.rlo[i] \in Int /\ ctx.rup[i] \in Int
  BY DEF Shaped, ModelOK, Small, RowEntries, Numbers
<1>2. Activity(i, p, ctx.cols) = Dot(lp.a[i], p, RowEntries(ctx, i))
  BY <1>1, ActivityOfEntries
<1>3. ASSUME NEW k \in RowEntries(ctx, i)
      PROVE  /\ lp.a[i][k] \in Int /\ lp.a[i][k] # 0 /\ p[k] \in Int /\ Finite(p[k])
             /\ HoldsHigh(lp.a[i][k], HighEnd(i, k), p[k])
             /\ HoldsLow(lp.a[i][k], LowEnd(i, k), p[k])
  <2>1. k \in ctx.cols /\ k \in Cols /\ lp.a[i][k] # 0
    BY <1>1, <1>3 DEF RowEntries
  <2>2. lp.a[i][k] \in Int /\ p[k] \in Int /\ Finite(p[k])
    BY <1>1, <2>1 DEF Vector, Small, SmallPoint
  <2>3. (ctx.lo[k] > -Threshold => ctx.lo[k] <= p[k]) /\ (ctx.up[k] < Threshold => p[k] <= ctx.up[k])
    BY <2>1 DEF Kept, Fits
  <2> QED BY <2>1, <2>2, <2>3 DEF HoldsHigh, HoldsLow, HighEnd, LowEnd
<1>4. /\ ctx.rlo[i] > -Threshold => ctx.rlo[i] <= Activity(i, p, ctx.cols)
      /\ ctx.rup[i] < Threshold => Activity(i, p, ctx.cols) <= ctx.rup[i]
  BY DEF Kept, Fits
<1> QED BY <1>1, <1>2, <1>3, <1>4 DEF RowFacts, EntryFacts

\* Over columns whose ends are bounds, the activity is between those of the ends.
LEMMA EndsBound ==
    ASSUME Numbers(ctx), NEW i, NEW p, EntryFacts(i, p), NEW S, S \subseteq RowEntries(ctx, i)
    PROVE  /\ S \cap LowOpen(i) = {} =>
                /\ Dot(lp.a[i], Lows(i), S) <= Dot(lp.a[i], p, S)
                /\ Dot(lp.a[i], p, S) <= Dot(lp.a[i], Lows(i), S) => \A k \in S : p[k] = LowEnd(i, k)
           /\ S \cap HighOpen(i) = {} =>
                /\ Dot(lp.a[i], p, S) <= Dot(lp.a[i], Highs(i), S)
                /\ Dot(lp.a[i], Highs(i), S) <= Dot(lp.a[i], p, S) => \A k \in S : p[k] = HighEnd(i, k)
<1> DEFINE u == lp.a[i]
           q == Lows(i)
           r == Highs(i)
<1>1. u \in Vector /\ p \in Vector /\ q \in Vector /\ r \in Vector /\ S \subseteq Cols
  BY EndsAreIntegers DEF RowFacts, EntryFacts
<1>2. \A k \in S : /\ u[k] \in Int /\ u[k] # 0 /\ p[k] \in Int
                   /\ q[k] = LowEnd(i, k) /\ r[k] = HighEnd(i, k)
                   /\ q[k] \in Int /\ r[k] \in Int
                   /\ HoldsHigh(u[k], r[k], p[k]) /\ HoldsLow(u[k], q[k], p[k])
  BY <1>1, EndsAreIntegers DEF RowFacts, EntryFacts
<1>3. ASSUME S \cap LowOpen(i) = {}
      PROVE  /\ Dot(u, q, S) <= Dot(u, p, S)
             /\ Dot(u, p, S) <= Dot(u, q, S) => \A k \in S : p[k] = q[k]
  <2>1. \A k \in S : Finite(q[k])
    BY <1>2, <1>3 DEF LowOpen
  <2> HIDE DEF u, q, r
  <2>2. \A k \in S : u[k] * q[k] <= u[k] * p[k] /\ (u[k] * q[k] = u[k] * p[k] => q[k] = p[k])
    BY <1>2, <2>1, FiniteEnds
  <2>3. /\ Dot(u, q, S) <= Dot(u, p, S)
        /\ Dot(u, p, S) <= Dot(u, q, S) => \A k \in S : u[k] * q[k] = u[k] * p[k]
    BY <1>1, <2>2, DotAtMost
  <2> QED BY <2>2, <2>3
<1>4. ASSUME S \cap HighOpen(i) = {}
      PROVE  /\ Dot(u, p, S) <= Dot(u, r, S)
             /\ Dot(u, r, S) <= Dot(u, p, S) => \A k \in S : p[k] = r[k]
  <2>1. \A k \in S : Finite(r[k])
    BY <1>2, <1>4 DEF HighOpen
  <2> HIDE DEF u, q, r
  <2>2. \A k \in S : u[k] * p[k] <= u[k] * r[k] /\ (u[k] * r[k] = u[k] * p[k] => r[k] = p[k])
    BY <1>2, <2>1, FiniteEnds
  <2>3. /\ Dot(u, p, S) <= Dot(u, r, S)
        /\ Dot(u, r, S) <= Dot(u, p, S) => \A k \in S : u[k] * p[k] = u[k] * r[k]
    BY <1>1, <2>2, DotAtMost
  <2> QED BY <2>2, <2>3
<1> QED BY <1>2, <1>3, <1>4

-----------------------------------------------------------------------------
(* Impossible and forcing rows.                                            *)

LEMMA ForcingHolds ==
    ASSUME Shaped(ctx), Numbers(ctx), NEW i, NEW p, RowFacts(i, p)
    PROVE  /\ ~Impossible(i)
           /\ ForcesLow(i) => \A k \in RowEntries(ctx, i) : p[k] = LowEnd(i, k)
           /\ ForcesHigh(i) => \A k \in RowEntries(ctx, i) : p[k] = HighEnd(i, k)
<1> DEFINE R == RowEntries(ctx, i)
           A == Dot(lp.a[i], p, R)
<1>0. R \subseteq R /\ lp.a[i] \in Vector /\ p \in Vector /\ R \subseteq Cols
      /\ Lows(i) \in Vector /\ Highs(i) \in Vector
      /\ ctx.rlo[i] \in Int /\ ctx.rup[i] \in Int
      /\ (ctx.rlo[i] > -Threshold => ctx.rlo[i] <= A)
      /\ (ctx.rup[i] < Threshold => A <= ctx.rup[i])
  BY EndsAreIntegers DEF RowFacts, EntryFacts
<1>1. A \in Int
  <2> HIDE DEF R
  <2> QED BY <1>0, DotInteger
<1>2. LowOpen(i) = {} =>
         /\ MinActivity(i) <= A /\ MinActivity(i) \in Int
         /\ A <= MinActivity(i) => \A k \in R : p[k] = LowEnd(i, k)
  <2>1. LowOpen(i) = {} => MinActivity(i) = Dot(lp.a[i], Lows(i), R)
    BY ActivitiesAreDots
  <2>2. Dot(lp.a[i], Lows(i), R) \in Int
    <3> HIDE DEF R
    <3> QED BY <1>0, DotInteger
  <2> QED BY <1>0, <2>1, <2>2, EndsBound DEF RowFacts
<1>3. HighOpen(i) = {} =>
         /\ A <= MaxActivity(i) /\ MaxActivity(i) \in Int
         /\ MaxActivity(i) <= A => \A k \in R : p[k] = HighEnd(i, k)
  <2>1. HighOpen(i) = {} => MaxActivity(i) = Dot(lp.a[i], Highs(i), R)
    BY ActivitiesAreDots
  <2>2. Dot(lp.a[i], Highs(i), R) \in Int
    <3> HIDE DEF R
    <3> QED BY <1>0, DotInteger
  <2> QED BY <1>0, <2>1, <2>2, EndsBound DEF RowFacts
<1> HIDE DEF A, R
<1>4. ~Impossible(i)
  BY <1>0, <1>1, <1>2, <1>3 DEF Impossible
<1>5. ASSUME ForcesLow(i)  PROVE \A k \in R : p[k] = LowEnd(i, k)
  BY <1>0, <1>1, <1>2, <1>5 DEF ForcesLow
<1>6. ASSUME ForcesHigh(i)  PROVE \A k \in R : p[k] = HighEnd(i, k)
  BY <1>0, <1>1, <1>3, <1>6 DEF ForcesHigh
<1> QED BY <1>4, <1>5, <1>6 DEF R

-----------------------------------------------------------------------------
(* The bounds a row implies for its columns.                               *)

\* The divisions of one entry of the row come out even.
EntryDivides(i, k) ==
    /\ ctx.rup[i] < Threshold /\ LowOpen(i) \subseteq {k} => Divides(lp.a[i][k], HighRoom(i, k))
    /\ ctx.rlo[i] > -Threshold /\ OpenAbove(i, k) = {} => Divides(lp.a[i][k], LowRoom(i, k))

LEMMA NewEndsAreIntegers ==
    ASSUME ModelOK, Shaped(ctx), Numbers(ctx), NEW i \in ctx.rows, NEW k \in RowEntries(ctx, i),
           EntryDivides(i, k)
    PROVE  /\ MinActivity(i) \in Int /\ MaxActivity(i) \in Int
           /\ HighRoom(i, k) \in Int /\ LowRoom(i, k) \in Int
           /\ HighEndUnder(i, k) \in Int /\ LowEndUnder(i, k) \in Int
<1>1. /\ i \in Rows /\ k \in Cols /\ lp.a[i] \in Vector /\ lp.a[i][k] \in Int
      /\ ctx.rlo[i] \in Int /\ ctx.rup[i] \in Int
      /\ RowEntries(ctx, i) \subseteq Cols
      /\ Lows(i) \in Vector /\ Highs(i) \in Vector
      /\ LowEnd(i, k) \in Int /\ HighEnd(i, k) \in Int
  <2>1. i \in Rows /\ k \in Cols /\ RowEntries(ctx, i) \subseteq Cols
    BY DEF Shaped, RowEntries
  <2> QED BY <2>1, EndsAreIntegers DEF ModelOK, Numbers, Vector
<1>2. MinActivity(i) \in Int /\ MaxActivity(i) \in Int
  <2> DEFINE S == RowEntries(ctx, i) \ LowOpen(i)
             T == RowEntries(ctx, i) \ HighOpen(i)
  <2>1. S \subseteq Cols /\ T \subseteq Cols
    BY <1>1
  <2>2. MinActivity(i) = Dot(lp.a[i], Lows(i), S) /\ MaxActivity(i) = Dot(lp.a[i], Highs(i), T)
    BY ActivitiesAreDots
  <2> HIDE DEF S, T
  <2> QED BY <1>1, <2>1, <2>2, DotInteger
<1>3. HighRoom(i, k) \in Int
  BY <1>1, <1>2 DEF HighRoom
<1>4. HighEndUnder(i, k) \in Int
  BY <1>1, QuotientExact DEF HighEndUnder, EntryDivides, Lesser, Greater
<1>5. LowRoom(i, k) \in Int
  BY <1>1, <1>2, <1>4 DEF LowRoom
<1>6. LowEndUnder(i, k) \in Int
  BY <1>1, QuotientExact DEF LowEndUnder, EntryDivides, Lesser, Greater
<1> QED BY <1>2, <1>3, <1>4, <1>5, <1>6

\* The row leaves room for what its entry k adds to the activity.
LEMMA RoomAbove ==
    ASSUME Shaped(ctx), Numbers(ctx), NEW i, NEW p, RowFacts(i, p), NEW k \in RowEntries(ctx, i),
           ctx.rup[i] < Threshold, LowOpen(i) \subseteq {k}
    PROVE  lp.a[i][k] * p[k] <= HighRoom(i, k)
<1> DEFINE u == lp.a[i]
           q == Lows(i)
           R == RowEntries(ctx, i)
           S == R \ {k}
           t == u[k] * p[k]
           s == u[k] * q[k]
<1>1. /\ u \in Vector /\ p \in Vector /\ q \in Vector /\ R \subseteq Cols /\ S \subseteq R
      /\ k \in R /\ k \in Cols
      /\ ctx.rup[i] \in Int /\ Dot(u, p, R) <= ctx.rup[i] /\ q[k] = LowEnd(i, k)
  BY EndsAreIntegers DEF RowFacts, EntryFacts
<1>2. S \cap LowOpen(i) = {}
  OBVIOUS
<1>3. Dot(u, q, S) <= Dot(u, p, S)
  BY <1>1, <1>2, EndsBound DEF RowFacts
<1>4. /\ Dot(u, p, R) = t + Dot(u, p, S)
      /\ Dot(u, q, R) = s + Dot(u, q, S)
      /\ Dot(u, p, R) \in Int /\ Dot(u, p, S) \in Int /\ t \in Int
      /\ Dot(u, q, R) \in Int /\ Dot(u, q, S) \in Int /\ s \in Int
  <2> HIDE DEF u, q, R
  <2>1. ASSUME NEW z \in Vector
        PROVE  /\ Dot(u, z, R) = u[k] * z[k] + Dot(u, z, R \ {k})
               /\ Dot(u, z, R) \in Int /\ Dot(u, z, R \ {k}) \in Int /\ u[k] * z[k] \in Int
    <3>1. u \in Vector /\ R \subseteq Cols /\ k \in R
      BY <1>1
    <3> HIDE DEF t, s, S, q
    <3> QED BY <3>1, DotTakes
  <2> QED BY <1>1, <2>1
<1>5. MinActivity(i) - (IF k \in LowOpen(i) THEN 0 ELSE u[k] * LowEnd(i, k)) = Dot(u, q, S)
  <2>1. MinActivity(i) = Dot(u, q, R \ LowOpen(i))
    BY ActivitiesAreDots
  <2>2. CASE k \in LowOpen(i)
    <3>1. R \ LowOpen(i) = S
      BY <2>2
    <3> DEFINE e == Dot(u, q, S)
    <3>2. MinActivity(i) = e /\ e \in Int
      BY <1>4, <2>1, <3>1
    <3> HIDE DEF e
    <3> QED BY <2>2, <3>2 DEF e
  <2>3. CASE k \notin LowOpen(i)
    <3>1. R \ LowOpen(i) = R
      BY <2>3
    <3> DEFINE d == Dot(u, q, R)
               e == Dot(u, q, S)
    <3>2. MinActivity(i) = d /\ u[k] * LowEnd(i, k) = s /\ d = s + e /\ d \in Int /\ e \in Int /\ s \in Int
      BY <1>1, <1>4, <2>1, <3>1
    <3> HIDE DEF d, e, s
    <3> QED BY <2>3, <3>2 DEF e
  <2> QED BY <2>2, <2>3
<1>6. HighRoom(i, k) = ctx.rup[i] - Dot(u, q, S)
  BY <1>5 DEF HighRoom
<1> DEFINE e == Dot(u, q, S)
           f == Dot(u, p, S)
           d == Dot(u, p, R)
           m == ctx.rup[i]
<1>7. e <= f /\ d = t + f /\ d <= m /\ d \in Int /\ e \in Int /\ f \in Int /\ t \in Int /\ m \in Int
  BY <1>1, <1>3, <1>4
<1> HIDE DEF e, f, d, m, t
<1>8. t <= m - e
  BY <1>7
<1> QED BY <1>6, <1>8 DEF t, m, e

LEMMA HighEndHolds ==
    ASSUME ModelOK, Shaped(ctx), Numbers(ctx), NEW i \in ctx.rows, NEW p, RowFacts(i, p),
           NEW k \in RowEntries(ctx, i), EntryDivides(i, k)
    PROVE  HoldsHigh(lp.a[i][k], HighEndUnder(i, k), p[k])
<1> DEFINE a == lp.a[i][k]
           v == p[k]
           e == HighEnd(i, k)
           q == Quotient(HighRoom(i, k), a)
<1>1. a \in Int /\ a # 0 /\ v \in Int /\ HoldsHigh(a, e, v)
  BY DEF RowFacts, EntryFacts
<1>2. e \in Int
  BY EndsAreIntegers DEF RowEntries, Shaped
<1>3. CASE ctx.rup[i] < Threshold /\ LowOpen(i) \subseteq {k}
  <2>1. q \in Int /\ q * a = HighRoom(i, k)
    BY <1>3, QuotientExact DEF EntryDivides
  <2>2. a * v <= HighRoom(i, k)
    BY <1>3, RoomAbove
  <2>3. HighEndUnder(i, k) = IF a > 0 THEN Lesser(e, q) ELSE Greater(e, q)
    BY <1>3 DEF HighEndUnder
  <2> HIDE DEF a, v, e, q
  <2>4. a * q = q * a
    BY <1>1, <2>1
  <2>5. a * v <= a * q
    BY <2>1, <2>2, <2>4
  <2>6. (a > 0 => v <= q) /\ (a < 0 => q <= v)
    BY <1>1, <2>1, <2>5, ProductOrder
  <2>7. HoldsHigh(a, HighEndUnder(i, k), v)
    BY <1>1, <1>2, <2>1, <2>3, <2>6 DEF HoldsHigh, Lesser, Greater
  <2> QED BY <2>7 DEF a, v
<1>4. CASE ~(ctx.rup[i] < Threshold /\ LowOpen(i) \subseteq {k})
  <2>1. HighEndUnder(i, k) = e
    BY <1>4 DEF HighEndUnder
  <2> QED BY <1>1, <2>1
<1> QED BY <1>3, <1>4

\* The second test's room, though the activity it takes the entry out of was read
\* before the first test moved that entry's bound.
LEMMA RoomBelow ==
    ASSUME ModelOK, Shaped(ctx), Numbers(ctx), NEW i \in ctx.rows, NEW p, RowFacts(i, p),
           NEW k \in RowEntries(ctx, i), EntryDivides(i, k),
           ctx.rlo[i] > -Threshold, OpenAbove(i, k) = {}
    PROVE  LowRoom(i, k) <= lp.a[i][k] * p[k]
<1> DEFINE u == lp.a[i]
           q == Highs(i)
           R == RowEntries(ctx, i)
           S == R \ {k}
           t == u[k] * p[k]
           s == u[k] * q[k]
           h == HighEndUnder(i, k)
<1>1. /\ u \in Vector /\ p \in Vector /\ q \in Vector /\ R \subseteq Cols /\ S \subseteq R
      /\ k \in R /\ k \in Cols
      /\ ctx.rlo[i] \in Int /\ ctx.rlo[i] <= Dot(u, p, R) /\ q[k] = HighEnd(i, k)
      /\ u[k] \in Int /\ u[k] # 0 /\ p[k] \in Int /\ Finite(p[k])
      /\ HighEnd(i, k) \in Int
  BY EndsAreIntegers DEF RowFacts, EntryFacts
<1>2. S \cap HighOpen(i) = {}
  BY DEF OpenAbove
<1>3. Dot(u, p, S) <= Dot(u, q, S)
  BY <1>1, <1>2, EndsBound DEF RowFacts
<1>4. /\ Dot(u, p, R) = t + Dot(u, p, S)
      /\ Dot(u, q, R) = s + Dot(u, q, S)
      /\ Dot(u, p, R) \in Int /\ Dot(u, p, S) \in Int /\ t \in Int
      /\ Dot(u, q, R) \in Int /\ Dot(u, q, S) \in Int /\ s \in Int
  <2> HIDE DEF u, q, R
  <2>1. ASSUME NEW z \in Vector
        PROVE  /\ Dot(u, z, R) = u[k] * z[k] + Dot(u, z, R \ {k})
               /\ Dot(u, z, R) \in Int /\ Dot(u, z, R \ {k}) \in Int /\ u[k] * z[k] \in Int
    <3>1. u \in Vector /\ R \subseteq Cols /\ k \in R
      BY <1>1
    <3> HIDE DEF t, s, S, q
    <3> QED BY <3>1, DotTakes
  <2> QED BY <1>1, <2>1
<1>5. h \in Int /\ HoldsHigh(u[k], h, p[k]) /\ MaxActivity(i) \in Int
  BY NewEndsAreIntegers, HighEndHolds
<1>6. MaxActivity(i) = Dot(u, q, R \ HighOpen(i))
  BY ActivitiesAreDots
<1> DEFINE x == IF Finite(h) THEN u[k] * h ELSE 0
           O == Dot(u, q, S)
<1>7. MaxActivity(i) - x >= O
  <2>1. CASE k \in HighOpen(i)
    <3>1. ~Finite(h) /\ R \ HighOpen(i) = S
      BY <1>2, <2>1 DEF OpenAbove
    <3>2. MaxActivity(i) = O /\ x = 0
      BY <1>6, <3>1
    <3> HIDE DEF O, x
    <3> QED BY <1>5, <3>2
  <2>2. CASE k \notin HighOpen(i)
    <3>1. R \ HighOpen(i) = R /\ Finite(HighEnd(i, k))
      BY <1>1, <1>2, <2>2 DEF HighOpen
    <3>2. /\ u[k] > 0 => h <= HighEnd(i, k)
          /\ u[k] < 0 => h >= HighEnd(i, k)
      <4> DEFINE r == Quotient(HighRoom(i, k), u[k])
      <4>1. CASE ctx.rup[i] < Threshold /\ LowOpen(i) \subseteq {k}
        <5>1. r \in Int
          BY <4>1, QuotientExact DEF EntryDivides
        <5>2. h = IF u[k] > 0 THEN Lesser(HighEnd(i, k), r) ELSE Greater(HighEnd(i, k), r)
          BY <4>1 DEF HighEndUnder
        <5> HIDE DEF r, h
        <5> QED BY <1>1, <5>1, <5>2 DEF Lesser, Greater
      <4>2. CASE ~(ctx.rup[i] < Threshold /\ LowOpen(i) \subseteq {k})
        <5>1. h = HighEnd(i, k)
          BY <4>2 DEF HighEndUnder
        <5> HIDE DEF h
        <5> QED BY <1>1, <5>1
      <4> QED BY <4>1, <4>2
    <3>3. Finite(h)
      <4> HIDE DEF h
      <4> QED BY <1>1, <1>5, <3>1, <3>2, SizesAssumption DEF Finite, HoldsHigh
    <3>4. u[k] * h <= s /\ u[k] * h \in Int
      <4> DEFINE b == u[k]
                 e == HighEnd(i, k)
      <4>1. b \in Int /\ b # 0 /\ e \in Int /\ h \in Int /\ s = b * e
        BY <1>1, <1>5
      <4>2. (b > 0 => h <= e) /\ (b < 0 => h >= e)
        BY <3>2
      <4> HIDE DEF b, e, h, s
      <4>3. b * h <= b * e /\ b * h \in Int
        BY <4>1, <4>2, ProductOrder
      <4> QED BY <4>1, <4>3 DEF b
    <3>5. MaxActivity(i) = s + O /\ x = u[k] * h
      BY <1>4, <1>6, <3>1, <3>3
    <3>6. O \in Int /\ s \in Int /\ x \in Int /\ x <= s
      BY <1>4, <3>4, <3>5
    <3> HIDE DEF O, s, x
    <3> QED BY <3>5, <3>6
  <2> QED BY <2>1, <2>2
<1>8. LowRoom(i, k) = ctx.rlo[i] - (MaxActivity(i) - x)
  BY DEF LowRoom
<1>9. x \in Int
  BY <1>1, <1>5
<1> DEFINE f == Dot(u, p, S)
           d == Dot(u, p, R)
           m == ctx.rlo[i]
           y == MaxActivity(i) - x
<1>10. /\ f <= O /\ d = t + f /\ m <= d /\ O <= y
       /\ d \in Int /\ O \in Int /\ f \in Int /\ t \in Int /\ m \in Int /\ y \in Int
  BY <1>1, <1>3, <1>4, <1>5, <1>7, <1>9
<1> HIDE DEF O, f, d, m, t, y
<1>11. m - y <= t
  BY <1>10
<1> QED BY <1>8, <1>11 DEF t, m, y

LEMMA LowEndHolds ==
    ASSUME ModelOK, Shaped(ctx), Numbers(ctx), NEW i \in ctx.rows, NEW p, RowFacts(i, p),
           NEW k \in RowEntries(ctx, i), EntryDivides(i, k)
    PROVE  HoldsLow(lp.a[i][k], LowEndUnder(i, k), p[k])
<1> DEFINE a == lp.a[i][k]
           v == p[k]
           e == LowEnd(i, k)
           q == Quotient(LowRoom(i, k), a)
<1>1. a \in Int /\ a # 0 /\ v \in Int /\ HoldsLow(a, e, v)
  BY DEF RowFacts, EntryFacts
<1>2. e \in Int
  BY EndsAreIntegers DEF RowEntries, Shaped
<1>3. CASE ctx.rlo[i] > -Threshold /\ OpenAbove(i, k) = {}
  <2>1. q \in Int /\ q * a = LowRoom(i, k)
    BY <1>3, QuotientExact DEF EntryDivides
  <2>2. LowRoom(i, k) <= a * v
    BY <1>3, RoomBelow
  <2>3. LowEndUnder(i, k) = IF a > 0 THEN Greater(e, q) ELSE Lesser(e, q)
    BY <1>3 DEF LowEndUnder
  <2> HIDE DEF a, v, e, q
  <2>4. a * q = q * a
    BY <1>1, <2>1
  <2>5. a * q <= a * v
    BY <2>1, <2>2, <2>4
  <2>6. (a > 0 => q <= v) /\ (a < 0 => v <= q)
    BY <1>1, <2>1, <2>5, ProductOrder
  <2>7. HoldsLow(a, LowEndUnder(i, k), v)
    BY <1>1, <1>2, <2>1, <2>3, <2>6 DEF HoldsLow, Lesser, Greater
  <2> QED BY <2>7 DEF a, v
<1>4. CASE ~(ctx.rlo[i] > -Threshold /\ OpenAbove(i, k) = {})
  <2>1. LowEndUnder(i, k) = e
    BY <1>4 DEF LowEndUnder
  <2> QED BY <1>1, <2>1
<1> QED BY <1>3, <1>4

-----------------------------------------------------------------------------
(* What one step does to the numbers and to one solution.                  *)

\* What ForcedEnds says of one point.
ForcedAt(p) ==
    /\ pc = "forceLow" => \A k \in RowEntries(ctx, cursor) : p[k] = LowEnd(cursor, k)
    /\ pc = "forceHigh" => \A k \in RowEntries(ctx, cursor) : p[k] = HighEnd(cursor, k)

Stands(p) == Small(p) /\ Kept(ctx, p) /\ ForcedAt(p)

Ready == ModelOK /\ Shaped(ctx) /\ Exact(ctx) /\ ForcingRowActive /\ Numbers(ctx) /\ DivisionsExact

\* The numbers stay integers, a point that stands is kept, and the model is called
\* infeasible only where none stands.
StepRight ==
    /\ Numbers(ctx')
    /\ \A p : Stands(p) => Kept(ctx', p)
    /\ ctx'.status = "Infeasible" => ctx.status = "Infeasible" \/ \A p : ~Stands(p)

\* Neither reads more of a context than these fields.
LEMMA SameNumbers ==
    ASSUME Numbers(ctx),
           ctx'.rows = ctx.rows, ctx'.cols = ctx.cols, ctx'.lo = ctx.lo, ctx'.up = ctx.up,
           ctx'.rlo = ctx.rlo, ctx'.rup = ctx.rup, ctx'.c = ctx.c, ctx'.offset = ctx.offset
    PROVE  Numbers(ctx') /\ \A p : Stands(p) => Kept(ctx', p)
  BY DEF Numbers, Stands, Kept, Fits, ObjectiveIn

LEMMA StatusOnly ==
    ASSUME Ready, NEW status, ctx' = [ctx EXCEPT !.status = status],
           status = "Infeasible" => ctx.status = "Infeasible" \/ \A p : ~Stands(p)
    PROVE  StepRight
<1>1. /\ ctx'.rows = ctx.rows /\ ctx'.cols = ctx.cols /\ ctx'.lo = ctx.lo /\ ctx'.up = ctx.up
      /\ ctx'.rlo = ctx.rlo /\ ctx'.rup = ctx.rup /\ ctx'.c = ctx.c /\ ctx'.offset = ctx.offset
      /\ ctx'.status = status
  BY DEF Ready, Shaped, Fields
<1> QED BY <1>1, SameNumbers DEF StepRight, Ready

LEMMA NothingChanged ==
    ASSUME Ready, UNCHANGED ctx
    PROVE  StepRight
  BY SameNumbers DEF StepRight, Ready

LEMMA DropRowRight ==
    ASSUME Ready, NEW i \in ctx.rows, ctx' = DropRow(ctx, i)
    PROVE  StepRight
<1>1. ctx'.status = ctx.status
  BY DropRowGone DEF RowGone, Ready
<1>2. RowDropped(ctx, ctx', i)
  BY DropRowFields DEF Ready
<1>3. Numbers(ctx') /\ \A p : Kept(ctx, p) => Kept(ctx', p)
  <2> DEFINE y == ctx'
  <2>1. RowDropped(ctx, y, i)
    BY <1>2
  <2> HIDE DEF y
  <2>2. Numbers(y) /\ \A p : Kept(ctx, p) => Kept(y, p)
    BY <2>1, RowDroppedKeeps DEF Ready
  <2> QED BY <2>2 DEF y
<1> QED BY <1>1, <1>3 DEF StepRight, Stands

LEMMA FixVariableRight ==
    ASSUME Ready, NEW j \in ctx.cols, NEW v \in Int, ctx' = FixVariable(ctx, j, v),
           \A p : Stands(p) => p[j] = v \/ (ColEntries(ctx, j) = {} /\ ctx.c[j] * v <= ctx.c[j] * p[j])
    PROVE  StepRight
<1>1. ctx'.status = ctx.status
  BY FixVariableGone DEF ColGone, Ready
<1>2. Numbers(ctx')
  BY FixVariableNumbers DEF Ready
<1>3. ASSUME NEW p, Stands(p)
      PROVE  Kept(ctx', p)
  BY <1>3, FixVariableKeeps DEF Ready, Stands
<1> QED BY <1>1, <1>2, <1>3 DEF StepRight

LEMMA EmptyRowRight ==
    ASSUME Ready, EmptyRow
    PROVE  StepRight
<1> PICK i \in Rows : EmptyRow!(i)
  BY DEF EmptyRow
<1>1. i \in ctx.rows /\ ctx.rowDegree[i] = 0
  BY DEF At, EmptyRows
<1>2. CASE EmptyRowHolds(i)
  BY <1>1, <1>2, DropRowRight DEF Did
<1>3. CASE ~EmptyRowHolds(i)
  <2>1. ctx' = [ctx EXCEPT !.status = "Infeasible"]
    BY <1>3 DEF Prove
  <2>2. RowEntries(ctx, i) = {}
    <3>1. Cardinality(RowEntries(ctx, i)) = 0
      BY <1>1 DEF Ready, Exact
    <3>2. IsFiniteSet(RowEntries(ctx, i))
      BY FiniteRowsAndCols, FS_Subset DEF RowEntries, Ready, Shaped
    <3> QED BY <3>1, <3>2, FS_EmptySet
  <2>3. ASSUME NEW p, Stands(p)
        PROVE  FALSE
    <3>1. RowFacts(i, p)
      BY <1>1, <2>3, RowFactsHold DEF Ready, Stands
    <3>2. Dot(lp.a[i], p, {}) = 0
      <4>1. {} \subseteq Cols
        OBVIOUS
      <4>2. Dot(lp.a[i], p, {}) = Sum(Terms(lp.a[i], p), {})
        BY <3>1, <4>1, DotIsSum DEF RowFacts, EntryFacts
      <4> QED BY <4>2, SumEmpty
    <3>3. (ctx.rlo[i] > -Threshold => ctx.rlo[i] <= 0) /\ (ctx.rup[i] < Threshold => 0 <= ctx.rup[i])
      BY <2>2, <3>1, <3>2 DEF RowFacts, EntryFacts
    <3>4. ctx.rlo[i] \in Int /\ ctx.rup[i] \in Int
      BY <3>1 DEF RowFacts, EntryFacts
    <3> QED BY <1>3, <3>3, <3>4, SizesAssumption DEF EmptyRowHolds
  <2> QED BY <2>1, <2>3, StatusOnly
<1> QED BY <1>2, <1>3

\* The bounds of a column in a point that stands.
LEMMA ColumnFacts ==
    ASSUME Ready, NEW j \in ctx.cols
    PROVE  /\ j \in Cols /\ ctx.lo[j] \in Int /\ ctx.up[j] \in Int /\ ctx.c[j] \in Int
           /\ \A p : Stands(p) =>
                /\ p[j] \in Int /\ Finite(p[j])
                /\ ctx.lo[j] > -Threshold => ctx.lo[j] <= p[j]
                /\ ctx.up[j] < Threshold => p[j] <= ctx.up[j]
                /\ ~(ctx.lo[j] > ctx.up[j])
                /\ ~(ctx.lo[j] < ctx.up[j]) => p[j] = ctx.lo[j]
<1>1. j \in Cols /\ ctx.lo[j] \in Int /\ ctx.up[j] \in Int /\ ctx.c[j] \in Int
  BY DEF Ready, Shaped, Numbers, Vector
<1>2. ASSUME NEW p, Stands(p)
      PROVE  /\ p[j] \in Int /\ Finite(p[j])
             /\ ctx.lo[j] > -Threshold => ctx.lo[j] <= p[j]
             /\ ctx.up[j] < Threshold => p[j] <= ctx.up[j]
             /\ ~(ctx.lo[j] > ctx.up[j])
             /\ ~(ctx.lo[j] < ctx.up[j]) => p[j] = ctx.lo[j]
  <2>1. p[j] \in Int /\ Finite(p[j])
    BY <1>1, <1>2 DEF Stands, Small, SmallPoint, Vector
  <2>2. (ctx.lo[j] > -Threshold => ctx.lo[j] <= p[j]) /\ (ctx.up[j] < Threshold => p[j] <= ctx.up[j])
    BY <1>2 DEF Stands, Kept, Fits
  <2> QED BY <1>1, <2>1, <2>2, SizesAssumption DEF Finite
<1> QED BY <1>1, <1>2

LEMMA EmptyColumnRight ==
    ASSUME Ready, EmptyColumn
    PROVE  StepRight
<1> PICK j \in Cols : EmptyColumn!(j)
  BY DEF EmptyColumn
<1>1. j \in ctx.cols /\ ctx.colDegree[j] = 0
  BY DEF At, EmptyCols
<1>2. ColEntries(ctx, j) = {}
  <2>1. Cardinality(ColEntries(ctx, j)) = 0
    BY <1>1 DEF Ready, Exact
  <2>2. IsFiniteSet(ColEntries(ctx, j))
    BY FiniteRowsAndCols, FS_Subset DEF ColEntries, Ready, Shaped
  <2> QED BY <2>1, <2>2, FS_EmptySet
<1>3. CASE ctx.lo[j] > ctx.up[j]
  <2>1. ctx' = [ctx EXCEPT !.status = "Infeasible"]
    BY <1>3 DEF Prove
  <2> QED BY <1>1, <1>3, <2>1, ColumnFacts, StatusOnly
<1> DEFINE unbounded == (ctx.c[j] > 0 /\ ctx.lo[j] <= -Threshold) \/ (ctx.c[j] < 0 /\ ctx.up[j] >= Threshold)
<1>4. CASE ~(ctx.lo[j] > ctx.up[j]) /\ unbounded
  <2>1. ctx' = [ctx EXCEPT !.status = "Unbounded"]
    BY <1>4 DEF Prove
  <2> QED BY <2>1, StatusOnly
<1>5. CASE ~(ctx.lo[j] > ctx.up[j]) /\ ~unbounded
  <2> DEFINE v == LeastCost(j)
             c == ctx.c[j]
  <2>1. ctx' = FixVariable(ctx, j, v)
    BY <1>5 DEF Did
  <2>2. v \in Int /\ c \in Int
    BY <1>1, ColumnFacts DEF LeastCost, Greater, Lesser
  <2>3. ASSUME NEW p, Stands(p)
        PROVE  c * v <= c * p[j]
    <3>1. p[j] \in Int /\ (c > 0 => v <= p[j]) /\ (c < 0 => p[j] <= v)
      BY <1>1, <1>5, <2>3, ColumnFacts, SizesAssumption DEF LeastCost
    <3> HIDE DEF v, c
    <3> DEFINE w == p[j]
    <3>2. w \in Int /\ (c > 0 => v <= w) /\ (c < 0 => w <= v)
      BY <3>1
    <3> HIDE DEF w
    <3>3. c * v <= c * w
      <4>1. CASE c = 0
        BY <2>2, <3>2, <4>1
      <4>2. CASE c # 0
        BY <2>2, <3>2, <4>2, ProductOrder
      <4> QED BY <4>1, <4>2
    <3> QED BY <3>3 DEF w
  <2> HIDE DEF v
  <2> QED BY <1>1, <1>2, <2>1, <2>2, <2>3, FixVariableRight
<1> QED BY <1>3, <1>4, <1>5

LEMMA FixedVariableRight ==
    ASSUME Ready, FixedVariable
    PROVE  StepRight
<1> PICK j \in Cols : FixedVariable!(j)
  BY DEF FixedVariable
<1>1. j \in ctx.cols /\ ~(ctx.lo[j] < ctx.up[j])
  BY DEF At, ClosedCols
<1>2. CASE ctx.lo[j] > ctx.up[j]
  <2>1. ctx' = [ctx EXCEPT !.status = "Infeasible"]
    BY <1>2 DEF Prove
  <2> QED BY <1>1, <1>2, <2>1, ColumnFacts, StatusOnly
<1>3. CASE ~(ctx.lo[j] > ctx.up[j])
  <2> DEFINE v == ctx.lo[j]
  <2>1. ctx' = FixVariable(ctx, j, v)
    BY <1>3 DEF Did
  <2>2. v \in Int /\ \A p : Stands(p) => p[j] = v
    BY <1>1, ColumnFacts
  <2> HIDE DEF v
  <2> QED BY <1>1, <2>1, <2>2, FixVariableRight
<1> QED BY <1>2, <1>3

LEMMA SingletonRowRight ==
    ASSUME Ready, SingletonRow
    PROVE  StepRight
<1> PICK i \in Rows : SingletonRow!(i)
  BY DEF SingletonRow
<1> DEFINE j == Min(RowEntries(ctx, i))
           new == UnderRow(i, j)
           action == [type |-> "SingletonRow", row |-> i, col |-> j, coeff |-> lp.a[i][j],
                      lo |-> ctx.rlo[i], up |-> ctx.rup[i]]
<1>1. i \in SingletonRows /\ j \in ctx.cols /\ pc = "singletonRows"
  BY OnlyEntry DEF At, Ready
<1>2. RowDivides(i, j)
  BY <1>1 DEF Ready, DivisionsExact, RowDivides
<1>3. /\ new.lo \in Int /\ new.up \in Int
      /\ \A p : Stands(p) =>
            /\ new.lo > -Threshold => new.lo <= p[j]
            /\ new.up < Threshold => p[j] <= new.up
            /\ new.lo <= new.up
  BY <1>1, <1>2, UnderRowHolds DEF Ready, Stands
<1>4. CASE new.lo > new.up
  <2>1. ctx' = [ctx EXCEPT !.status = "Infeasible"]
    BY <1>4 DEF Prove
  <2>2. \A p : ~Stands(p)
    <3> HIDE DEF new
    <3> QED BY <1>3, <1>4
  <2> QED BY <2>1, <2>2, StatusOnly
<1>5. CASE ~(new.lo > new.up)
  <2> DEFINE y == RemoveRow(Push([ctx EXCEPT !.lo[j] = new.lo, !.up[j] = new.up], action), i)
  <2>1. ctx' = y
    BY <1>5 DEF Did
  <2>2. RowBecameBounds(y, i, j, new.lo, new.up)
    <3> HIDE DEF new, action, j
    <3> QED BY DEF RowBecameBounds, RemoveRow, Push, Ready, Shaped, Fields
  <2> HIDE DEF y, new
  <2>3. Numbers(y)
    BY <1>1, <1>3, <2>2, RowBecameBoundsKeeps DEF Ready
  <2>4. ASSUME NEW p, Stands(p)
        PROVE  Kept(y, p)
    BY <1>1, <1>3, <2>2, <2>4, RowBecameBoundsKeeps DEF Ready, Stands
  <2>5. y.status = ctx.status
    BY <2>2 DEF RowBecameBounds
  <2> QED BY <2>1, <2>3, <2>4, <2>5 DEF StepRight
<1> QED BY <1>4, <1>5

LEMMA SingletonColumnRight ==
    ASSUME Ready, SingletonColumn
    PROVE  StepRight
<1> PICK j \in Cols : SingletonColumn!(j)
  BY DEF SingletonColumn
<1> DEFINE i == SubstitutionRow(j)
           a == lp.a[i][j]
           others == RowEntries(ctx, i) \ {j}
           action == [type |-> "SingletonColumn", col |-> j, row |-> i, coeff |-> a,
                      cost |-> ctx.c[j], rhs |-> ctx.rlo[i], others |-> others]
           w == [ctx EXCEPT
                   !.c = [k \in Cols |-> IF k \in others
                                         THEN @[k] - Quotient(ctx.c[j] * lp.a[i][k], a) ELSE @[k]],
                   !.offset = @ + Quotient(ctx.c[j] * ctx.rlo[i], a),
                   !.rlo[i] = Carried(j, i).lo, !.rup[i] = Carried(j, i).up]
           y == RemoveCol(Push(w, action), j)
<1>1. j \in SingletonCols /\ j \in ctx.cols /\ i \in ctx.rows /\ pc = "singletonCols" /\ a # 0
  BY OnlyRow DEF At, Ready, SingletonCols, ColEntries
<1>2. ColumnDivides(j, i)
  BY <1>1 DEF Ready, DivisionsExact, ColumnDivides
<1>3. ctx' = y
  BY DEF Did
<1>4. ColumnSubstituted(y, j, i)
  <2>1. /\ DOMAIN w = Fields
        /\ w.rows = ctx.rows /\ w.cols = ctx.cols /\ w.lo = ctx.lo /\ w.up = ctx.up
        /\ w.c = CostsWithout(j, i) /\ w.status = ctx.status
        /\ w.offset = ctx.offset + Quotient(ctx.c[j] * ctx.rlo[i], a)
        /\ w.rlo = [ctx.rlo EXCEPT ![i] = Carried(j, i).lo]
        /\ w.rup = [ctx.rup EXCEPT ![i] = Carried(j, i).up]
    <3>1. CostsWithout(j, i) = [k \in Cols |-> IF k \in others
                                THEN ctx.c[k] - Quotient(ctx.c[j] * lp.a[i][k], a) ELSE ctx.c[k]]
      BY DEF CostsWithout
    <3> QED BY <3>1 DEF Ready, Shaped, Fields
  <2> HIDE DEF w, action, a, i
  <2>2. /\ y.rows = w.rows /\ y.cols = w.cols \ {j} /\ y.lo = w.lo /\ y.up = w.up
        /\ y.c = w.c /\ y.offset = w.offset /\ y.rlo = w.rlo /\ y.rup = w.rup /\ y.status = w.status
    BY <2>1 DEF RemoveCol, Push, Fields
  <2> HIDE DEF y
  <2> QED BY <2>1, <2>2 DEF ColumnSubstituted, a, i
<1> HIDE DEF y
<1>5. Numbers(y)
  BY <1>1, <1>2, <1>4, ColumnSubstitutedNumbers DEF Ready
<1>6. ASSUME NEW p, Stands(p)
      PROVE  Kept(y, p)
  BY <1>1, <1>2, <1>4, <1>6, ColumnSubstitutedKeeps DEF Ready, Stands
<1>7. y.status = ctx.status
  BY <1>4 DEF ColumnSubstituted
<1> QED BY <1>3, <1>5, <1>6, <1>7 DEF StepRight

LEMMA ForcingRedundancyRight ==
    ASSUME Ready, ForcingRedundancy
    PROVE  StepRight
<1> PICK i \in Rows : ForcingRedundancy!(i)
  BY DEF ForcingRedundancy
<1>1. i \in ctx.rows
  BY DEF At, ActivityRows
<1>2. CASE Impossible(i)
  <2>1. ctx' = [ctx EXCEPT !.status = "Infeasible"]
    BY <1>2 DEF Prove
  <2>2. ASSUME NEW p, Stands(p)
        PROVE  FALSE
    <3>1. RowFacts(i, p)
      BY <1>1, <2>2, RowFactsHold DEF Ready, Stands
    <3> QED BY <1>2, <3>1, ForcingHolds DEF Ready
  <2> QED BY <2>1, <2>2, StatusOnly
<1>3. CASE ~Impossible(i) /\ Redundant(i)
  BY <1>1, <1>3, DropRowRight DEF Did
<1>4. CASE ~Impossible(i) /\ ~Redundant(i)
  BY <1>4, NothingChanged
<1> QED BY <1>2, <1>3, <1>4

LEMMA ForceColumnRight ==
    ASSUME Ready, ForceColumn
    PROVE  StepRight
<1> DEFINE i == cursor
           k == Min(RowEntries(ctx, i))
           v == IF pc = "forceLow" THEN LowEnd(i, k) ELSE HighEnd(i, k)
<1>1. i \in ctx.rows /\ pc \in {"forceLow", "forceHigh"}
  BY DEF ForceColumn, Ready, ForcingRowActive
<1>2. CASE RowEntries(ctx, i) = {}
  BY <1>1, <1>2, DropRowRight DEF ForceColumn
<1>3. CASE RowEntries(ctx, i) # {}
  <2>1. k \in RowEntries(ctx, i) /\ k \in ctx.cols /\ k \in Cols
    BY <1>3, RowEntriesLeast DEF RowEntries, Ready, Shaped
  <2>2. ctx' = FixVariable(ctx, k, v)
    BY <1>1, <1>3 DEF ForceColumn
  <2>3. v \in Int
    BY <2>1, EndsAreIntegers DEF Ready
  <2>4. \A p : Stands(p) => p[k] = v
    BY <1>1, <2>1 DEF Stands, ForcedAt
  <2> HIDE DEF k, v
  <2> QED BY <2>1, <2>2, <2>3, <2>4, FixVariableRight
<1> QED BY <1>2, <1>3

LEMMA BoundTighteningRight ==
    ASSUME Ready, BoundTightening
    PROVE  StepRight
<1> PICK i \in Rows : BoundTightening!(i)
  BY DEF BoundTightening
<1>1. i \in ctx.rows /\ ctx.rowDegree[i] > 1 /\ pc = "tightening" /\ RowEntries(ctx, i) \subseteq ctx.cols
  BY DEF At, TighteningRows, RowEntries
<1>2. ASSUME NEW k \in RowEntries(ctx, i)
      PROVE  /\ NewLower(i, k) \in Int /\ NewUpper(i, k) \in Int
             /\ \A p : Stands(p) =>
                   /\ NewLower(i, k) > -Threshold => NewLower(i, k) <= p[k]
                   /\ NewUpper(i, k) < Threshold => p[k] <= NewUpper(i, k)
                   /\ ~(NewLower(i, k) > NewUpper(i, k))
  <2>1. EntryDivides(i, k)
    BY <1>1, <1>2 DEF Ready, DivisionsExact, EntryDivides
  <2>2. HighEndUnder(i, k) \in Int /\ LowEndUnder(i, k) \in Int
    BY <1>1, <1>2, <2>1, NewEndsAreIntegers DEF Ready
  <2>3. NewLower(i, k) \in Int /\ NewUpper(i, k) \in Int
    BY <2>2 DEF NewLower, NewUpper
  <2>4. ASSUME NEW p, Stands(p)
        PROVE  /\ NewLower(i, k) > -Threshold => NewLower(i, k) <= p[k]
               /\ NewUpper(i, k) < Threshold => p[k] <= NewUpper(i, k)
               /\ ~(NewLower(i, k) > NewUpper(i, k))
    <3>1. RowFacts(i, p)
      BY <1>1, <2>4, RowFactsHold DEF Ready, Stands
    <3>2. /\ HoldsHigh(lp.a[i][k], HighEndUnder(i, k), p[k])
          /\ HoldsLow(lp.a[i][k], LowEndUnder(i, k), p[k])
      BY <1>1, <1>2, <2>1, <3>1, HighEndHolds, LowEndHolds DEF Ready
    <3>3. p[k] \in Int /\ Finite(p[k]) /\ lp.a[i][k] \in Int /\ lp.a[i][k] # 0
      BY <1>2, <3>1 DEF RowFacts, EntryFacts
    <3>4. /\ NewLower(i, k) > -Threshold => NewLower(i, k) <= p[k]
          /\ NewUpper(i, k) < Threshold => p[k] <= NewUpper(i, k)
      BY <3>2, <3>3 DEF NewLower, NewUpper, HoldsHigh, HoldsLow
    <3> QED BY <2>3, <3>3, <3>4, SizesAssumption DEF Finite
  <2> QED BY <2>3, <2>4
<1>3. CASE Crosses(i) # {}
  <2>1. ctx' = [ctx EXCEPT !.status = "Infeasible"]
    BY <1>3 DEF Prove
  <2>2. \A p : ~Stands(p)
    BY <1>2, <1>3 DEF Crosses
  <2> QED BY <2>1, <2>2, StatusOnly
<1>4. CASE Crosses(i) = {}
  <2> DEFINE newLo == [k \in Cols |-> IF k \in Tightens(i) THEN NewLower(i, k) ELSE ctx.lo[k]]
             newUp == [k \in Cols |-> IF k \in Tightens(i) THEN NewUpper(i, k) ELSE ctx.up[k]]
  <2>1. ctx' = [ctx EXCEPT !.lo = newLo, !.up = newUp]
    BY <1>4 DEF Did
  <2>2. newLo \in Vector /\ newUp \in Vector
    <3>1. \A k \in Cols : ctx.lo[k] \in Int /\ ctx.up[k] \in Int
      BY DEF Ready, Numbers, Vector
    <3>2. \A k \in Tightens(i) : NewLower(i, k) \in Int /\ NewUpper(i, k) \in Int
      BY <1>2 DEF Tightens
    <3> QED BY <3>1, <3>2 DEF Vector
  <2>3. ASSUME NEW p, Stands(p), NEW k \in ctx.cols
        PROVE  /\ newLo[k] > -Threshold => newLo[k] <= p[k]
               /\ newUp[k] < Threshold => p[k] <= newUp[k]
    <3>1. k \in Cols
      BY DEF Ready, Shaped
    <3>2. CASE k \in Tightens(i)
      <4>1. k \in RowEntries(ctx, i)
        BY <3>2 DEF Tightens
      <4>2. newLo[k] = NewLower(i, k) /\ newUp[k] = NewUpper(i, k)
        BY <3>1, <3>2
      <4> HIDE DEF newLo, newUp
      <4> QED BY <1>2, <2>3, <4>1, <4>2
    <3>3. CASE k \notin Tightens(i)
      <4>1. newLo[k] = ctx.lo[k] /\ newUp[k] = ctx.up[k]
        BY <3>1, <3>3
      <4> HIDE DEF newLo, newUp
      <4> QED BY <2>3, <4>1 DEF Stands, Kept, Fits
    <3> QED BY <3>2, <3>3
  <2> HIDE DEF newLo, newUp
  <2>4. /\ ctx'.rows = ctx.rows /\ ctx'.cols = ctx.cols /\ ctx'.lo = newLo /\ ctx'.up = newUp
        /\ ctx'.rlo = ctx.rlo /\ ctx'.rup = ctx.rup /\ ctx'.c = ctx.c /\ ctx'.offset = ctx.offset
        /\ ctx'.status = ctx.status
    BY <2>1 DEF Ready, Shaped, Fields
  <2>5. Numbers(ctx')
    BY <2>2, <2>4 DEF Ready, Numbers
  <2>6. ASSUME NEW p, Stands(p)
        PROVE  Kept(ctx', p)
    <3>1. Fits(ctx', p)
      BY <2>3, <2>4, <2>6 DEF Stands, Kept, Fits
    <3>2. ObjectiveIn(ctx', p) = ObjectiveIn(ctx, p)
      BY <2>4 DEF ObjectiveIn
    <3> QED BY <2>6, <3>1, <3>2 DEF Stands, Kept
  <2> QED BY <2>4, <2>5, <2>6 DEF StepRight
<1> QED BY <1>3, <1>4

LEMMA EveryStepRight ==
    ASSUME Ready, [Next]_vars
    PROVE  StepRight
<1>1. CASE UNCHANGED vars
  BY <1>1, NothingChanged DEF vars
<1>2. CASE BeginIteration
  BY <1>2, NothingChanged, StatusOnly DEF BeginIteration
<1>3. CASE PassLimitReached \/ EndPart
  BY <1>3, NothingChanged DEF PassLimitReached, EndPart
<1>4. CASE EndIteration
  BY <1>4, NothingChanged, StatusOnly DEF EndIteration
<1>5. CASE Finish
  <2>1. ctx' = [ctx EXCEPT !.status = FinalStatus]
    BY <1>5 DEF Finish
  <2>2. FinalStatus = "Infeasible" => ctx.status = "Infeasible"
    BY DEF FinalStatus, Proved
  <2> QED BY <2>1, <2>2, StatusOnly
<1> QED BY <1>1, <1>2, <1>3, <1>4, <1>5, EmptyRowRight, EmptyColumnRight, FixedVariableRight,
           SingletonRowRight, SingletonColumnRight, ForcingRedundancyRight, ForceColumnRight,
           BoundTighteningRight DEF Next

-----------------------------------------------------------------------------
(* The invariants.                                                         *)

LEMMA SolutionsStand ==
    ASSUME SmallPoints, SolutionsFit, ForcedEnds, NEW p \in Feasible(Points)
    PROVE  Stands(p)
  BY PointsAreSmall DEF SolutionsFit, ForcedEnds, Stands, Kept, ForcedAt

LEMMA ReadyNow ==
    ActiveInductive /\ NumbersOK /\ DivisionsExact => Ready
  BY ModelIsOK, ControlShaped DEF ActiveInductive, NumbersOK, Ready, CachesExact, Exact, Numbers, Vector

LEMMA NumbersStep ==
    ASSUME ActiveInductive, NumbersOK, DivisionsExact, [Next]_vars
    PROVE  NumbersOK'
<1>1. Numbers(ctx')
  BY ReadyNow, EveryStepRight DEF StepRight
<1> QED BY <1>1 DEF Numbers, NumbersOK, Vector

LEMMA SmallPointsStep ==
    ASSUME SmallPoints, [Next]_vars
    PROVE  SmallPoints'
<1>1. lp' = lp
  BY Frame
<1> QED BY <1>1 DEF SmallPoints, SmallPoint, Activity

LEMMA SolutionsStep ==
    ASSUME ActiveInductive, NumbersOK, DivisionsExact, SmallPoints, SolutionsFit, ForcedEnds,
           InfeasibleHasNone, [Next]_vars
    PROVE  SolutionsFit' /\ InfeasibleHasNone'
<1>1. lp' = lp
  BY Frame
<1>2. Feasible(Points)' = Feasible(Points)
  BY <1>1 DEF Feasible, Activity
<1>3. StepRight
  BY ReadyNow, EveryStepRight
<1>4. \A p \in Feasible(Points) : Stands(p)
  BY SolutionsStand
<1>5. SolutionsFit'
  <2>1. ASSUME NEW p \in Feasible(Points)
        PROVE  (Fits(ctx, p) /\ ObjectiveIn(ctx, p) <= Objective(p))'
    <3>1. Kept(ctx', p)
      BY <1>3, <1>4 DEF StepRight
    <3> QED BY <1>1, <3>1 DEF Kept, Fits, ObjectiveIn, Objective, Activity
  <2> QED BY <1>2, <2>1 DEF SolutionsFit
<1>6. InfeasibleHasNone'
  <2> SUFFICES ASSUME ctx'.status = "Infeasible"
               PROVE  Feasible(Points) = {}
    BY <1>2 DEF InfeasibleHasNone
  <2>1. CASE ctx.status = "Infeasible"
    BY <2>1 DEF InfeasibleHasNone
  <2>2. CASE \A p : ~Stands(p)
    BY <1>4, <2>2
  <2> QED BY <1>3, <2>1, <2>2 DEF StepRight
<1> QED BY <1>5, <1>6

\* The columns that are still to be fixed keep their ends while one of them goes.
LEMMA ForceColumnEnds ==
    ASSUME Ready, ForceColumn, pc' = pc
    PROVE  /\ RowEntries(ctx, cursor)' \subseteq RowEntries(ctx, cursor)
           /\ \A k \in RowEntries(ctx, cursor)' :
                 LowEnd(cursor, k)' = LowEnd(cursor, k) /\ HighEnd(cursor, k)' = HighEnd(cursor, k)
<1> DEFINE i == cursor
           l == Min(RowEntries(ctx, i))
           v == IF pc = "forceLow" THEN LowEnd(i, l) ELSE HighEnd(i, l)
<1>1. RowEntries(ctx, i) # {} /\ lp' = lp /\ cursor' = cursor /\ ctx' = FixVariable(ctx, l, v)
  BY DEF ForceColumn, args
<1>2. l \in ctx.cols /\ l \in Cols
  BY <1>1, RowEntriesLeast DEF RowEntries, Ready, Shaped
<1> HIDE DEF l, v
<1>3. /\ ctx'.cols = ctx.cols \ {l}
      /\ ctx'.lo = [ctx.lo EXCEPT ![l] = v] /\ ctx'.up = [ctx.up EXCEPT ![l] = v]
  <2>1. Shaped(ctx) /\ l \in ctx.cols
    BY <1>2 DEF Ready
  <2> QED BY <1>1, <2>1, FixVariableBox
<1>4. RowEntries(ctx, i)' = RowEntries(ctx, i) \ {l}
  BY <1>1, <1>3 DEF RowEntries
<1>5. \A k \in RowEntries(ctx, i)' : ctx'.lo[k] = ctx.lo[k] /\ ctx'.up[k] = ctx.up[k]
  <2>1. RowEntries(ctx, i) \subseteq Cols
    BY DEF Ready, Shaped, RowEntries
  <2> QED BY <1>3, <1>4, <2>1 DEF Ready, Numbers, Vector
<1> QED BY <1>1, <1>4, <1>5 DEF LowEnd, HighEnd

LEMMA ForcedEndsStep ==
    ASSUME Ready, SmallPoints, SolutionsFit, ForcedEnds, [Next]_vars
    PROVE  ForcedEnds'
<1>1. lp' = lp
  BY Frame
<1>2. Feasible(Points)' = Feasible(Points)
  BY <1>1 DEF Feasible, Activity
<1>3. CASE UNCHANGED vars
  <2>1. ctx' = ctx /\ pc' = pc /\ cursor' = cursor
    BY <1>3 DEF vars
  <2>2. \A k : /\ RowEntries(ctx, cursor)' = RowEntries(ctx, cursor)
               /\ LowEnd(cursor, k)' = LowEnd(cursor, k) /\ HighEnd(cursor, k)' = HighEnd(cursor, k)
    BY <1>1, <2>1 DEF RowEntries, LowEnd, HighEnd
  <2> QED BY <1>2, <2>1, <2>2 DEF ForcedEnds
<1>4. CASE ForcingRedundancy
  <2> PICK i \in Rows : ForcingRedundancy!(i)
    BY <1>4 DEF ForcingRedundancy
  <2>1. i \in ActivityRows /\ i \in ctx.rows
    BY DEF At, ActivityRows
  <2>2. CASE Impossible(i) \/ Redundant(i)
    <3>1. pc' \notin {"forceLow", "forceHigh"}
      BY <2>2 DEF At, Did, Prove
    <3> QED BY <3>1 DEF ForcedEnds
  <2>3. CASE ~(Impossible(i) \/ Redundant(i))
    <3>1. /\ cursor' = i /\ ctx' = ctx
          /\ pc' = IF ForcesLow(i) THEN "forceLow" ELSE "forceHigh"
          /\ ForcesLow(i) \/ ForcesHigh(i)
      BY <2>1, <2>3 DEF ActivityRows
    <3>2. \A p \in Feasible(Points) : RowFacts(i, p)
      BY <2>1, SolutionsStand, RowFactsHold DEF Ready, Stands
    <3>3. \A p \in Feasible(Points), k \in RowEntries(ctx, i) :
             (ForcesLow(i) => p[k] = LowEnd(i, k)) /\ (ForcesHigh(i) => p[k] = HighEnd(i, k))
      BY <3>2, ForcingHolds DEF Ready
    <3>4. \A k : /\ RowEntries(ctx, cursor)' = RowEntries(ctx, i)
                 /\ LowEnd(cursor, k)' = LowEnd(i, k) /\ HighEnd(cursor, k)' = HighEnd(i, k)
      BY <1>1, <3>1 DEF RowEntries, LowEnd, HighEnd
    <3> QED BY <1>2, <3>1, <3>3, <3>4 DEF ForcedEnds
  <2> QED BY <2>2, <2>3
<1>5. CASE ForceColumn
  <2>1. CASE pc' \notin {"forceLow", "forceHigh"}
    BY <2>1 DEF ForcedEnds
  <2>2. CASE pc' \in {"forceLow", "forceHigh"}
    <3>1. pc' = pc /\ cursor' = cursor
      BY <1>5, <2>2 DEF ForceColumn
    <3>2. /\ RowEntries(ctx, cursor)' \subseteq RowEntries(ctx, cursor)
          /\ \A k \in RowEntries(ctx, cursor)' :
                LowEnd(cursor, k)' = LowEnd(cursor, k) /\ HighEnd(cursor, k)' = HighEnd(cursor, k)
      BY <1>5, <3>1, ForceColumnEnds
    <3> QED BY <1>2, <3>1, <3>2 DEF ForcedEnds
  <2> QED BY <2>1, <2>2
<1>6. CASE Next /\ ~ForcingRedundancy /\ ~ForceColumn
  BY <1>6, OnlyForcingForces DEF ForcedEnds
<1> QED BY <1>3, <1>4, <1>5, <1>6

LEMMA InitNumbers ==
    Init => NumbersOK
  BY ModelsAssumption DEF Init, NewContext, Model, NumbersOK

LEMMA InitSolutions ==
    ASSUME Init, SmallPoints
    PROVE  SolutionsFit /\ ForcedEnds /\ InfeasibleHasNone
<1>1. /\ lp \in Model /\ pc = "iterate"
      /\ ctx.rows = Rows /\ ctx.cols = Cols /\ ctx.lo = lp.lo /\ ctx.up = lp.up
      /\ ctx.rlo = lp.rlo /\ ctx.rup = lp.rup /\ ctx.c = lp.c /\ ctx.offset = lp.offset
      /\ ctx.status = IF CrossedBounds(lp) THEN "Infeasible" ELSE "Unchanged"
  BY ModelsAssumption DEF Init, NewContext
<1>2. /\ \A i \in Rows : lp.a[i] \in Vector /\ lp.rlo[i] \in Int /\ lp.rup[i] \in Int
      /\ \A j \in Cols : lp.lo[j] \in Int /\ lp.up[j] \in Int
      /\ lp.c \in Vector /\ lp.offset \in Int
  BY <1>1 DEF Model, Vector
<1>3. SolutionsFit
  <2> SUFFICES ASSUME NEW p \in Feasible(Points)
               PROVE  Fits(ctx, p) /\ ObjectiveIn(ctx, p) <= Objective(p)
    BY DEF SolutionsFit
  <2>1. Fits(ctx, p)
    BY <1>1 DEF Fits, Feasible, Between
  <2>2. ObjectiveIn(ctx, p) = Objective(p)
    BY <1>1 DEF ObjectiveIn, Objective
  <2>3. Objective(p) \in Int
    <3>1. p \in Vector /\ Cols \subseteq Cols
      BY PointsAssumption DEF Feasible, Vector
    <3> QED BY <1>2, <3>1, ObjectiveIsDot, DotInteger
  <2> QED BY <2>1, <2>2, <2>3
<1>4. ForcedEnds
  BY <1>1 DEF ForcedEnds
<1>5. InfeasibleHasNone
  <2> SUFFICES ASSUME CrossedBounds(lp), NEW p \in Feasible(Points)
               PROVE  FALSE
    BY <1>1 DEF InfeasibleHasNone
  <2>1. p \in Vector /\ Cols \subseteq Cols /\ \A j \in Cols : p[j] \in Int
    BY PointsAssumption DEF Feasible, Vector
  <2>2. \A i \in Rows : Activity(i, p, Cols) \in Int
    BY <1>2, <2>1, ActivityIsDot, DotInteger
  <2>3. /\ \A j \in Cols : lp.lo[j] <= p[j] /\ p[j] <= lp.up[j]
        /\ \A i \in Rows : lp.rlo[i] <= Activity(i, p, Cols) /\ Activity(i, p, Cols) <= lp.rup[i]
    BY DEF Feasible, Between
  <2>4. (\A j \in Cols : ~(lp.lo[j] > lp.up[j])) /\ (\A i \in Rows : ~(lp.rlo[i] > lp.rup[i]))
    BY <1>2, <2>1, <2>2, <2>3
  <2> QED BY <2>4 DEF CrossedBounds
<1> QED BY <1>3, <1>4, <1>5

\* The numbers of the working model stay integers, and what steers the loops stays in
\* its range, as long as the divisions come out even.
THEOREM TypesCorrect == Spec /\ []DivisionsExact => []TypeOK
<1>1. Init => NumbersOK
  BY InitNumbers
<1>2. ActiveInductive /\ NumbersOK /\ DivisionsExact /\ [Next]_vars => NumbersOK'
  BY NumbersStep
<1>3. ActiveInductive /\ NumbersOK => TypeOK
  BY DEF ActiveInductive, TypeOK
<1> QED BY <1>1, <1>2, <1>3, ActiveInvariant, PTL DEF Spec

\* SolutionsInductive is inductive.
LEMMA SolutionsInvariant == Spec /\ SmallPoints /\ []DivisionsExact => []SolutionsInductive
<1>1. Init /\ SmallPoints => SolutionsInductive
  BY InitNumbers, InitSolutions DEF SolutionsInductive
<1>2. SmallPoints /\ [Next]_vars => SmallPoints'
  BY SmallPointsStep
<1>3. /\ ActiveInductive /\ SolutionsInductive /\ SmallPoints /\ DivisionsExact
      /\ [Next]_vars
      => SolutionsInductive'
  BY ReadyNow, NumbersStep, SolutionsStep, ForcedEndsStep DEF SolutionsInductive
<1> QED BY <1>1, <1>2, <1>3, ActiveInvariant, PTL DEF Spec

\* What is left of a solution of the model is, at every moment of the run, a solution
\* of the working model that costs no more (docs/presolve.md 1.2).
THEOREM SolutionsSurvive == Spec /\ SmallPoints /\ []DivisionsExact => []SolutionsKept
<1>1. SolutionsInductive => SolutionsKept
  BY DEF SolutionsInductive, SolutionsFit, SolutionsKept, Fits, FeasibleIn, Finite
<1> QED BY <1>1, SolutionsInvariant, PTL

\* A model that a pass, or the context's own check, calls infeasible has no solution.
THEOREM InfeasibleProved == Spec /\ SmallPoints /\ []DivisionsExact => []InfeasibleHasNone
<1>1. SolutionsInductive => InfeasibleHasNone
  BY DEF SolutionsInductive
<1> QED BY <1>1, SolutionsInvariant, PTL

=============================================================================
