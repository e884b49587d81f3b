------------------------------- MODULE LUFactors -------------------------------
(***************************************************************************)
(* SparseLU (src/src/factorization/sparse_lu.cpp) and DenseLU              *)
(* (dense_lu.cpp): Gaussian elimination of a square matrix b, a function   *)
(* of a row and a column, and the solves with its factors.  Step k of the  *)
(* elimination takes the pivot row p[k] and the pivot column q[k]; L[k]    *)
(* holds the multipliers by row, U[k] the pivot row by column, as the code *)
(* stores them: the permutation is applied by the solves.                  *)
(***************************************************************************)
EXTENDS FixedPoint

CONSTANT Markowitz    \* 1 / SimplexConfig::markowitz_threshold

ASSUME MarkowitzAssumption == Markowitz \in Nat \ {0}

Dim(b) == DOMAIN b
StepsUp(b) == [k \in Dim(b) |-> k]
StepsDown(b) == Reverse(StepsUp(b))

-----------------------------------------------------------------------------
(* SparseLU.                                                               *)

NotFactorized == [ok |-> FALSE]

ActiveEntries(st) == {e \in st.rows \X st.cols : st.a[e[1]][e[2]] # 0}
SizeOf(st, e) == Magnitude(st.a[e[1]][e[2]])

RowDegreeOf(st, r) == Cardinality({e \in ActiveEntries(st) : e[1] = r})
ColDegreeOf(st, c) == Cardinality({e \in ActiveEntries(st) : e[2] = c})
MarkowitzCost(st, e) == (RowDegreeOf(st, e[1]) - 1) * (ColDegreeOf(st, e[2]) - 1)

\* The entries that are large enough in their column to be pivots.
PivotCandidates(st) ==
    {e \in ActiveEntries(st) : \A f \in ActiveEntries(st) :
        f[2] = e[2] => SizeOf(st, e) * Markowitz >= SizeOf(st, f)}

\* The search goes through the columns in order and ends at the first entry without
\* fill-in; without one, least cost and then largest size win.  Within a column the
\* order is that of a hash table: CHOOSE takes one.
Cheapest(st, all) == {e \in all : \A f \in all : MarkowitzCost(st, e) <= MarkowitzCost(st, f)}
Largest(st, all) == {e \in all : \A f \in all : SizeOf(st, e) >= SizeOf(st, f)}
BestPivots(st, cheap) ==
    IF \A e \in cheap : MarkowitzCost(st, e) = 0 THEN cheap ELSE Largest(st, cheap)
FirstColumn(best) == CHOOSE e \in best : \A f \in best : e[2] <= f[2]
MarkowitzPivot(st) == FirstColumn(BestPivots(st, Cheapest(st, PivotCandidates(st))))

\* One step of the elimination at entry e.
Multipliers(st, e) == Vector([r \in DOMAIN st.a |-> IF r \in st.rows \ {e[1]} THEN Over(st.a[r][e[2]], st.a[e[1]][e[2]]) ELSE 0])
PivotRow(st, e) == Vector([c \in DOMAIN st.a |-> IF c \in st.cols \ {e[2]} THEN st.a[e[1]][c] ELSE 0])

Rest(a, mult, row) ==
    Vector([r \in DOMAIN a |-> Vector([c \in DOMAIN a |-> a[r][c] - Times(mult[r], row[c])])])

EliminateAt(st, e, mult, row) ==
    [st EXCEPT !.rows = @ \ {e[1]}, !.cols = @ \ {e[2]},
               !.p = Append(@, e[1]), !.q = Append(@, e[2]), !.diag = Append(@, st.a[e[1]][e[2]]),
               !.L = Append(@, mult), !.U = Append(@, row), !.a = Rest(@, mult, row)]

EliminateWith(st, e) == EliminateAt(st, e, Multipliers(st, e), PivotRow(st, e))
Eliminate(st, k) ==
    IF ~st.ok \/ PivotCandidates(st) = {} THEN NotFactorized ELSE EliminateWith(st, MarkowitzPivot(st))

\* SparseLU::factorize: a failure leaves is_factorized_ false.
FactorsOf(st) ==
    IF st.ok THEN [ok |-> TRUE, p |-> st.p, q |-> st.q, diag |-> st.diag, L |-> st.L, U |-> st.U]
    ELSE NotFactorized
SparseFactorize(b) ==
    FactorsOf(FoldLeft(Eliminate,
                       [ok |-> TRUE, rows |-> Dim(b), cols |-> Dim(b),
                        p |-> <<>>, q |-> <<>>, diag |-> <<>>, L |-> <<>>, U |-> <<>>,
                        a |-> [r \in Dim(b) |-> [c \in Dim(b) |-> b[r][c] * One]]],
                       StepsUp(b)))

PlaceIn(perm, r) == CHOOSE k \in DOMAIN perm : perm[k] = r

SparseFtran(lu, rhs) ==
    LET n == DOMAIN rhs
        y == FoldLeft(LAMBDA v, k : Vector([s \in n |-> v[s] - Times(lu.L[k][lu.p[s]], v[k])]),
                      [k \in n |-> rhs[lu.p[k]]], StepsUp(rhs))
        z == FoldLeft(LAMBDA v, k :
                        [v EXCEPT ![k] = Over(@ - Total(LAMBDA s : Times(lu.U[k][lu.q[s]], v[s]),
                                                        {s \in n : s > k}), lu.diag[k])],
                      y, StepsDown(rhs))
    IN Vector([c \in n |-> z[PlaceIn(lu.q, c)]])

SparseBtran(lu, rhs) ==
    LET n == DOMAIN rhs
        w == [k \in n |-> rhs[lu.q[k]]]
        v == FoldLeft(LAMBDA t, k :
                        LET tk == Over(w[k] - t[k], lu.diag[k])
                        IN Vector([s \in n |-> IF s = k THEN tk ELSE t[s] + Times(lu.U[k][lu.q[s]], tk)]),
                      [k \in n |-> 0], StepsUp(rhs))
        z == FoldLeft(LAMBDA t, k :
                        [t EXCEPT ![k] = @ - Total(LAMBDA s : Times(lu.L[k][lu.p[s]], t[s]),
                                                   {s \in n : s > k})],
                      v, StepsDown(rhs))
    IN Vector([r \in n |-> z[PlaceIn(lu.p, r)]])

-----------------------------------------------------------------------------
(* DenseLU: partial pivoting in place, columns in order.                   *)

LargestRow(a, k) ==
    LET below == {i \in DOMAIN a : i >= k}
        best == {i \in below : \A l \in below : Magnitude(a[i][k]) >= Magnitude(a[l][k])}
    IN Min(best)

Swapped(f, k, l) == [f EXCEPT ![k] = f[l], ![l] = f[k]]

DenseRest(a, k, factor) ==
    Vector([i \in DOMAIN a |-> Vector([j \in DOMAIN a |->
        IF i <= k \/ j < k THEN a[i][j] ELSE IF j = k THEN factor[i] ELSE a[i][j] - Times(factor[i], a[k][j])])])
DenseStep(st, a, k, r) ==
    IF a[k][k] = 0 THEN NotFactorized
    ELSE [ok |-> TRUE, piv |-> Swapped(st.piv, k, r),
          a |-> DenseRest(a, k, Vector([i \in DOMAIN a |-> IF i > k THEN Over(a[i][k], a[k][k]) ELSE 0]))]
DenseSwap(st, k, r) == DenseStep(st, Swapped(st.a, k, r), k, r)
DenseEliminate(st, k) == IF st.ok THEN DenseSwap(st, k, LargestRow(st.a, k)) ELSE st

DenseFactorize(b) ==
    FoldLeft(DenseEliminate,
             [ok |-> TRUE, piv |-> StepsUp(b),
              a |-> [r \in Dim(b) |-> [c \in Dim(b) |-> b[r][c] * One]]],
             StepsUp(b))

\* v with the dot product of coefficients and later (earlier) values taken off at k.
Less(v, k, coeff(_), others) == [v EXCEPT ![k] = @ - Total(LAMBDA j : Times(coeff(j), v[j]), others)]

DenseFtran(lu, rhs) ==
    LET n == DOMAIN rhs
        y == FoldLeft(LAMBDA v, i : Less(v, i, LAMBDA j : lu.a[i][j], {j \in n : j < i}),
                      [i \in n |-> rhs[lu.piv[i]]], StepsUp(rhs))
    IN FoldLeft(LAMBDA v, i :
                  LET r == Less(v, i, LAMBDA j : lu.a[i][j], {j \in n : j > i})
                  IN [r EXCEPT ![i] = Over(@, lu.a[i][i])],
                y, StepsDown(rhs))

DenseBtran(lu, rhs) ==
    LET n == DOMAIN rhs
        y == FoldLeft(LAMBDA v, i :
                        LET r == Less(v, i, LAMBDA j : lu.a[j][i], {j \in n : j < i})
                        IN [r EXCEPT ![i] = Over(@, lu.a[i][i])],
                      rhs, StepsUp(rhs))
        z == FoldLeft(LAMBDA v, i : Less(v, i, LAMBDA j : lu.a[j][i], {j \in n : j > i}),
                      y, StepsDown(rhs))
    IN Vector([r \in n |-> z[PlaceIn(lu.piv, r)]])

=============================================================================
