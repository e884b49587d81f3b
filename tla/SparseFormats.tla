--------------------------- MODULE SparseFormats ---------------------------
(***************************************************************************)
(* The sparse matrix formats and what they compute, as operators.          *)
(*   - A coordinate matrix (COO) is a record of its dimensions, its list   *)
(*     of triplets and the three flags the class keeps about the list.     *)
(*   - A compressed matrix (CSR or CSC) has ptr[i], the number of entries  *)
(*     before row (column) i, and the entries' indices and values.         *)
(* Rows, columns and vector entries are counted from 0 as in the code; the *)
(* slots of ind and val, TLA+ sequences, from 1: slot k of the code is     *)
(* k + 1 here.  A vector is a function on 0 .. n-1.                        *)
(***************************************************************************)
EXTENDS Integers, Sequences, FiniteSets, FiniteSetsExt, SequencesExt

Abs(v) == IF v < 0 THEN -v ELSE v
Indices(n) == 0 .. n-1

-----------------------------------------------------------------------------
(* Triplets: order, merging.                                               *)

Triplet(r, c, v) == [row |-> r, col |-> c, val |-> v]

RowMajorLess(a, b) == a.row < b.row \/ (a.row = b.row /\ a.col < b.col)
ColMajorLess(a, b) == a.col < b.col \/ (a.col = b.col /\ a.row < b.row)
Less(a, b, order) == IF order = "row" THEN RowMajorLess(a, b) ELSE ColMajorLess(a, b)

SameCell(a, b) == a.row = b.row /\ a.col = b.col

\* std::stable_sort: position k goes to the triplet with k-1 others before it.
StableSort(ts, order) ==
    LET before(i) == {j \in DOMAIN ts : \/ Less(ts[j], ts[i], order)
                                        \/ SameCell(ts[j], ts[i]) /\ j < i}
        rank == [i \in DOMAIN ts |-> Cardinality(before(i)) + 1]
    IN [k \in DOMAIN ts |-> ts[CHOOSE i \in DOMAIN ts : rank[i] = k]]

\* Neighbours in the same cell become one triplet.
Merged(ts) ==
    FoldLeft(LAMBDA kept, t :
                 IF kept # <<>> /\ SameCell(Last(kept), t)
                 THEN [kept EXCEPT ![Len(kept)].val = @ + t.val]
                 ELSE Append(kept, t),
             <<>>, ts)

\* The triplets with a value, in their order.
WithoutZeros(ts) == FoldLeft(LAMBDA kept, t : IF t.val # 0 THEN Append(kept, t) ELSE kept, <<>>, ts)

\* Mutant: sorted in whichever order is good enough.
CanonicalAnyOrder(A, order) ==
    IF A.sorted /\ ~A.dups THEN A.triplets ELSE Merged(StableSort(A.triplets, order))

\* The triplets a conversion starts from: re-sorted and merged unless the
\* flags say that they already are.
Canonical(A, order) ==
    IF A.sorted /\ A.order = order /\ ~A.dups
    THEN A.triplets
    ELSE Merged(StableSort(A.triplets, order))

-----------------------------------------------------------------------------
(* Compressed rows and columns.                                            *)

\* Counting and prefix sums: ptr[i] is the number of entries before i.
Pointers(n, ind) == [i \in 0 .. n |-> Cardinality({k \in DOMAIN ind : ind[k] < i})]

Compressed(rows, cols, ptr, ind, val) ==
    [rows |-> rows, cols |-> cols, ptr |-> ptr, ind |-> ind, val |-> val]

Slots(A, i) == A.ptr[i] + 1 .. A.ptr[i+1]
Owner(A, n, k) == CHOOSE i \in Indices(n) : k \in Slots(A, i)

CooToCSR(A) ==
    LET ts == IF A.rows = 0 \/ A.cols = 0 THEN <<>> ELSE Canonical(A, "row")
    IN Compressed(A.rows, A.cols,
                  Pointers(A.rows, [k \in DOMAIN ts |-> ts[k].row]),
                  [k \in DOMAIN ts |-> ts[k].col], [k \in DOMAIN ts |-> ts[k].val])

CooToCSC(A) ==
    LET ts == IF A.rows = 0 \/ A.cols = 0 THEN <<>> ELSE Canonical(A, "col")
    IN Compressed(A.rows, A.cols,
                  Pointers(A.cols, [k \in DOMAIN ts |-> ts[k].col]),
                  [k \in DOMAIN ts |-> ts[k].row], [k \in DOMAIN ts |-> ts[k].val])

ValidCompressed(A, major, minor) ==
    /\ A.ptr[0] = 0
    /\ A.ptr[major] = Len(A.val) /\ Len(A.ind) = Len(A.val)
    /\ \A i \in Indices(major) :
          /\ A.ptr[i] <= A.ptr[i+1]
          /\ \A k \in Slots(A, i) :
                /\ A.ind[k] \in Indices(minor)
                /\ k - 1 \in Slots(A, i) => A.ind[k-1] < A.ind[k]

\* The constructors throw when these do not hold.
CsrValidate(A) == DOMAIN A.ptr = 0 .. A.rows /\ ValidCompressed(A, A.rows, A.cols)
CscValidate(A) == DOMAIN A.ptr = 0 .. A.cols /\ ValidCompressed(A, A.cols, A.rows)

\* Where slot k of a compressed matrix goes in its transpose: the cursor of
\* its new row has passed the earlier slots of the same index.
Destination(A, ptr, k) ==
    ptr[A.ind[k]] + Cardinality({l \in 1 .. k : A.ind[l] = A.ind[k]})

Scattered(A, ptr, values) ==
    [d \in DOMAIN A.ind |-> values[CHOOSE k \in DOMAIN A.ind : Destination(A, ptr, k) = d]]

CsrToCSC(A) ==
    LET ptr == Pointers(A.cols, A.ind)
    IN Compressed(A.rows, A.cols, ptr,
                  Scattered(A, ptr, [k \in DOMAIN A.ind |-> Owner(A, A.rows, k)]),
                  Scattered(A, ptr, A.val))

CscToCSR(A) ==
    LET ptr == Pointers(A.rows, A.ind)
    IN Compressed(A.rows, A.cols, ptr,
                  Scattered(A, ptr, [k \in DOMAIN A.ind |-> Owner(A, A.cols, k)]),
                  Scattered(A, ptr, A.val))

\* The constructor from triplets trusts nothing about them; sort says the rest.
FromTriplets(rows, cols, ts) ==
    [rows |-> rows, cols |-> cols, triplets |-> ts,
     sorted |-> FALSE, order |-> "row", dups |-> TRUE]

SortedBy(A, order) ==
    [A EXCEPT !.triplets = StableSort(A.triplets, order), !.sorted = TRUE, !.order = order]

CsrToCOO(A) ==
    SortedBy(FromTriplets(A.rows, A.cols,
                 [k \in DOMAIN A.ind |-> Triplet(Owner(A, A.rows, k), A.ind[k], A.val[k])]),
             "row")

CscToCOO(A) ==
    SortedBy(FromTriplets(A.rows, A.cols,
                 [k \in DOMAIN A.ind |-> Triplet(A.ind[k], Owner(A, A.cols, k), A.val[k])]),
             "col")

-----------------------------------------------------------------------------
(* Entries.  A dense matrix is a function on the cells.                    *)

Cells(rows, cols) == Indices(rows) \X Indices(cols)

CooCoeff(A, r, c) ==
    MapThenSumSet(LAMBDA k : A.triplets[k].val,
                  {k \in DOMAIN A.triplets : SameCell(A.triplets[k], [row |-> r, col |-> c])})

\* std::lower_bound in the slots of one row (column).
LowerBound(A, i, j) ==
    Min({k \in Slots(A, i) : A.ind[k] >= j} \cup {A.ptr[i+1] + 1})

Found(A, i, j, k) == IF k \in Slots(A, i) /\ A.ind[k] = j THEN A.val[k] ELSE 0

CsrCoeff(A, r, c) == Found(A, r, c, LowerBound(A, r, c))
CscCoeff(A, r, c) == Found(A, c, r, LowerBound(A, c, r))

CooToDense(A) == [cell \in Cells(A.rows, A.cols) |-> CooCoeff(A, cell[1], cell[2])]
CsrToDense(A) ==
    [cell \in Cells(A.rows, A.cols) |->
        MapThenSumSet(LAMBDA k : A.val[k], {k \in Slots(A, cell[1]) : A.ind[k] = cell[2]})]
CscToDense(A) ==
    [cell \in Cells(A.rows, A.cols) |->
        MapThenSumSet(LAMBDA k : A.val[k], {k \in Slots(A, cell[2]) : A.ind[k] = cell[1]})]

\* DenseMatrix::to_coo: cells above the tolerance, row by row.
DenseToCOO(D, rows, cols, tol) ==
    FromTriplets(rows, cols,
        SelectSeq([k \in 1 .. rows * cols |->
                      LET cell == <<(k-1) \div cols, (k-1) % cols>>
                      IN Triplet(cell[1], cell[2], D[cell])],
                  LAMBDA t : Abs(t.val) > tol))

DenseMatmul(D, E, rows, inner, cols) ==
    [cell \in Cells(rows, cols) |->
        MapThenSumSet(LAMBDA k : D[cell[1], k] * E[k, cell[2]], Indices(inner))]

DenseIdentity(n) == [cell \in Cells(n, n) |-> IF cell[1] = cell[2] THEN 1 ELSE 0]

-----------------------------------------------------------------------------
(* Vectors, y = alpha * A * x + beta * y and its transpose.                *)

\* What a product starts from: y filled with 0, scaled or left alone.
Scaled(beta, y) ==
    IF beta = 0 THEN [i \in DOMAIN y |-> 0] ELSE [i \in DOMAIN y |-> beta * y[i]]

\* A product that accumulates into y, one entry of the matrix at a time.
Accumulated(alpha, entries, x, y) ==
    IF alpha = 0 THEN y
    ELSE [i \in DOMAIN y |->
             y[i] + MapThenSumSet(LAMBDA e : alpha * e.val * x[e.from],
                                  {e \in entries : e.to = i})]

\* A product that computes each entry of y from a dot product.
Combined(alpha, dot, beta, old) == IF beta = 0 THEN alpha * dot ELSE alpha * dot + beta * old

SlotDot(A, i, x) == MapThenSumSet(LAMBDA k : A.val[k] * x[A.ind[k]], Slots(A, i))

CooSpmv(A, alpha, x, beta, y) ==
    Accumulated(alpha,
                {[k |-> k, to |-> A.triplets[k].row, from |-> A.triplets[k].col,
                  val |-> A.triplets[k].val] : k \in DOMAIN A.triplets},
                x, Scaled(beta, y))
CooSpmvTranspose(A, alpha, x, beta, y) ==
    Accumulated(alpha,
                {[k |-> k, to |-> A.triplets[k].col, from |-> A.triplets[k].row,
                  val |-> A.triplets[k].val] : k \in DOMAIN A.triplets},
                x, Scaled(beta, y))

CsrSpmv(A, alpha, x, beta, y) ==
    [i \in Indices(A.rows) |-> Combined(alpha, SlotDot(A, i, x), beta, y[i])]
CsrSpmvTranspose(A, alpha, x, beta, y) ==
    Accumulated(alpha,
                {[k |-> k, to |-> A.ind[k], from |-> Owner(A, A.rows, k), val |-> A.val[k]] :
                    k \in {l \in DOMAIN A.ind : x[Owner(A, A.rows, l)] # 0}},
                x, Scaled(beta, y))

CscSpmv(A, alpha, x, beta, y) ==
    Accumulated(alpha,
                {[k |-> k, to |-> A.ind[k], from |-> Owner(A, A.cols, k), val |-> A.val[k]] :
                    k \in {l \in DOMAIN A.ind : x[Owner(A, A.cols, l)] # 0}},
                x, Scaled(beta, y))
CscSpmvTranspose(A, alpha, x, beta, y) ==
    [j \in Indices(A.cols) |-> Combined(alpha, SlotDot(A, j, x), beta, y[j])]

Dot(u, v) == MapThenSumSet(LAMBDA i : u[i] * v[i], DOMAIN u)

DenseGemv(D, rows, cols, alpha, x, beta, y) ==
    [i \in Indices(rows) |->
        Combined(alpha, Dot([j \in Indices(cols) |-> D[i, j]], x), beta, y[i])]
DenseGemvTranspose(D, rows, cols, alpha, x, beta, y) ==
    LET start == Scaled(beta, y)
    IN IF alpha = 0 THEN start
       ELSE [j \in Indices(cols) |->
                start[j] + alpha * Dot([i \in Indices(rows) |-> D[i, j]], x)]

-----------------------------------------------------------------------------
(* Norms.  The Frobenius norm stays squared.                               *)

LargestSum(n, Sum(_)) == Max({0} \cup {Sum(i) : i \in Indices(n)})

AbsSum(val, S) == MapThenSumSet(LAMBDA k : Abs(val[k]), S)
SquareSum(val) == MapThenSumSet(LAMBDA k : val[k] * val[k], DOMAIN val)

CsrNormInf(A) == LargestSum(A.rows, LAMBDA i : AbsSum(A.val, Slots(A, i)))
CsrNorm1(A) == LargestSum(A.cols, LAMBDA j : AbsSum(A.val, {k \in DOMAIN A.ind : A.ind[k] = j}))
CscNorm1(A) == LargestSum(A.cols, LAMBDA j : AbsSum(A.val, Slots(A, j)))
CscNormInf(A) == LargestSum(A.rows, LAMBDA i : AbsSum(A.val, {k \in DOMAIN A.ind : A.ind[k] = i}))

\* A COO matrix that may hold duplicates is converted first.
TripletVals(A) == [k \in DOMAIN A.triplets |-> A.triplets[k].val]
CooNormInf(A) ==
    IF A.dups THEN CsrNormInf(CooToCSR(A))
    ELSE LargestSum(A.rows, LAMBDA i :
             AbsSum(TripletVals(A), {k \in DOMAIN A.triplets : A.triplets[k].row = i}))
CooNorm1(A) ==
    IF A.dups THEN CscNorm1(CooToCSC(A))
    ELSE LargestSum(A.cols, LAMBDA j :
             AbsSum(TripletVals(A), {k \in DOMAIN A.triplets : A.triplets[k].col = j}))
CooNormFrobenius(A) == SquareSum(IF A.dups THEN CooToCSR(A).val ELSE TripletVals(A))

DenseNormInf(D, rows, cols) ==
    LargestSum(rows, LAMBDA i : AbsSum([j \in Indices(cols) |-> D[i, j]], Indices(cols)))
DenseNorm1(D, rows, cols) ==
    LargestSum(cols, LAMBDA j : AbsSum([i \in Indices(rows) |-> D[i, j]], Indices(rows)))
DenseNormFrobenius(D) == SquareSum(D)

=============================================================================
