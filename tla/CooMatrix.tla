------------------------------ MODULE CooMatrix ------------------------------
(***************************************************************************)
(* The coordinate matrix as an object: the calls that assemble, sort and   *)
(* merge it, and the conversions and products every other component takes  *)
(* from it.  The three flags decide how much work a conversion may skip,   *)
(* so what has to be right is that no order of calls makes them lie.       *)
(***************************************************************************)
EXTENDS SparseFormats

CONSTANTS
    MaxDim,       \* largest number of rows and of columns (a bound)
    MaxTriplets,  \* longest list of triplets (a bound)
    Values,       \* the values the callers add, whole numbers
    MaxValue      \* largest magnitude of a cell (a bound)

ASSUME CooAssumption ==
    MaxDim \in Nat \ {0} /\ {MaxTriplets, MaxValue} \subseteq Nat /\ Values \subseteq Int

VARIABLES
    coo,    \* the object
    added   \* what the calls have said each cell is worth (ghost)

cooVars == <<coo, added>>

Orders == {"row", "col"}
AllCells == Cells(MaxDim, MaxDim)

NoMatrix == [rows |-> 0, cols |-> 0, triplets |-> <<>>,
             sorted |-> TRUE, order |-> "row", dups |-> FALSE]
NothingAdded == [cell \in AllCells |-> 0]

CooInit == coo = NoMatrix /\ added = NothingAdded

\* Mutant: a new entry is taken for a new cell.
AppendedAsNew(A, t) == [A EXCEPT !.triplets = Append(A.triplets, t), !.sorted = FALSE]

\* emplace_back: nothing is known about the list any more.
Appended(A, t) == [A EXCEPT !.triplets = Append(A.triplets, t), !.sorted = FALSE, !.dups = TRUE]

Room(r, c, v) == Len(coo.triplets) < MaxTriplets /\ Abs(added[<<r, c>>] + v) <= MaxValue

AddEntry(r, c, v) ==
    /\ Room(r, c, v)
    /\ r < coo.rows /\ c < coo.cols    \* check_bounds throws otherwise
    /\ coo' = Appended(coo, Triplet(r, c, v))
    /\ added' = [added EXCEPT ![<<r, c>>] = @ + v]

AddEntryUnchecked(r, c, v) ==
    /\ Room(r, c, v)
    /\ coo' = [Appended(coo, Triplet(r, c, v)) EXCEPT
                  !.rows = Max({@, r + 1}), !.cols = Max({@, c + 1})]
    /\ added' = [added EXCEPT ![<<r, c>>] = @ + v]

\* Throws, and changes nothing, when a triplet would be left outside.
SetDimensions(rows, cols) ==
    /\ \A k \in DOMAIN coo.triplets : coo.triplets[k].row < rows /\ coo.triplets[k].col < cols
    /\ coo' = [coo EXCEPT !.rows = rows, !.cols = cols]
    /\ UNCHANGED added

Clear ==
    /\ coo' = [coo EXCEPT !.triplets = <<>>, !.sorted = TRUE, !.dups = FALSE]
    /\ added' = NothingAdded

Sort(order) ==
    /\ coo' = SortedBy(coo, order)
    /\ UNCHANGED added

\* A list that is not sorted is first sorted in the order it was sorted last.
WithoutDuplicates(A) ==
    IF Len(A.triplets) <= 1 THEN [A EXCEPT !.dups = FALSE]
    ELSE LET B == IF A.sorted THEN A ELSE SortedBy(A, A.order)
         IN [B EXCEPT !.triplets = Merged(B.triplets), !.dups = FALSE]

SumDuplicates ==
    /\ coo' = WithoutDuplicates(coo)
    /\ UNCHANGED added

\* std::erase_if; the default tolerance: whole numbers that small are 0.
DropZeros ==
    /\ coo' = [coo EXCEPT !.triplets = WithoutZeros(coo.triplets)]
    /\ UNCHANGED added

CooNext ==
    \/ \E r \in Indices(MaxDim), c \in Indices(MaxDim), v \in Values :
          AddEntry(r, c, v) \/ AddEntryUnchecked(r, c, v)
    \/ \E rows \in 0 .. MaxDim, cols \in 0 .. MaxDim : SetDimensions(rows, cols)
    \/ Clear
    \/ \E order \in Orders : Sort(order)
    \/ SumDuplicates
    \/ DropZeros

\* An object and whoever calls it.
CooSpec == CooInit /\ [][CooNext]_cooVars

-----------------------------------------------------------------------------
(* Properties.                                                             *)

\* The object is a matrix: the flags are flags and every triplet is inside
\* (check_bounds, add_entry_unchecked, set_dimensions).
CooTypeOK ==
    /\ coo.rows \in 0 .. MaxDim /\ coo.cols \in 0 .. MaxDim
    /\ coo.sorted \in BOOLEAN /\ coo.dups \in BOOLEAN /\ coo.order \in Orders
    /\ \A k \in DOMAIN coo.triplets :
          /\ coo.triplets[k].row \in Indices(coo.rows)
          /\ coo.triplets[k].col \in Indices(coo.cols)
          /\ coo.triplets[k].val \in Int

\* The flags never claim more than holds: a list said to be sorted is, and
\* one said to have no duplicates has none.  to_csr, to_csc and the norms
\* skip sorting and merging on their word.
FlagsTrue ==
    \A i, j \in DOMAIN coo.triplets :
        i < j => /\ coo.sorted => ~Less(coo.triplets[j], coo.triplets[i], coo.order)
                 /\ ~coo.dups => ~SameCell(coo.triplets[i], coo.triplets[j])

\* Whatever the order of sorting, merging, dropping and growing, the matrix
\* is still the sum of what was added, in the dimensions it has.
MeaningKept ==
    \A cell \in AllCells : CooCoeff(coo, cell[1], cell[2]) = added[cell]

\* Both compressed forms of the object pass validate, hold every cell at its
\* value whichever way they are looked up, and are each other's transposes;
\* going back to triplets loses nothing.
ConversionsAgree ==
    LET csr == CooToCSR(coo)
        csc == CooToCSC(coo)
        dense == CooToDense(coo)
    IN /\ CsrValidate(csr) /\ CscValidate(csc)
       /\ CsrToCSC(csr) = csc /\ CscToCSR(csc) = csr
       /\ CsrToDense(csr) = dense /\ CscToDense(csc) = dense
       /\ \A cell \in DOMAIN dense :
             /\ CsrCoeff(csr, cell[1], cell[2]) = dense[cell]
             /\ CscCoeff(csc, cell[1], cell[2]) = dense[cell]
       /\ CooToCSR(CscToCOO(csc)) = csr /\ CooToCSC(CsrToCOO(csr)) = csc
       /\ CsrToDense(CooToCSR(DenseToCOO(dense, coo.rows, coo.cols, 0))) = dense
       /\ DenseMatmul(dense, DenseIdentity(coo.cols), coo.rows, coo.cols, coo.cols) = dense

\* Every format computes the same alpha A x + beta y and alpha A^T x + beta y
\* as the dense reference (the oracle of the tests), the shortcuts for 0 and
\* 1 included, and the product with A^T is the adjoint of the product with A.
TestVectors(n) == {[i \in Indices(n) |-> ((i + s) % 3) - 1] : s \in 0 .. 1}

ProductsAgree ==
    LET csr == CooToCSR(coo)
        csc == CooToCSC(coo)
        dense == CooToDense(coo)
    IN \A x \in TestVectors(coo.cols), y \in TestVectors(coo.rows),
          alpha \in {0, 2}, beta \in {0, 1, -1} :
          LET ax == DenseGemv(dense, coo.rows, coo.cols, alpha, x, beta, y)
              aty == DenseGemvTranspose(dense, coo.rows, coo.cols, alpha, y, beta, x)
          IN /\ CooSpmv(coo, alpha, x, beta, y) = ax
             /\ CsrSpmv(csr, alpha, x, beta, y) = ax
             /\ CscSpmv(csc, alpha, x, beta, y) = ax
             /\ CooSpmvTranspose(coo, alpha, y, beta, x) = aty
             /\ CsrSpmvTranspose(csr, alpha, y, beta, x) = aty
             /\ CscSpmvTranspose(csc, alpha, y, beta, x) = aty
             /\ beta = 0 => Dot(ax, y) = Dot(aty, x)

\* The norms do not depend on the format that computes them, duplicates in
\* the list of triplets included.
NormsAgree ==
    LET csr == CooToCSR(coo)
        csc == CooToCSC(coo)
        dense == CooToDense(coo)
    IN /\ {CooNormInf(coo), CsrNormInf(csr), CscNormInf(csc)}
             = {DenseNormInf(dense, coo.rows, coo.cols)}
       /\ {CooNorm1(coo), CsrNorm1(csr), CscNorm1(csc)}
             = {DenseNorm1(dense, coo.rows, coo.cols)}
       /\ {CooNormFrobenius(coo), SquareSum(csr.val), SquareSum(csc.val)}
             = {DenseNormFrobenius(dense)}

\* A matrix assembled by any sequence of calls is a matrix, knows its own order and is
\* the sum of what was added (coo_matrix.cpp).
CooSound == CooTypeOK /\ FlagsTrue /\ MeaningKept

\* Every format is the same matrix: entries, products and norms, through every conversion.
FormatsAgree == ConversionsAgree /\ ProductsAgree /\ NormsAgree

=============================================================================
