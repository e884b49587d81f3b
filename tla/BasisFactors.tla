----------------------------- MODULE BasisFactors -----------------------------
(***************************************************************************)
(* BasisFactorization (src/src/factorization/basis_factorization.cpp): the *)
(* LU factors of the basis as it was at the last refactorization, and the  *)
(* eta file, one entry for each column exchanged since.  A solve goes      *)
(* through both.  The object is a record here; an operation returns the    *)
(* record it leaves behind.                                                *)
(*                                                                         *)
(* A solve without factors reads past the end of an empty vector in the    *)
(* code; here TLC would stop at it.                                        *)
(***************************************************************************)
EXTENDS LUFactors

NewFactors(oracle) ==
    [lu |-> NotFactorized, dense |-> NotFactorized, use_dense_oracle |-> oracle,
     etas |-> <<>>, factorizations |-> 0]

\* factorize: the sparse factors always, the dense ones beside them when they are the
\* oracle.  A failure leaves the eta file as it was.
Stored(f, lu, dense) ==
    IF lu.ok /\ (f.use_dense_oracle => dense.ok)
    THEN [f EXCEPT !.lu = lu, !.dense = dense, !.etas = <<>>, !.factorizations = @ + 1]
    ELSE [f EXCEPT !.lu = lu, !.dense = dense]

WithDense(f, b, lu) == Stored(f, lu, IF f.use_dense_oracle /\ lu.ok THEN DenseFactorize(b) ELSE f.dense)
Factorized(f, b) == WithDense(f, b, SparseFactorize(b))

IsFactorized(f) == f.lu.ok /\ (f.use_dense_oracle => f.dense.ok)

\* update: column p of the basis was replaced by one whose ftran is v.
Updated(f, p, v) ==
    [f EXCEPT !.etas = Append(@, [pivot_row |-> p, eta_diag |-> Over(One, v[p]),
                                  val |-> [i \in DOMAIN v |-> IF i = p THEN 0 ELSE -v[i]]])]

DenseAnswers(f) == f.use_dense_oracle /\ f.dense.ok

NeedsRefactorize(f, max_updates) == Len(f.etas) >= max_updates

EtaForward(x, eta) ==
    LET xp == Times(x[eta.pivot_row], eta.eta_diag)
    IN Vector([i \in DOMAIN x |-> IF i = eta.pivot_row THEN xp ELSE x[i] + Times(eta.val[i], xp)])

EtaBackward(eta, w) ==
    [w EXCEPT ![eta.pivot_row] = Times(@ + Total(LAMBDA i : Times(eta.val[i], w[i]), DOMAIN w), eta.eta_diag)]

Ftran(f, rhs) ==
    FoldLeft(EtaForward, IF DenseAnswers(f) THEN DenseFtran(f.dense, rhs) ELSE SparseFtran(f.lu, rhs), f.etas)

\* The eta file is applied last to first (mutated: first to last).
BtranInOrder(f, rhs) ==
    LET w == FoldLeft(LAMBDA x, eta : EtaBackward(eta, x), rhs, f.etas)
    IN IF DenseAnswers(f) THEN DenseBtran(f.dense, w) ELSE SparseBtran(f.lu, w)
Btran(f, rhs) ==
    LET w == FoldRight(EtaBackward, f.etas, rhs)
    IN IF DenseAnswers(f) THEN DenseBtran(f.dense, w) ELSE SparseBtran(f.lu, w)

=============================================================================
