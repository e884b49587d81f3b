------------------------------ MODULE GomoryCuts ------------------------------
(***************************************************************************)
(* The numbers behind two steps of branch and bound                        *)
(* (src/src/milp/branch_and_bound.cpp) that BranchAndBound only bounds:    *)
(* generate_gomory_cuts, which reads the final basis of the root           *)
(* relaxation and appends rows, and the solve of a child that starts from  *)
(* the basis of its parent.  Each is a call of the dual simplex, which     *)
(* runs again from its start.                                              *)
(*                                                                         *)
(* The rows are divided by their norm in the code, here by their greatest  *)
(* common divisor: either keeps the half-space.                            *)
(***************************************************************************)
EXTENDS DualSimplex

CONSTANTS
    MaxCuts,        \* MILPConfig::max_root_cuts
    MaxDepth        \* bound on the branchings below the root

ASSUME LimitsAssumption == MaxCuts \in Nat /\ MaxDepth \in Nat

VARIABLES
    root,           \* the model before cuts and branchings
    depth,          \* branchings so far
    cutting         \* "before" the cuts, "after" them or none were wanted

treeVars == <<root, depth, cutting>>
allVars == <<vars, treeVars>>

\* int_vars.
Ints == lp.ints

Fraction(j) == FractionOf(x[j])

\* The rows whose basic variable is a fractional integer column (mutated: whole values
\* are not left out).
CutRowsAll == {i \in DOMAIN basis.basic : basis.basic[i] \in Ints}
CutRows == {i \in DOMAIN basis.basic : basis.basic[i] \in Ints /\ Fraction(basis.basic[i]) # 0}

\* The coefficient of nonbasic v in the row, seen from the bound it is at.
FromBound(v, pi) ==
    LET bar == Dot(Column(v), pi)
    IN IF basis.status[v] = "AtLower" THEN bar ELSE -bar

\* The coefficient of the mixed-integer cut (mutated: continuous variables count on one
\* side only).
GammaOneSided(v, alpha, f0) ==
    LET fj == FractionOf(alpha)
    IN IF v \in Ints THEN IF fj <= f0 THEN Times(fj, One - f0) ELSE Times(One - fj, f0)
       ELSE IF alpha >= 0 THEN Times(alpha, One - f0) ELSE 0
Gamma(v, alpha, f0) ==
    LET fj == FractionOf(alpha)
    IN IF v \in Ints THEN IF fj <= f0 THEN Times(fj, One - f0) ELSE Times(One - fj, f0)
       ELSE IF alpha >= 0 THEN Times(alpha, One - f0) ELSE Times(-alpha, f0)

\* sum of gamma * (distance of v from its bound) >= f0 (1 - f0), in the columns; a
\* slack is the activity of its row.
RawCut(i) ==
    LET f0 == Fraction(basis.basic[i])
        pi == Btran(fact, Unit(i, One))
        atBound == {v \in basis.nonbasic : basis.status[v] \in {"AtLower", "AtUpper"}}
        sign(v) == IF basis.status[v] = "AtLower" THEN 1 ELSE -1
        g == [v \in atBound |-> sign(v) * Gamma(v, FromBound(v, pi), f0)]
        coeff(v, j) == IF IsCol(v) THEN IF v = j THEN 1 ELSE 0 ELSE lp.a[v - lp.n][j]
        bound(v) == IF basis.status[v] = "AtLower" THEN Low(v) ELSE Up(v)
    IN [a |-> [j \in Cols |-> Total(LAMBDA v : g[v] * coeff(v, j), atBound)],
        rlo |-> One * (Times(f0, One - f0) + Total(LAMBDA v : Times(g[v], bound(v)), atBound))]

\* The same half-space in small numbers.
Reduced(cut) ==
    LET divides(k, n) == Magnitude(n) % k = 0
        k == Max({1} \cup {e \in 1..(4 * One) : \A j \in Cols : divides(e, cut.a[j])})
    IN [a |-> [j \in Cols |-> Ratio(cut.a[j], k)], rlo |-> Ratio(cut.rlo, k)]

\* The k-th of some rows.
NthRow(rows, k) == CHOOSE i \in rows : Cardinality({l \in rows : l < i}) = k - 1

\* The first MaxCuts rows that are not empty.
Cuts ==
    LET all == [i \in CutRows |-> RawCut(i)]
        used == {i \in CutRows : \E j \in Cols : all[i].a[j] # 0}
    IN [k \in 1..Smaller(MaxCuts, Cardinality(used)) |-> Reduced(all[NthRow(used, k)])]

WithCuts(cuts) ==
    [n |-> lp.n, lo |-> lp.lo, up |-> lp.up, c |-> lp.c, offset |-> lp.offset, ints |-> lp.ints,
     m |-> lp.m + Len(cuts),
     a |-> lp.a \o [k \in DOMAIN cuts |-> cuts[k].a],
     rlo |-> lp.rlo \o [k \in DOMAIN cuts |-> cuts[k].rlo],
     rup |-> lp.rup \o [k \in DOMAIN cuts |-> Infinity]]

\* simplex.solve(lp, basis): everything starts again.
SolveAgain(model, b) ==
    /\ lp' = model
    /\ initial' = b
    /\ basis' = NoBasis
    /\ x' = [v \in 1..(model.n + model.m) |-> 0]
    /\ c' = [v \in 1..(model.n + model.m) |-> IF v <= model.n THEN model.c[v] ELSE 0]
    /\ shift' = [v \in 1..(model.n + model.m) |-> 0]
    /\ y' = [i \in 1..model.m |-> 0]
    /\ d' = [v \in 1..(model.n + model.m) |-> 0]
    /\ fact' = NewFactors(config.update = "RefactorizeAlways")
    /\ iter' = 0 /\ cleanups' = 0 /\ pc' = "start" /\ result' = NoResult
    /\ UNCHANGED <<config, root>>

Relaxed == pc = "done" /\ result.status = "OPTIMAL"

\* The rows are appended and the relaxation solved again from the old basis, which is
\* too small by then and so not used.
AddCuts ==
    /\ Relaxed /\ cutting = "before"
    /\ Cuts # <<>>
    /\ SolveAgain(WithCuts(Cuts), basis)
    /\ cutting' = "after"
    /\ UNCHANGED depth

\* A child: a fractional integer column is kept on one side; the parent's basis is the
\* child's start.
BranchOn(j, side) ==
    IF side = "down" THEN [lp EXCEPT !.up[j] = WholePart(x[j])]
    ELSE [lp EXCEPT !.lo[j] = WholePart(x[j]) + One]

Branch ==
    /\ Relaxed /\ depth < MaxDepth
    /\ cutting = "after" \/ Cuts = <<>>
    /\ \E j \in Ints, side \in {"down", "up"} :
        /\ Fraction(j) # 0
        /\ SolveAgain(BranchOn(j, side), basis)
    /\ cutting' = "after"
    /\ depth' = depth + 1

TreeInit ==
    /\ Init
    /\ root = lp
    /\ depth = 0
    /\ cutting \in {"before", "after"}

TreeNext == (Next /\ UNCHANGED treeVars) \/ AddCuts \/ Branch

TreeSpec == TreeInit /\ [][TreeNext]_allVars

-----------------------------------------------------------------------------
(* Properties.                                                             *)

\* The integer points of the model as it was given.
IntegerPoints ==
    {p \in [1..root.n -> Halves] :
        /\ \A j \in 1..root.n : /\ root.lo[j] <= p[j] /\ p[j] <= root.up[j]
                                /\ j \in Ints => FractionOf(p[j]) = 0
        /\ \A r \in 1..root.m : root.rlo[r] <= Activity(r, p) /\ Activity(r, p) <= root.rup[r]}

\* docs: a cut removes no integer solution: every one that the branchings have left in
\* the box satisfies all rows.
CutsKeepSolutions ==
    depth = 0 /\ cutting = "after" /\ pc = "start" => \A p \in IntegerPoints : FeasiblePoint(p)

\* ... and it removes the point it was made for.
CutsRemovePoint ==
    [][lp'.m > lp.m => \A i \in (lp.m + 1)..lp'.m :
            Total(LAMBDA j : lp'.a[i][j] * x[j], Cols) < lp'.rlo[i]]_allVars

\* The parent's basis is a start for the child that is dual feasible without shifts:
\* the child is repaired by dual iterations alone.
WarmStartKeepsDuals ==
    depth > 0 /\ initial # NoBasis /\ pc = "dual" /\ ~FreeColumnsCost => shift = ZeroVars

(* What a relaxation has to be like for its cuts to stand.                 *)

\* The product that gamma is, before it is divided by One.
GammaProduct(int, alpha, f0) ==
    IF int THEN IF FractionOf(alpha) <= f0 THEN FractionOf(alpha) * (One - f0)
                ELSE (One - FractionOf(alpha)) * f0
    ELSE IF alpha >= 0 THEN alpha * (One - f0) ELSE (-alpha) * f0

\* The parts of RawCut: the nonbasic variables it takes, the fraction of the row's basic
\* variable, the entry of v seen from its bound, and its weight with the distance's sign.
AtBound == {v \in basis.nonbasic : basis.status[v] \in {"AtLower", "AtUpper"}}
Fraction0(i) == Fraction(basis.basic[i])
Entry(i, v) == FromBound(v, Btran(fact, Unit(i, One)))
Weight(i, v) == Gamma(v, Entry(i, v), Fraction0(i))
Signed(i, v) == (IF basis.status[v] = "AtLower" THEN 1 ELSE -1) * Weight(i, v)
BoundOf(v) == IF basis.status[v] = "AtLower" THEN Low(v) ELSE Up(v)

\* What Reduced divides by.
Divisor(cut) == Max({1} \cup {e \in 1..(4 * One) : \A j \in Cols : Magnitude(cut.a[j]) % e = 0})

\* The numbers of the model stand for the code's only where the cut's divisions come out
\* even.
EvenCut(i) ==
    /\ (Fraction0(i) * (One - Fraction0(i))) % One = 0
    /\ \A v \in AtBound : /\ GammaProduct(v \in Ints, Entry(i, v), Fraction0(i)) % One = 0
                          /\ (Signed(i, v) * BoundOf(v)) % One = 0
    /\ RawCut(i).rlo % Divisor(RawCut(i)) = 0

\* Integer columns are columns, and their bounds are whole, which root presolve sees to.
WholeBounds ==
    \A j \in Ints : /\ j \in Cols
                    /\ Finite(lp.lo[j]) => lp.lo[j] % One = 0
                    /\ Finite(lp.up[j]) => lp.up[j] % One = 0

\* A variable of no bound that stays out of the basis is not in the cut.
NoFreeOutside == \A v \in basis.nonbasic : basis.status[v] # "Free"

\* What the model needs of a relaxation to take cuts from it.
CutsFit == NoFreeOutside /\ WholeBounds /\ \A i \in CutRows : EvenCut(i)

\* Where cuts may be taken, the model's numbers stand for the code's and no free variable
\* is out of the basis.
CutsReady == cutting = "before" /\ Relaxed /\ Cuts # <<>> => CutsFit

\* Infinity is beyond every row at every point that is compared.
InRange == \A p \in IntegerPoints, r \in Rows : Activity(r, p) <= Infinity

\* What the tree builds from a relaxation it has solved stands: the rows it adds remove no
\* integer point, and the basis it hands to a child leaves only dual iterations to do.  What
\* the proofs take for granted of the relaxations is checked with it.
ReuseSound == CutsKeepSolutions /\ WarmStartKeepsDuals /\ CutsReady /\ InRange

=============================================================================
