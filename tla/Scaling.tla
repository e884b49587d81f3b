------------------------------- MODULE Scaling -------------------------------
(***************************************************************************)
(* scaling::Equilibrator (src/src/scaling/equilibrator.cpp): a model is    *)
(* multiplied by a diagonal R on the left and C on the right, solved, and  *)
(* the solution taken back.  A linear program is a record of its rows, its *)
(* columns, the matrix a, costs c, bounds lo..up of the columns and        *)
(* rlo..rup of the rows, and the offset of the objective; numbers are      *)
(* those of FixedPoint.                                                    *)
(***************************************************************************)
EXTENDS FixedPoint

CONSTANT Endless   \* an infinite bound: 1e15 for the solvers, 1e19 here

ASSUME EndlessAssumption == Endless \in Nat \ {0}

HasLower(v) == v > -Endless
HasUpper(v) == v < Endless

\* The square root, rounded down, of a number below 2^30.
RootBits == [k \in 1..15 |-> 2^(15 - k)]
Root(n) == FoldLeft(LAMBDA r, bit : IF (r + bit) * (r + bit) <= n THEN r + bit ELSE r, 0, RootBits)

\* The square root of v where it is a whole number of units.
ExactRoot(v) == CHOOSE r \in {Root(v * One)} : r * r = v * One

\* A product as floating point leaves it, rounded to a unit.
Rounded(v, w) == (v * w) \div One

RowEntries(a, i) == {Magnitude(a[i][j]) : j \in DOMAIN a[i]}
ColEntries(a, j) == {Magnitude(a[i][j]) : i \in DOMAIN a}

\* A scaling under way: the working entries, and what they were multiplied by.
Unscaled(lp) == [a |-> lp.a, R |-> [i \in lp.rows |-> One], C |-> [j \in lp.cols |-> One], passes |-> 0]

\* The entries over the factors of their rows and columns.
Shrunk(a, dr, dc) == [i \in DOMAIN a |-> [j \in DOMAIN a[i] |-> Over(a[i][j], Times(dr[i], dc[j]))]]

\* One pass of scale_ruiz: what divides the entries divides R and C (mutated: R keeps
\* what the last pass divided by).
DividedLast(s, dr, dc) ==
    [a |-> Shrunk(s.a, dr, dc), R |-> [i \in DOMAIN s.R |-> Over(One, dr[i])],
     C |-> [j \in DOMAIN s.C |-> Over(s.C[j], dc[j])], passes |-> s.passes + 1]
Divided(s, dr, dc) ==
    [a |-> Shrunk(s.a, dr, dc), R |-> [i \in DOMAIN s.R |-> Over(s.R[i], dr[i])],
     C |-> [j \in DOMAIN s.C |-> Over(s.C[j], dc[j])], passes |-> s.passes + 1]

RootOfLargest(entries) == IF Max(entries) > 0 THEN ExactRoot(Max(entries)) ELSE One

RuizPass(s) ==
    Divided(s, [i \in DOMAIN s.R |-> RootOfLargest(RowEntries(s.a, i))],
               [j \in DOMAIN s.C |-> RootOfLargest(ColEntries(s.a, j))])

NearOne(entries, tolerance) == Max(entries) > 0 => Magnitude(One - Max(entries)) < tolerance

RuizDone(s, most, tolerance) ==
    \/ s.passes = most
    \/ /\ s.passes > 0
       /\ \A i \in DOMAIN s.R : NearOne(RowEntries(s.a, i), tolerance)
       /\ \A j \in DOMAIN s.C : NearOne(ColEntries(s.a, j), tolerance)

\* scale_pock_chambolle with its default alpha = 1, and scale_l2, which is the same.
RootOfSum(sum) == IF sum > 0 THEN ExactRoot(sum) ELSE One
PockChambolle(s) ==
    Divided(s, [i \in DOMAIN s.R |-> RootOfSum(Total(LAMBDA j : Magnitude(s.a[i][j]), DOMAIN s.C))],
               [j \in DOMAIN s.C |-> RootOfSum(Total(LAMBDA i : Magnitude(s.a[i][j]), DOMAIN s.R))])

\* The model of the working entries: row bounds times R, column bounds over C.
ScaledModel(lp, s) ==
    [lp EXCEPT
        !.a = s.a,
        !.rlo = [i \in lp.rows |-> IF HasLower(lp.rlo[i]) THEN Times(lp.rlo[i], s.R[i]) ELSE lp.rlo[i]],
        !.rup = [i \in lp.rows |-> IF HasUpper(lp.rup[i]) THEN Times(lp.rup[i], s.R[i]) ELSE lp.rup[i]],
        !.lo = [j \in lp.cols |-> IF HasLower(lp.lo[j]) THEN Over(lp.lo[j], s.C[j]) ELSE lp.lo[j]],
        !.up = [j \in lp.cols |-> IF HasUpper(lp.up[j]) THEN Over(lp.up[j], s.C[j]) ELSE lp.up[j]],
        !.c = [j \in lp.cols |-> Times(lp.c[j], s.C[j])]]

\* unscale_model: the inverse of each of those.
UnscaleModel(lp, s) ==
    [lp EXCEPT
        !.a = [i \in lp.rows |-> [j \in lp.cols |-> Over(lp.a[i][j], Times(s.R[i], s.C[j]))]],
        !.rlo = [i \in lp.rows |-> IF HasLower(lp.rlo[i]) THEN Over(lp.rlo[i], s.R[i]) ELSE lp.rlo[i]],
        !.rup = [i \in lp.rows |-> IF HasUpper(lp.rup[i]) THEN Over(lp.rup[i], s.R[i]) ELSE lp.rup[i]],
        !.lo = [j \in lp.cols |-> IF HasLower(lp.lo[j]) THEN Times(lp.lo[j], s.C[j]) ELSE lp.lo[j]],
        !.up = [j \in lp.cols |-> IF HasUpper(lp.up[j]) THEN Times(lp.up[j], s.C[j]) ELSE lp.up[j]],
        !.c = [j \in lp.cols |-> Over(lp.c[j], s.C[j])]]

\* A solution [x, y, s]; a shorter vector is filled with zeros.
Entry(v, k) == IF k \in DOMAIN v THEN v[k] ELSE 0

\* unscale_solution: x = C x', y = R y', s = s' / C (mutated: y = y' / R).
UnscaleSolutionOver(sol, s) ==
    [x |-> [j \in DOMAIN s.C |-> Rounded(Entry(sol.x, j), s.C[j])],
     y |-> [i \in DOMAIN s.R |-> Rounded(Entry(sol.y, i), Over(One, s.R[i]))],
     s |-> [j \in DOMAIN s.C |-> Rounded(Entry(sol.s, j), Over(One, s.C[j]))]]
UnscaleSolution(sol, s) ==
    [x |-> [j \in DOMAIN s.C |-> Rounded(Entry(sol.x, j), s.C[j])],
     y |-> [i \in DOMAIN s.R |-> Rounded(Entry(sol.y, i), s.R[i])],
     s |-> [j \in DOMAIN s.C |-> Rounded(Entry(sol.s, j), Over(One, s.C[j]))]]

\* scale_solution, the other way.
ScaleSolution(sol, s) ==
    [x |-> [j \in DOMAIN s.C |-> Rounded(Entry(sol.x, j), Over(One, s.C[j]))],
     y |-> [i \in DOMAIN s.R |-> Rounded(Entry(sol.y, i), Over(One, s.R[i]))],
     s |-> [j \in DOMAIN s.C |-> Rounded(Entry(sol.s, j), s.C[j])]]

=============================================================================
