------------------------------- MODULE Crossover -------------------------------
(***************************************************************************)
(* PDHGCrossover::run (src/src/crossover/pdhg_crossover.cpp): a basis is   *)
(* guessed from a point PDHG returned, repaired to m nonsingular columns,  *)
(* and handed to the dual simplex as its initial basis.                    *)
(***************************************************************************)
EXTENDS DualSimplex

CONSTANT PdhgPoints(_)    \* the points PDHG may return for a model

\* The value of every variable at the point: slacks are row activities.
ValueAt(p, v) == IF IsCol(v) THEN p[v] ELSE Activity(v - lp.n, p)

\* Active set detection: at a bound the variable is meant to be nonbasic there.
Score(p, v) ==
    IF Low(v) = Up(v) THEN "Fixed"
    ELSE IF Finite(Low(v)) /\ ValueAt(p, v) = Low(v) THEN "AtLower"
    ELSE IF Finite(Up(v)) /\ ValueAt(p, v) = Up(v) THEN "AtUpper"
    ELSE "Basic"

\* How far inside its bounds a variable is.
Interiority(p, v) ==
    Smaller(IF Finite(Low(v)) THEN ValueAt(p, v) - Low(v) ELSE Infinity,
            IF Finite(Up(v)) THEN Up(v) - ValueAt(p, v) ELSE Infinity)

\* The interior columns, the most interior first.
CrashOrders(p) ==
    {s \in SetToSeqs({j \in Cols : Score(p, j) = "Basic"}) :
        \A k \in DOMAIN s, l \in DOMAIN s : k < l => Interiority(p, s[k]) >= Interiority(p, s[l])}

RowsOf(j) == {r \in Rows : lp.a[r][j] # 0}

\* A column is taken when it covers a row no column before it does.
Take(st, j) ==
    IF Len(st.chosen) >= lp.m \/ RowsOf(j) \subseteq st.covered THEN st
    ELSE [chosen |-> Append(st.chosen, j), covered |-> st.covered \cup RowsOf(j)]

\* Slacks for the rows that are left, then for any rows until there are m columns.
Completed(st) ==
    LET open == SetToSortSeq({Slack(i) : i \in Rows \ st.covered}, <)
        spare == SetToSortSeq({Slack(i) : i \in st.covered}, <)
    IN SubSeq(st.chosen \o open \o spare, 1, lp.m)

\* A singular guess gives way to the slacks (mutated: it is not looked at).
RepairedBlindly(basic) == basic
Repaired(basic) == IF SparseFactorize(BasisMatrix(basic)).ok THEN basic ELSE [i \in Rows |-> Slack(i)]

CrashedBasis(p, order) ==
    LET basic == Repaired(Completed(FoldLeft(Take, [chosen |-> <<>>, covered |-> {}], order)))
        at(v) == {i \in Rows : basic[i] = v}
        nonbasic == {v \in Vars : at(v) = {}}
    IN [basic |-> basic,
        status |-> [v \in Vars |-> IF v \notin nonbasic THEN "Basic"
                                   ELSE IF Score(p, v) # "Basic" THEN Score(p, v) ELSE "AtLower"],
        place |-> [v \in Vars |-> IF v \in nonbasic THEN 0 ELSE Max(at(v))],
        nonbasic |-> nonbasic]

\* run: the basis, with which solve() is called.
Crash ==
    /\ pc = "start" /\ initial = NoBasis /\ lp.m # 0 /\ lp.n # 0
    /\ \E p \in PdhgPoints(lp) : \E order \in CrashOrders(p) : initial' = CrashedBasis(p, order)
    /\ UNCHANGED <<lp, config, basis, numbers, fact, iter, cleanups, pc, result>>

-----------------------------------------------------------------------------
(* Properties.                                                             *)

\* pdhg_crossover.hpp: "vertex-accurate Simplex bases": solve() begins from the basis
\* it is given, here or by branch and bound, if that is of the size of the model; it
\* does not fall back on the slacks or give up on a singular matrix.
CrashAccepted ==
    [][~Started /\ Started' /\ DOMAIN initial.basic = Rows => basis' = initial /\ IsFactorized(fact')]_vars

=============================================================================
