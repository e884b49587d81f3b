--------------------------- MODULE MilpContract ---------------------------
(***************************************************************************)
(* What MILPResult promises a caller of BranchAndBoundSolver::solve        *)
(* (src/include/pipepye/milp/milp_types.hpp): the best objective value     *)
(* known only improves and is always attained by a solution, and each      *)
(* verdict says what its name says.  How the solutions are searched for is *)
(* left open.                                                              *)
(***************************************************************************)
EXTENDS Integers

CONSTANTS Den, Infinity

VARIABLES
    values,    \* the objective values of the model's solutions
    gap,       \* mip_gap_tol, as num/den
    best,      \* the best value known so far, Infinity when none is
    verdict    \* "none" until solve() returns

vars == <<values, gap, best, verdict>>

\* b is within the relative gap of v: (b - v) / max(1, |b|) <= num/den.
Close(b, v) ==
    LET size == IF b < 0 THEN -b ELSE b
        scale == IF size < Den THEN Den ELSE size
    IN b <= v \/ (b - v) * gap.den <= gap.num * scale

Init == best = Infinity /\ verdict = "none"

Improve ==
    /\ verdict = "none"
    /\ best' \in values
    /\ best' < best
    /\ UNCHANGED <<values, gap, verdict>>

\* The answer may come with a last improvement.
Answer ==
    /\ verdict = "none"
    /\ best' \in values \cup {best}
    /\ best' <= best
    /\ \/ verdict' = "Optimal" /\ best' \in values /\ \A v \in values : Close(best', v)
       \/ verdict' = "Feasible" /\ best' \in values
       \/ verdict' = "Infeasible" /\ values = {}
       \/ verdict' \in {"TimeLimit", "NodeLimit"} /\ best' = Infinity
    /\ UNCHANGED <<values, gap>>

Next == Improve \/ Answer

Spec == Init /\ [][Next]_vars

=============================================================================
