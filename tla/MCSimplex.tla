------------------------------- MODULE MCSimplex -------------------------------
(***************************************************************************)
(* Small linear programs for the dual simplex and its callers.             *)
(***************************************************************************)
EXTENDS Crossover, GomoryCuts

MCInfinity == 20000
Inf == MCInfinity

Box == <<0, One>>
Wide == <<0, 2 * One>>
Half == <<0, Inf>>
UpTo1 == <<-Inf, One>>
Fixed == <<One, One>>
FreeCol == <<-Inf, Inf>>

AtMost(k) == <<-Inf, k * One>>
AtLeast(k) == <<k * One, Inf>>
Equal(k) == <<k * One, k * One>>
Between(k, l) == <<k * One, l * One>>

\* A program from its matrix, the bounds of columns and rows, and integer costs.
Program(a, cb, rb, cost, ints) ==
    [m |-> Len(rb), n |-> Len(cb), a |-> a, ints |-> ints, offset |-> One,
     c |-> [j \in DOMAIN cost |-> cost[j] * One],
     lo |-> [j \in DOMAIN cb |-> cb[j][1]], up |-> [j \in DOMAIN cb |-> cb[j][2]],
     rlo |-> [i \in DOMAIN rb |-> rb[i][1]], rup |-> [i \in DOMAIN rb |-> rb[i][2]]]

TwoByTwo ==
    {Program(a, cb, rb, cost, {}) :
        a \in {<<<<1, 1>>, <<1, -1>>>>, <<<<1, 2>>, <<1, 1>>>>},
        cb \in {<<Box, Wide>>, <<Half, Box>>, <<UpTo1, Half>>, <<FreeCol, Wide>>, <<Fixed, Half>>},
        rb \in {<<AtLeast(1), AtMost(1)>>, <<Equal(1), Equal(0)>>, <<Between(1, 2), AtLeast(0)>>,
                <<AtLeast(4), AtLeast(-1)>>},
        cost \in {<<1, 1>>, <<-1, 2>>, <<0, -1>>}}

TwoByThree ==
    {Program(a, cb, rb, cost, {}) :
        a \in {<<<<1, 1, 1>>, <<1, -1, 0>>>>, <<<<1, 1, 0>>, <<0, 1, -1>>>>},
        cb \in {<<Box, Box, Wide>>, <<Half, Box, Half>>},
        rb \in {<<AtLeast(3), AtMost(0)>>, <<Equal(2), AtLeast(0)>>, <<AtLeast(2), Between(-1, 1)>>},
        cost \in {<<1, 2, 1>>, <<2, -1, 3>>}}

\* No rows, no columns, nothing to stop a column, and too many pivots for the limit.
Corners ==
    {Program(<<>>, cb, <<>>, cost, {}) : cb \in {<<Wide, UpTo1>>, <<Half, FreeCol>>}, cost \in {<<1, -1>>, <<0, 0>>}}
    \cup {Program(<<<<>>>>, <<>>, <<AtMost(1)>>, <<>>, {}),
          Program(<<<<1, -1>>>>, <<Half, Half>>, <<AtMost(1)>>, <<-1, -1>>, {})}

\* Triangle: the half point is a vertex; Halved: one row with even coefficients.
IntegerPrograms ==
    {Program(<<<<1, 1, 0>>, <<0, 1, 1>>, <<1, 0, 1>>>>, <<Box, Box, Box>>,
             <<AtMost(1), AtMost(1), AtMost(1)>>, <<-1, -1, -1>>, {1, 2, 3}),
     Program(<<<<2, 2>>>>, <<Wide, Wide>>, <<AtMost(3)>>, <<-1, -2>>, {1, 2}),
     Program(<<<<2, 1>>>>, <<Wide, Wide>>, <<AtLeast(1)>>, <<1, 2>>, {1}),
     Program(<<<<2, -1>>, <<0, 1>>>>, <<Wide, Half>>, <<AtLeast(1), Between(0, 2)>>, <<2, 1>>, {1, 2}),
     Program(<<<<4, 1>>>>, <<Wide, Box>>, <<AtMost(3)>>, <<-2, 0>>, {1, 2}),
     Program(<<<<1, 1>>>>, <<Wide, Wide>>, <<AtMost(1)>>, <<-2, -1>>, {1, 2}),
     Program(<<<<2, 2>>>>, <<Box, Box>>, <<Equal(1)>>, <<1, 2>>, {1, 2})}

\* The most interior columns cover all rows and are, with the first slack, singular.
CrashTraps ==
    {Program(<<<<0, 1>>, <<1, 0>>, <<1, 0>>>>, <<Wide, Box>>, <<Between(0, 1), AtLeast(1), Between(0, 2)>>, <<1, -1>>, {})}

\* The free column costs nothing: at the first pivot its ratio is tied with the integer one's.
FreeBeside ==
    {Program(<<<<2, 1, 0>>, <<2, 2, -2>>>>, <<Box, FreeCol, Half>>, <<AtLeast(1), AtMost(1)>>, <<0, 0, 1>>, {1})}

MCModels == TwoByTwo \cup TwoByThree \cup Corners \cup IntegerPrograms \cup CrashTraps

Config(pricing, ratio, update, max_updates, max_iterations, timed) ==
    [pricing |-> pricing, ratio |-> ratio, update |-> update, max_updates |-> max_updates,
     max_iterations |-> max_iterations, timed |-> timed]

\* SimplexConfig::Fast, Robust and ExactDense, with files that do fill up; and a run that
\* is cut short.
Fast == Config("Devex", "BoundFlipping", "ProductFormInverse", 60, 12, FALSE)
Robust == Config("Devex", "Standard", "ProductFormInverse", 2, 12, FALSE)
ExactDense == Config("Dantzig", "Standard", "RefactorizeAlways", 0, 12, FALSE)
CutShort == Config("Dantzig", "BoundFlipping", "ProductFormInverse", 1, 1, TRUE)
MCConfigs == {Fast, Robust, ExactDense, CutShort}
PatientConfigs == {Fast, Robust}

\* Feasible and infeasible points, at bounds and inside; only of models in which every
\* variable has a finite lower bound.
MCPdhgPoints(m) ==
    IF m.m >= 2 /\ m.ints = {} /\ (\A j \in 1..m.n : Finite(m.lo[j])) /\ (\A i \in 1..m.m : Finite(m.rlo[i]))
    THEN {[j \in 1..m.n |-> v[j]] : v \in {<<0, One, One>>, <<One \div 2, 0, One>>, <<One, One, 0>>,
                                          <<One \div 2, One \div 2, One \div 2>>}}
    ELSE {}

\* A relaxation with cuts and branchings, or one call after a crossover.
MCNext ==
    \/ TreeNext
    \/ Crash /\ depth = 0 /\ cutting = "before" /\ cutting' = "after" /\ UNCHANGED <<root, depth>>

MCSpec == TreeInit /\ [][MCNext]_allVars

=============================================================================
