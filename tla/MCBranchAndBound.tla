------------------------- MODULE MCBranchAndBound -------------------------
(***************************************************************************)
(* Small models and configurations for BranchAndBound.  Four columns, half *)
(* units (Den = 2): the relaxations below have half-integral vertices,     *)
(* whatever integral bounds the tree adds, so the grid is exact.           *)
(***************************************************************************)
EXTENDS BranchAndBound

MCN == 4
MCDen == 2
MCInfinity == 1000

Grid == [1..4 -> 0..2]
All0 == [j \in 1..4 |-> 0]
All2 == [j \in 1..4 |-> 2]
Wide == [lo |-> [j \in 1..4 |-> -8], up |-> [j \in 1..4 |-> 8]]

Linear(w) == [p \in Grid |-> w[1] * p[1] + w[2] * p[2] + w[3] * p[3] + w[4] * p[4]]

MakeModel(int, rows, w, lo, up, single) ==
    LET m == [int |-> int, rows |-> rows, cost |-> [p \in rows |-> Linear(w)[p]],
              lo |-> lo, up |-> up, single |-> single, cuts |-> {}, stops |-> {}]
    \* The strongest rows cutting planes can reach: the convex hull of the solutions.
    IN [m EXCEPT !.cuts = {Feasible(m)}]

\* Vertex covers of a graph: one row x_i + x_j >= 1 per edge.
Cover(edges) == {p \in Grid : \A e \in edges : p[e[1]] + p[e[2]] >= 2}

K4 == {<<i, j>> \in (1..4) \X (1..4) : i < j}
Triangle == {<<1, 2>>, <<1, 3>>, <<2, 3>>}

CoverK4 == MakeModel(1..4, Cover(K4), <<2, 3, 4, 4>>, All0, All2, Wide)

\* At most one vertex of K4, the heaviest is the best: the right (up) branch on
\* the first column is integral at once, the left one is not.
PackingK4 == MakeModel(1..4, {p \in Grid : \A e \in K4 : p[e[1]] + p[e[2]] <= 2},
                       <<-3, -5, -4, -2>>, All0, All2, Wide)

\* The fourth column is continuous and sits on the triangle's third vertex.
CoverMixed == MakeModel({1, 2, 3}, Cover(Triangle \cup {<<3, 4>>}), <<1, 1, 1, 1>>, All0, All2, Wide)

\* 2 x1 + 2 x2 = 3, in integers: infeasible, though its relaxation is not.
Parity == MakeModel(1..4, {p \in Grid : p[1] + p[2] = 3 /\ p[3] + p[4] >= 2},
                    <<1, 2, 1, 1>>, All0, All2, Wide)

\* A triangle whose relaxation is all halves, with a singleton row x1 >= 1/2
\* that rounds to x1 >= 1, and costs that reward covering nothing twice.
Single == MakeModel(1..4, {p \in Cover(Triangle) : p[1] >= 1}, <<3, 3, 2, 1>>, All0, All2,
                    [Wide EXCEPT !.lo = [@ EXCEPT ![1] = 1]])

\* Singleton rows x4 >= 1/2 and x4 <= 1/2: no integer is left, which only the
\* root presolve sees before the tree does.
Pinned == MakeModel({4}, {p \in Grid : p[4] = 1}, <<1, 1, 1, 1>>, All0, All2,
                    [lo |-> [Wide.lo EXCEPT ![4] = 1], up |-> [Wide.up EXCEPT ![4] = 1]])

Continuous == MakeModel({}, Cover(Triangle), <<1, 1, 1, 0>>, All0, All2, Wide)
NoRelaxation == MakeModel({1, 2}, {p \in Grid : p[1] = 2}, <<1, 1, 1, 1>>, All0, [All2 EXCEPT ![1] = 0], Wide)

\* An integer column bounded above by 1/2 (an MPS bound UP 0.5), to be maximised.
HalfBounds == MakeModel({1, 2}, {p \in Grid : p[3] = 0 /\ p[4] = 0}, <<-3, -1, 0, 0>>,
                        All0, [All2 EXCEPT ![1] = 1], Wide)

\* A solve that the clock of the simplex ends before it is primal feasible: at a
\* vertex outside the box, and at an integral point that covers no edge.
CoverStops ==
    LET stops == {[All0 EXCEPT ![1] = -1], All0}
    IN [CoverMixed EXCEPT !.stops = stops,
                          !.cost = [p \in CoverMixed.rows \cup stops |-> p[1] + p[2] + p[3] + p[4]]]

MCModels == {CoverK4, PackingK4, CoverMixed, Parity, Single, Pinned, Continuous, NoRelaxation}
MCWithHalfBoundsAndStops == MCModels \cup {HalfBounds, CoverStops}

Exact == [num |-> 0, den |-> 1]
Tenth == [num |-> 1, den |-> 10]

\* The BestBound configurations: every preset of MILPConfig, node limits that
\* bite and one that does not, both gaps.
BestBound ==
    {c \in [node_selection : {"BestBound"},
            branching : {"MostFractional", "PseudoCost"},
            heuristics : {"None", "All"},
            cuts : BOOLEAN, presolve : BOOLEAN,
            max_nodes : {2, 4, 100}, gap : {Exact, Tenth},
            clock : BOOLEAN, failures : {{}}] :
        c.clock => c.max_nodes = 100}

LimitedOrders ==
    [node_selection : {"DepthFirst", "BestEstimate"},
     branching : {"FirstFractional", "PseudoCost"},
     heuristics : {"None", "SimpleRounding", "Diving"},
     cuts : {FALSE}, presolve : BOOLEAN, max_nodes : {3, 5},
     gap : {Exact, Tenth}, clock : {FALSE}, failures : {{}}]

\* The same orders with room to finish, and the default gap, which in whole
\* units is no gap at all.
UnlimitedOrders ==
    [node_selection : {"DepthFirst", "BestEstimate"},
     branching : {"FirstFractional", "MostFractional", "PseudoCost"},
     heuristics : {"None", "SimpleRounding", "Diving"},
     cuts : {FALSE}, presolve : BOOLEAN, max_nodes : {100},
     gap : {Exact}, clock : {FALSE}, failures : {{}}]

\* A simplex that may run out of iterations or of digits at any node.
Unreliable ==
    [node_selection : {"BestBound", "DepthFirst"},
     branching : {"MostFractional"}, heuristics : {"All"},
     cuts : BOOLEAN, presolve : BOOLEAN,
     max_nodes : {100}, gap : {Exact}, clock : {FALSE},
     failures : {{"MAX_ITERATIONS", "NUMERICAL_FAILURE"}}]

\* A simplex that may answer OPTIMAL before it has an optimum.
EarlyOptimal ==
    [node_selection : {"BestBound"},
     branching : {"MostFractional"}, heuristics : {"Diving"},
     cuts : BOOLEAN, presolve : {TRUE},
     max_nodes : {2}, gap : {Exact}, clock : {FALSE},
     failures : {{"OPTIMAL"}}]

MCSearches == BestBound \cup UnlimitedOrders
MCLimitsAndFailures == LimitedOrders \cup Unreliable \cup EarlyOptimal

DefaultPreset == [node_selection |-> "BestBound", branching |-> "MostFractional",
                  heuristics |-> "None", cuts |-> FALSE, presolve |-> FALSE,
                  max_nodes |-> 100, gap |-> Exact, clock |-> FALSE, failures |-> {}]

MCDepthFirstLimited == {[DefaultPreset EXCEPT !.node_selection = "DepthFirst", !.max_nodes = k] :
                            k \in 2..6}

=============================================================================
