-------------------------- MODULE BranchAndBound --------------------------
(***************************************************************************)
(* BranchAndBoundSolver::solve (src/src/milp/branch_and_bound.cpp): the    *)
(* root presolve, the root relaxation, the root cuts and heuristics, the   *)
(* tree search under its three node-selection strategies, its limits and   *)
(* the verdict it returns.                                                 *)
(*                                                                         *)
(* Data.  Every coordinate, bound and objective value is an integer that   *)
(* counts units of 1/Den.  A basic solution of an LP with rational data    *)
(* has rational coordinates, so with Den a common denominator of the basic *)
(* solutions of a model an LP optimum over a box is the least cost over    *)
(* the points of that grid: the relaxation is exact, and the floating      *)
(* point tolerances of the code (1e-4 .. 1e-7, all below one unit) vanish. *)
(* A model is a record:                                                    *)
(*   int      the Integer and Binary columns (a Binary one has its bounds  *)
(*            inside 0..1, as the MPS reader sets them)                    *)
(*   rows     the grid points that satisfy every row                       *)
(*   cost     c^T x + obj_offset at each of them                           *)
(*   lo, up   col_lower and col_upper                                      *)
(*   single   the intervals the singleton rows leave their columns         *)
(*   cuts     what rows may become when Gomory cuts are appended           *)
(*   stops    the points outside the rows or the box at which a solve that *)
(*            ends early may leave its variables                           *)
(* The simplex solver is its contract here: SolveLP, with the verdict that *)
(* answers OPTIMAL when the loop ended before it had an optimum.           *)
(***************************************************************************)
EXTENDS Integers, FiniteSets

CONSTANTS
    N,          \* number of columns
    Den,        \* units per integer
    Infinity,   \* model::Infinity
    MaxDive,    \* max_depth of the diving heuristic
    Models,     \* the models solve() may be called with
    Configs     \* the MILPConfigs it may be called with

Vars == 1..N
Points == [Vars -> Int]
Boxes == [lo : Points, up : Points]

Within(p, b) == \A j \in Vars : b.lo[j] <= p[j] /\ p[j] <= b.up[j]

IsIntegral(v) == v % Den = 0

\* std::floor and std::ceil.
Floor(v) == v - (v % Den)
Ceil(v) == IF v % Den = 0 THEN v ELSE Floor(v) + Den

\* std::round: half a unit goes away from zero.
Round(v) == LET r == v % Den
            IN IF 2 * r > Den \/ (2 * r = Den /\ v >= 0) THEN Ceil(v) ELSE Floor(v)

\* |v - round(v)|.
Dist(v) == LET r == v % Den IN IF 2 * r <= Den THEN r ELSE Den - r

Fractional(m, p) == {j \in m.int : ~IsIntegral(p[j])}

\* The solutions of the mixed-integer program: what solve() searches for.
Feasible(m) == {p \in m.rows : Within(p, [lo |-> m.lo, up |-> m.up]) /\ Fractional(m, p) = {}}

\* Every integer column has integral bounds, as the MPS reader's defaults and
\* apply_root_presolve leave them.
IntegralBounds(m) == \A j \in m.int : IsIntegral(m.lo[j]) /\ IsIntegral(m.up[j])

LPStatus == {"OPTIMAL", "PRIMAL_INFEASIBLE", "DUAL_INFEASIBLE_UNBOUNDED",
             "MAX_ITERATIONS", "TIME_LIMIT", "NUMERICAL_FAILURE"}
Verdicts == {"Optimal", "Feasible", "Infeasible", "TimeLimit", "NodeLimit", "NumericalFailure"}

Config == [node_selection : {"BestBound", "DepthFirst", "BestEstimate"},
           branching      : {"MostFractional", "FirstFractional", "PseudoCost"},
           heuristics     : {"None", "SimpleRounding", "Diving", "All"},
           cuts           : BOOLEAN,
           presolve       : BOOLEAN,
           max_nodes      : Nat,
           gap            : [num : Nat, den : Nat \ {0}],   \* mip_gap_tol
           clock          : BOOLEAN,                        \* may time_limit_sec elapse
           failures       : SUBSET (LPStatus \ {"PRIMAL_INFEASIBLE"})]   \* see SolveLP

WellFormed(m) ==
    /\ m.int \subseteq Vars
    /\ m.rows \subseteq Points /\ m.stops \subseteq Points
    /\ m.cost \in [m.rows \cup m.stops -> Int]
    /\ \A p \in m.rows : m.cost[p] < Infinity
    /\ m.lo \in Points /\ m.up \in Points
    /\ m.single \in Boxes
    /\ \A p \in m.rows : Within(p, m.single)
    /\ \A R \in m.cuts : R \subseteq m.rows /\ Feasible(m) \subseteq R

ASSUME SizesAssumption == N \in Nat /\ Den \in Nat \ {0} /\ Infinity \in Int /\ MaxDive \in Nat
ASSUME ModelsAssumption == \A m \in Models : WellFormed(m)
ASSUME ConfigsAssumption == Configs \subseteq Config

-----------------------------------------------------------------------------
VARIABLES
    milp,         \* the milp_model argument
    cfg,          \* config_
    pc,           \* the numbered section of solve() that runs next
    lp,           \* the working copy of the model: its rows and its root box
    root,         \* root_res
    incumbent,    \* incumbent_obj
    incumbent_x,  \* incumbent_x
    dive,         \* run_diving_heuristic: lp_dive's box, cur_x, step
    queue,        \* the open nodes: stack and heaps alike
    node,         \* the node popped last
    best_bound,   \* result.best_bound
    stat,         \* the node counters of the result
    result        \* what solve() returns

args == <<milp, cfg>>
vars == <<milp, cfg, pc, lp, root, incumbent, incumbent_x, dive, queue, node,
          best_bound, stat, result>>

NoPoint == [j \in Vars |-> 0]
NoLP == [status |-> "NUMERICAL_FAILURE", x |-> NoPoint, obj |-> 0]
NoNode == [id |-> 0, bound |-> 0, estimate |-> 0, lo |-> NoPoint, up |-> NoPoint]
NoResult == [status |-> "NumericalFailure", best_objective |-> Infinity,
             best_bound |-> -Infinity, x |-> NoPoint]

-----------------------------------------------------------------------------
(* The simplex solver, as solve() sees it: a least-cost point of the box   *)
(* if there is one, any of them when several tie, or what cfg.failures     *)
(* adds.  A status there is a solve that gives up.  "OPTIMAL" there is the *)
(* last branch of the verdict in DualSimplexSolver::solve: whatever ended  *)
(* the loop, short of max_iterations, is answered OPTIMAL with the point   *)
(* reached, after an unbounded ray and after time_limit_sec too.           *)

Converges == "OPTIMAL" \notin cfg.failures

\* The residuals are within tolerance.
Optima(R, b) ==
    {p \in R : Within(p, b) /\ \A q \in R : Within(q, b) => milp.cost[p] <= milp.cost[q]}

\* They need not be: a point of the box when dual residuals are left, any of
\* milp.stops when primal ones are.
Stops(R, b) == {p \in R : Within(p, b)} \cup milp.stops

SolveLP(R, b) ==
    {[status |-> "OPTIMAL", x |-> p, obj |-> milp.cost[p]] :
        p \in IF Converges THEN Optima(R, b) ELSE Stops(R, b)}
    \cup {[NoLP EXCEPT !.status = s] :
             s \in (cfg.failures \ {"OPTIMAL"})
                   \cup {i \in {"PRIMAL_INFEASIBLE"} : \A p \in R : ~Within(p, b)}}

MapStatus(s) ==
    CASE s = "OPTIMAL" -> "Optimal"
      [] s = "PRIMAL_INFEASIBLE" -> "Infeasible"
      [] s = "TIME_LIMIT" -> "TimeLimit"
      [] s = "MAX_ITERATIONS" -> "NodeLimit"
      [] OTHER -> "NumericalFailure"

Lesser(a, b) == IF a <= b THEN a ELSE b
Greater(a, b) == IF a >= b THEN a ELSE b
Abs(a) == IF a < 0 THEN -a ELSE a

\* cur_gap <= mip_gap_tol: |inc - bound| / max(1, |inc|) against num/den.  An
\* infinite operand makes the quotient infinite or NaN, which passes no test.
GapClosed(inc, bound) ==
    /\ inc # Infinity /\ bound # Infinity
    /\ Abs(inc - bound) * cfg.gap.den <= cfg.gap.num * Greater(Den, Abs(inc))

-----------------------------------------------------------------------------
(* Sections 1 and 2: the integer columns, the root presolve.               *)

\* apply_root_presolve: integral bounds for the integer columns, then what the
\* singleton rows imply, rounded inwards too.
Inwards(j, lo, up) ==
    IF j \in milp.int THEN [lo |-> Ceil(lo), up |-> Floor(up)] ELSE [lo |-> lo, up |-> up]

TightLower(j) == Greater(Inwards(j, milp.lo[j], milp.up[j]).lo,
                         Inwards(j, milp.single.lo[j], milp.single.up[j]).lo)

TightUpper(j) == Lesser(Inwards(j, milp.lo[j], milp.up[j]).up,
                        Inwards(j, milp.single.lo[j], milp.single.up[j]).up)

Init ==
    /\ milp \in Models
    /\ cfg \in Configs
    /\ pc = "start"
    /\ lp = [rows |-> milp.rows, lo |-> milp.lo, up |-> milp.up]
    /\ root = NoLP
    /\ incumbent = Infinity
    /\ incumbent_x = NoPoint
    /\ dive = [lo |-> NoPoint, up |-> NoPoint, x |-> NoPoint, step |-> 0]
    /\ queue = {}
    /\ node = NoNode
    /\ best_bound = -Infinity
    /\ stat = [created |-> 0, explored |-> 0, bound |-> 0, infeasible |-> 0, integral |-> 0]
    /\ result = NoResult

tree == <<queue, node, stat>>
found == <<incumbent, incumbent_x>>

Return(r) == result' = r /\ pc' = "done"

\* No integer column: one LP, its status handed on.
PureLP ==
    /\ pc = "start"
    /\ milp.int = {}
    /\ \E r \in SolveLP(lp.rows, [lo |-> lp.lo, up |-> lp.up]) :
          Return([status |-> MapStatus(r.status), best_objective |-> r.obj,
                  best_bound |-> r.obj, x |-> r.x])
    /\ stat' = [stat EXCEPT !.created = 1, !.explored = 1]
    /\ UNCHANGED <<args, lp, root, found, dive, queue, node, best_bound>>

SkipPresolve ==
    /\ pc = "start"
    /\ milp.int # {} /\ ~cfg.presolve
    /\ pc' = "root"
    /\ UNCHANGED <<args, lp, root, found, dive, tree, best_bound, result>>

\* Both loops of apply_root_presolve; bounds that cross end the solve.
RootPresolve ==
    /\ pc = "start"
    /\ milp.int # {} /\ cfg.presolve
    /\ \/ /\ \E j \in Vars : TightLower(j) > TightUpper(j)
          /\ Return([NoResult EXCEPT !.status = "Infeasible"])
          /\ UNCHANGED lp
       \/ /\ \A j \in Vars : TightLower(j) <= TightUpper(j)
          /\ lp' = [lp EXCEPT !.lo = [j \in Vars |-> TightLower(j)],
                              !.up = [j \in Vars |-> TightUpper(j)]]
          /\ pc' = "root"
          /\ UNCHANGED result
    /\ UNCHANGED <<args, root, found, dive, tree, best_bound>>

-----------------------------------------------------------------------------
(* Sections 3 and 4: the root relaxation and the root cuts.                *)

RootBox == [lo |-> lp.lo, up |-> lp.up]

SolveRoot ==
    /\ pc = "root"
    /\ \E r \in SolveLP(lp.rows, RootBox) :
          \/ /\ r.status # "OPTIMAL"
             /\ Return([NoResult EXCEPT !.status = MapStatus(r.status)])
             /\ UNCHANGED <<root, best_bound>>
          \/ /\ r.status = "OPTIMAL"
             /\ root' = r
             /\ best_bound' = r.obj
             /\ pc' = "cuts"
             /\ UNCHANGED result
    /\ UNCHANGED <<args, lp, found, dive, tree>>

\* Cutting is off, or generate_gomory_cuts returned 0.
NoCuts ==
    /\ pc = "cuts"
    /\ pc' = "rounding"
    /\ UNCHANGED <<args, lp, root, found, dive, tree, best_bound, result>>

\* generate_gomory_cuts: some basic integer column is fractional enough (f0 in
\* 0.05..0.95), the rows that are appended cut root_res.x off.  The model keeps
\* them even when the second solve fails and root_res stays the first one.
GomoryCuts ==
    /\ pc = "cuts"
    /\ cfg.cuts
    /\ \E j \in milp.int : 20 * (root.x[j] % Den) >= Den /\ 20 * (root.x[j] % Den) <= 19 * Den
    /\ \E R \in milp.cuts :
          /\ root.x \notin R
          /\ lp' = [lp EXCEPT !.rows = R]
          /\ \E r \in SolveLP(R, RootBox) :
                \/ /\ r.status = "OPTIMAL"
                   /\ root' = r
                   /\ best_bound' = Greater(best_bound, r.obj)
                \/ /\ r.status # "OPTIMAL"
                   /\ UNCHANGED <<root, best_bound>>
    /\ pc' = "rounding"
    /\ UNCHANGED <<args, found, dive, tree, result>>

-----------------------------------------------------------------------------
(* Section 5: the incumbent and the two primal heuristics at the root.     *)

UpdateIncumbent(x, obj) ==
    IF obj < incumbent
    THEN incumbent' = obj /\ incumbent_x' = x
    ELSE UNCHANGED found

\* std::clamp(std::round(v), lo, up).
Clamped(v, lo, up) == Lesser(Greater(Round(v), lo), up)

Rounded(x) ==
    [j \in Vars |-> IF j \in milp.int THEN Clamped(x[j], lp.lo[j], lp.up[j]) ELSE x[j]]

\* run_simple_rounding checks the rows of the rounded point and nothing else.
SimpleRounding ==
    /\ pc = "rounding"
    /\ IF cfg.heuristics \in {"SimpleRounding", "All"} /\ Rounded(root.x) \in lp.rows
       THEN UpdateIncumbent(Rounded(root.x), milp.cost[Rounded(root.x)])
       ELSE UNCHANGED found
    /\ dive' = [lo |-> lp.lo, up |-> lp.up, x |-> root.x, step |-> 0]
    /\ pc' = IF cfg.heuristics \in {"Diving", "All"} THEN "diving" ELSE "branch"
    /\ UNCHANGED <<args, lp, root, tree, best_bound, result>>

\* The integrality test a dive ends with, and one that forgets it.
UncheckedCandidate(x) == x = x
Candidate(x) == Fractional(milp, x) = {}

\* The dive ends with a candidate.
EndDive ==
    /\ pc = "diving"
    /\ Candidate(dive.x)
    /\ UpdateIncumbent(dive.x, milp.cost[dive.x])
    /\ pc' = "branch"
    /\ UNCHANGED <<args, lp, root, dive, tree, best_bound, result>>

\* The loop bound of the dive, and one iteration too many.
MayDiveOnceMore == dive.step <= MaxDive
MayDive == dive.step < MaxDive

\* max_depth iterations left a fractional column.
AbandonDive ==
    /\ pc = "diving"
    /\ ~Candidate(dive.x)
    /\ ~MayDive
    /\ pc' = "branch"
    /\ UNCHANGED <<args, lp, root, found, dive, tree, best_bound, result>>

\* The first column among those closest to an integer.
Closest(x) ==
    {j \in Fractional(milp, x) : \A k \in Fractional(milp, x) :
        Dist(x[j]) < Dist(x[k]) \/ (Dist(x[j]) = Dist(x[k]) /\ j <= k)}

\* lp_dive's bounds once that column is fixed at its rounded and clamped value.
DiveBox(j) ==
    LET target == Clamped(dive.x[j], dive.lo[j], dive.up[j])
    IN [lo |-> [dive.lo EXCEPT ![j] = target], up |-> [dive.up EXCEPT ![j] = target]]

\* One iteration: the column is fixed, the LP solved again.
DiveStep ==
    /\ pc = "diving"
    /\ MayDive
    /\ \E j \in Closest(dive.x) : \E r \in SolveLP(lp.rows, DiveBox(j)) :
          \/ /\ r.status = "OPTIMAL"
             /\ dive' = [lo |-> DiveBox(j).lo, up |-> DiveBox(j).up,
                         x |-> r.x, step |-> dive.step + 1]
             /\ UNCHANGED pc
          \/ /\ r.status # "OPTIMAL"
             /\ dive' = [dive EXCEPT !.lo = DiveBox(j).lo, !.up = DiveBox(j).up]
             /\ pc' = "branch"
    /\ UNCHANGED <<args, lp, root, found, tree, best_bound, result>>

-----------------------------------------------------------------------------
(* Section 6: the open nodes.  The heaps are min-heaps on bound and on     *)
(* estimate, which say nothing of ties.  node_counter grows with every     *)
(* push, so the top of the stack is the open node with the largest id.     *)

Before(n, o) ==
    CASE cfg.node_selection = "BestBound" -> n.bound <= o.bound
      [] cfg.node_selection = "BestEstimate" -> n.estimate <= o.estimate
      [] cfg.node_selection = "DepthFirst" -> n.id >= o.id

Tops(q) == {n \in q : \A o \in q : Before(n, o)}

\* A bound left as it was recorded, as if no order kept the open bounds sorted.
RecordedBestBound(q, bound) == IF q = {} THEN {incumbent} ELSE {bound}

\* get_current_best_bound, for the open nodes q and the recorded bound.
CurrentBestBound(q, bound) ==
    IF q = {} THEN {incumbent}
    ELSE IF cfg.node_selection = "BestBound" THEN {n.bound : n \in Tops(q)}
    ELSE {bound}

\* find_fractional, and the pseudocost choice, which may fall on any fractional column.
BranchColumns(x, branching) ==
    LET F == Fractional(milp, x)
    IN CASE branching = "FirstFractional" -> {j \in F : \A k \in F : j <= k}
         [] branching = "MostFractional" ->
               {j \in F : \A k \in F : Dist(x[k]) < Dist(x[j]) \/ (Dist(x[k]) = Dist(x[j]) /\ j <= k)}
         [] branching = "PseudoCost" -> F

\* Mutated children: a bound the branch has not earned, a floor taken one
\* unit too low, an upper bound left alone, a ceiling one unit too high, a floor
\* where the ceiling belongs.
LeftChildEager(b, r, j) ==
    [id |-> stat.created + 1, bound |-> r.obj + Den, estimate |-> r.obj,
     lo |-> b.lo, up |-> [b.up EXCEPT ![j] = Floor(r.x[j])]]
LeftChildBelow(b, r, j) ==
    [id |-> stat.created + 1, bound |-> r.obj, estimate |-> r.obj,
     lo |-> b.lo, up |-> [b.up EXCEPT ![j] = Floor(r.x[j]) - Den]]
LeftChildWhole(b, r, j) ==
    [id |-> stat.created + 1, bound |-> r.obj, estimate |-> r.obj, lo |-> b.lo, up |-> b.up]
RightChildSkips(b, r, j) ==
    [id |-> stat.created + 2, bound |-> r.obj, estimate |-> r.obj,
     lo |-> [b.lo EXCEPT ![j] = Ceil(r.x[j]) + Den], up |-> b.up]
RightChildOverlaps(b, r, j) ==
    [id |-> stat.created + 2, bound |-> r.obj, estimate |-> r.obj,
     lo |-> [b.lo EXCEPT ![j] = Floor(r.x[j])], up |-> b.up]

LeftChild(b, r, j) ==
    [id |-> stat.created + 1, bound |-> r.obj,
     estimate |-> r.obj + (r.x[j] - Floor(r.x[j])),
     lo |-> b.lo, up |-> [b.up EXCEPT ![j] = Floor(r.x[j])]]

RightChild(b, r, j) ==
    [id |-> stat.created + 2, bound |-> r.obj,
     estimate |-> r.obj + (Ceil(r.x[j]) - r.x[j]),
     lo |-> [b.lo EXCEPT ![j] = Ceil(r.x[j])], up |-> b.up]

\* The root relaxation is integral: its own values are returned.
RootIntegral ==
    /\ pc = "branch"
    /\ Fractional(milp, root.x) = {}
    /\ Return([status |-> "Optimal", best_objective |-> root.obj,
               best_bound |-> root.obj, x |-> root.x])
    /\ stat' = [stat EXCEPT !.created = 1, !.explored = 1]
    /\ UNCHANGED <<args, lp, root, found, dive, queue, node, best_bound>>

\* The first two children; find_fractional knows no pseudocosts.
RootBranch ==
    /\ pc = "branch"
    /\ \E j \in BranchColumns(root.x, IF cfg.branching = "FirstFractional"
                                      THEN "FirstFractional" ELSE "MostFractional") :
          queue' = {LeftChild(RootBox, root, j), RightChild(RootBox, root, j)}
    /\ stat' = [stat EXCEPT !.created = 2, !.explored = 1]
    /\ pc' = "loop"
    /\ UNCHANGED <<args, lp, root, found, dive, node, best_bound, result>>

-----------------------------------------------------------------------------
(* Section 7: the tree exploration loop, and the verdict after it.         *)

\* A verdict that takes any incumbent for the optimum, one that knows no node limit.
VerdictWithoutGap(q, inc, bound, timeout) ==
    IF inc < Infinity THEN "Optimal" ELSE IF timeout THEN "TimeLimit" ELSE "NodeLimit"
VerdictWithoutLimit(q, inc, bound, timeout) ==
    IF inc < Infinity
    THEN IF q = {} \/ GapClosed(inc, bound) THEN "Optimal" ELSE "Feasible"
    ELSE IF timeout THEN "TimeLimit" ELSE "Infeasible"

\* What the code after the loop makes of the open nodes q, the incumbent and
\* the bound recorded last; timeout is the clock read there.
Verdict(q, inc, bound, timeout) ==
    IF inc < Infinity
    THEN IF q = {} \/ GapClosed(inc, bound) THEN "Optimal" ELSE "Feasible"
    ELSE IF timeout THEN "TimeLimit"
    ELSE IF stat.explored >= cfg.max_nodes THEN "NodeLimit"
    ELSE "Infeasible"

Conclude(timeout) ==
    \E b \in CurrentBestBound(queue, best_bound) :
        Return([status |-> Verdict(queue, incumbent, b, timeout),
                best_objective |-> incumbent, best_bound |-> b, x |-> incumbent_x])

Timeouts == {t \in BOOLEAN : t => cfg.clock}

TreeExhausted ==
    /\ pc = "loop"
    /\ queue = {}
    /\ \E t \in Timeouts : Conclude(t)
    /\ UNCHANGED <<args, lp, root, found, dive, tree, best_bound>>

NodeLimitReached ==
    /\ pc = "loop"
    /\ queue # {}
    /\ stat.explored >= cfg.max_nodes
    /\ \E t \in Timeouts : Conclude(t)
    /\ UNCHANGED <<args, lp, root, found, dive, tree, best_bound>>

TimeLimitReached ==
    /\ pc = "loop"
    /\ queue # {}
    /\ stat.explored < cfg.max_nodes
    /\ cfg.clock
    /\ Conclude(TRUE)
    /\ UNCHANGED <<args, lp, root, found, dive, tree, best_bound>>

\* The cut-off against the incumbent.
Dominated(bound) == bound >= incumbent

\* The node on top is popped; its bound dismisses it, or it is explored.
PruneByBound ==
    /\ pc = "loop"
    /\ stat.explored < cfg.max_nodes
    /\ \E n \in Tops(queue) :
          /\ Dominated(n.bound)
          /\ queue' = queue \ {n}
    /\ stat' = [stat EXCEPT !.bound = @ + 1]
    /\ UNCHANGED <<args, pc, lp, root, found, dive, node, best_bound, result>>

Explore ==
    /\ pc = "loop"
    /\ stat.explored < cfg.max_nodes
    /\ \E n \in Tops(queue) :
          /\ ~Dominated(n.bound)
          /\ node' = n
          /\ queue' = queue \ {n}
          /\ \E b \in CurrentBestBound(queue \ {n}, best_bound) :
                best_bound' = Lesser(incumbent, b)
    /\ stat' = [stat EXCEPT !.explored = @ + 1]
    /\ pc' = "node"
    /\ UNCHANGED <<args, lp, root, found, dive, result>>

NodeLP == SolveLP(lp.rows, [lo |-> node.lo, up |-> node.up])

\* Whatever kept the simplex from optimality, the node is dropped as infeasible
\* (the mutated form tries the same LP again).
NodeInfeasibleKept ==
    /\ pc = "node"
    /\ \E r \in NodeLP : r.status # "OPTIMAL"
    /\ UNCHANGED vars

NodeInfeasible ==
    /\ pc = "node"
    /\ \E r \in NodeLP : r.status # "OPTIMAL"
    /\ stat' = [stat EXCEPT !.infeasible = @ + 1]
    /\ pc' = "loop"
    /\ UNCHANGED <<args, lp, root, found, dive, queue, node, best_bound, result>>

\* The relaxation is no better than the incumbent (mutated: not counted).
NodeDominatedUncounted ==
    /\ pc = "node"
    /\ \E r \in NodeLP : r.status = "OPTIMAL" /\ Dominated(r.obj)
    /\ pc' = "loop"
    /\ UNCHANGED <<args, lp, root, found, dive, tree, best_bound, result>>

NodeDominated ==
    /\ pc = "node"
    /\ \E r \in NodeLP : r.status = "OPTIMAL" /\ Dominated(r.obj)
    /\ stat' = [stat EXCEPT !.bound = @ + 1]
    /\ pc' = "loop"
    /\ UNCHANGED <<args, lp, root, found, dive, queue, node, best_bound, result>>

\* An integer solution; the search stops when it closes the gap.
NodeIntegral ==
    /\ pc = "node"
    /\ \E r \in NodeLP :
          /\ r.status = "OPTIMAL" /\ ~Dominated(r.obj)
          /\ Fractional(milp, r.x) = {}
          /\ UpdateIncumbent(r.x, r.obj)
    /\ stat' = [stat EXCEPT !.integral = @ + 1]
    /\ pc' = IF GapClosed(incumbent', best_bound) THEN "gap" ELSE "loop"
    /\ UNCHANGED <<args, lp, root, dive, queue, node, best_bound, result>>

\* The break at that point runs the code after the loop.
GapReached ==
    /\ pc = "gap"
    /\ \E t \in Timeouts : Conclude(t)
    /\ UNCHANGED <<args, lp, root, found, dive, tree, best_bound>>

NodeBranch ==
    /\ pc = "node"
    /\ \E r \in NodeLP :
          /\ r.status = "OPTIMAL" /\ ~Dominated(r.obj)
          /\ \E j \in BranchColumns(r.x, cfg.branching) :
                queue' = queue \cup {LeftChild(node, r, j), RightChild(node, r, j)}
    /\ stat' = [stat EXCEPT !.created = @ + 2]
    /\ pc' = "loop"
    /\ UNCHANGED <<args, lp, root, found, dive, node, best_bound, result>>

Next ==
    \/ PureLP \/ SkipPresolve \/ RootPresolve \/ SolveRoot \/ NoCuts \/ GomoryCuts
    \/ SimpleRounding \/ EndDive \/ AbandonDive \/ DiveStep
    \/ RootIntegral \/ RootBranch
    \/ TreeExhausted \/ NodeLimitReached \/ TimeLimitReached \/ PruneByBound \/ Explore
    \/ NodeInfeasible \/ NodeDominated \/ NodeIntegral \/ GapReached \/ NodeBranch

Spec == Init /\ [][Next]_vars

\* The solver is one thread that runs until it returns.
FairSpec == Spec /\ WF_vars(Next)

-----------------------------------------------------------------------------
(* Properties.                                                             *)

IsSolution(x, obj) == x \in Feasible(milp) /\ obj = milp.cost[x]

Searching == pc \in {"loop", "node", "gap"}

\* The node popped last is open until its LP has been dealt with.
Open == queue \cup {n \in {node} : pc = "node"}

\* The simplex settles every LP it is given.
Reliable == cfg.failures = {}

\* No OPTIMAL answer is outside the rows or the box of its LP.
StopsInside == Converges \/ milp.stops = {}

\* The points an OPTIMAL answer may have.
Reached == milp.rows \cup (IF Converges THEN {} ELSE milp.stops)

\* No integer column starts with a fractional bound.
IntegralBox == cfg.presolve \/ IntegralBounds(milp)

LPResult == [status : LPStatus, x : Points, obj : Int]
Node == [id : Nat, bound : Int, estimate : Int, lo : Points, up : Points]

\* Every variable has its type, a dive never makes more than max_depth steps, and
\* the LP solutions kept at the root satisfy the rows of the model, unless a solve
\* was left at one of milp.stops.
TypeOK ==
    /\ milp \in Models /\ cfg \in Configs
    /\ pc \in {"start", "root", "cuts", "rounding", "diving", "branch",
               "loop", "node", "gap", "done"}
    /\ lp \in [rows : SUBSET milp.rows, lo : Points, up : Points]
    /\ root \in LPResult
    /\ pc \in {"cuts", "rounding", "diving", "branch"} => root.x \in Reached
    /\ pc = "diving" => dive.x \in Reached
    /\ incumbent \in Int /\ incumbent_x \in Points
    /\ dive \in [lo : Points, up : Points, x : Points, step : 0..MaxDive]
    /\ queue \subseteq Node /\ IsFiniteSet(queue)
    /\ node \in Node
    /\ best_bound \in Int
    /\ stat \in [created : Nat, explored : Nat, bound : Nat, infeasible : Nat, integral : Nat]
    /\ result \in [status : Verdicts, best_objective : Int, best_bound : Int, x : Points]

\* What the search takes for a solution is one, at the value it records: from
\* the rounding, the dive and the tree, and in the result that is returned.  The
\* dive and the tree check no row: an LP answer outside them would be believed.
IncumbentSound ==
    StopsInside /\ IntegralBox =>
        /\ incumbent < Infinity => IsSolution(incumbent_x, incumbent)
        /\ result.status \in {"Optimal", "Feasible"} => IsSolution(result.x, result.best_objective)

\* Nothing is lost between presolve, cuts, branching and pruning: a solution
\* better than the incumbent is always inside an open node.
NoLostSolution ==
    Reliable /\ IntegralBox /\ Searching =>
        \A p \in Feasible(milp) :
            incumbent <= milp.cost[p] \/ \E n \in Open : Within(p, n)

\* The bound a node inherits, where the simplex converges, is below everything its box
\* still holds, though the rows may have changed since (a second root solve that failed).
BoundsBelow ==
    Converges /\ Searching =>
        \A n \in Open, p \in lp.rows : Within(p, n) => n.bound <= milp.cost[p]

\* No point is left in two open nodes: branching at a point of the box searches nothing
\* twice.
OpenDisjoint ==
    StopsInside /\ Searching =>
        \A n, o \in Open, p \in milp.rows : Within(p, n) /\ Within(p, o) => n = o

\* The simplex never tests whether the bounds of a column cross, so no box it
\* is given may have such a column, in the tree or in the dive.
NoCrossedBounds ==
    StopsInside /\ IntegralBox =>
        /\ Searching => \A n \in Open, j \in Vars : milp.lo[j] <= milp.up[j] => n.lo[j] <= n.up[j]
        /\ pc = "diving" => \A j \in Vars : milp.lo[j] <= milp.up[j] => dive.lo[j] <= dive.up[j]

\* "Optimal" is within mip_gap_tol of the optimum, limits or not, under the
\* best-bound order.
OptimalMeansOptimal ==
    Reliable /\ IntegralBox /\ cfg.node_selection = "BestBound" /\ result.status = "Optimal" =>
        \A p \in Feasible(milp) :
            \/ result.best_objective <= milp.cost[p]
            \/ (result.best_objective - milp.cost[p]) * cfg.gap.den
                  <= cfg.gap.num * Greater(Den, Abs(result.best_objective))

\* Whatever the order, an "Optimal" that leaves no open node is exact.
ExhaustedMeansOptimal ==
    Reliable /\ IntegralBox /\ result.status = "Optimal" /\ queue = {} =>
        \A p \in Feasible(milp) : result.best_objective <= milp.cost[p]

\* "Infeasible" is said of a model without solutions, never because a limit or
\* a heuristic got in the way.
InfeasibleMeansInfeasible ==
    Reliable /\ IntegralBox /\ result.status = "Infeasible" => Feasible(milp) = {}

\* Under the best-bound order the lesser of the two numbers returned by a search
\* a limit cut short is a lower bound on every solution.
ReportedBoundHolds ==
    /\ Reliable /\ IntegralBox /\ cfg.node_selection = "BestBound"
    /\ result.status \in {"Feasible", "NodeLimit", "TimeLimit"}
    => \A p \in Feasible(milp) : Lesser(result.best_objective, result.best_bound) <= milp.cost[p]

\* Every node ever pushed is open or counted once among the pruned, or was split in two.
NodeConservation ==
    Searching =>
        stat.created + 2 = 2 * (Cardinality(Open) + stat.bound + stat.infeasible + stat.integral)

\* Every box pushed lies strictly inside the box that was explored, if the LP answer did.
SplitsShrink ==
    [][pc = "node" /\ StopsInside => \A n \in queue' \ queue :
          /\ \A j \in Vars : node.lo[j] <= n.lo[j] /\ n.up[j] <= node.up[j]
          /\ \E j \in Vars : node.lo[j] < n.lo[j] \/ n.up[j] < node.up[j]]_vars

\* solve() returns.
Termination == <>(pc = "done")

\* What the invariants above rest on, and with them is inductive.

\* The working copy: presolve and cuts narrow the model and keep its solutions.
WorkingModel ==
    /\ pc = "start" => lp = [rows |-> milp.rows, lo |-> milp.lo, up |-> milp.up]
    /\ pc \in {"start", "root", "cuts"} => lp.rows = milp.rows
    /\ Feasible(milp) \subseteq lp.rows
    /\ \A p \in Feasible(milp) : Within(p, RootBox)
    /\ \A j \in Vars : milp.lo[j] <= lp.lo[j] /\ lp.up[j] <= milp.up[j]
    /\ IntegralBox /\ pc \notin {"start", "done"} =>
          \A j \in milp.int : IsIntegral(lp.lo[j]) /\ IsIntegral(lp.up[j])

\* root_res solves the rows without the cuts, or with them.
RootSolved ==
    pc \in {"cuts", "rounding", "diving", "branch"} =>
        /\ root.obj = milp.cost[root.x]
        /\ Converges => \A p \in lp.rows : Within(p, RootBox) => root.obj <= milp.cost[p]
        /\ StopsInside =>
              /\ Within(root.x, RootBox)
              /\ Fractional(milp, root.x) = {} => root.x \in lp.rows

\* The box of b lies inside the root box.
Inside(b) == \A j \in Vars : lp.lo[j] <= b.lo[j] /\ b.up[j] <= lp.up[j]

BoxesNested ==
    StopsInside =>
        /\ pc = "diving" => Inside(dive) /\ Within(dive.x, dive)
        /\ Searching => \A n \in Open : Inside(n)

Phases ==
    /\ incumbent <= Infinity
    /\ pc = "gap" => incumbent < Infinity
    /\ pc \in {"start", "root", "cuts"} => incumbent = Infinity
    /\ ~Searching /\ pc # "done" => queue = {}
    /\ pc = "node" => node \notin queue
    /\ pc # "done" => result = NoResult

\* Branching splits an integer column at integral bounds, and leaves no box empty.
OpenWhole ==
    StopsInside /\ Searching /\ IntegralBox =>
        \A n \in Open :
            /\ \A j \in milp.int : IsIntegral(n.lo[j]) /\ IsIntegral(n.up[j])
            /\ \A j \in Vars : n.lo[j] <= n.up[j]

\* Nothing is counted before the first branch, and the counter of created nodes
\* numbers them.
OpenNumbered ==
    /\ ~Searching /\ pc # "done" =>
          /\ stat.created = 0 /\ stat.bound = 0
          /\ stat.infeasible = 0 /\ stat.integral = 0
    /\ Searching => \A n \in Open : n.id <= stat.created

Inductive ==
    /\ TypeOK /\ WorkingModel /\ RootSolved /\ BoxesNested /\ Phases
    /\ OpenWhole /\ OpenNumbered /\ NodeConservation
    /\ IncumbentSound /\ NoLostSolution /\ BoundsBelow /\ OpenDisjoint
    /\ OptimalMeansOptimal /\ ExhaustedMeansOptimal /\ InfeasibleMeansInfeasible
    /\ ReportedBoundHolds

\* The search implements the contract of its result.
Contract == INSTANCE MilpContract
    WITH values <- {milp.cost[p] : p \in Feasible(milp)},
         gap <- cfg.gap,
         best <- IF result.status \in {"Optimal", "Feasible"} THEN result.best_objective
                 ELSE incumbent,
         verdict <- IF pc = "done" THEN result.status ELSE "none"

MeetsContract == Contract!Spec

\* Claims the repository makes without the conditions above.

\* tests/test_milp_phase7.cpp, NodeSelectionComparison: every node selection
\* strategy ends, when it ends with OPTIMAL, at the same optimal value.
StrategiesAgree ==
    result.status = "Optimal" =>
        \A p \in Feasible(milp) :
            \/ result.best_objective <= milp.cost[p]
            \/ (result.best_objective - milp.cost[p]) * cfg.gap.den
                  <= cfg.gap.num * Greater(Den, Abs(result.best_objective))

=============================================================================
