# A verification project for PIPEPYE

PIPEPYE solves linear and mixed-integer programs: a model is read, presolved,
scaled, solved by a dual simplex or a first-order method (PDHG), and its solution
carried back; mixed-integer models go through branch and bound. This directory
holds TLA+ modules that model the parts of it whose correctness is a matter of
control, TLC configurations that check them on small instances, and proofs that
TLAPS checks for every instance.

Contents: 1 the system, 2 the modules, 3 the runs, 4 fairness, 5 what is proved,
6 disagreements with the code's own words, 7 what is not modelled, 8 the plan.

## 1. The system

| component | state it keeps | operations | what makes it correct |
| --- | --- | --- | --- |
| branch and bound (`src/milp`) | a working copy of the model, the root solution, the incumbent, the open nodes, the node popped, the best bound, counters | `solve`: root presolve, root LP, Gomory cuts, rounding, diving, branching, node selection, pruning, limits, verdict | no solution is lost, the incumbent is one, `Optimal` and `Infeasible` mean it, the search ends |
| presolve (`src/presolve/presolve_*.cpp`) | `PresolveContext`: active rows and columns, working bounds and costs, cached degrees, a status, the stack of undo records | five passes, repeated by `PresolvePassManager::run` to a fixed point or `max_passes` | the reduced model is equivalent, the caches are exact, each proof of infeasibility or unboundedness is one |
| postsolve (`src/presolve/postsolve.cpp`) | the stack, a primal-dual solution | scatter, undo in reverse order, objective and feasibility flag | the recovered solution is optimal in the original model, duals included |
| simplex (`src/simplex`) | the basis, everyone's status, the point, costs and their shifts, dual values, factors | `solve` from slacks or a basis: shifts, dual pivots with flips, cleanup, verdict | basis, factors and point agree; the dual stays feasible; the verdict is true |
| factorization (`src/factorization`) | LU factors and an eta file | factorize, update, ftran, btran | the solves answer for the basis the caller has |
| crossover (`src/crossover`) | a basis under construction | score, choose, cover, fill, repair, call the simplex | the basis is one the simplex can start from |
| PDHG (`src/solver`, `src/cuda/pdhg_cuda.cu`) | iterates, the transposed product, step sizes, residuals, restart record | steps, a check every k iterations: convergence, limits, rebalancing, restart; host or device | the steps stay safe, no iteration moves away from a solution, a limit of the iterates is one |
| pipeline (`src/pipeline`), scaling (`src/scaling`), verifier | a prepared model, scale factors, a verification | presolve, scale, solve, recover in the opposite order, verify | preparing keeps the optimal pairs and recovering returns them |
| model reader and writer (`src/model`) | section, integer marker, first names, symbol tables, the model | one line at a time; assemble; write | the model is what the cards declare; writing and reading agree |
| sparse matrices (`src/sparse`) | triplets with three flags; CSR, CSC, dense arrays | add, sort, merge, resize, convert, multiply, norms | no sequence of calls makes a flag lie; all formats are the same matrix |
| parallel kernels (`cpu_ops.cpp`, `src/cuda/kernels`) | the output vector, registers, shared memory | products by row, warp, sub-warp, chunk; reductions | every interleaving gives the sequential result |
| analysis, selector, oracle, generators, workloads, utils, tools, dashboard | none that outlives a call | | |

How they interact. The reader builds a `LinearProgram`; the pipeline gives it to
presolve, then to scaling, then to a solver, and walks back through unscaling and
postsolve to the verifier. Branch and bound has its own presolve and calls the dual
simplex at the root, after the cuts, at each step of a dive and at every node, with the
parent's basis; the crossover calls it with a basis made from a first-order point. All
of that is synchronous, in one thread. What runs in parallel are the OpenMP loops of
`cpu_ops.cpp` and the warps of the CUDA kernels, and there alone interleaving matters.

Everywhere else what is hard is long histories. A node's bound is
recorded when it is pushed and read after the incumbent has moved; a cut-off, a
gap test and a final verdict use three differently aged bounds; a limit, the clock
or a failing LP interrupts anywhere. In presolve five passes edit one shared
context through cached counts, in an order fixed by data, and each edit has to be
undone later by a record that saw only part of it. The simplex keeps a basis, its
inverse and its statuses as separate things that a pivot, a flip, a refactorization and a
warm start each touch in part. A first-order solution goes through four changes of
coordinates. The reader decides what a token is from what it has read so far.
`PROJECT.json` lists these places line by line with the properties that watch them.

## 2. The modules

**`BranchAndBound`** models `BranchAndBoundSolver::solve`. `pc` is the numbered
section of `solve` that runs next, each section an action or a few:

| action | in `branch_and_bound.cpp` |
| --- | --- |
| `PureLP`, `SkipPresolve`, `RootPresolve` | no integer column; `apply_root_presolve` |
| `SolveRoot`, `NoCuts`, `GomoryCuts` | root relaxation, appended cuts and the second solve |
| `SimpleRounding`, `DiveStep`, `EndDive`, `AbandonDive` | the two heuristics |
| `RootIntegral`, `RootBranch` | the end of the root node |
| `TreeExhausted`, `NodeLimitReached`, `TimeLimitReached`, `GapReached` | the four ways out of the loop, each with the verdict code behind it |
| `PruneByBound`, `Explore`, `NodeInfeasible`, `NodeDominated`, `NodeIntegral`, `NodeBranch` | one turn of the loop |

The data: coordinates, bounds and objective values are integers that count units of
`1/Den`. A model is its rows' grid points and their costs; with `Den` a common
denominator of the basic solutions an LP optimum over a box is the least cost over
the grid, so the relaxation is exact and tolerances, all below one unit, vanish. The
simplex is a contract, `SolveLP`, taken from the verdict of `DualSimplexSolver::solve`:
infeasibility, or one of the statuses in `failures`, or `OPTIMAL` at some point. Where
that verdict may be trusted (`Converges`) the point is an optimum (`Optima`). Where it may not, `"OPTIMAL"`
is itself in `failures`: the last branch of the code answers it at whatever point the loop ended (`Stops`), a point of
the box when only dual residuals are left, any of the model's `stops` when primal ones
are. A Gomory cut is any replacement of the rows in the model's
`cuts` that removes the root point and no solution; `GomoryCuts` has
the arithmetic. Ties of a heap and the pseudocost
choice are nondeterministic. Pivot counts, timings, gap history and logging are left
out.

**`MilpContract`** is what a caller is promised: a best value that only falls and is
always attained, then one verdict that is true. `BranchAndBound` implements it under
a refinement mapping (`MeetsContract`).

**`Presolve`** models `PresolvePassManager::run`, all five passes and the context.
Each iteration of a pass's loop that changes something is one step; `pc` is the part
of a pass that runs, `cursor` the index it last did something at, and the next step is
at the least later index the loop's guards let through. A pass that has two loops
(`EmptyRowColPass`, `SingletonPass`) is two parts. `ctx` is the `PresolveContext`
with the stack of undo records inside. Numbers are integers and every division is
exact: `Quotient` has no value otherwise and TLC would stop, so a run that passes has
met none. `Infinity` is IEEE infinity and `Threshold` is
`infinity_threshold` (1e20): they are different numbers in the code too, and the
difference matters. A point is a function on the columns.

**`Postsolve`** extends it with what follows: `Solve` (any optimal primal-dual pair of
what presolve left, scattered), `Undo` (one record, with its dual formulas) and
`Recover` (objective and feasibility flag).

**`FixedPoint`** holds the numbers of what follows: integers that count units of `1/One`.
In the simplex modules `One` is 16 and every quotient must be whole (`Ratio` has no
value otherwise and TLC would stop), so the arithmetic there is exact. In the first-order
modules `One` is 256 and a product is rounded down, as floating point rounds.

**`LUFactors`**, **`BasisFactors`** model `SparseLU` (Markowitz choice among the entries large
enough, elimination with fill, permuted triangular solves), `DenseLU`, and
`BasisFactorization`: the eta file, `ftran` through it forwards and `btran`
backwards, a failed factorization that leaves what was there.

**`DualSimplex`** models `DualSimplexSolver::solve`: `Begin` (basis or slacks, shifts),
`DualPivot` (leaving row, tableau row, ratio test, flips, factor update or
refactorization, `Swap`), `DualUnbounded`, `PrimalFeasible`, `OutOfTime`, then
`RestoreCosts`, the cleanup (`PrimalPivot`, `PrimalFlip`, `PrimalUnbounded`,
`CleanupEnds`) and `Assemble` with the verdict. Devex weights are only known to be
positive, so any infeasible row may leave; equal ratios may come in any order.

**`Crossover`** adds `Crash`, the basis made from a PDHG point. **`GomoryCuts`** adds `AddCuts`
(the cuts of `generate_gomory_cuts` read off the final basis, then the second solve) and
`Branch` (a child from its parent's basis): what `BranchAndBound` takes as a contract,
here with the numbers. **`MCSimplex`** composes the three.

**`SparseFormats`** has the formats and conversions as operators; **`CooMatrix`** is the
coordinate matrix as an object with its calls as actions; **`MpsReader`** builds one from
a file: an action per section, `Assemble` at the end, and `WriteAndRead`, which writes the
model and starts over on its lines. A line is its tokens and whether it starts in column 0.

**`Kernels`** models the parallel loops: a unit is an OpenMP thread, a CUDA thread or a warp;
units take work, compute in private and store, in any interleaving, with shared memory
and shuffles of exited lanes holding anything at first.

**`Scaling`**, **`Pdhg`**, **`EndToEnd`** model `solve_end_to_end`: `Prepare`, `RuizStep` or
`ScaleOnce`, `Dispatch` to the host, the device or nothing, the solver's `Iterate` and
`Check` (on the device `IterateOnDevice`), `Recover`, `Verify`. The iterates are
really computed; only the clock is open. Presolve is there with the fixed column pass
alone. **`MCMatrices`** puts reader, kernels and first-order solver (**`MCFirstOrder`**) side
by side in one run; only one of them moves in a behaviour.

The proofs are in modules of their own. **`BranchAndBoundProofs`**: types, the split of a
box, the order of the phases, frames, boxes and the counting of nodes, then the inductive
invariant, the theorems and the refinement.
**`Sums`**: sums over finite sets and least members. **`PresolveProofs`**: what a step of presolve
takes away, stack, control, fixed point, then the arithmetic of the passes.
**`PresolveRecovery`**: what undoing the stack gives back, and the recovered solution.
**`SimplexProofs`**: basis and verdicts of the dual simplex. **`SimplexDuals`**: the signs of
its reduced costs and the way its objective goes. **`GomoryProofs`**: the cuts. **`CooProofs`**: sorting, merging and the
coordinate matrix.
**`MCBranchAndBound`**, **`MCPresolve`**, **`MCPostsolve`** hold the other instances.

Definitions whose comment says *mutant* or *mutated* (`RightChildSkips`, `FlushedPlain`, ...)
are wrong on purpose and used by nothing: put in the place of the definition that
follows them they make the property they are paired with in `PROJECT.json` fail,
which shows that the property looks at that code.

## 3. The runs

Each cfg is checked with `tlc -config X.cfg M`. Deadlock is not checked: every
modelled procedure ends by returning.

| run | cfg | what it shows |
| --- | --- | --- |
| searches | `BranchAndBoundSearches` | the default order under every preset, node limits that bite, the clock, cuts and both heuristics, and the other two orders with room to finish: all safety properties, `SplitsShrink`, `Termination`, the contract (about 158,000 states) |
| limits_and_failures | `BranchAndBoundLimits` | depth-first and best-estimate stopped after 3 or 5 nodes, a column with half bounds, and a simplex that may give up at any LP or answer `OPTIMAL` where it happens to be: the inductive invariant of the proofs (about 127,000 states) |
| presolve_and_postsolve | `PresolveAndPostsolve` | 462 models, cut after one iteration or run to the fixed point, solved and recovered (26,389 states): the equivalence in both directions after every single step, the caches, the proofs of status, the fixed point, the recovered point, and with the empty and fixed reductions alone the recovered duals and reduced costs; the inductive invariant of the proofs and their hypotheses |
| simplex | `Simplex` | 158 models, seven integer programs and corner cases among them, under four configurations; from slacks, from crossed-over bases, after cuts, from parents' bases two branchings deep (about 23,000 states): with `BasisConsistent` the inductive invariant of the proofs, with `FactorsConsistent` and `ReuseSound` their hypotheses |
| files_kernels_and_first_order | `FilesKernelsFirstOrder` | all matrices up to 2 x 2 by three additions and any sorting, merging, resizing; 125 files; every kernel on 1 to 3 units in every interleaving; about 75 end-to-end calls (about 30,000 states) |
| seven more | | section 6 |

Bounds, and why they are enough. *Branch and bound*: four columns on a grid of
half units, eight models. `CoverK4` and `PackingK4` need several levels of branching,
with ties; `PackingK4` finds its incumbent on the up branch while the other is open,
so nodes are popped that were pushed before the incumbent; `CoverMixed` has a
continuous column; `Parity` and `Pinned` are infeasible only for integers; `Single` has
singleton rows with half bounds; `Continuous` and `NoRelaxation` take the early
returns; `HalfBounds`, in limits_and_failures alone, has an integer column bounded by a fraction; `CoverStops`, there too,
has two points outside its rows that an unconverged simplex may answer, and the configurations
`EarlyOptimal` let it, at the root, after the cuts, in a dive and at two nodes. Node limits of 2 to 6 cut these trees at every depth, 100 never bites.
`MaxDive` is 2, so a dive can be abandoned (the code has 15, or the caller's).
*Presolve*: two rows and three columns are the least at which a row has a singleton
column and others, a forced row shares columns with another, and a substituted column's row is
later dropped; the column bounds mix fixed, boxed, half-bounded and free, the rows
equalities, one-sided, ranged and empty ones. Two matrices have a coefficient 2 or -2
with even data, so that substitution and tightening divide. The properties quantify
over the points of `-1..2` in each column, and over those whose other columns are
already gone. A tightening that goes on for ever does occur (20 iterations of it).
*Duals*: even numbers in `-4..4` per row, the costs being even too.
*Simplex*: two rows and two or three columns (three rows for the odd cycle) suffice for
pivots in both phases, flips, ties, infeasible and unbounded models, an eta file with two
entries and one that fills up (limits of 1, 2 and 60 updates), singular
guesses of the crossover; `max_iterations` of 1 and 12, a cleanup of at most 8 steps
(2000 in the code, never reached). `VerdictsCertified` compares with the feasible points on a
grid of halves. *First order*: `-1..4` and `-3..3` for the integral optimal pairs that
`NeverMovesAway` and `PreparationFaithful` measure against; scale factors are powers of two,
so that two Ruiz passes are exact; 24 to 60 iterations reach convergence, stagnation, restart,
divergence and the limit. *Kernels*: warps of 4 lanes, sub-warps of 2, two warps a
block: the least at which strides, shuffles and a block's second warp all matter.
*Files*: two rows, two columns, each section in every form with the others plain.

The deep properties, in a line each: `NoLostSolution` (a solution better than the
incumbent lies in an open node), `BoundsBelow` (an inherited bound stays a bound although
the rows may have been replaced since), `OpenDisjoint` (nothing is searched twice),
`OptimalMeansOptimal` and `ReportedBoundHolds` (what a verdict and a bound are worth
after a limit), `NodeConservation` (every node is open, split or counted once),
`SolutionsKept` and `Recoverable` (the two halves of presolve's equivalence, after every
step and not just at the end), `CachesExact`, `FixedPoint`,
`OthersKnown` (a substituted column is computed from final values), `RecoveredOptimal`,
`DualsRecovered`; `BasisConsistent` (the four descriptions of the partition, the
statuses, the point and the dual values say one thing through pivots, flips and warm starts), `FactorsConsistent` (the factors,
old ones with etas or new ones, and the point answer for that basis), `DualFeasibleKept` and
`ObjectiveMonotone` (no flip or pivot goes too far), `VerdictsCertified`, `CrashAccepted` (a
guessed basis is never singular), `ReuseSound` and `CutsRemovePoint` (a cut keeps the integer
points and removes the fractional one; a child starts dual feasible; the relaxations are as the proof of the cuts needs them); `CooSound` (no
sequence of calls makes a flag lie), `FormatsAgree`, `ModelDeclared` (the reader's state
machine against what the whole file says), `RoundTrip`, `KernelsRight` (every interleaving);
`PreparationFaithful` (x, y and s go into the scaled model and come back), `StepsSafe` (the steps'
product survives any rebalancing), `NeverMovesAway` (the distance to every optimal pair only
falls, and a check leaves pair and extrapolation consistent), `FixedPointsOptimal`,
`RecoveredStands` (what comes back is an answer for the original).

What some of them do not see, by their own conditions. `IntegralBox` (presolve on, or whole bounds) keeps
fractional bounds with presolve off out of the branch and bound properties: the code then goes wrong (section 6).
`StepsSafe` and `NeverMovesAway` leave out the CONSTANT rule, whose steps can be too long (section 6). `StepsSafe` tries
directions with coordinates from -2 to 2, so it is a test of the condition and no proof of it. `NeverMovesAway`
measures no distance over the first step, nor over the one after a restart or a
rebalancing: a restarted step has no extrapolation and the argument that makes the distance fall does not apply
to it. `FixedPointsOptimal` is about one iteration and blind to all that happens
in between. `RecoveredStands` bounds no gap, as the code tests none. `RoundTrip` speaks of `Expressible` models:
ranged rows and maximisation do not come back as they were (section 6). In `KernelsRight` a barrier is the guard
of the step behind it; its mutant takes that guard away.

## 4. Fairness

The `FairSpec` of branch and bound is `Spec /\ WF_vars(Next)`: the solver is one thread that
runs until it returns, and nothing in it waits. No fairness is asked of a particular action, so
`Termination` does not lean on which node is chosen or which LP answer comes;
it holds because every split makes a box smaller. The safety runs of the other modules
use no fairness: the simplex has nothing in the code against cycling but its iteration
limit, and a first-order solver may simply not converge. That no unit of a kernel waits for
another is stated without it (`NobodyWaits`, part of `KernelsRight`).

## 5. What is proved

TLAPS checks every theorem below for all values of the constants that satisfy the
modules' named assumptions: any finite or infinite set of models, any settings, any
number of rows and columns. No theorem rests on a bound of a run.

### Branch and bound

From the three assumptions of `BranchAndBound` (sizes are numbers; a model's costs are below
infinity, its singleton intervals contain its rows and its cuts keep its solutions; a
configuration has its type):

| theorem | says |
| --- | --- |
| `TypeCorrect` | the types, the depth limit of a dive, and that root and dive solutions satisfy the rows or are points where a simplex run stopped |
| `Invariance` | the inductive invariant |
| `SolutionsSound` | `IncumbentSound`, even when LPs fail (`StopsInside`) |
| `NothingLost` | `NoLostSolution` (`Reliable`) |
| `BoundsAreBelow` | `BoundsBelow`, even when the solve after the cuts fails (`Converges`) |
| `NothingTwice` | `OpenDisjoint` (`StopsInside`) |
| `BoxesUncrossed` | `NoCrossedBounds`, in the tree and in the dives (`StopsInside`) |
| `NodesAccountedFor` | `NodeConservation`, whatever the simplex answers |
| `BranchingShrinks` | `SplitsShrink`, an action property (`StopsInside`) |
| `OptimalCorrect` | `OptimalMeansOptimal` and `ExhaustedMeansOptimal` (`Reliable`) |
| `InfeasibleCorrect` | `InfeasibleMeansInfeasible` (`Reliable`) |
| `BoundCorrect` | `ReportedBoundHolds` (`Reliable`) |
| `Refinement`, `BestBoundRefinement` | `MeetsContract`: every step is a step or a stutter of `MilpContract` (`Reliable`) |

In brackets, what the property itself asks of the simplex, from least to most. `StopsInside`: an `OPTIMAL` answer
is at a point of the rows inside the box, an optimum or not. The search checks no row when it takes the point of a
node or a dive for an incumbent, so one outside would be believed. `Converges`: it is an optimum.
`Reliable`: every LP is settled, no status but `OPTIMAL` and
`PRIMAL_INFEASIBLE` comes back. The code guarantees none of the three: the last branch of
`DualSimplexSolver::solve` answers `OPTIMAL` with residuals left, which run unbounded_is_optimal reaches
for an unbounded relaxation, and the search does not look at the residuals it returns. So `Optimal` and
`Infeasible` of a search are worth what its LP answers are; `VerdictsTrue`, below, says that an `OPTIMAL` without
residuals is one. Run limits_and_failures has all three failing.

The argument. None of these is inductive alone. `Inductive` adds six parts to them.
`WorkingModel`: root presolve and cuts only narrow the model and keep its solutions, and
leave integral bounds, so a floor and a ceiling never cut into the box from outside.
`RootSolved`: the root solution, of a simplex that converges, is an optimum of rows that contain the present ones (a
failed second solve leaves an older, weaker optimum, which is why bounds stay bounds).
`BoxesNested`: every box lies in the root box. `Phases`: which variables are still at
their initial values in which section, e.g. that a node popped is no longer in the queue.
`OpenWhole`: an open box has integral bounds in the integer columns and none that cross;
an LP point inside it is fractional only strictly between its bounds, so neither child is
empty. `OpenNumbered`: no open node has a number above the counter of created nodes, so
two new children are two more members of the queue, which is what `NodeConservation`
counts. Then, one lemma per part and one step per action: a split loses no integral point
because floor and ceiling are neighbours (`BetweenFloorAndCeil`); a child's bound is below
its box because the box is a part of the parent's, whose LP value it is; a dismissed node
held nothing better than the incumbent by `BoundsBelow`; when the queue is empty
`NoLostSolution` says the incumbent is optimal, and at a gap or limit the top of the heap
bounds all open nodes (`BoundOnTop`), which is where the best-bound order is needed. TLC
checks `Inductive` as an invariant in run limits_and_failures.

The contract is promised (`Promised`) when the simplex settles its LPs, integer columns have
integral bounds, and either the order is best-bound or `Optimal` was answered of an exhausted
tree; run depth_first_at_node_limit is what happens otherwise, so the hypothesis cannot be
dropped. `BestBoundRefinement` is the case a caller meets: the default order, with any limit,
gap, branching rule, cuts and heuristics. An action that improves the incumbent is the
contract's improvement, an ending is its answer, everything else a stutter; the
invariant gives the truth of the answer.

### Presolve and postsolve

| theorem | hypotheses | says |
| --- | --- | --- |
| `CachesCorrect` | | `CachesExact` |
| `RemovalsOnce` | | `RemovalsRecorded`: each removed row and column has exactly one action, the first half of `Recoverable` |
| `FixedPointReached` | | `FixedPoint` |
| `PostsolveKeepsPresolve` | | postsolve's behaviours are presolve's, so all the rest holds through the unwinding |
| `OthersAlwaysKnown` | | `OthersKnown` |
| `TypesCorrect` | even divisions | `TypeOK` |
| `SolutionsSurvive` | even divisions, small points | `SolutionsKept`, one half of the equivalence, after every single reduction |
| `InfeasibleProved` | even divisions, small points | `InfeasibleHasNone`, the first half of `VerdictsProved` |
| `SolutionsRecovered` | even divisions, small points, bounds on their side | `Recoverable`, the other half: wherever undoing the stack divides evenly, a solution of what is left becomes a solution of the original |
| `Invariance` | even divisions, small points, bounds on their side | `Inductive` |
| `OptimumRecovered` | even divisions, small points, bounds on their side | `RecoveredOptimal`: the point postsolve returns is feasible in the original model and no point costs less |

The hypotheses. Numbers of the model stand for the code's doubles only where a division
comes out even (`DivisionsExact`: those of the singleton rows and columns and of the bound
tightening that the next step makes; `RestoringExact`: those of undoing the stack), where a
row's value at a point is below `infinity_threshold` (`SmallPoints`: at a larger value presolve, which
takes a bound of 1e20 for none, really would lose the point), and where no lower bound is at or above
the threshold and no upper bound at or below its negative (`BoundsSided`: such a bound is a
number to some comparisons and no bound to others). All are parts of `Inductive`, which run
presolve_and_postsolve checks in all its states, so they are not empty; `RestoringExact` it looks at
between iterations and at the end, where `Recoverable` is about a whole stack. The first
five theorems need none of them. `OptimumRecovered` takes the dual values of the solver from any set
of integers (`DualsAssumption`).

The argument has two layers. *What is active* (first half of `PresolveProofs`):
`StepEffect` says that a step of any pass leaves rows, columns, degrees and stack alone, or
takes away exactly one column, or exactly one row, and pushes the one action that restores
it; `RemoveColExact` and `RemoveRowExact` count what a removal does to the caches.
`ActiveInductive` adds what the passes rely on between steps: the forcing row is
there until its last column is fixed (`ForcingRowActive`), no action restores what is still
active (`ActiveUnrecorded`), the columns a substituted one is computed from go later
than it does (`OthersRecorded`), and while an iteration has changed nothing every part that has
ended still has nothing to do (`NothingLeft`), which at the end is `FixedPoint`:
`WorkReads` shows that the parts' work depends on nothing that such an iteration changes.

*The numbers* (`Sums`, second half of `PresolveProofs`). `SolutionsKept` is not inductive: it looks away
from bounds beyond the threshold on either side, but a lower bound of +1e20 or more does
reach the arithmetic. `Fits` counts every lower bound above `-Threshold` and every upper
bound below `Threshold`, and `SolutionsFit` keeps it for all solutions even after a proof: a
model whose bounds cross from the start still goes through its first pass. `ForcedEnds` carries, through the one-by-one fixing of a
forcing row's columns, why each solution has those values: a sum that equals the sum of its
bounds equals it term by term (`SumTight`). Then one lemma per action (`EmptyRowRight` to
`BoundTighteningRight`): fixing moves a term from the row to its bounds (`FixVariableKeeps`); a
singleton row's interval contains its column in every solution (`ImpliedHolds`), with the division's
sign; a substituted column's bounds become the row's (`CarriedHolds`) and its cost is spread
over the others at equal value (`SubstitutionCosts`, from the general `SumCombines`); an
activity bounds the row (`EndsBound`), and without one term bounds that term
(`RoomAbove`, `RoomBelow`). Sums are folds over sets; induction being out of reach,
`Sums` proves each law of them by refuting a least counterexample among the subsets
(`LeastSubset`), which needs no theorem with an operator parameter.

*The way back* (`PresolveRecovery`). `Restored` folds the undo records over the
stack from the top, so a push changes what every earlier record sees. `Pulls` says of one record that
it turns solutions of the model after a step into solutions of the model before it with
the same cost, and `Recovers` that the whole stack does; each action of each pass gets a
lemma that its record pulls. For a fixed or forced column that is `FixVariableKeeps` read backwards; a singleton
row's record restores nothing, and its interval is implied because the bounds
became it; a singleton column is computed from the others so that its row holds, and lies between
its bounds because they were carried into the row's. A tightened bound needs no record: the
proof has to show that every solution of the tightened box is one of the old box, which is plain, and
that nobody's later record leaves the old box, which is why bounds must stay on their side of
the threshold. For the optimum, the solver's dual values bound the cost of every point of the reduced model
from below (weak duality over any subset of the rows), the offset accounts for what was removed,
and what `Undo` computes record by record is the fold `Restored` of the solver's point (the
invariant `Returned`).

### Simplex

For every set of programs, every configuration, from slacks or from any basis that
fits (`WarmSpec`, with the start that the crossover and branch and bound give), for both update
rules, both ratio tests and both pricings:

| theorem | says |
| --- | --- |
| `BasisStands` | `BasisConsistent` |
| `VerdictsTrue` | the two verdicts for all points of whole units: an answer `OPTIMAL` without residuals is feasible and no feasible point costs less, `PRIMAL_INFEASIBLE` has no feasible point |
| `VerdictsStand` | `VerdictsCertified`: the same on the grid the run measures with |
| `SignsStand` | every reduced cost fits its status all through the dual loop, in a model with any point of whole units |
| `DualFeasibilityStands` | `DualFeasibleKept`: the same for a model with a point on the grid |
| `ObjectiveStands` | `ObjectiveMonotone`, an action property: a dual iteration never lowers the objective, a cleanup step never raises it |

The hypothesis is `SolvesRight` at every step: what the factors answer are whole numbers and solve for the
basis the solver is at, dual values, tableau rows and tableau columns alike. That Markowitz elimination and
the eta file give such answers is an induction over
data; TLC checks it as a part of `FactorsConsistent`. For the last three a warm basis leaves no variable
free (`NoFreeGiven`): the repair at its start looks at the reduced costs of bounded variables only, and a
free one would keep its wrong one. A warm start has to fit (`RightStart`): a basis that
passes `is_valid` but whose statuses name missing bounds or whose places disagree is taken by the code as
it is.

The argument. *The partition*: `SwapKeeps` needs that the leaving row's variable and the entering one are what
the other descriptions say, `FlipKeeps` that only variables with two bounds are flipped, which is why the
candidates of the ratio test are looked at (`CandidatesFit`); a variable that leaves goes to a bound
that is there because the violated or blocking bound is finite (`BlocksSomewhere`: a Farkas-like argument is not
needed, since a basic value is below infinity). *The verdicts*: a point of the rows and its activities
together lie in the kernel of `[A, -I]`, and a combination of rows with any multipliers vanishes there
(`Combination`). With the dual values as multipliers the objective of any point is the
sum of reduced costs times values (`CostsPriced`), so that signs that fit the statuses make the
basic point optimal (`BasicIsOptimal`); with a tableau row as multipliers, a leaving variable that nothing
helps is out of its bounds in every point (`NothingHelps`). Costs and shifts are kept apart in
`WorkConsistent`, because the verdict is about the program's costs and not the shifted ones.
*The signs*: the code solves for new dual values after a pivot. `DualsExchange` shows what they are,
the old ones less a multiple of the leaving row's multipliers, because nothing else prices
both bases' common columns: combining the equations of the new basis with those of the entering
column leaves one number, seen from both sides (`SeenBothWays`). So each reduced cost moves by its tableau
entry times the entering one's ratio, and keeps its sign if that ratio is least among the candidates not flipped,
while those flipped change sides (`SignsMove`). It is here that the flips must stop in
time: they stop while the row is still violated, and were every candidate flipped, none could help
it and no point would be feasible, against `HasSolution`. *The objective*: its change over an
iteration, flips included, adds up from the violation that is left and the slopes of the flipped columns
(`GainsAddUp`), each of one sign (`FlipLoses`, `SlopeSign`); in the cleanup the entering column moves in the direction its
reduced cost asks for, or not at all when it is blocked where it stands (`RightWay`, `BlockedWay`).

### Gomory cuts

For every set of programs, any number of integer and continuous columns, any tableau the relaxation ends
with, any `max_root_cuts`:

| theorem | says |
| --- | --- |
| `CutsValid` | when the relaxation is solved again, every point of the model that is whole in the integer columns satisfies every row, the cuts included (`KeepsAll`: all such points, in a box of any size) |
| `CutsStand` | `CutsKeepSolutions`: the same on the grid the run measures with |

The hypotheses, beside `SolvesRight`. `CutsReady`, where cuts may be taken: the integer columns have whole
bounds (`WholeBounds`, which root presolve sees to), the divisions that make a cut come out even (`EvenCut`: elsewhere the
model's numbers do not stand for the code's), and no variable outside the basis is free (`NoFreeOutside`).
The code does not test the last one, and without it the theorem is false: that is run
cut_past_free_column of section 6, which the proof attempt found. `InRange`, for `CutsStand` alone: no row's
value at a point reaches the number that stands for infinity. All are conjuncts of `ReuseSound`, which
run simplex checks in all its states, states with cuts among them.

The argument. `Resting` is what a finished relaxation is, carried from the simplex's own invariant to the moment
the cuts are read off (`Rested`). `TableauLine`: with the factors' answer for a unit vector as multipliers, any point of the rows
differs from the basic one so that the basic variable's change and the nonbasic distances from
their bounds, weighted with the tableau row, add up to nothing; here a free variable outside would add
a term the cut does not have. Rounding each integer column's entry to the side its fraction calls for
(`Rounded`, `TermRounded`) changes that sum by whole numbers only, so what is left is the fraction
of the basic value up to a whole number (`SumRounded`), and a sum like that is on one of two sides
(`EitherSide`); either way the weights `Gamma` reach `f0 (1 - f0)` (`CutHolds`). The rest follows the code
from distances to columns: slacks as activities (`SumThrough`, `ReadInColumns`, `RawCutHolds`), the common divisor
taken out (`ReducedHolds`), the first `MaxCuts` rows chosen (`NthExists`, `CutsTaken`) and appended below the old ones
(`RowsAppended`). `TreeInv` says that nothing has been branched on before the cuts, so
that the program whose relaxation was solved is the one given.

### The coordinate matrix

| theorem | says |
| --- | --- |
| `MatrixSound` | `CooSound`: for any number of rows, columns, triplets and any values, after any sequence of calls the triplets are inside, the flags say no more than holds and every cell is worth what was added to it |

It rests on `CooAssumption` alone (the bounds are numbers, the values integers). The argument.
`CooInvariant` says the same of the list's order as `FlagsTrue` does, and of every cell that its
`Worth`, a sum over the whole list, is what was added; `CoeffIsWorth` ties that to the class's own
sum over the triplets of the cell. *Sorting*: `StableSort` puts every triplet at the number
of those before it; because the order is strict (`SortIsStrict`) these places fill the list without gaps
(`PlacesFill`), so the sorted list has the same triplets, no less triplet after a greater one
(`SortedList`), and the same sums (`SortedWorth`, from `SumRenamed`). *Merging and dropping*: both are
left folds, which `SqueezedInOrder` turns into what happens to the first `k` triplets; along
`k` (`Upwards`, a least counterexample again) the kept list climbs strictly and ends in the cell
just read (`KeptClimbs`), so a duplicate can only be a neighbour, and every cell's worth is that of what has
been read (`KeptWorth`). That `sum_duplicates` merges an unsorted list only after sorting it is what makes
the first half true; that `drop_zeros` keeps the order is why it may leave the flags alone.

### Only model-checked

`Termination` (liveness); `UnboundedHasRay`, the other half of `VerdictsProved` (a ray is
looked for among `Points`, which the proofs leave open); `DualsRecovered`; `FactorsConsistent`,
`CrashAccepted`, `CutsRemovePoint` and the second conjunct of `ReuseSound`, `WarmStartKeepsDuals`, of the simplex, crossover and
cuts (a warm start is not dual feasible in general, see the simplex notes of section 6); `FormatsAgree`, and everything about the first-order solver, files and kernels. What the factorization
and the parallel sums compute is an induction over data, which the provers
cannot do, and `NobodyWaits` in `KernelsRight` speaks of `ENABLED`; the rest of those modules is planned
(section 8).

## 6. Disagreements

Seven runs are expected to fail: each states what a comment, document or test of the
repository says.

* `depth_first_at_node_limit`: outside the best-bound order `get_current_best_bound`
  returns the bound recorded before the last LP; stopped by `max_nodes`, the search
  takes it for a lower bound and answers `Optimal` for a solution that is not.
* `fixed_away`: when the last columns are fixed, a row left as `0 = 2` is never looked at
  and the model is reported as solved.
* `unbounded_below`: a one-sided singleton row turns an infinite bound into `-1e20`, a
  bound for the solvers, and an unbounded model gets an optimum.
* `singleton_column_duals`: undoing a singleton column overwrites the dual the solver found.
* `unbounded_is_optimal`: the cleanup of the simplex finds a ray, sets
  `DUAL_INFEASIBLE_UNBOUNDED`, and the last lines overwrite it with `OPTIMAL`.
* `cut_past_free_column`: the loop that makes a Gomory cut passes over a free column outside the basis, and the
  cut removes integer solutions. For `min x3`, `2 x1 + x2 >= 1`, `2 x1 + 2 x2 - 2 x3 <= 1`, `x1` in `{0, 1}`,
  `x2` free, `x3 >= 0` the compiled solver answers 1/2 with cuts and 0, the optimum, without.
* `verifier_signs`: the two dual tests have each other's sign against their own comments, and
  a right answer at an upper bound is called inconsistent.

Smaller notes without a run.

* Presolve: a run that only tightened bounds ends `Unchanged`, though
  `presolve_types.hpp` counts tightened bounds among the reductions; undoing a singleton row
  sets its dual but not the reduced cost of its column, against the table of `docs/presolve.md`
  4.2; the comment on `EmptyModel` says "0 rows or 0 columns", the
  code tests for both; `EmptyColumnAction` is never created; a model with crossed row
  bounds and no columns ends `OptimalSolved`, since the constructor's `Infeasible` is overwritten;
  bound tightening leaves no record, so duals of rows that bind only through tightened bounds
  are not recovered.
* Simplex: from a warm basis the cost shift of a slack never reaches its reduced cost
  (`dual_simplex.cpp:208`), so that such a start is not dual feasible and the cleanup has to mend
  it; in an infeasible model every candidate may be flipped past and the first enters all the
  same (411-422); a nonbasic free column with a reduced cost is neither moved nor counted as
  a residual, which ends as `OPTIMAL`; a nonbasic column whose bounds cross is never looked at by the cleanup and ends
  `OPTIMAL` with a residual; so do a model without rows whose column has no floor, a model
  without columns whose rows exclude 0 (line 72), and a run the clock stopped; `resolved_by_flips` (396-404) cannot become true in exact arithmetic.
* Branch and bound: with root presolve off and an integer column bounded by a fraction, rounding clamps
  to the fraction (286) and the incumbent is not integral, against `docs/milp.md:174-175`: the proofs
  speak of `IntegralBox` for that reason; after cuts the root's basis has the wrong size and the second solve
  silently starts from slacks (439).
* First order: the CONSTANT steps divide by the norm of `A^T A` and not of `A`, too long when
  that is below one (`pdhg_solver_cpu.cpp:148`), and its power iteration finds nothing in the row `x1 - x2`, which its
  first vector solves; the device divides by the largest row sum, less than the norm of a tall matrix
  (`pdhg_cuda.cu:126`); the gap is computed and never tested
  (`gap_tol` is read by nothing), so `OPTIMAL` may be away from the optimum; the reduced cost of a column
  presolve fixed is `c - A^T y` (`postsolve.cpp:11`) while the solver's `y` has the sign of `s = c + A^T y`
  (`docs/pdhg.md:110`), so that one returned `s` mixes both; infinite
  means 1e15 to the solver, 1e19 to the scaling and 1e20 to presolve; without a column copy of
  the matrix the device returns `s = c` (`pdhg_cuda.cu:361`); when the CUDA factory is missing the result
  has no vectors; `recover_solution` never returns the error that `pdhg_solver.cpp:107` tests for.
* Kernels: `spmv_raw` returns before scaling `y` when the matrix has no columns
  (`spmv.cu:205`); sub-warps shuffle under a full mask after others of the warp have left (336).
* Files: the costs of a maximisation are written negated and negated again on reading; a
  ranged row is written as `E` with its upper bound and comes back as `[u, 2u - l]`; an
  offset and a free row are not kept; `RANGES` before `RHS` drops the right hand side;
  `Binary` with bounds of its own loses them; a row name given twice leaves two rows under
  one name.

## 7. What is not modelled

The analysis and solver selection (statistics of a model and a decision table over them), the
presolve oracle and the transformation log (nothing reads them back), the matrix generator
and the workloads (straight-line construction of data), the command-line drivers, dashboard and
logging. Within the modelled components: geometric scaling and the spread diagnostics;
objective, gap and history of the first-order solver; the accessors that hand out the triplets of a
coordinate matrix to be changed behind its flags (`coo_matrix.hpp:67`, 69); device memory, streams and launch
errors; opening files, text encoding and number formatting; `solve(PreparedLP)` and
`solve_end_to_end` of the simplex, which are the pipeline of `EndToEnd` around another solver.
`EmptyModel` (no rows and no columns) lies outside the presolve runs' sizes. Tolerances are
zero except in the first-order solver: what a value within 1e-10 of a bound does is not
seen, nor what cancellation does to a factorization.

## 8. The plan

In order of importance:

1. `DualsRecovered`; the update of the eta file by one pivot, which would leave only the elimination itself
   in `SolvesRight`.
2. The conversions of `SparseFormats` from the sorted and merged list that `CooProofs` describes
   (`ConversionsAgree`). `Kernels`: the row kernels for every number of units and rows.
3. The simplex composed with `EndToEnd` in the place of the first-order solver, and all of
   presolve there; the solver selector's decision table.
