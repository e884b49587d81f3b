------------------------------- MODULE EndToEnd -------------------------------
(***************************************************************************)
(* PDHGSolver::solve_end_to_end (src/src/solver/pdhg_solver.cpp): a model  *)
(* is prepared by ModelPipeline (presolve, then scaling), solved by the    *)
(* first-order solver, the solution recovered in the opposite order and    *)
(* checked by SolutionVerifier against the original.  Presolve runs here   *)
(* with its fixed-variable pass alone (the other enable_ options off); the *)
(* module Presolve has all of them.                                        *)
(***************************************************************************)
EXTENDS Pdhg

CONSTANT Tasks   \* calls: the model lp, the PipelineConfig, the SolverConfig cfg

VARIABLES
    task,          \* the call
    stage,         \* "idle", "scale", "solve", "verify" or "done"
    prepared,      \* the PreparedLP: model, verdict of presolve, what recovery needs
    scaling,       \* the scaling under way or applied
    answer,        \* the recovered result
    verification   \* the VerificationResult

endVars == <<task, stage, prepared, scaling, answer, verification>>
allEndVars == <<endVars, pdhgVars>>

NothingPrepared == [lp |-> <<>>, outcome |-> "none", fixed |-> <<>>, presolved |-> FALSE, scaled |-> FALSE]
NotVerified == [feasible |-> FALSE, objective |-> FALSE, dual |-> FALSE]

EndInit ==
    /\ task = <<>> /\ stage = "idle" /\ prepared = NothingPrepared /\ scaling = <<>>
    /\ answer = NoResult /\ verification = NotVerified
    /\ PdhgIdle

\* FixedVariablePass and to_presolved_lp: the columns with equal bounds leave, their
\* products move into the row bounds and the offset.
FixedCols(lp) == {j \in lp.cols : lp.lo[j] = lp.up[j]}
Crossed(lp) == \E j \in lp.cols : lp.lo[j] > lp.up[j]
Moves(lp, i) == Total(LAMBDA j : Rounded(lp.a[i][j], lp.lo[j]), FixedCols(lp))

WithoutFixed(lp) ==
    LET kept == lp.cols \ FixedCols(lp)
    IN [lp EXCEPT
            !.cols = kept,
            !.a = [i \in lp.rows |-> Restrict(lp.a[i], kept)],
            !.c = Restrict(lp.c, kept), !.lo = Restrict(lp.lo, kept), !.up = Restrict(lp.up, kept),
            !.rlo = [i \in lp.rows |-> IF HasLower(lp.rlo[i]) THEN lp.rlo[i] - Moves(lp, i) ELSE lp.rlo[i]],
            !.rup = [i \in lp.rows |-> IF HasUpper(lp.rup[i]) THEN lp.rup[i] - Moves(lp, i) ELSE lp.rup[i]],
            !.offset = lp.offset + Total(LAMBDA j : Rounded(lp.c[j], lp.lo[j]), FixedCols(lp))]

\* An infeasible model leaves an empty one, and nothing to recover from.
Presolved(lp) ==
    IF Crossed(lp)
    THEN [lp |-> [lp EXCEPT !.rows = {}, !.cols = {}, !.a = <<>>], outcome |-> "infeasible",
          fixed |-> <<>>, presolved |-> TRUE, scaled |-> FALSE]
    ELSE [lp |-> WithoutFixed(lp), outcome |-> IF FixedCols(lp) = lp.cols THEN "solved" ELSE "ready",
          fixed |-> Restrict(lp.lo, FixedCols(lp)), presolved |-> TRUE, scaled |-> FALSE]

AsItIs(lp) == [lp |-> lp, outcome |-> "ready", fixed |-> <<>>, presolved |-> FALSE, scaled |-> FALSE]

HasEntries(lp) == \E i \in lp.rows : \E j \in lp.cols : lp.a[i][j] # 0

\* ModelPipeline::prepare, up to the scaling.
Prepare ==
    /\ stage = "idle"
    /\ \E t \in Tasks : \E p \in {IF t.presolve THEN Presolved(t.lp) ELSE AsItIs(t.lp)} :
          /\ task' = t /\ prepared' = p
          /\ scaling' = Unscaled(p.lp)
          /\ stage' = IF p.outcome = "ready" /\ t.method # "off" /\ HasEntries(p.lp) THEN "scale" ELSE "solve"
    /\ UNCHANGED <<answer, verification, pdhgVars>>

\* Equilibrator::scale: the scaled model replaces the prepared one.
ScaledWith(s) ==
    /\ scaling' = s
    /\ prepared' = [prepared EXCEPT !.lp = ScaledModel(@, s), !.scaled = TRUE]
    /\ stage' = "solve"

RuizStep ==
    /\ stage = "scale" /\ task.method = "Ruiz"
    /\ IF RuizDone(scaling, task.passes, task.near)
       THEN ScaledWith(scaling)
       ELSE scaling' = RuizPass(scaling) /\ UNCHANGED <<stage, prepared>>
    /\ UNCHANGED <<task, answer, verification, pdhgVars>>

ScaleOnce ==
    /\ stage = "scale" /\ task.method # "Ruiz"
    /\ ScaledWith(IF task.method = "None" THEN scaling ELSE PockChambolle(scaling))
    /\ UNCHANGED <<task, answer, verification, pdhgVars>>

\* PDHGSolver::solve: the verdicts of presolve, a device nobody registered, a solver.
Skipped(status) ==
    /\ result' = [NoResult EXCEPT !.status = status]
    /\ pc' = "solved"
    /\ UNCHANGED <<model, config, point, steps, progress>>

Dispatch ==
    /\ stage = "solve" /\ pc = "idle"
    /\ \/ prepared.outcome = "solved" /\ Skipped("OPTIMAL")
       \/ prepared.outcome = "infeasible" /\ Skipped("PRIMAL_INFEASIBLE")
       \/ /\ prepared.outcome = "ready" /\ task.cfg.backend = "CUDA" /\ ~task.registered
          /\ Skipped("NUMERICAL_FAILURE")
       \/ /\ prepared.outcome = "ready" /\ (task.cfg.backend = "CUDA" => task.registered)
          /\ Begin(prepared.lp, task.cfg)
    /\ UNCHANGED endVars

SolverStep == stage = "solve" /\ PdhgNext /\ UNCHANGED endVars

\* SolutionRecoveryMap::recover: unscaled, then what presolve removed is put back; the
\* reduced cost of a removed column is c - A^T y.
PutBack(sol) ==
    LET y == [i \in task.lp.rows |-> Entry(sol.y, i)]
        gone == DOMAIN prepared.fixed
    IN IF prepared.outcome = "infeasible" THEN [x |-> <<>>, y |-> <<>>, s |-> <<>>]
       ELSE [x |-> [j \in task.lp.cols |-> IF j \in gone THEN prepared.fixed[j] ELSE Entry(sol.x, j)],
             y |-> y,
             s |-> [j \in task.lp.cols |->
                       IF j \in gone THEN task.lp.c[j] - Total(LAMBDA i : Rounded(task.lp.a[i][j], y[i]), task.lp.rows)
                       ELSE Entry(sol.s, j)]]

InOriginalUnits(sol) == IF prepared.scaled THEN UnscaleSolution(sol, scaling) ELSE [x |-> sol.x, y |-> sol.y, s |-> sol.s]
Recovered(sol) == IF prepared.presolved THEN PutBack(InOriginalUnits(sol)) ELSE InOriginalUnits(sol)
ObjectiveAt(lp, x) == lp.offset + Total(LAMBDA j : Rounded(lp.c[j], Entry(x, j)), lp.cols)

Recover ==
    /\ stage = "solve" /\ pc = "solved"
    /\ \E r \in {Recovered(result)} :
          answer' = [status |-> result.status, x |-> r.x, y |-> r.y, s |-> r.s,
                     objective |-> ObjectiveAt(task.lp, r.x)]
    /\ stage' = "verify"
    /\ UNCHANGED <<task, prepared, scaling, verification, pdhgVars>>

\* SolutionVerifier::verify.
Excess(v, low, high) == Magnitude(v - Clip(v, low, high))
BoundExcess(lp, x) == Max({0} \cup {Excess(x[j], lp.lo[j], lp.up[j]) : j \in lp.cols})
RowExcess(lp, ax) == Max({0} \cup {Excess(ax[i], lp.rlo[i], lp.rup[i]) : i \in lp.rows})

\* What verify counts against the gradient of a column off one of its bounds.
Pull(lp, j, x, g, tol) ==
    IF g < 0 /\ (~HasLower(lp.lo[j]) \/ x > lp.lo[j] + tol) THEN -g
    ELSE IF g > 0 /\ (~HasUpper(lp.up[j]) \/ x < lp.up[j] - tol) THEN g ELSE 0
StationarityExcess(lp, x, y, tol) ==
    IF DOMAIN y = {} \/ DOMAIN y # lp.rows THEN 0
    ELSE Max({0} \cup {Pull(lp, j, x[j], lp.c[j] + Transposed(lp, y)[j], tol) : j \in lp.cols})

ObjectiveSlack(obj) == (One + Magnitude(obj)) \div 10000
Verified(lp, ans, tol) ==
    IF DOMAIN ans.x # lp.cols THEN NotVerified
    ELSE [feasible |-> BoundExcess(lp, ans.x) <= tol /\ RowExcess(lp, Activities(lp, ans.x)) <= tol,
          objective |-> Magnitude(ObjectiveAt(lp, ans.x) - ans.objective) <= Larger(tol, ObjectiveSlack(ObjectiveAt(lp, ans.x))),
          dual |-> StationarityExcess(lp, ans.x, ans.y, tol) <= 10 * tol]

Verify ==
    /\ stage = "verify"
    /\ verification' = Verified(task.lp, answer, task.tol)
    /\ stage' = "done"
    /\ UNCHANGED <<task, prepared, scaling, answer, pdhgVars>>

EndNext == Prepare \/ RuizStep \/ ScaleOnce \/ Dispatch \/ SolverStep \/ Recover \/ Verify

-----------------------------------------------------------------------------

\* Optimality of a pair: no coordinate leaves its bounds or has a gradient to follow.
IsSaddle(lp, p) ==
    /\ \A j \in lp.cols : p.x[j] = Clip(p.x[j] - lp.c[j] - Transposed(lp, p.y)[j], lp.lo[j], lp.up[j])
    /\ \A i \in lp.rows : Activities(lp, p.x)[i] = Clip(Activities(lp, p.x)[i] + p.y[i], lp.rlo[i], lp.rup[i])

\* A pair of the call's model, with its gradient for reduced costs, as what presolve left
\* of it, and as a pair of the prepared model.
Gradient(lp, y) == [j \in lp.cols |-> lp.c[j] + Transposed(lp, y)[j]]
LeftOf(p) ==
    [x |-> Restrict(p.x, prepared.lp.cols), y |-> p.y,
     s |-> Restrict(Gradient(task.lp, p.y), prepared.lp.cols)]
Transported(p) == IF prepared.scaled THEN ScaleSolution(LeftOf(p), scaling) ELSE LeftOf(p)

Ready == stage = "solve" /\ pc = "idle" /\ prepared.outcome = "ready"
Returned == stage \in {"verify", "done"} /\ answer.status = "OPTIMAL"

\* Preparing a model changes none of its optimal pairs: each becomes an optimal pair of
\* the model that is solved, its reduced costs the gradient there, and unscaling gives x,
\* y and s back; unscale_model gives the model back.  After a pass of Ruiz no entry is
\* above one.  (ModelPipeline::prepare, scale_ruiz, scale_pock_chambolle, scale_solution,
\* unscale_solution, unscale_model.)
PreparationFaithful ==
    /\ Ready => \A p \in task.saddles : \E q \in {Transported(p)} :
        IsSaddle(prepared.lp, q) /\ q.s = Gradient(prepared.lp, q.y)
    /\ Ready /\ prepared.scaled =>
        /\ ScaledModel(UnscaleModel(prepared.lp, scaling), scaling) = prepared.lp
        /\ ~task.presolve => UnscaleModel(prepared.lp, scaling) = task.lp
        /\ \A p \in task.saddles : UnscaleSolution(Transported(p), scaling) = LeftOf(p)
    /\ stage # "idle" /\ task.method = "Ruiz" /\ scaling.passes > 0 =>
        \A i \in DOMAIN scaling.R : \A j \in DOMAIN scaling.C : Magnitude(scaling.a[i][j]) <= One

\* The step sizes of the row and column sums satisfy the condition the method converges
\* under, whatever the ratio and the rebalancing at the checks do: the matrix of
\* 1/tau, -A^T, 1/sigma has no direction of negative length, of those whose coordinates
\* are -2, -1, 0, 1 or 2 (uneven ones, since after a rebalancing or with a ratio that is
\* not one the worst direction is).  Looked at when the steps have just been set.
\* (pdhg_solver_cpu.cpp, the set-up of tau and sigma, and steps 335-347.)
Directions(S) == [S -> -2 .. 2]
StepLength(st, u, v) ==
    Total(LAMBDA j : (u[j] * u[j] * One * One * One) \div st.tau[j], DOMAIN u)
    + Total(LAMBDA i : (v[i] * v[i] * One * One * One) \div st.sigma[i], DOMAIN v)
Coupling(lp, u, v) == Total(LAMBDA i : Total(LAMBDA j : v[i] * lp.a[i][j] * u[j], lp.cols), lp.rows)

StepsSafe ==
    pc = "iterate" /\ progress.iter % config.every = 0 /\ config.strategy # "CONSTANT" =>
        \A u \in Directions(model.cols), v \in Directions(model.rows) :
            2 * One * Coupling(model, u, v) <= StepLength(steps, u, v)

\* An iteration never moves away from any optimal pair, measured by the step sizes: the
\* distance of the x before the last step and the y after it only falls, up to the
\* rounding of this arithmetic.  Said of the steps that follow one taken with the same
\* step sizes and extrapolated in full: the first step, the one after a rebalancing and
\* the one after a restart, which drops the extrapolation, are measured in another way
\* than the step before them, and nothing is claimed of those.  What a check may do in
\* between, a restart and a rebalancing included, is to leave the pair where it is, the
\* transposed product that of its y, and the extrapolated point where the last two x put
\* it, so that the next step starts from a pair some iteration made.  (Steps 5a to 5c and
\* 335-367.)
Distance(lp, st, pt, p) ==
    Total(LAMBDA j : ((pt.xPrev[j] - p.x[j]) * (pt.xPrev[j] - p.x[j]) * One) \div st.tau[j], lp.cols)
    + Total(LAMBDA i : ((pt.y[i] - p.y[i]) * (pt.y[i] - p.y[i]) * One) \div st.sigma[i], lp.rows)
    - 2 * Total(LAMBDA i : Total(LAMBDA j :
            (pt.y[i] - p.y[i]) * Rounded(lp.a[i][j], pt.xPrev[j] - p.x[j]), lp.cols), lp.rows)

Steady ==
    /\ config.theta = One /\ config.strategy # "CONSTANT"
    /\ \/ progress.iter % config.every # 0
       \/ config.strategy = "POCK_CHAMBOLLE" /\ progress.iter # progress.lastRestart
InLine(lp, pt) ==
    /\ pt.aty = Transposed(lp, pt.y)
    /\ \A j \in lp.cols : pt.xBar[j] = pt.x[j] + Rounded(config.theta, pt.x[j] - pt.xPrev[j])

NeverMovesAway ==
    [][/\ pc = "iterate" /\ progress'.iter = progress.iter + 1 /\ Steady =>
            \A p \in task.saddles : \E q \in {Transported(p)} :
                Distance(model, steps, point', q) <= Distance(model, steps, point, q) + task.slack
       /\ pc = "check" /\ pc' = "iterate" =>
            point'.x = point.x /\ point'.y = point.y /\ InLine(model, point')]_allEndVars

\* Where an iteration changes nothing, the pair is optimal: every limit of the iterates is
\* an answer, on the host and on the device.  (A property of steps 5a to 5c alone: any
\* x, y and step sizes a restart or a rebalancing might leave satisfy it.)
Near(lp, pt) ==
    /\ \A j \in lp.cols : Magnitude(DualDefect(pt.x[j], lp.c[j] + Transposed(lp, pt.y)[j], lp.lo[j], lp.up[j])) <= 8
    /\ \A i \in lp.rows : Magnitude(DualDefect(Activities(lp, pt.x)[i], -pt.y[i], lp.rlo[i], lp.rup[i])) <= 8
FixedPointsOptimal ==
    [][pc = "iterate" /\ progress'.iter = progress.iter + 1 /\ point'.x = point.x /\ point'.y = point.y
            /\ point.xBar = point.x => Near(model, point)]_allEndVars

\* A recovered OPTIMAL answer has the shape of the original, is within the solver's
\* tolerance of feasible and of stationary, each in the units of the row and column
\* scales, and the verifier finds the objective it recomputes.  Its reduced costs are
\* c + A^T y in the columns presolve kept, up to the units lost in rounding, where the
\* solver had the transposed product; postsolve gives a removed column c - A^T y.  How far
\* the objective is from the optimum is not said: the code tests no gap.
RowUnit(i) == IF prepared.scaled THEN scaling.R[i] ELSE One
ColUnit(j) == IF prepared.scaled /\ j \in DOMAIN scaling.C THEN scaling.C[j] ELSE One
Allowed(scale) == (task.cfg.tol * scale) \div One + 4

HasTransposed == task.cfg.backend = "CUDA" => task.lp.csc
Lost == 3

AnswerStands(lp, ans, near, free) ==
    /\ DOMAIN ans.x = lp.cols /\ DOMAIN ans.y = lp.rows /\ DOMAIN ans.s = lp.cols
    /\ \A j \in lp.cols : Excess(ans.x[j], lp.lo[j], lp.up[j]) <= 2
    /\ \A i \in lp.rows : Rounded(Excess(Activities(lp, ans.x)[i], lp.rlo[i], lp.rup[i]), RowUnit(i)) <= near
    /\ \A j \in lp.cols \ FixedCols(lp) : \E g \in {Rounded(lp.c[j] + Transposed(lp, ans.y)[j], ColUnit(j))} :
          /\ g > free => ans.x[j] - lp.lo[j] <= Rounded(free, ColUnit(j)) + 2
          /\ g < -free => lp.up[j] - ans.x[j] <= Rounded(free, ColUnit(j)) + 2
    /\ HasTransposed => \A j \in lp.cols \ DOMAIN prepared.fixed :
          Rounded(Magnitude(ans.s[j] - Gradient(lp, ans.y)[j]), ColUnit(j)) <= Lost

RecoveredStands ==
    /\ Returned /\ pc = "solved" /\ prepared.lp.cols # {} /\ prepared.lp.rows # {} =>
        AnswerStands(task.lp, answer, Allowed(BNorm(prepared.lp)), Allowed(CNorm(prepared.lp)))
    /\ stage = "done" /\ answer.status \notin {"PRIMAL_INFEASIBLE", "NUMERICAL_FAILURE"} => verification.objective

\* What solution_verifier.cpp:122 and :126 say the dual check is: a column that is not at
\* its lower bound has no positive reduced cost, one not at its upper bound no negative one.
VerifierFollowsItsRule ==
    stage = "done" /\ answer.status = "OPTIMAL" /\ task.lp.rows # {} =>
        (verification.dual <=>
            \A j \in task.lp.cols : \E r \in {task.lp.c[j] + Transposed(task.lp, answer.y)[j]} :
                /\ (~HasLower(task.lp.lo[j]) \/ answer.x[j] > task.lp.lo[j] + task.tol) => r <= 10 * task.tol
                /\ (~HasUpper(task.lp.up[j]) \/ answer.x[j] < task.lp.up[j] - task.tol) => -r <= 10 * task.tol)

=============================================================================
