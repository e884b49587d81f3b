-------------------------------- MODULE Pdhg --------------------------------
(***************************************************************************)
(* The first-order solver: CPUPDPOptimizer::solve                          *)
(* (src/src/solver/pdhg_solver_cpu.cpp) and its twin on the device         *)
(* (src/cuda/pdhg_cuda.cu and kernels/pdhg_kernels.cu).  The iterates are  *)
(* computed, in the rounding arithmetic of Scaling; only the clock is left *)
(* open.  Signs as in this code: s = c + A^T y, y >= 0 where a row is at   *)
(* its upper bound.                                                        *)
(***************************************************************************)
EXTENDS Scaling

CONSTANT Blowup    \* a residual above it is a numerical failure (1e10 in the code)

VARIABLES
    model,       \* the LinearProgram that is solved
    config,      \* its SolverConfig
    pc,          \* "idle", "iterate", "check" or "solved"
    point,       \* x, xPrev, xBar, y and aty = A^T y
    steps,       \* tau by column, sigma by row
    progress,    \* iter, best residual, last restart, number of restarts
    result       \* the SolverResult: status, x, y, s

pdhgVars == <<model, config, pc, point, steps, progress, result>>

Zeros(S) == [k \in S |-> 0]
NoPoint == [x |-> <<>>, xPrev |-> <<>>, xBar |-> <<>>, y |-> <<>>, aty |-> <<>>]
NoResult == [status |-> "none", x |-> <<>>, y |-> <<>>, s |-> <<>>]
FreshProgress == [iter |-> 0, best |-> Endless, lastRestart |-> 0, restarts |-> 0]

Clip(v, low, high) ==
    IF HasLower(low) /\ v < low THEN low ELSE IF HasUpper(high) /\ v > high THEN high ELSE v

Activities(lp, x) == [i \in lp.rows |-> Total(LAMBDA j : Rounded(lp.a[i][j], x[j]), lp.cols)]
Transposed(lp, y) == [j \in lp.cols |-> Total(LAMBDA i : Rounded(lp.a[i][j], y[i]), lp.rows)]
Norm(v) == Root(Total(LAMBDA k : v[k] * v[k], DOMAIN v))

\* The scales of the residuals.
RowScale(low, high) ==
    IF HasLower(low) /\ HasUpper(high) THEN (low + high) \div 2
    ELSE IF HasUpper(high) THEN high ELSE IF HasLower(low) THEN low ELSE 0
BNorm(lp) == Norm([i \in lp.rows |-> RowScale(lp.rlo[i], lp.rup[i])]) + One
CNorm(lp) == Norm(lp.c) + One

\* The kernels, one thread to an entry; the host loops compute the same.
\* (mutated: the projection looks at the upper bound only.)
DualStepUpperOnly(y, sigma, ax, low, high) ==
    LET v == (y * One) \div sigma + ax
    IN Rounded(sigma, v - Clip(v, -Endless, high))
DualStep(y, sigma, ax, low, high) ==
    LET v == (y * One) \div sigma + ax
    IN Rounded(sigma, v - Clip(v, low, high))
PrimalStep(x, tau, grad, low, high) == Clip(x - Rounded(tau, grad), low, high)
PrimalDefect(ax, low, high) == ax - Clip(ax, low, high)
DualDefect(x, grad, low, high) == x - Clip(x - grad, low, high)

\* A step size over a sum, and the one of an empty row or column.
StepOver(cfg, sum) == IF sum > 0 THEN (cfg.omega * One) \div sum ELSE One

PockChambolleSteps(lp, cfg) ==
    [tau |-> [j \in lp.cols |->
        Rounded(StepOver(cfg, Total(LAMBDA i : Magnitude(lp.a[i][j]), lp.rows)), cfg.ratio)],
     sigma |-> [i \in lp.rows |->
        (StepOver(cfg, Total(LAMBDA j : Magnitude(lp.a[i][j]), lp.cols)) * One) \div cfg.ratio]]

EvenSteps(lp, cfg, norm) ==
    LET base == (cfg.omega * One) \div norm
    IN [tau |-> [j \in lp.cols |-> Rounded(base, cfg.ratio)],
        sigma |-> [i \in lp.rows |-> (base * One) \div cfg.ratio]]

\* f itself; TLC computes the entries once and not at every use.
Computed(f) == f @@ <<>>

\* CONSTANT on the host: five rounds of a power iteration of A^T A.
Product(lp, v) == Computed(Transposed(lp, Computed(Activities(lp, v))))
Normed(w, length) ==
    [v |-> Computed(IF length > 0 THEN [j \in DOMAIN w |-> (w[j] * One) \div length] ELSE w), norm |-> length]
PowerRound(lp, it) ==
    CHOOSE next \in {Normed(w, Norm(w)) : w \in {Product(lp, v) : v \in {it.v}}} : TRUE
PowerNorm(lp) ==
    LET start == [v |-> [j \in lp.cols |-> One \div Larger(1, Root(Cardinality(lp.cols)))], norm |-> One]
    IN FoldLeft(LAMBDA it, k : PowerRound(lp, it), start, <<1, 2, 3, 4, 5>>).norm

\* CONSTANT on the device: the largest absolute row sum, and at least one.
LargestRowSum(lp) ==
    Max({One} \cup {Total(LAMBDA j : Magnitude(lp.a[i][j]), lp.cols) : i \in lp.rows})

InitialSteps(lp, cfg) ==
    IF cfg.strategy # "CONSTANT" THEN PockChambolleSteps(lp, cfg)
    ELSE IF cfg.backend = "CUDA" THEN EvenSteps(lp, cfg, LargestRowSum(lp))
    ELSE EvenSteps(lp, cfg, Larger(1, PowerNorm(lp)))

StartPoint(lp, x) == [x |-> x, xPrev |-> x, xBar |-> x, y |-> Zeros(lp.rows), aty |-> Zeros(lp.cols)]

\* A model without rows: every column goes to its better bound, up to the first that has none.
BestBound(c, low, high) ==
    IF c > 0 THEN low ELSE IF c < 0 THEN high
    ELSE IF HasLower(low) /\ HasUpper(high) THEN (low + high) \div 2 ELSE 0
Descends(lp, j) == (lp.c[j] > 0 /\ ~HasLower(lp.lo[j])) \/ (lp.c[j] < 0 /\ ~HasUpper(lp.up[j]))
BestUpTo(lp, S) == [j \in lp.cols |-> IF j \in S THEN BestBound(lp.c[j], lp.lo[j], lp.up[j]) ELSE 0]
BoundOnly(lp) ==
    LET endless == {j \in lp.cols : Descends(lp, j)}
        set == {j \in lp.cols : \A k \in endless : j < k}
    IN [status |-> IF endless = {} THEN "OPTIMAL" ELSE "DUAL_INFEASIBLE_UNBOUNDED",
        x |-> BestUpTo(lp, set), y |-> <<>>, s |-> [j \in lp.cols |-> IF j \in set THEN lp.c[j] ELSE 0]]

PdhgIdle ==
    /\ model = <<>> /\ config = <<>> /\ pc = "idle"
    /\ point = NoPoint /\ steps = <<>> /\ progress = FreshProgress /\ result = NoResult

\* solve(lp) up to the loop.
Begin(lp, cfg) ==
    /\ model' = lp /\ config' = cfg /\ progress' = FreshProgress
    /\ IF lp.rows = {} \/ lp.cols = {}
       THEN /\ pc' = "solved"
            /\ result' = IF lp.cols = {} THEN [NoResult EXCEPT !.status = "OPTIMAL"] ELSE BoundOnly(lp)
            /\ UNCHANGED <<point, steps>>
       ELSE /\ pc' = "iterate"
            /\ point' = StartPoint(lp, [j \in lp.cols |-> Clip(0, lp.lo[j], lp.up[j])])
            /\ steps' = InitialSteps(lp, cfg)
            /\ result' = NoResult

\* Steps 5a to 5c: y from the extrapolated x, then x from y.
DualUpdate(lp, pt, st, ax) ==
    [i \in lp.rows |-> DualStep(pt.y[i], st.sigma[i], ax[i], lp.rlo[i], lp.rup[i])]
PrimalUpdate(lp, pt, st, aty) ==
    [j \in lp.cols |-> PrimalStep(pt.x[j], st.tau[j], aty[j] + lp.c[j], lp.lo[j], lp.up[j])]

\* (mutated: the new x without the extrapolation.)
MovedFlat(lp, pt, y, aty, x) == [x |-> x, xPrev |-> pt.x, xBar |-> x, y |-> y, aty |-> aty]
Moved(lp, pt, y, aty, x) ==
    [x |-> x, xPrev |-> pt.x, y |-> y, aty |-> aty,
     xBar |-> [j \in lp.cols |-> x[j] + Rounded(config.theta, x[j] - pt.x[j])]]

WithDual(lp, pt, st, y, aty) == Moved(lp, pt, y, aty, PrimalUpdate(lp, pt, st, aty))
Iterated(lp, pt, st, y) == WithDual(lp, pt, st, y, Transposed(lp, y))

CheckDue(iter) == iter % config.every = 0 \/ iter = config.most

Advance ==
    /\ progress.iter < config.most
    /\ point' = Iterated(model, point, steps, DualUpdate(model, point, steps, Activities(model, point.xBar)))
    /\ progress' = [progress EXCEPT !.iter = @ + 1]
    /\ pc' = IF CheckDue(progress.iter + 1) THEN "check" ELSE "iterate"
    /\ UNCHANGED <<model, config, steps, result>>

\* One iteration on the host, and one on the device.
Iterate == pc = "iterate" /\ config.backend = "CPU" /\ Advance
IterateOnDevice == pc = "iterate" /\ config.backend = "CUDA" /\ Advance

\* Step 5d.
PrimalResidual(lp, ax) ==
    (Norm([i \in lp.rows |-> PrimalDefect(ax[i], lp.rlo[i], lp.rup[i])]) * One) \div BNorm(lp)
DualResidual(lp, pt) ==
    (Norm([j \in lp.cols |-> DualDefect(pt.x[j], pt.aty[j] + lp.c[j], lp.lo[j], lp.up[j])]) * One) \div CNorm(lp)

Residuals(lp, pt) == [p |-> PrimalResidual(lp, Activities(lp, pt.x)), d |-> DualResidual(lp, pt)]

\* The reduced costs handed back; the device has them only if it was given A^T.
ReducedCosts ==
    [j \in model.cols |-> model.c[j] + IF config.backend = "CUDA" /\ ~model.csc THEN 0 ELSE point.aty[j]]

Stop(status) ==
    /\ result' = [status |-> status, x |-> point.x, y |-> point.y, s |-> ReducedCosts]
    /\ pc' = "solved"
    /\ UNCHANGED <<model, config, point, steps, progress>>

\* Which step sizes to change: the primal residual is more than twice the dual one
\* (sigma up, tau down), or less than half.  The factor min(1.25, sqrt(ratio)) is 1.25
\* whenever one of them holds (mutated: both go the same way).
Grown(v) == [k \in DOMAIN v |-> (v[k] * 5) \div 4]
Lowered(v) == [k \in DOMAIN v |-> (v[k] * 4) \div 5]
RebalancedAlike(r, st) ==
    IF r.d = 0 THEN st
    ELSE IF r.p > 2 * r.d THEN [tau |-> Lowered(st.tau), sigma |-> Grown(st.sigma)]
    ELSE IF 2 * r.p < r.d THEN [tau |-> Grown(st.tau), sigma |-> st.sigma]
    ELSE st
Rebalanced(r, st) ==
    IF r.d = 0 THEN st
    ELSE IF r.p > 2 * r.d THEN [tau |-> Lowered(st.tau), sigma |-> Grown(st.sigma)]
    ELSE IF 2 * r.p < r.d THEN [tau |-> Grown(st.tau), sigma |-> Lowered(st.sigma)]
    ELSE st

\* The adaptive restart.
RestartDue == config.restart /\ progress.iter - progress.lastRestart >= config.window
Stalled(comb) == 10 * comb > 9 * progress.best
Restarted(pt) == [pt EXCEPT !.xBar = pt.x, !.xPrev = pt.x]

Restart(comb) ==
    IF RestartDue
    THEN /\ point' = IF Stalled(comb) THEN Restarted(point) ELSE point
         /\ progress' = [progress EXCEPT
                !.best = Smaller(@, comb),
                !.lastRestart = IF Stalled(comb) THEN progress.iter ELSE @,
                !.restarts = IF Stalled(comb) THEN @ + 1 ELSE @]
    ELSE UNCHANGED <<point, progress>>

Continue(r) ==
    /\ steps' = IF config.strategy = "ADAPTIVE" THEN Rebalanced(r, steps) ELSE steps
    /\ Restart(Root(r.p * r.p + r.d * r.d))
    /\ pc' = "iterate"
    /\ UNCHANGED <<model, config, result>>

Failed(r) == r.p > Blowup \/ r.d > Blowup
Converged(r) == r.p < config.tol /\ r.d < config.tol

Check ==
    /\ pc = "check"
    /\ \E r \in {Residuals(model, point)} :
          \/ Failed(r) /\ Stop("NUMERICAL_FAILURE")
          \/ ~Failed(r) /\ Converged(r) /\ Stop("OPTIMAL")
          \/ ~Failed(r) /\ ~Converged(r) /\ Stop("TIME_LIMIT")
          \/ ~Failed(r) /\ ~Converged(r) /\ Continue(r)

\* The loop ends without an answer.
Exhausted == pc = "iterate" /\ progress.iter >= config.most /\ Stop("MAX_ITERATIONS")

PdhgNext == Iterate \/ IterateOnDevice \/ Check \/ Exhausted
=============================================================================
