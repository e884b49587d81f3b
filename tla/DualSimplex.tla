------------------------------ MODULE DualSimplex ------------------------------
(***************************************************************************)
(* DualSimplexSolver::solve (src/src/simplex/dual_simplex.cpp): minimise   *)
(* c x with row activities and columns between bounds.  Variables 1..n are *)
(* the columns, n + i is the slack that equals the activity of row i.      *)
(* A start from slacks or from a given basis, cost shifts that make it     *)
(* dual feasible, dual pivots with bound flips, the shifts taken back,     *)
(* primal pivots to clean up after them, and a verdict.                    *)
(*                                                                         *)
(* Numbers are exact (FixedPoint), so tolerances and the 1e-6 by which a   *)
(* shift overshoots vanish.  Devex weights are only known to be positive:  *)
(* any infeasible row may win.  Candidates of equal ratio come in any      *)
(* order, as std::sort leaves them.                                        *)
(***************************************************************************)
EXTENDS BasisFactors

CONSTANTS
    Infinity,       \* model::Infinity
    Models,         \* the linear programs solve() may be called with
    Configs,        \* the SimplexConfigs it may be called with
    MaxCleanup      \* the 2000 of the cleanup loop

Finite(b) == -Infinity < 2 * b /\ 2 * b < Infinity

\* A program in units of 1/One: coefficients are whole, and so are the costs, which makes
\* an objective value exact; a bound that is not there is infinite on its side.
BoundsOK(low, high) == (low = -Infinity \/ Finite(low)) /\ (high = Infinity \/ Finite(high))
IsProgram(p) ==
    /\ p.m \in Nat /\ p.n \in Nat /\ p.offset \in Int
    /\ p.a \in [1..p.m -> [1..p.n -> Int]]
    /\ p.lo \in [1..p.n -> Int] /\ p.up \in [1..p.n -> Int]
    /\ p.rlo \in [1..p.m -> Int] /\ p.rup \in [1..p.m -> Int]
    /\ p.c \in [1..p.n -> Int]
    /\ \A j \in 1..p.n : BoundsOK(p.lo[j], p.up[j]) /\ p.c[j] % One = 0
    /\ \A i \in 1..p.m : BoundsOK(p.rlo[i], p.rup[i])

ASSUME InfinityAssumption == Infinity \in Nat \ {0} /\ MaxCleanup \in Nat
ASSUME ModelsAssumption == \A p \in Models : IsProgram(p)
ASSUME ConfigsAssumption == \A k \in Configs : k.max_iterations \in Nat

VARIABLES
    lp, config,
    initial,      \* initial_basis, or NoBasis
    basis,        \* the Basis: who is basic where, everyone's status
    x,            \* x_val
    c,            \* the working costs
    shift,        \* cost_shifts
    y, d,         \* dual values, reduced costs
    fact,         \* basis_fact
    iter,         \* iterations
    cleanups,     \* p_iter
    pc,
    result        \* status and residuals of the SimplexResult

args == <<lp, config, initial>>
numbers == <<x, c, shift, y, d>>
vars == <<lp, config, initial, basis, x, c, shift, y, d, fact, iter, cleanups, pc, result>>

Rows == 1..lp.m
Cols == 1..lp.n
Slack(i) == lp.n + i
Vars == 1..(lp.n + lp.m)
IsCol(v) == v <= lp.n

Low(v) == IF IsCol(v) THEN lp.lo[v] ELSE lp.rlo[v - lp.n]
Up(v) == IF IsCol(v) THEN lp.up[v] ELSE lp.rup[v - lp.n]

\* extract_column and expand_to_dense: a column of [A, -I].
Column(v) == [r \in Rows |-> IF IsCol(v) THEN lp.a[r][v] ELSE IF r = v - lp.n THEN -1 ELSE 0]
BasisMatrix(basic) == [r \in Rows |-> [k \in Rows |-> Column(basic[k])[r]]]
Dot(col, w) == Total(LAMBDA r : col[r] * w[r], Rows)
Unit(p, u) == [i \in Rows |-> IF i = p THEN u ELSE 0]

-----------------------------------------------------------------------------
(* The basis.                                                              *)

NoBasis == [basic |-> <<>>, status |-> <<>>, place |-> <<>>, nonbasic |-> {}]

\* Basis::is_valid, and the sizes solve() asks for.
IsValid(b) ==
    /\ DOMAIN b.basic = Rows /\ DOMAIN b.status = Vars
    /\ \A i \in Rows : b.basic[i] \in Vars /\ b.status[b.basic[i]] = "Basic" /\ b.place[b.basic[i]] = i

\* Where a column that is not basic starts: the bound its cost pulls it to, if there
\* is one.
RestAt(j) ==
    IF Low(j) = Up(j) THEN "Fixed"
    ELSE IF ~Finite(Low(j)) /\ ~Finite(Up(j)) THEN "Free"
    ELSE IF Finite(Up(j)) /\ (lp.c[j] < 0 \/ ~Finite(Low(j))) THEN "AtUpper"
    ELSE "AtLower"

SlackBasis ==
    [basic |-> [i \in Rows |-> Slack(i)],
     status |-> [v \in Vars |-> IF IsCol(v) THEN RestAt(v) ELSE "Basic"],
     place |-> [v \in Vars |-> IF IsCol(v) THEN 0 ELSE v - lp.n],
     nonbasic |-> Cols]

\* Basis::swap (mutated: the list of nonbasic variables is not built again).
SwapStale(b, p, q, leaving) ==
    [basic |-> [b.basic EXCEPT ![p] = q],
     status |-> [b.status EXCEPT ![b.basic[p]] = leaving, ![q] = "Basic"],
     place |-> [b.place EXCEPT ![b.basic[p]] = 0, ![q] = p],
     nonbasic |-> b.nonbasic]
Swap(b, p, q, leaving) ==
    LET status == [b.status EXCEPT ![b.basic[p]] = leaving, ![q] = "Basic"]
    IN [basic |-> [b.basic EXCEPT ![p] = q],
        status |-> status,
        place |-> [b.place EXCEPT ![b.basic[p]] = 0, ![q] = p],
        nonbasic |-> {v \in Vars : status[v] # "Basic"}]

\* sync_nonbasic_values: a nonbasic variable is put where its status says.
RestingValue(b, v) ==
    CASE b.status[v] \in {"AtLower", "Fixed"} -> Low(v)
      [] b.status[v] = "AtUpper" -> Up(v)
      [] b.status[v] = "Free" -> 0
Synced(b, values) == [v \in Vars |-> IF b.status[v] = "Basic" THEN values[v] ELSE RestingValue(b, v)]

\* The right-hand side the basic variables answer for, and their values.
NonbasicLoad(b, values) ==
    Vector([r \in Rows |-> -Total(LAMBDA v : Column(v)[r] * values[v], {v \in Vars : b.status[v] # "Basic"})])

BasicValues(b, f, values) ==
    LET xB == Ftran(f, NonbasicLoad(b, values))
    IN Vector([v \in Vars |-> IF b.status[v] = "Basic" THEN xB[b.place[v]] ELSE values[v]])

DualValues(b, f, costs) == Btran(f, [i \in Rows |-> costs[b.basic[i]]])

\* compute_reduced_costs.
ReducedCosts(b, costs, duals) ==
    [v \in Vars |-> IF b.status[v] = "Basic" THEN 0
                    ELSE IF IsCol(v) THEN costs[v] - Dot(Column(v), duals)
                    ELSE duals[v - lp.n]]

Costs == [v \in Vars |-> IF IsCol(v) THEN lp.c[v] ELSE 0]

\* What would move v away from the bound it is at at a profit.
WrongSign(status, dv) == (status = "AtLower" /\ dv < 0) \/ (status = "AtUpper" /\ dv > 0)

-----------------------------------------------------------------------------
(* The start.                                                              *)

NoResult == [status |-> "NUMERICAL_FAILURE", objective |-> 0, primal_inf |-> 0, dual_inf |-> 0]

ZeroVars == [v \in Vars |-> 0]

Start ==
    /\ basis = NoBasis
    /\ x = ZeroVars /\ c = Costs /\ shift = ZeroVars
    /\ y = [i \in Rows |-> 0] /\ d = ZeroVars
    /\ fact = NewFactors(config.update = "RefactorizeAlways")
    /\ iter = 0 /\ cleanups = 0
    /\ pc = "start"
    /\ result = NoResult

Init ==
    /\ lp \in Models
    /\ config \in Configs
    /\ initial = NoBasis
    /\ Start

\* A model without rows: every column goes where its cost pulls it.
RestValue(j) ==
    IF lp.c[j] < 0 THEN IF Finite(lp.up[j]) THEN lp.up[j] ELSE 0
    ELSE IF ~Finite(lp.lo[j]) THEN 0
    ELSE IF lp.c[j] > 0 THEN lp.lo[j] ELSE Larger(lp.lo[j], 0)

Objective(values) == lp.offset + Total(LAMBDA j : Times(lp.c[j], values[j]), Cols)

NoRows ==
    /\ pc = "start" /\ lp.m = 0
    /\ x' = [j \in Cols |-> RestValue(j)]
    /\ d' = Costs
    /\ result' = [NoResult EXCEPT !.status = "OPTIMAL", !.objective = Objective(x')]
    /\ pc' = "done"
    /\ UNCHANGED <<args, basis, c, shift, y, fact, iter, cleanups>>

NoColumns ==
    /\ pc = "start" /\ lp.m # 0 /\ lp.n = 0
    /\ result' = [NoResult EXCEPT !.status = "OPTIMAL", !.objective = lp.offset]
    /\ pc' = "done"
    /\ UNCHANGED <<args, basis, numbers, fact, iter, cleanups>>

\* A basis that fits is taken as it is.
StartBasis == IF initial # NoBasis /\ IsValid(initial) THEN initial ELSE SlackBasis

\* Shifts make the reduced cost of every variable at a bound vanish when it is of the
\* wrong sign.
Shifts(b, costs) == [v \in Vars |-> IF v \in b.nonbasic /\ WrongSign(b.status[v], costs[v]) THEN -costs[v] ELSE 0]

Begin ==
    /\ pc = "start" /\ lp.m # 0 /\ lp.n # 0
    /\ LET b == StartBasis
           f == Factorized(fact, BasisMatrix(b.basic))
           y0 == DualValues(b, f, c)
           s == Shifts(b, ReducedCosts(b, c, y0))
           costs == [v \in Vars |-> c[v] + s[v]]
       IN /\ basis' = b
          /\ fact' = f
          /\ x' = Synced(b, x)
          /\ IF IsFactorized(f)
             THEN /\ c' = costs /\ shift' = s
                  /\ y' = DualValues(b, f, costs)
                  /\ d' = ReducedCosts(b, costs, y')
                  /\ pc' = "dual"
             ELSE UNCHANGED <<c, shift, y, d>> /\ pc' = "done"
    /\ UNCHANGED <<args, iter, cleanups, result>>

-----------------------------------------------------------------------------
(* The dual iterations.                                                    *)

\* The values at the head of the loop.
Current == BasicValues(basis, fact, x)

Below(v, values) == values[v] < Low(v)
Above(v, values) == values[v] > Up(v)
Violation(v, values) == IF Below(v, values) THEN Low(v) - values[v] ELSE values[v] - Up(v)

InfeasibleRows(values) == {i \in Rows : Below(basis.basic[i], values) \/ Above(basis.basic[i], values)}

\* Dantzig takes the first of the largest violations, Devex any.
LeavingRows(values) ==
    LET all == InfeasibleRows(values)
        worst == {i \in all : \A k \in all : Violation(basis.basic[i], values) >= Violation(basis.basic[k], values)}
    IN IF config.pricing = "Devex" THEN all ELSE IF all = {} THEN {} ELSE {Min(worst)}

\* The loop's own limit.
InTime == iter < config.max_iterations

PrimalFeasible ==
    /\ pc = "dual" /\ InTime
    /\ InfeasibleRows(Current) = {}
    /\ x' = Current
    /\ pc' = "restore"
    /\ UNCHANGED <<args, basis, c, shift, y, d, fact, iter, cleanups, result>>

\* The iteration limit, or the clock.
OutOfTime ==
    /\ pc = "dual" /\ (~InTime \/ config.timed)
    /\ pc' = "restore"
    /\ UNCHANGED <<args, basis, numbers, fact, iter, cleanups, result>>

\* The tableau row of the leaving variable, with the sign by which it has to move.
TableauRow(p, sigma) ==
    LET pi == Btran(fact, Unit(p, -sigma * One))
    IN [v \in basis.nonbasic |-> Dot(Column(v), pi)]

\* Moving v off its bound helps.
Helps(v, alpha) ==
    CASE basis.status[v] = "AtLower" -> alpha > 0
      [] basis.status[v] = "AtUpper" -> alpha < 0
      [] basis.status[v] = "Free" -> alpha # 0
      [] OTHER -> FALSE

\* |d| where it has the right sign; the ratio is this over |alpha|.
Slope(v) ==
    CASE basis.status[v] = "AtLower" -> Larger(0, d[v])
      [] basis.status[v] = "AtUpper" -> Larger(0, -d[v])
      [] OTHER -> 0

\* The candidates by ratio, ties in any order (mutated: in any order at all).
AnyOrder(alpha) == SetToSeqs({v \in basis.nonbasic : Helps(v, alpha[v])})
ByRatio(alpha) ==
    {s \in SetToSeqs({v \in basis.nonbasic : Helps(v, alpha[v])}) :
        \A k \in DOMAIN s, l \in DOMAIN s :
            k < l => Slope(s[k]) * Magnitude(alpha[s[l]]) <= Slope(s[l]) * Magnitude(alpha[s[k]])}

\* What flipping v takes off the violation, in units of 1/One^2; a variable with an open
\* bound takes all.
Relief(v, alpha) == Magnitude(alpha[v]) * (Up(v) - Low(v))
Flippable(v) == Finite(Up(v) - Low(v))

\* The number of candidates that are flipped: all before the first that would end the
\* violation (mutated: that one as well).
FlipsTooMany(s, alpha, violation) ==
    IF config.ratio = "Standard" THEN 0
    ELSE Max({k \in 0..Len(s) : \A l \in 1..k : Flippable(s[l]) /\
                Total(LAMBDA n : Relief(s[n], alpha), 1..(l - 1)) < One * violation})
Flips(s, alpha, violation) ==
    IF config.ratio = "Standard" THEN 0
    ELSE Max({k \in 0..Len(s) : \A l \in 1..k : Flippable(s[l]) /\
                Total(LAMBDA n : Relief(s[n], alpha), 1..l) < One * violation})

Opposite == [AtLower |-> "AtUpper", AtUpper |-> "AtLower"]
Flipped(b, S) ==
    [basic |-> b.basic, place |-> b.place, nonbasic |-> b.nonbasic,
     status |-> [v \in Vars |-> IF v \in S THEN Opposite[b.status[v]] ELSE b.status[v]]]

\* Every candidate was flipped and the violation is still there: the first enters.
Entering(s, k) == IF k < Len(s) THEN s[k + 1] ELSE s[1]

\* A pivot that vanishes is looked at again with new factors.
PivotFactors(p, column) ==
    IF Ftran(fact, column)[p] # 0 THEN fact ELSE Factorized(fact, BasisMatrix(basis.basic))

\* The factors after column q has replaced basic variable p: an eta, or new factors when
\* the file is full.
FactorsAfter(f, b, p, v) ==
    LET up == Updated(f, p, v)
    IN IF config.update = "RefactorizeAlways" THEN Factorized(f, BasisMatrix(b.basic))
       ELSE IF NeedsRefactorize(up, config.max_updates) THEN Factorized(up, BasisMatrix(b.basic))
       ELSE up

Pivot(values, p, q, flips) ==
    LET column == [r \in Rows |-> Column(q)[r] * One]
        f == PivotFactors(p, column)
        v == Ftran(f, column)
        flipped == Flipped(basis, flips)
        b == Swap(flipped, p, q, IF Below(basis.basic[p], values) THEN "AtLower" ELSE "AtUpper")
    IN IF v[p] = 0
       THEN /\ basis' = flipped
            /\ x' = Synced(flipped, values)
            /\ fact' = f
            /\ pc' = "done"
            /\ UNCHANGED <<y, d, iter>>
       ELSE /\ basis' = b
            /\ fact' = FactorsAfter(f, b, p, v)
            /\ x' = Synced(b, values)
            /\ y' = DualValues(b, fact', c)
            /\ d' = ReducedCosts(b, c, y')
            /\ iter' = iter + 1
            /\ UNCHANGED pc

DualPivot ==
    /\ pc = "dual" /\ InTime
    /\ LET values == Current
       IN \E p \in LeavingRows(values) :
            LET out == basis.basic[p]
                alpha == TableauRow(p, IF Below(out, values) THEN 1 ELSE -1)
            IN \E s \in ByRatio(alpha) :
                 /\ s # <<>>
                 /\ LET k == Flips(s, alpha, Violation(out, values))
                    IN Pivot(values, p, Entering(s, k), {s[n] : n \in 1..k})
    /\ UNCHANGED <<args, c, shift, cleanups, result>>

\* Nothing can move the leaving variable to its bound: no solution.
DualUnbounded ==
    /\ pc = "dual" /\ InTime
    /\ LET values == Current
       IN \E p \in LeavingRows(values) :
            LET alpha == TableauRow(p, IF Below(basis.basic[p], values) THEN 1 ELSE -1)
            IN \A v \in basis.nonbasic : ~Helps(v, alpha[v])
    /\ result' = [result EXCEPT !.status = "PRIMAL_INFEASIBLE"]
    /\ pc' = "done"
    /\ UNCHANGED <<args, basis, numbers, fact, iter, cleanups>>

-----------------------------------------------------------------------------
(* The shifts are taken back; primal iterations repair what they hid.      *)

RestoreCosts ==
    /\ pc = "restore"
    /\ IF shift = ZeroVars THEN pc' = "assemble" /\ UNCHANGED <<c, y, d>>
       ELSE /\ c' = [v \in Vars |-> c[v] - shift[v]]
            /\ y' = DualValues(basis, fact, c')
            /\ d' = ReducedCosts(basis, c', y')
            /\ pc' = "cleanup"
    /\ UNCHANGED <<args, basis, x, shift, fact, iter, cleanups, result>>

Improving == {v \in basis.nonbasic : WrongSign(basis.status[v], d[v])}
Steepest == Min({v \in Improving : \A w \in Improving : Magnitude(d[v]) >= Magnitude(d[w])})

CleanupEnds ==
    /\ pc = "cleanup"
    /\ Improving = {} \/ cleanups >= MaxCleanup
    /\ pc' = "assemble"
    /\ UNCHANGED <<args, basis, numbers, fact, iter, cleanups, result>>

\* How far q may go before basic variable i is at a bound, as a fraction, and the bound.
Rate(q, v, i) == IF basis.status[q] = "AtLower" THEN v[i] ELSE -v[i]
Room(i, rate, values) ==
    LET bv == basis.basic[i]
    IN Larger(0, IF rate > 0 THEN values[bv] - Low(bv) ELSE Up(bv) - values[bv])

\* The basic variable that blocks first, 0 when q gets to its other bound before.
Blocking(q, v, values) ==
    LET rate == [i \in Rows |-> Rate(q, v, i)]
        room == [i \in Rows |-> Room(i, rate[i], values)]
        all == {i \in Rows : rate[i] # 0 /\ Finite(room[i]) /\
                    room[i] * One < (Up(q) - Low(q)) * Magnitude(rate[i])}
        first == {i \in all : \A k \in all : room[i] * Magnitude(rate[k]) <= room[k] * Magnitude(rate[i])}
    IN IF all = {} THEN 0 ELSE Min(first)

CleaningUp == pc = "cleanup" /\ Improving # {} /\ cleanups < MaxCleanup

EnteringColumn(v) == Ftran(fact, [r \in Rows |-> Column(v)[r] * One])
PrimalColumn == EnteringColumn(Steepest)

PrimalPivot ==
    /\ CleaningUp
    /\ LET q == Steepest
           v == PrimalColumn
           p == Blocking(q, v, Current)
           b == Swap(basis, p, q, IF Rate(q, v, p) > 0 THEN "AtLower" ELSE "AtUpper")
           f == Factorized(fact, BasisMatrix(b.basic))
       IN /\ p # 0
          /\ basis' = b
          /\ fact' = f
          /\ x' = Synced(b, x)
          /\ y' = DualValues(b, f, c)
          /\ d' = ReducedCosts(b, c, y')
    /\ iter' = iter + 1 /\ cleanups' = cleanups + 1
    /\ UNCHANGED <<args, c, shift, pc, result>>

PrimalFlip ==
    /\ CleaningUp
    /\ LET q == Steepest
       IN /\ Blocking(q, PrimalColumn, Current) = 0
          /\ Flippable(q)
          /\ basis' = Flipped(basis, {q})
          /\ x' = Synced(basis', x)
    /\ iter' = iter + 1 /\ cleanups' = cleanups + 1
    /\ UNCHANGED <<args, c, shift, y, d, fact, pc, result>>

\* The status set here does not survive Assemble.
PrimalUnbounded ==
    /\ CleaningUp
    /\ Blocking(Steepest, PrimalColumn, Current) = 0
    /\ ~Flippable(Steepest)
    /\ result' = [result EXCEPT !.status = "DUAL_INFEASIBLE_UNBOUNDED"]
    /\ pc' = "assemble"
    /\ UNCHANGED <<args, basis, numbers, fact, iter, cleanups>>

Worst(S) == Max({0} \cup S)

Assemble ==
    /\ pc = "assemble"
    /\ x' = Current
    /\ LET primal == Worst({Larger(Low(v) - x'[v], x'[v] - Up(v)) : v \in Vars})
           dual == Worst({Magnitude(d[v]) : v \in Improving})
       IN result' = [status |-> IF primal = 0 /\ dual = 0 THEN "OPTIMAL"
                                ELSE IF iter >= config.max_iterations THEN "MAX_ITERATIONS"
                                ELSE "OPTIMAL",
                     objective |-> Objective(x'), primal_inf |-> primal, dual_inf |-> dual]
    /\ pc' = "done"
    /\ UNCHANGED <<args, basis, c, shift, y, d, fact, iter, cleanups>>

Next ==
    \/ NoRows \/ NoColumns \/ Begin
    \/ PrimalFeasible \/ OutOfTime \/ DualPivot \/ DualUnbounded
    \/ RestoreCosts \/ CleanupEnds \/ PrimalPivot \/ PrimalFlip \/ PrimalUnbounded
    \/ Assemble

Spec == Init /\ [][Next]_vars

-----------------------------------------------------------------------------
(* Properties.                                                             *)

TypeOK ==
    /\ IsProgram(lp) /\ config \in Configs
    /\ pc \in {"start", "dual", "restore", "cleanup", "assemble", "done"}
    /\ iter \in Nat /\ iter <= config.max_iterations + cleanups
    /\ cleanups \in 0..MaxCleanup
    /\ result.status \in {"OPTIMAL", "PRIMAL_INFEASIBLE", "DUAL_INFEASIBLE_UNBOUNDED",
                          "MAX_ITERATIONS", "NUMERICAL_FAILURE"}

Started == basis # NoBasis
Working == pc \in {"dual", "restore", "cleanup", "assemble"}

\* Basis: the basic variables, everyone's status, the places and the list of nonbasic
\* variables, each kept on its own, describe one partition.
Partition(b) ==
    /\ IsValid(b) /\ DOMAIN b.place = Vars
    /\ b.nonbasic = {v \in Vars : b.status[v] # "Basic"}
    /\ \A v \in b.nonbasic : b.place[v] = 0
    /\ \A v \in Vars : b.status[v] = "Basic" => b.place[v] \in Rows /\ b.basic[b.place[v]] = v

BasisPartition == Started => Partition(basis)

\* basis_factorization.hpp: "x = B^{-1} b" and "y = B^{-T} b" for the basis the solver is
\* at, whatever mixture of old factors and etas the object is made of: every pivot
\* changed both the basis and the factors, and the results of refactorize are ignored.
FactorsMatchBasis ==
    Started =>
        /\ IsFactorized(fact)
        /\ LET B == BasisMatrix(basis.basic)
           IN \A k \in Rows :
                LET f == Ftran(fact, Unit(k, One))
                    g == Btran(fact, Unit(k, One))
                IN \A r \in Rows : /\ Total(LAMBDA i : B[r][i] * f[i], Rows) = IF r = k THEN One ELSE 0
                                   /\ Total(LAMBDA i : B[i][r] * g[i], Rows) = IF r = k THEN One ELSE 0

\* The solves the solver makes answer for the basis it is at, in whole numbers below
\* infinity: the point satisfies the rows, the dual values price the basic columns, a
\* tableau row is taken from multipliers that see one basic variable only, and what
\* stands for a column is the combination of basic columns that makes it.
PointSolves ==
    /\ Current \in [Vars -> Int]
    /\ \A v \in Vars : Finite(Current[v])
    /\ \A r \in Rows : Total(LAMBDA v : Column(v)[r] * Current[v], Vars) = 0
Prices(pi, w) == pi \in [Rows -> Int] /\ \A i \in Rows : Dot(Column(basis.basic[i]), pi) = w[i]
Answers(v, rhs) ==
    v \in [Rows -> Int] /\ \A r \in Rows : Total(LAMBDA i : Column(basis.basic[i])[r] * v[i], Rows) = rhs[r]
SolvesRight ==
    Working => /\ PointSolves
               /\ Prices(DualValues(basis, fact, c), [i \in Rows |-> c[basis.basic[i]]])
               /\ \A p \in Rows, u \in {One, -One} : Prices(Btran(fact, Unit(p, u)), Unit(p, u))
               /\ \A k \in Rows : Answers(Ftran(fact, Unit(k, One)), Unit(k, One))
               /\ \A v \in basis.nonbasic : Answers(EnteringColumn(v), [r \in Rows |-> Column(v)[r] * One])

\* The solver neither shifts, moves nor counts a free column that is not basic: what
\* follows about dual values holds only of models in which these cost nothing.
FreeColumnsCost == \E j \in Cols : ~Finite(lp.lo[j]) /\ ~Finite(lp.up[j]) /\ lp.c[j] # 0

\* simplex_types.hpp: what a status AtLower, AtUpper, Fixed or Free says of the bounds.
StatusesFit(b) ==
    \A v \in Vars :
        /\ b.status[v] \in {"Basic", "AtLower", "AtUpper", "Fixed", "Free"}
        /\ b.status[v] \in {"AtLower", "Fixed"} => Finite(Low(v))
        /\ b.status[v] = "AtUpper" => Finite(Up(v))
        /\ b.status[v] = "Fixed" => Low(v) = Up(v)
        /\ b.status[v] = "Free" => ~Finite(Low(v)) /\ ~Finite(Up(v))

StatusesMeanBounds == Started => StatusesFit(basis)

Activity(r, p) == Total(LAMBDA j : lp.a[r][j] * p[j], Cols)
FeasiblePoint(p) ==
    /\ \A j \in Cols : lp.lo[j] <= p[j] /\ p[j] <= lp.up[j]
    /\ \A r \in Rows : lp.rlo[r] <= Activity(r, p) /\ Activity(r, p) <= lp.rup[r]

\* Points to compare a verdict with: halves between the bounds, not far from 0.
Halves == {k * (One \div 2) : k \in -5..5}
GridSide(j) == {v \in Halves : lp.lo[j] <= v /\ v <= lp.up[j]}
Grid == {p \in [Cols -> UNION {GridSide(j) : j \in Cols}] : FeasiblePoint(p)}

\* A given basis may have slacks at a bound.  A shift of a slack's cost never reaches its
\* reduced cost, which is read off the dual values alone (dual_simplex.cpp:208).
SlacksShifted == \E i \in Rows : shift[Slack(i)] # 0

\* "Check dual feasibility of nonbasics; apply shift if needed" (dual_simplex.cpp:216):
\* from a start that shifts no slack, the dual iterations keep the shifted problem dual
\* feasible, through pivots, flips and refactorizations.  In a model without a solution
\* every candidate may be flipped and the first enters all the same (lines 419-422): then
\* the flipped ones are left on the wrong side.
DualFeasibleKept ==
    pc = "dual" /\ ~FreeColumnsCost /\ ~SlacksShifted /\ Grid # {} =>
        \A v \in basis.nonbasic :
            /\ ~WrongSign(basis.status[v], d[v])
            /\ basis.status[v] = "Free" => d[v] = 0

\* A nonbasic free column with a reduced cost: the solver neither moves it nor counts it.
FreeIgnored == \E v \in basis.nonbasic : basis.status[v] = "Free" /\ d[v] # 0

\* An answer OPTIMAL that is not contradicted by its own residuals is an optimum; for a
\* model without rows or columns no residuals are computed.
OptimalCertified ==
    pc = "done" /\ result.status = "OPTIMAL" /\ result.primal_inf = 0 /\ result.dual_inf = 0
      /\ lp.m # 0 /\ lp.n # 0 /\ ~FreeIgnored =>
        /\ FeasiblePoint([j \in Cols |-> x[j]])
        /\ \A p \in Grid : result.objective <= Objective(p)

\* TerminationStatus::PRIMAL_INFEASIBLE: there is no feasible point.
InfeasibleCertified == pc = "done" /\ result.status = "PRIMAL_INFEASIBLE" => Grid = {}

\* NUMERICAL_FAILURE is the answer to a singular start basis only: no pivot vanishes.
PivotsNeverVanish == pc = "done" /\ result.status = "NUMERICAL_FAILURE" => initial # NoBasis /\ iter = 0

\* A nonbasic variable is at its bound.
AtTheirBounds == \A v \in basis.nonbasic : x[v] = RestingValue(basis, v)

\* The dual values and reduced costs are those of the basis and the working costs, which
\* are the program's once the shifts are taken back.
WorkConsistent ==
    /\ pc = "start" => basis = NoBasis /\ c = Costs /\ result = NoResult
    /\ Working => /\ Started /\ lp.m # 0 /\ lp.n # 0
                  /\ AtTheirBounds
                  /\ y = DualValues(basis, fact, c) /\ d = ReducedCosts(basis, c, y)
                  /\ shift \in [Vars -> Int]
                  /\ c = IF pc \in {"dual", "restore"} THEN [v \in Vars |-> Costs[v] + shift[v]] ELSE Costs
                  /\ result = NoResult \/ pc = "assemble"

\* The basis, the statuses, the point and the dual values describe one thing at every step ...
BasisConsistent == TypeOK /\ BasisPartition /\ StatusesMeanBounds /\ WorkConsistent

\* ... and so do the factors; no pivot of theirs vanishes on the way.
FactorsConsistent == FactorsMatchBasis /\ SolvesRight /\ PivotsNeverVanish

\* An answer is true of the linear program: OPTIMAL without residuals is an optimum,
\* PRIMAL_INFEASIBLE has no feasible point.
VerdictsCertified == OptimalCertified /\ InfeasibleCertified

\* The objective value of the basic solution (of the shifted costs while pc is "dual"),
\* from its nonbasic side, in units of 1/One^2: the right-hand side of A x - s = 0 is 0.
BasicObjective == Total(LAMBDA v : d[v] * x[v], basis.nonbasic)

\* A dual iteration never lowers the objective, a primal one never raises it (unless a
\* variable's bounds cross, which the cleanup does not look at).
ObjectiveMoves ==
    /\ pc = "dual" /\ pc' = "dual" /\ ~FreeColumnsCost /\ ~SlacksShifted /\ Grid # {}
         => BasicObjective' >= BasicObjective
    /\ pc = "cleanup" /\ pc' = "cleanup" /\ InfeasibleRows(Current) = {} /\ (\A v \in Vars : Low(v) <= Up(v))
         => BasicObjective' <= BasicObjective
ObjectiveMonotone == [][ObjectiveMoves]_vars

\* Claims of the sources' comments.

\* TerminationStatus::OPTIMAL (solver_types.hpp:14): "Converged to required primal and dual
\* feasibility tolerances".
OptimalMeansConverged ==
    pc = "done" /\ result.status = "OPTIMAL" => result.primal_inf = 0 /\ result.dual_inf = 0

=============================================================================
