------------------------------ MODULE Postsolve ------------------------------
(***************************************************************************)
(* What becomes of a presolved model: a solver solves it, and              *)
(* PostsolveManager::postsolve (src/src/presolve/postsolve.cpp) turns the  *)
(* solution into one of the original model, undoing the recorded actions   *)
(* in reverse order.  Only this module looks at dual values.               *)
(*                                                                         *)
(* Signs as in the code: s = c - A^T y, y >= 0 where a row is at its lower *)
(* bound, y <= 0 where it is at its upper one.                             *)
(***************************************************************************)
EXTENDS Presolve

CONSTANT Duals    \* the dual values y the solver may return

ASSUME DualsAssumption == Duals \subseteq [Rows -> Int]

VARIABLES
    sol,      \* the PrimalDualSolution
    left,     \* how many actions of the stack have not been undone
    phase     \* "presolve", then "undo", then "recovered"

postsolved == <<sol, left, phase>>
allVars == <<vars, postsolved>>

Zero(S) == [k \in S |-> 0]

PostInit ==
    /\ Init
    /\ sol = [x |-> Zero(Cols), y |-> Zero(Rows), s |-> Zero(Cols), objective |-> 0, is_feasible |-> FALSE]
    /\ left = 0
    /\ phase = "presolve"

PresolveStep == phase = "presolve" /\ Next /\ UNCHANGED postsolved

ReducedCost(j, c, y) == c - SumFunction([i \in Rows |-> lp.a[i][j] * y[i]])

\* Optimality of a primal and a dual point: feasible, of the right signs, complementary.
Complementary(v, low, high, d) == (d > 0 => v = low) /\ (d < 0 => v = high)

OptimalFor(x, p, y) ==
    /\ FeasibleIn(x, p)
    /\ \A j \in x.cols : Complementary(p[j], x.lo[j], x.up[j], ReducedCost(j, x.c[j], y))
    /\ \A i \in x.rows : Complementary(Activity(i, p, x.cols), x.rlo[i], x.rup[i], y[i])

\* A solver (the simplex, PDHG) returns an optimal pair of the presolved model, which
\* postsolve scatters: what is gone starts as 0.
Solve ==
    /\ phase = "presolve" /\ pc = "done"
    /\ ~Proved(ctx)
    /\ \E p \in {q \in Points : (\A j \in Cols \ ctx.cols : q[j] = 0) /\ FeasibleIn(ctx, q)},
          y \in {d \in Duals : \A i \in Rows \ ctx.rows : d[i] = 0} :
          /\ OptimalFor(ctx, p, y)
          /\ sol' = [sol EXCEPT !.x = p, !.y = y,
                                !.s = [j \in Cols |-> IF j \in ctx.cols THEN ReducedCost(j, ctx.c[j], y) ELSE 0]]
    /\ left' = Len(ctx.stack)
    /\ phase' = "undo"
    /\ UNCHANGED vars

\* SingletonRowAction: the row's dual value, when the row is binding, is what the
\* reduced cost of its column leaves for it, with the row's sign.
SingletonRowDual(action, x, s) ==
    LET ax == action.coeff * x[action.col]
        share == Quotient(s[action.col], action.coeff)
    IN IF ax = action.lo /\ ax = action.up THEN share
       ELSE IF ax = action.lo THEN Greater(0, share)
       ELSE IF ax = action.up THEN Lesser(0, share)
       ELSE 0

\* One action undone (mutated: a fixed column's reduced cost leaves out the duals).
UndoneCostOnly(action, r) ==
    LET x == Restore(action, r.x)
    IN CASE action.type = "FixedVariable" -> [r EXCEPT !.x = x, !.s[action.col] = action.cost]
         [] action.type = "SingletonRow" ->
              [r EXCEPT !.y[action.row] = SingletonRowDual(action, r.x, r.s)]
         [] action.type = "SingletonColumn" ->
              [r EXCEPT !.x = x, !.y[action.row] = Quotient(action.cost, action.coeff), !.s[action.col] = 0]
         [] action.type = "RedundantRow" -> [r EXCEPT !.y[action.row] = 0]
Undone(action, r) ==
    LET x == Restore(action, r.x)
    IN CASE action.type = "FixedVariable" ->
              [r EXCEPT !.x = x, !.s[action.col] = ReducedCost(action.col, action.cost, r.y)]
         [] action.type = "SingletonRow" ->
              [r EXCEPT !.y[action.row] = SingletonRowDual(action, r.x, r.s)]
         [] action.type = "SingletonColumn" ->
              [r EXCEPT !.x = x, !.y[action.row] = Quotient(action.cost, action.coeff), !.s[action.col] = 0]
         [] action.type = "RedundantRow" ->
              [r EXCEPT !.y[action.row] = 0]

\* The action undone next: the one pushed last (mutated: the one pushed first).
NextActionFirst == ctx.stack[Len(ctx.stack) + 1 - left]
NextAction == ctx.stack[left]

Undo ==
    /\ phase = "undo" /\ left > 0
    /\ sol' = Undone(NextAction, sol)
    /\ left' = left - 1
    /\ UNCHANGED <<vars, phase>>

Recover ==
    /\ phase = "undo" /\ left = 0
    /\ sol' = [sol EXCEPT !.objective = Objective(sol.x), !.is_feasible = sol.x \in Feasible({sol.x})]
    /\ phase' = "recovered"
    /\ UNCHANGED <<vars, left>>

PostNext == PresolveStep \/ Solve \/ Undo \/ Recover

PostSpec == PostInit /\ [][PostNext]_allVars

-----------------------------------------------------------------------------
(* Properties.                                                             *)

\* A substituted column is computed from columns that have their values.
OthersKnown ==
    phase = "undo" /\ left > 0 /\ NextAction.type = "SingletonColumn" => NextAction.others \subseteq Known(left)

\* What has not been undone is a first part of the stack.
LeftOK == phase = "undo" => left \in 0..Len(ctx.stack)

\* docs/presolve.md 1.2 and 4.3, the primal half: the recovered point is feasible and
\* optimal in the original model, at the objective value of the presolved one.
RecoveredOptimal ==
    phase = "recovered" =>
        /\ sol.is_feasible
        /\ sol.objective = ObjectiveIn(ctx, sol.x)
        /\ \A p \in Feasible(Points) : sol.objective <= Objective(p)

\* With the passes that change neither a bound nor a cost the recovered pair is dual
\* feasible and complementary in the original model, and the reduced costs are those of its
\* dual values, though each was computed from what was known when its column was restored.
DualsRecovered ==
    phase = "recovered" /\ options.enabled \subseteq {"EmptyRowCol", "FixedVariable"} =>
        /\ OptimalFor(NewContext(lp), sol.x, sol.y)
        /\ \A j \in Cols : sol.s[j] = ReducedCost(j, lp.c[j], sol.y)

\* docs/presolve.md 1.2, the dual half, without that condition.
DualsAlwaysRecovered ==
    phase = "recovered" => OptimalFor(NewContext(lp), sol.x, sol.y)

=============================================================================
