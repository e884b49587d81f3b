------------------------------- MODULE Presolve -------------------------------
(***************************************************************************)
(* PresolvePassManager::run (src/src/presolve/presolve_pass_manager.cpp):  *)
(* five reduction passes (presolve_pass.cpp) over one shared working model *)
(* (PresolveContext), again and again until none of them finds anything,   *)
(* one proves the model infeasible or unbounded, or max_passes is reached. *)
(* Every reduction pushes the action that undoes it.                       *)
(*                                                                         *)
(* A pass runs over rows or columns by index; each iteration of its loop   *)
(* that does something is a step here, and cursor is the index it did it   *)
(* at, so the next step is at the least index after it that the loop's     *)
(* guards let through.                                                     *)
(*                                                                         *)
(* Values are integers and coefficients divide exactly (Quotient fails in  *)
(* TLC where they do not); tolerances are below one unit and vanish.       *)
(* Infinity is the IEEE infinity of the model, Threshold the smaller       *)
(* infinity_threshold from which presolve treats a bound as absent.        *)
(***************************************************************************)
EXTENDS Integers, FiniteSets, Sequences, FiniteSetsExt, SequencesExt

CONSTANTS
    M, N,         \* numbers of rows and columns
    Infinity,     \* model::Infinity
    Threshold,    \* PresolveOptions::infinity_threshold
    Models,       \* the models run() may be called with
    Settings,     \* the PresolveOptions it may be called with
    Points        \* the points the properties are stated over

Rows == 1..M
Cols == 1..N

Passes == {"EmptyRowCol", "FixedVariable", "Singleton", "ForcingRedundancy", "BoundTightening"}

Model == [a : [Rows -> [Cols -> Int]], c : [Cols -> Int], offset : Int,
          lo : [Cols -> Int], up : [Cols -> Int], rlo : [Rows -> Int], rup : [Rows -> Int]]

Setting == [max_passes : Nat, enabled : SUBSET Passes]

Status == {"Unchanged", "Reduced", "OptimalSolved", "Infeasible", "Unbounded"}

ASSUME SizesAssumption ==
    M \in Nat /\ N \in Nat /\ Threshold \in Nat /\ Infinity \in Nat /\ Threshold < Infinity
ASSUME ModelsAssumption == Models \subseteq Model
ASSUME SettingsAssumption == Settings \subseteq Setting
ASSUME PointsAssumption == Points \subseteq [Cols -> Int]

VARIABLES
    lp,         \* original_lp
    options,    \* options_
    ctx,        \* the PresolveContext
    pc,         \* which loop runs: the head of the iteration, a part of a pass, its end
    cursor,     \* the last index that part did something at
    iter,       \* the iterations begun
    reduced     \* reduced_in_iteration

args == <<lp, options>>
vars == <<lp, options, ctx, pc, cursor, iter, reduced>>

-----------------------------------------------------------------------------
(* The context: what is active, working bounds and costs, cached degrees,  *)
(* and the stack of the actions that undo what was done.                   *)

Finite(v) == -Threshold < v /\ v < Threshold
Quotient(v, a) == CHOOSE q \in (-Infinity)..Infinity : q * a = v
Lesser(v, w) == IF v <= w THEN v ELSE w
Greater(v, w) == IF v >= w THEN v ELSE w

\* The entries of row i and of column j that are still active.
RowEntries(x, i) == {j \in x.cols : lp.a[i][j] # 0}
ColEntries(x, j) == {i \in x.rows : lp.a[i][j] # 0}

CrossedBounds(m) == (\E j \in Cols : m.lo[j] > m.up[j]) \/ (\E i \in Rows : m.rlo[i] > m.rup[i])

NewContext(m) ==
    [rows |-> Rows, cols |-> Cols,
     rowDegree |-> [i \in Rows |-> Cardinality({j \in Cols : m.a[i][j] # 0})],
     colDegree |-> [j \in Cols |-> Cardinality({i \in Rows : m.a[i][j] # 0})],
     nnz |-> Cardinality({e \in Rows \X Cols : m.a[e[1]][e[2]] # 0}),
     lo |-> m.lo, up |-> m.up, rlo |-> m.rlo, rup |-> m.rup, c |-> m.c, offset |-> m.offset,
     status |-> IF CrossedBounds(m) THEN "Infeasible" ELSE "Unchanged",
     stack |-> <<>>]

Push(x, action) == [x EXCEPT !.stack = Append(@, action)]

\* Unsigned counters that are not taken below zero.
Minus(n, k) == IF n >= k THEN n - k ELSE 0

RemoveRow(x, i) ==
    [x EXCEPT !.rows = @ \ {i},
              !.rowDegree = [@ EXCEPT ![i] = 0],
              !.colDegree = [j \in Cols |-> IF j \in RowEntries(x, i) THEN Minus(@[j], 1) ELSE @[j]],
              !.nnz = Minus(@, Cardinality(RowEntries(x, i)))]

\* A removal that forgets to lower the degrees of the rows (mutated form).
RemoveColUncounted(x, j) ==
    [x EXCEPT !.cols = @ \ {j}, !.colDegree = [@ EXCEPT ![j] = 0]]

RemoveCol(x, j) ==
    [x EXCEPT !.cols = @ \ {j},
              !.colDegree = [@ EXCEPT ![j] = 0],
              !.rowDegree = [i \in Rows |-> IF i \in ColEntries(x, j) THEN Minus(@[i], 1) ELSE @[i]],
              !.nnz = Minus(@, Cardinality(ColEntries(x, j)))]

\* fix_variable: the finite bounds of the column's rows move by a_ij * v (mutated:
\* only the upper ones).
FixVariableHalf(x, j, v) ==
    LET shifted(i, b) == IF i \in ColEntries(x, j) /\ Finite(b) THEN b - lp.a[i][j] * v ELSE b
    IN RemoveCol(Push([x EXCEPT !.lo[j] = v, !.up[j] = v,
                                !.offset = @ + x.c[j] * v,
                                !.rup = [i \in Rows |-> shifted(i, @[i])]],
                      [type |-> "FixedVariable", col |-> j, val |-> v, cost |-> x.c[j]]), j)

FixVariable(x, j, v) ==
    LET shifted(i, b) == IF i \in ColEntries(x, j) /\ Finite(b) THEN b - lp.a[i][j] * v ELSE b
    IN RemoveCol(Push([x EXCEPT !.lo[j] = v, !.up[j] = v,
                                !.offset = @ + x.c[j] * v,
                                !.rlo = [i \in Rows |-> shifted(i, @[i])],
                                !.rup = [i \in Rows |-> shifted(i, @[i])]],
                      [type |-> "FixedVariable", col |-> j, val |-> v, cost |-> x.c[j]]), j)

\* A satisfied row is removed, its dual value is recorded as 0.
DropRow(x, i) == Push(RemoveRow(x, i), [type |-> "RedundantRow", row |-> i])

-----------------------------------------------------------------------------
(* The loop of run().                                                      *)

Parts == <<"emptyRows", "emptyCols", "fixed", "singletonRows", "singletonCols",
           "forcing", "tightening">>

PassOf == [emptyRows |-> "EmptyRowCol", emptyCols |-> "EmptyRowCol", fixed |-> "FixedVariable",
           singletonRows |-> "Singleton", singletonCols |-> "Singleton",
           forcing |-> "ForcingRedundancy", tightening |-> "BoundTightening"]

\* The part that runs after the first k of them, "check" when none does.
PartAfter(k) ==
    LET later == {n \in DOMAIN Parts : n > k /\ PassOf[Parts[n]] \in options.enabled}
    IN IF later = {} THEN "check" ELSE Parts[Min(later)]

Proved(x) == x.status \in {"Infeasible", "Unbounded"}

Init ==
    /\ lp \in Models
    /\ options \in Settings
    /\ ctx = NewContext(lp)
    /\ pc = "iterate"
    /\ cursor = 0
    /\ iter = 0
    /\ reduced = FALSE

\* The test of the for loop (mutated: one iteration too many).
PassesLeftOff == iter <= options.max_passes
PassesLeft == iter < options.max_passes

\* The head of the loop; a model without columns is called solved at once.
BeginIteration ==
    /\ pc = "iterate"
    /\ PassesLeft
    /\ IF ctx.cols = {}
       THEN ctx' = [ctx EXCEPT !.status = "OptimalSolved"] /\ pc' = "finish"
       ELSE UNCHANGED ctx /\ pc' = PartAfter(0)
    /\ cursor' = 0
    /\ reduced' = FALSE
    /\ UNCHANGED <<args, iter>>

PassLimitReached ==
    /\ pc = "iterate"
    /\ ~PassesLeft
    /\ pc' = "finish"
    /\ UNCHANGED <<args, ctx, cursor, iter, reduced>>

\* A pass that proved something returns, and no other runs in this iteration.
Prove(status) ==
    /\ ctx' = [ctx EXCEPT !.status = status]
    /\ pc' = "check"
    /\ UNCHANGED <<args, cursor, iter, reduced>>

\* What a part did at index k counts as a reduction (mutated: it does not).
DidUncounted(x, k) ==
    /\ ctx' = x
    /\ cursor' = k
    /\ UNCHANGED <<args, pc, iter, reduced>>

Did(x, k) ==
    /\ ctx' = x
    /\ cursor' = k
    /\ reduced' = TRUE
    /\ UNCHANGED <<args, pc, iter>>

\* Index k is the next one that part p does something at, S being those it would.
At(p, S, k) == pc = p /\ k \in S /\ k > cursor /\ \A l \in S : l > cursor => k <= l

-----------------------------------------------------------------------------
(* EmptyRowColPass.                                                        *)

EmptyRows == {i \in ctx.rows : ctx.rowDegree[i] = 0}
EmptyCols == {j \in ctx.cols : ctx.colDegree[j] = 0}

\* An empty row reads 0, which its bounds admit or not.
EmptyRowHolds(i) == ctx.rlo[i] <= 0 /\ ctx.rup[i] >= 0

EmptyRow ==
    \E i \in Rows :
        /\ At("emptyRows", EmptyRows, i)
        /\ IF EmptyRowHolds(i) THEN Did(DropRow(ctx, i), i) ELSE Prove("Infeasible")

\* The value at which an empty column costs least, 0 or the bound next to it when
\* it costs nothing.
LeastCost(j) ==
    IF ctx.c[j] > 0 THEN ctx.lo[j]
    ELSE IF ctx.c[j] < 0 THEN ctx.up[j]
    ELSE Lesser(Greater(0, ctx.lo[j]), ctx.up[j])

EmptyColumn ==
    \E j \in Cols :
        /\ At("emptyCols", EmptyCols, j)
        /\ IF ctx.lo[j] > ctx.up[j] THEN Prove("Infeasible")
           ELSE IF (ctx.c[j] > 0 /\ ctx.lo[j] <= -Threshold) \/ (ctx.c[j] < 0 /\ ctx.up[j] >= Threshold)
           THEN Prove("Unbounded")
           ELSE Did(FixVariable(ctx, j, LeastCost(j)), j)

-----------------------------------------------------------------------------
(* FixedVariablePass.                                                      *)

ClosedCols == {j \in ctx.cols : ~(ctx.lo[j] < ctx.up[j])}

FixedVariable ==
    \E j \in Cols :
        /\ At("fixed", ClosedCols, j)
        /\ IF ctx.lo[j] > ctx.up[j] THEN Prove("Infeasible") ELSE Did(FixVariable(ctx, j, ctx.lo[j]), j)

-----------------------------------------------------------------------------
(* SingletonPass.                                                          *)

SingletonRows == {i \in ctx.rows : ctx.rowDegree[i] = 1 /\ RowEntries(ctx, i) # {}}

\* The interval the row leaves its column; where the row has no bound it is
\* infinity_threshold and not infinity.
Implied(i, j) ==
    LET a == lp.a[i][j]
        low == IF ctx.rlo[i] > -Threshold THEN Quotient(ctx.rlo[i], a) ELSE IF a > 0 THEN -Threshold ELSE Threshold
        high == IF ctx.rup[i] < Threshold THEN Quotient(ctx.rup[i], a) ELSE IF a > 0 THEN Threshold ELSE -Threshold
    IN IF a > 0 THEN [lo |-> low, up |-> high] ELSE [lo |-> high, up |-> low]

\* The bounds of column j under row i (mutated: the row's sign is ignored).
UnderRowUnsigned(i, j) ==
    [lo |-> Greater(ctx.lo[j], ctx.rlo[i]), up |-> Lesser(ctx.up[j], ctx.rup[i])]
UnderRow(i, j) ==
    [lo |-> Greater(ctx.lo[j], Implied(i, j).lo), up |-> Lesser(ctx.up[j], Implied(i, j).up)]

SingletonRow ==
    \E i \in Rows :
        /\ At("singletonRows", SingletonRows, i)
        /\ LET j == Min(RowEntries(ctx, i))
               new == UnderRow(i, j)
               action == [type |-> "SingletonRow", row |-> i, col |-> j, coeff |-> lp.a[i][j],
                          lo |-> ctx.rlo[i], up |-> ctx.rup[i]]
           IN IF new.lo > new.up THEN Prove("Infeasible")
              ELSE Did(RemoveRow(Push([ctx EXCEPT !.lo[j] = new.lo, !.up[j] = new.up], action), i), i)

\* The row a singleton column may be substituted through: an equality with others.
SubstitutionRow(j) == Min(ColEntries(ctx, j))
SingletonCols ==
    {j \in ctx.cols : /\ ctx.colDegree[j] = 1
                      /\ ColEntries(ctx, j) # {}
                      /\ ctx.rlo[SubstitutionRow(j)] = ctx.rup[SubstitutionRow(j)]
                      /\ ctx.rowDegree[SubstitutionRow(j)] >= 2}

\* The bounds of x_j, carried over to the row that is left.
Carried(j, i) ==
    LET a == lp.a[i][j]
        most == IF a > 0 THEN ctx.up[j] ELSE ctx.lo[j]
        least == IF a > 0 THEN ctx.lo[j] ELSE ctx.up[j]
    IN [lo |-> IF Finite(most) THEN ctx.rlo[i] - a * most ELSE -Threshold,
        up |-> IF Finite(least) THEN ctx.rlo[i] - a * least ELSE Threshold]

SingletonColumn ==
    \E j \in Cols :
        /\ At("singletonCols", SingletonCols, j)
        /\ LET i == SubstitutionRow(j)
               a == lp.a[i][j]
               others == RowEntries(ctx, i) \ {j}
               action == [type |-> "SingletonColumn", col |-> j, row |-> i, coeff |-> a,
                          cost |-> ctx.c[j], rhs |-> ctx.rlo[i], others |-> others]
           IN Did(RemoveCol(Push([ctx EXCEPT
                    !.c = [k \in Cols |-> IF k \in others
                                          THEN @[k] - Quotient(ctx.c[j] * lp.a[i][k], a) ELSE @[k]],
                    !.offset = @ + Quotient(ctx.c[j] * ctx.rlo[i], a),
                    !.rlo[i] = Carried(j, i).lo, !.rup[i] = Carried(j, i).up], action), j), j)

-----------------------------------------------------------------------------
(* ForcingRedundancyPass and BoundTighteningPass: row activities.          *)

\* The bound of x_k that makes a_ik x_k least, and greatest.
LowEnd(i, k) == IF lp.a[i][k] > 0 THEN ctx.lo[k] ELSE ctx.up[k]
HighEnd(i, k) == IF lp.a[i][k] > 0 THEN ctx.up[k] ELSE ctx.lo[k]

\* The entries that leave the activity without a lower, without an upper bound.
LowOpen(i) == {k \in RowEntries(ctx, i) : ~Finite(LowEnd(i, k))}
HighOpen(i) == {k \in RowEntries(ctx, i) : ~Finite(HighEnd(i, k))}

MinActivity(i) == SumFunction([k \in RowEntries(ctx, i) \ LowOpen(i) |-> lp.a[i][k] * LowEnd(i, k)])
MaxActivity(i) == SumFunction([k \in RowEntries(ctx, i) \ HighOpen(i) |-> lp.a[i][k] * HighEnd(i, k)])

Impossible(i) ==
    \/ LowOpen(i) = {} /\ ctx.rup[i] < Threshold /\ MinActivity(i) > ctx.rup[i]
    \/ HighOpen(i) = {} /\ ctx.rlo[i] > -Threshold /\ MaxActivity(i) < ctx.rlo[i]

\* Every point of the box satisfies the row (mutated: only its upper side).
RedundantAbove(i) ==
    LowOpen(i) = {} /\ HighOpen(i) = {} /\ MaxActivity(i) <= ctx.rup[i]
Redundant(i) ==
    LowOpen(i) = {} /\ HighOpen(i) = {} /\ MinActivity(i) >= ctx.rlo[i] /\ MaxActivity(i) <= ctx.rup[i]

ForcesLow(i) == LowOpen(i) = {} /\ ctx.rup[i] < Threshold /\ MinActivity(i) = ctx.rup[i]
ForcesHigh(i) == HighOpen(i) = {} /\ ctx.rlo[i] > -Threshold /\ MaxActivity(i) = ctx.rlo[i]

ActivityRows == {i \in ctx.rows : ctx.rowDegree[i] > 0 /\
                    (Impossible(i) \/ Redundant(i) \/ ForcesLow(i) \/ ForcesHigh(i))}

\* A row that forces its columns to one end of its activity is left to ForceColumn.
ForcingRedundancy ==
    \E i \in Rows :
        /\ At("forcing", ActivityRows, i)
        /\ IF Impossible(i) THEN Prove("Infeasible")
           ELSE IF Redundant(i) THEN Did(DropRow(ctx, i), i)
           ELSE /\ cursor' = i
                /\ pc' = IF ForcesLow(i) THEN "forceLow" ELSE "forceHigh"
                /\ UNCHANGED <<args, ctx, iter, reduced>>

\* The columns of the forcing row are fixed one after another; then the row goes.
ForceColumn ==
    /\ pc \in {"forceLow", "forceHigh"}
    /\ LET i == cursor
           k == Min(RowEntries(ctx, i))
       IN IF RowEntries(ctx, i) = {}
          THEN ctx' = DropRow(ctx, i) /\ pc' = "forcing"
          ELSE /\ ctx' = FixVariable(ctx, k, IF pc = "forceLow" THEN LowEnd(i, k) ELSE HighEnd(i, k))
               /\ UNCHANGED pc
    /\ reduced' = TRUE
    /\ UNCHANGED <<args, cursor, iter>>

\* What row i implies for x_k given the activities of the row as they were read
\* before the loop over its columns: a bound at the high end of a_ik x_k from the
\* row's upper bound, then one at the low end from its lower bound.  The second
\* test reads the bound the first has just set.  (Mutated: x_k's own part of the
\* activity is not taken out.)
HighRoomWhole(i, k) == ctx.rup[i] - MinActivity(i)
HighRoom(i, k) ==
    ctx.rup[i] - (MinActivity(i) - (IF k \in LowOpen(i) THEN 0 ELSE lp.a[i][k] * LowEnd(i, k)))

HighEndUnder(i, k) ==
    LET implied == Quotient(HighRoom(i, k), lp.a[i][k])
    IN IF ctx.rup[i] < Threshold /\ LowOpen(i) \subseteq {k}
       THEN IF lp.a[i][k] > 0 THEN Lesser(HighEnd(i, k), implied) ELSE Greater(HighEnd(i, k), implied)
       ELSE HighEnd(i, k)

OpenAbove(i, k) == HighOpen(i) \ (IF Finite(HighEndUnder(i, k)) THEN {} ELSE {k})
LowRoom(i, k) ==
    ctx.rlo[i] - (MaxActivity(i)
                  - (IF Finite(HighEndUnder(i, k)) THEN lp.a[i][k] * HighEndUnder(i, k) ELSE 0))

LowEndUnder(i, k) ==
    LET implied == Quotient(LowRoom(i, k), lp.a[i][k])
    IN IF ctx.rlo[i] > -Threshold /\ OpenAbove(i, k) = {}
       THEN IF lp.a[i][k] > 0 THEN Greater(LowEnd(i, k), implied) ELSE Lesser(LowEnd(i, k), implied)
       ELSE LowEnd(i, k)

NewLower(i, k) == IF lp.a[i][k] > 0 THEN LowEndUnder(i, k) ELSE HighEndUnder(i, k)
NewUpper(i, k) == IF lp.a[i][k] > 0 THEN HighEndUnder(i, k) ELSE LowEndUnder(i, k)

Crosses(i) == {k \in RowEntries(ctx, i) : NewLower(i, k) > NewUpper(i, k)}
Tightens(i) == {k \in RowEntries(ctx, i) : NewLower(i, k) # ctx.lo[k] \/ NewUpper(i, k) # ctx.up[k]}
TighteningRows == {i \in ctx.rows : ctx.rowDegree[i] > 1 /\ Crosses(i) \cup Tightens(i) # {}}

BoundTightening ==
    \E i \in Rows :
        /\ At("tightening", TighteningRows, i)
        /\ IF Crosses(i) # {} THEN Prove("Infeasible")
           ELSE Did([ctx EXCEPT
                       !.lo = [k \in Cols |-> IF k \in Tightens(i) THEN NewLower(i, k) ELSE @[k]],
                       !.up = [k \in Cols |-> IF k \in Tightens(i) THEN NewUpper(i, k) ELSE @[k]]], i)

-----------------------------------------------------------------------------
(* The ends of a part, of an iteration and of the run.                     *)

Work(part) ==
    CASE part = "emptyRows" -> EmptyRows
      [] part = "emptyCols" -> EmptyCols
      [] part = "fixed" -> ClosedCols
      [] part = "singletonRows" -> SingletonRows
      [] part = "singletonCols" -> SingletonCols
      [] part = "forcing" -> ActivityRows
      [] part = "tightening" -> TighteningRows

\* A proof made when the context was built (bounds that cross) is seen only when
\* the first pass has ended.
EndPart ==
    \E n \in DOMAIN Parts :
        /\ pc = Parts[n]
        /\ \A k \in Work(pc) : k <= cursor
        /\ pc' = IF pc \notin {"emptyRows", "singletonRows"} /\ Proved(ctx) THEN "check" ELSE PartAfter(n)
        /\ cursor' = 0
        /\ UNCHANGED <<args, ctx, iter, reduced>>

EndIteration ==
    /\ pc = "check"
    /\ iter' = iter + 1
    /\ IF ~Proved(ctx) /\ ctx.cols = {}
       THEN ctx' = [ctx EXCEPT !.status = "OptimalSolved"]
       ELSE UNCHANGED ctx
    /\ pc' = IF Proved(ctx) \/ ctx.cols = {} \/ ~reduced THEN "finish" ELSE "iterate"
    /\ UNCHANGED <<args, cursor, reduced>>

FinalStatus ==
    IF Proved(ctx) THEN ctx.status
    ELSE IF ctx.cols = {} THEN "OptimalSolved"
    ELSE IF ctx.cols # Cols \/ ctx.rows # Rows THEN "Reduced"
    ELSE "Unchanged"

\* What is active becomes the presolved model; a proof returns no model.
Finish ==
    /\ pc = "finish"
    /\ ctx' = [ctx EXCEPT !.status = FinalStatus]
    /\ pc' = "done"
    /\ UNCHANGED <<args, cursor, iter, reduced>>

Next ==
    \/ BeginIteration \/ PassLimitReached \/ EndPart \/ EndIteration \/ Finish
    \/ EmptyRow \/ EmptyColumn \/ FixedVariable \/ SingletonRow \/ SingletonColumn
    \/ ForcingRedundancy \/ ForceColumn \/ BoundTightening

Spec == Init /\ [][Next]_vars

\* One thread, that runs until it returns.
FairSpec == Spec /\ WF_vars(Next)

-----------------------------------------------------------------------------
(* Properties.  A point gives every column a value; those of an eliminated *)
(* column are not looked at where a working model is concerned.            *)

Activity(i, p, S) == SumFunction([j \in S |-> lp.a[i][j] * p[j]])
Between(v, low, high) == low <= v /\ v <= high

\* The points of G that satisfy the model run() was given.
Feasible(G) ==
    {p \in G : /\ \A j \in Cols : Between(p[j], lp.lo[j], lp.up[j])
               /\ \A i \in Rows : Between(Activity(i, p, Cols), lp.rlo[i], lp.rup[i])}

Objective(p) == lp.offset + SumFunction([j \in Cols |-> lp.c[j] * p[j]])

\* p satisfies what is left of the working model (a bound beyond the threshold is none).
FeasibleIn(x, p) ==
    /\ \A j \in x.cols : (Finite(x.lo[j]) => x.lo[j] <= p[j]) /\ (Finite(x.up[j]) => p[j] <= x.up[j])
    /\ \A i \in x.rows : /\ Finite(x.rlo[i]) => x.rlo[i] <= Activity(i, p, x.cols)
                         /\ Finite(x.rup[i]) => Activity(i, p, x.cols) <= x.rup[i]

ObjectiveIn(x, p) == x.offset + SumFunction([j \in x.cols |-> x.c[j] * p[j]])

\* The primal half of undoing one action, and of undoing them all.
Restore(action, p) ==
    CASE action.type = "FixedVariable" -> [p EXCEPT ![action.col] = action.val]
      [] action.type = "SingletonColumn" ->
            [p EXCEPT ![action.col] =
                Quotient(action.rhs - Activity(action.row, p, action.others), action.coeff)]
      [] OTHER -> p

Restored(x, p) == FoldRight(Restore, x.stack, p)

\* The same, but for the first n actions of stack s.
UndoneTo(s, n, p) ==
    MapThenFoldSet(Restore, p, LAMBDA k : s[k], LAMBDA S : Min(S), (n + 1)..Len(s))

Fields == {"rows", "cols", "rowDegree", "colDegree", "nnz", "lo", "up", "rlo", "rup", "c",
           "offset", "status", "stack"}

InIteration == pc \in ToSet(Parts) \cup {"forceLow", "forceHigh", "check"}

\* What steers the loops, and what is active.
ControlOK ==
    /\ lp \in Models /\ options \in Settings
    /\ pc \in {"iterate", "forceLow", "forceHigh", "check", "finish", "done"} \cup ToSet(Parts)
    /\ cursor \in 0..Greater(M, N)
    /\ iter \in 0..options.max_passes
    /\ InIteration => iter < options.max_passes
    /\ reduced \in BOOLEAN
    /\ DOMAIN ctx = Fields
    /\ ctx.rows \subseteq Rows /\ ctx.cols \subseteq Cols
    /\ ctx.rowDegree \in [Rows -> Nat] /\ ctx.colDegree \in [Cols -> Nat] /\ ctx.nnz \in Nat
    /\ ctx.status \in Status
    /\ ctx.stack \in Seq(ToSet(ctx.stack))

\* The numbers of the working model.
NumbersOK ==
    /\ ctx.lo \in [Cols -> Int] /\ ctx.up \in [Cols -> Int] /\ ctx.c \in [Cols -> Int]
    /\ ctx.rlo \in [Rows -> Int] /\ ctx.rup \in [Rows -> Int] /\ ctx.offset \in Int

TypeOK == ControlOK /\ NumbersOK

\* The cached degrees and the count of nonzeros are those of what is active: the
\* passes decide by them, and nothing ever recomputes them.
CachesExact ==
    /\ \A i \in Rows : ctx.rowDegree[i] = IF i \in ctx.rows THEN Cardinality(RowEntries(ctx, i)) ELSE 0
    /\ \A j \in Cols : ctx.colDegree[j] = IF j \in ctx.cols THEN Cardinality(ColEntries(ctx, j)) ELSE 0
    /\ ctx.nnz = Cardinality({e \in ctx.rows \X ctx.cols : lp.a[e[1]][e[2]] # 0})

\* docs/presolve.md 1.2, one half of the equivalence: what is left of a solution of
\* the model is a solution of the working model that costs no more.
SolutionsKept ==
    ~Proved(ctx) => \A p \in Feasible(Points) :
        FeasibleIn(ctx, p) /\ ObjectiveIn(ctx, p) <= Objective(p)

\* Every column and every row that is gone is restored by exactly one action.
RemovalsRecorded ==
    /\ \A j \in Cols \ ctx.cols :
            Cardinality({k \in DOMAIN ctx.stack : ctx.stack[k].type \in {"FixedVariable", "SingletonColumn"}
                                                  /\ ctx.stack[k].col = j}) = 1
    /\ \A i \in Rows \ ctx.rows :
            Cardinality({k \in DOMAIN ctx.stack : ctx.stack[k].type \in {"RedundantRow", "SingletonRow"}
                                                  /\ ctx.stack[k].row = i}) = 1

\* The other half: undoing the recorded actions turns any solution of the working
\* model into a solution of the model at the same objective value.
Recoverable ==
    /\ RemovalsRecorded
    /\ ~Proved(ctx) => \A p \in Points :
        FeasibleIn(ctx, p) =>
            LET q == Restored(ctx, p)
            IN Feasible({q}) = {q} /\ Objective(q) = ObjectiveIn(ctx, p)

\* A direction that keeps every bound of the model and always lowers the objective.
Ray(d) ==
    /\ \A j \in Cols : (lp.lo[j] # -Infinity => d[j] >= 0) /\ (lp.up[j] # Infinity => d[j] <= 0)
    /\ \A i \in Rows : /\ lp.rlo[i] # -Infinity => Activity(i, d, Cols) >= 0
                       /\ lp.rup[i] # Infinity => Activity(i, d, Cols) <= 0
    /\ SumFunction([j \in Cols |-> lp.c[j] * d[j]]) < 0

\* docs/presolve.md 1.2 and presolve_types.hpp: what is proved infeasible has no solution,
\* what is proved unbounded has a direction without end.
InfeasibleHasNone == ctx.status = "Infeasible" => Feasible(Points) = {}
UnboundedHasRay == ctx.status = "Unbounded" => \E d \in Points : Ray(d)

VerdictsProved == InfeasibleHasNone /\ UnboundedHasRay

\* The fixed point: a run no limit cut short leaves no empty and no singleton row,
\* no empty and no fixed column.
FixedPoint ==
    pc = "done" /\ ~reduced /\ iter > 0 /\ options.enabled = Passes /\ ctx.status \in {"Reduced", "Unchanged"} =>
        /\ \A i \in ctx.rows : Cardinality(RowEntries(ctx, i)) >= 2
        /\ \A j \in ctx.cols : ColEntries(ctx, j) # {} /\ ctx.lo[j] < ctx.up[j]

\* Conjuncts that make CachesExact, FixedPoint, RemovalsRecorded and Postsolve's
\* OthersKnown inductive.

\* The row whose columns are being fixed is there until the last of them is.
ForcingRowActive == pc \in {"forceLow", "forceHigh"} => cursor \in ctx.rows

\* Part n has ended in the iteration that runs, or in the last one.
Ended(n) ==
    \/ pc = "check"
    \/ pc \in {"finish", "done"} /\ iter > 0
    \/ \E m \in DOMAIN Parts : n < m /\ pc = Parts[m]

\* While an iteration has done nothing, no part of it that has ended has anything to do.
NothingLeft ==
    ~reduced /\ ~Proved(ctx) /\ ctx.cols # {} =>
        /\ pc = "iterate" => iter = 0
        /\ pc \in ToSet(Parts) => cursor = 0
        /\ \A n \in DOMAIN Parts :
                Ended(n) /\ PassOf[Parts[n]] \in options.enabled => Work(Parts[n]) = {}

\* A model that is neither proved nor solved keeps a column.
ColumnsLeft == pc = "done" /\ ctx.status \in {"Reduced", "Unchanged"} => ctx.cols # {}

\* No action restores a column or a row that is there.
ActiveUnrecorded ==
    \A k \in DOMAIN ctx.stack :
        /\ ctx.stack[k].type \in {"FixedVariable", "SingletonColumn"} => ctx.stack[k].col \notin ctx.cols
        /\ ctx.stack[k].type \in {"RedundantRow", "SingletonRow"} => ctx.stack[k].row \notin ctx.rows

\* The columns that are there once the first n actions are all that is left to undo.
Known(n) ==
    ctx.cols \cup {ctx.stack[k].col : k \in {m \in (n + 1)..Len(ctx.stack) :
                        ctx.stack[m].type \in {"FixedVariable", "SingletonColumn"}}}

\* The columns a substituted one is computed from are gone only by later actions.
OthersRecorded ==
    \A n \in DOMAIN ctx.stack :
        ctx.stack[n].type = "SingletonColumn" => ctx.stack[n].others \subseteq Known(n)

ActiveInductive ==
    ControlOK /\ CachesExact /\ ForcingRowActive /\ NothingLeft /\ ColumnsLeft
    /\ ActiveUnrecorded /\ RemovalsRecorded /\ OthersRecorded

\* Conjuncts that make SolutionsKept and InfeasibleHasNone inductive.

\* p keeps the bounds of the working model that count: a lower one above -Threshold,
\* an upper one below Threshold.
Fits(x, p) ==
    /\ \A j \in x.cols : (x.lo[j] > -Threshold => x.lo[j] <= p[j]) /\ (x.up[j] < Threshold => p[j] <= x.up[j])
    /\ \A i \in x.rows : /\ x.rlo[i] > -Threshold => x.rlo[i] <= Activity(i, p, x.cols)
                         /\ x.rup[i] < Threshold => Activity(i, p, x.cols) <= x.rup[i]

\* Every solution, whatever has been proved since, is still one at no greater cost.
SolutionsFit == \A p \in Feasible(Points) : Fits(ctx, p) /\ ObjectiveIn(ctx, p) <= Objective(p)

\* In every solution the columns of a forcing row are at the ends it forces them to.
ForcedEnds ==
    /\ pc = "forceLow" => \A p \in Feasible(Points), k \in RowEntries(ctx, cursor) : p[k] = LowEnd(cursor, k)
    /\ pc = "forceHigh" => \A p \in Feasible(Points), k \in RowEntries(ctx, cursor) : p[k] = HighEnd(cursor, k)

SolutionsInductive == NumbersOK /\ SolutionsFit /\ ForcedEnds /\ InfeasibleHasNone

\* Conjuncts that, with an account of every point of the working model, make Recoverable
\* inductive.

\* A proof that stands when an iteration begins was made with the context.
ProvedAtStart == pc = "iterate" /\ Proved(ctx) => ctx = NewContext(lp)

\* No bounds of the working model cross.
Uncrossed ==
    ~Proved(ctx) /\ ctx.cols # {} =>
        /\ \A j \in ctx.cols : ctx.lo[j] <= ctx.up[j]
        /\ \A i \in ctx.rows : ctx.rlo[i] <= ctx.rup[i]

\* With its columns at the ends it forces them to, a forcing row holds.
ForcedRowHolds ==
    LET Allows(v) == /\ ctx.rlo[cursor] > -Threshold => ctx.rlo[cursor] <= v
                     /\ ctx.rup[cursor] < Threshold => v <= ctx.rup[cursor]
    IN ~Proved(ctx) =>
          /\ pc = "forceLow" => LowOpen(cursor) = {} /\ Allows(MinActivity(cursor))
          /\ pc = "forceHigh" => HighOpen(cursor) = {} /\ Allows(MaxActivity(cursor))

RecoveryInductive == ProvedAtStart /\ Uncrossed /\ ForcedRowHolds

\* What the numbers of the model must be for its integers to stand for the code's:
\* divisions come out even ...
Divides(a, v) == \E q \in (-Infinity)..Infinity : q * a = v

DivisionsExact ==
    /\ pc = "singletonRows" => \A i \in SingletonRows :
          LET a == lp.a[i][Min(RowEntries(ctx, i))]
          IN /\ ctx.rlo[i] > -Threshold => Divides(a, ctx.rlo[i])
             /\ ctx.rup[i] < Threshold => Divides(a, ctx.rup[i])
    /\ pc = "singletonCols" => \A j \in SingletonCols :
          LET i == SubstitutionRow(j)
          IN /\ Divides(lp.a[i][j], ctx.c[j] * ctx.rlo[i])
             /\ \A k \in RowEntries(ctx, i) : Divides(lp.a[i][j], ctx.c[j] * lp.a[i][k])
    /\ pc = "tightening" => \A i \in ctx.rows : ctx.rowDegree[i] > 1 =>
          \A k \in RowEntries(ctx, i) :
             /\ ctx.rup[i] < Threshold /\ LowOpen(i) \subseteq {k} => Divides(lp.a[i][k], HighRoom(i, k))
             /\ ctx.rlo[i] > -Threshold /\ OpenAbove(i, k) = {} => Divides(lp.a[i][k], LowRoom(i, k))

\* ... what the points make of a row stays below infinity_threshold ...
SmallPoint(p) ==
    /\ \A j \in Cols : Finite(p[j])
    /\ \A i \in Rows, S \in SUBSET Cols : Finite(Activity(i, p, S))

SmallPoints == \A p \in Points : SmallPoint(p)

\* ... no lower bound reaches the threshold and no upper one its negative ...
BoundsSided ==
    ~Proved(ctx) =>
        /\ \A j \in ctx.cols : ctx.lo[j] < Threshold /\ -Threshold < ctx.up[j]
        /\ \A i \in ctx.rows : ctx.rlo[i] < Threshold /\ -Threshold < ctx.rup[i]

\* ... and the points restored on the way from a solution of the working model are small
\* and come out even.
RestoresWell(s, p) ==
    \A n \in 0..Len(s) :
        LET q == UndoneTo(s, n, p)
        IN /\ q \in [Cols -> Int] /\ SmallPoint(q)
           /\ n > 0 /\ s[n].type = "SingletonColumn" =>
                 Divides(s[n].coeff, s[n].rhs - Activity(s[n].row, q, s[n].others))

RestoringExact ==
    ~Proved(ctx) => \A p \in Points : FeasibleIn(ctx, p) => RestoresWell(ctx.stack, p)

\* The inductive invariant as a whole, after what is assumed of the numbers (SmallPoints
\* does not change in a run; what is restored is looked at between the iterations).
Inductive ==
    /\ pc = "iterate" => SmallPoints
    /\ DivisionsExact /\ BoundsSided
    /\ pc \in {"iterate", "finish"} => RestoringExact
    /\ TypeOK /\ ActiveInductive /\ SolutionsInductive /\ RecoveryInductive

\* Claims of the sources' comments.

\* docs/presolve.md 1.2: an optimum of the presolved model is one of the model, so a
\* direction without end must stay one for the solvers, to whom every bound but the
\* IEEE infinity is a bound.
RaysSurvive ==
    pc = "done" /\ ctx.status \in {"Reduced", "Unchanged"} => \A d \in Points : Ray(d) =>
        \A j \in ctx.cols : (d[j] < 0 => ctx.lo[j] = -Infinity) /\ (d[j] > 0 => ctx.up[j] = Infinity)

\* presolve_types.hpp: OptimalSolved means the problem is solved.
SolvedHasSolution == ctx.status = "OptimalSolved" /\ pc = "done" => Feasible(Points) # {}

=============================================================================
