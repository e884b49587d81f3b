---------------------------- MODULE MCFirstOrder ----------------------------
(***************************************************************************)
(* Calls of solve_end_to_end for TLC.  Factors of the scalings are powers  *)
(* of two; a unit is 1/256.                                                *)
(***************************************************************************)
EXTENDS EndToEnd

MCEndless == 1000000
MCBlowup == 8 * One

Whole(v) == IF Magnitude(v) >= 1000 THEN (IF v < 0 THEN -MCEndless ELSE MCEndless) ELSE v * One

\* A program of integers; 1000 is an infinite bound.
Model(a, c, cb, rb) ==
    [rows |-> DOMAIN rb, cols |-> DOMAIN c, offset |-> One, csc |-> TRUE,
     a |-> [i \in DOMAIN rb |-> [j \in DOMAIN c |-> a[i][j] * One]],
     c |-> [j \in DOMAIN c |-> c[j] * One],
     lo |-> [j \in DOMAIN c |-> Whole(cb[j][1])], up |-> [j \in DOMAIN c |-> Whole(cb[j][2])],
     rlo |-> [i \in DOMAIN rb |-> Whole(rb[i][1])], rup |-> [i \in DOMAIN rb |-> Whole(rb[i][2])]]

\* The optimal pairs among the integer points.
Candidates(lp) ==
    {[x |-> [j \in lp.cols |-> x[j] * One], y |-> [i \in lp.rows |-> y[i] * One]] :
        x \in [lp.cols -> -1 .. 4], y \in [lp.rows -> -3 .. 3]}
Solved(lp) == [lp |-> lp, saddles |-> {p \in Candidates(lp) : IsSaddle(lp, p)}]

\* Rows that bind at either side, an equality, a free column, ties; [[4, 0], [1, 1]] and
\* [[16, 1]] have exact roots in the first passes of Ruiz.
TwoRows == Solved(Model(<<<<1, 1>>, <<1, -1>>>>, <<1, 3>>, <<<<0, 1000>>, <<0, 3>>>>, <<<<3, 1000>>, <<-1, 1>>>>))
Equality == Solved(Model(<<<<1, 1>>>>, <<2, 3>>, <<<<0, 1000>>, <<0, 1000>>>>, <<<<4, 4>>>>))
Packing == Solved(Model(<<<<1, 1>>>>, <<-2, -1>>, <<<<0, 3>>, <<0, 3>>>>, <<<<-1000, 4>>>>))
Ruizable == Solved(Model(<<<<4, 0>>, <<1, 1>>>>, <<5, 1>>, <<<<0, 4>>, <<-1, 1000>>>>, <<<<4, 1000>>, <<2, 3>>>>))
Lopsided == Solved(Model(<<<<16, 1>>>>, <<1, -1>>, <<<<0, 2>>, <<0, 1000>>>>, <<<<-1000, 4>>>>))
FreeColumn == Solved(Model(<<<<1, 1>>>>, <<1, 1>>, <<<<-1000, 1000>>, <<0, 2>>>>, <<<<1, 1000>>>>))
SumsOfFour == Solved(Model(<<<<2, 2>>, <<2, -2>>>>, <<2, -2>>, <<<<0, 2>>, <<0, 2>>>>, <<<<0, 6>>, <<-2, 1000>>>>))
OneFixed == Solved(Model(<<<<1, 1, 2>>, <<1, -1, 0>>>>, <<1, 3, 2>>, <<<<0, 1000>>, <<0, 3>>, <<1, 1>>>>, <<<<5, 1000>>, <<-1, 1>>>>))
AllFixed == Solved(Model(<<<<1, 1>>>>, <<1, 2>>, <<<<2, 2>>, <<1, 1>>>>, <<<<3, 3>>>>))
Crossing == Solved(Model(<<<<1, 1>>>>, <<1, 2>>, <<<<2, 2>>, <<2, 1>>>>, <<<<3, 3>>>>))
Hopeless == Solved(Model(<<<<1>>, <<1>>>>, <<0>>, <<<<-1000, 1000>>>>, <<<<3, 1000>>, <<-1000, -3>>>>))
NoRows == Solved(Model(<<>>, <<1, -1, 0>>, <<<<-1, 2>>, <<0, 3>>, <<1, 2>>>>, <<>>))
NoFloor == Solved(Model(<<>>, <<1>>, <<<<-1000, 2>>>>, <<>>))

\* The row x / 2 = 1: steps from the norm of A^T A are too long for it, and diverge.
Half == Solved([Model(<<<<1>>>>, <<0>>, <<<<-1000, 1000>>>>, <<<<1, 1>>>>) EXCEPT !.a = <<<<128>>>>])

Cfg(strategy, restart, backend, ratio, every, most) ==
    [omega |-> 253, theta |-> One, tol |-> 8, window |-> 8,
     strategy |-> strategy, restart |-> restart, backend |-> backend, ratio |-> ratio,
     every |-> every, most |-> most]
Baseline == Cfg("POCK_CHAMBOLLE", FALSE, "CPU", One, 4, 60)
Uneven == Cfg("ADAPTIVE", FALSE, "CPU", 2 * One, 3, 60)
AdaptiveRestart == Cfg("ADAPTIVE", TRUE, "CPU", One, 4, 60)
SteadyRestart == Cfg("POCK_CHAMBOLLE", TRUE, "CPU", One, 4, 60)
OnGpu == Cfg("ADAPTIVE", TRUE, "CUDA", One, 5, 40)
Even == Cfg("CONSTANT", FALSE, "CPU", 2 * One, 4, 24)
EvenOnGpu == Cfg("CONSTANT", TRUE, "CUDA", One, 4, 24)
Diverging == Cfg("CONSTANT", FALSE, "CPU", One, 1, 24)

Call(m, presolve, method, cfg) ==
    [lp |-> m.lp, saddles |-> m.saddles, presolve |-> presolve, method |-> method, passes |-> 2,
     near |-> 26, cfg |-> cfg, registered |-> TRUE, tol |-> 16, slack |-> 2048]

Ones == {TwoRows, Equality, Packing, FreeColumn, OneFixed}

MCTasks ==
    {Call(m, TRUE, method, cfg) :
        m \in Ones, method \in {"off", "Ruiz"}, cfg \in {Baseline, Uneven, AdaptiveRestart, OnGpu}}
    \cup {Call(m, p, "Ruiz", cfg) : m \in {Ruizable, Lopsided}, p \in BOOLEAN, cfg \in {Baseline, AdaptiveRestart, OnGpu}}
    \cup {Call(SumsOfFour, p, method, cfg) :
        p \in BOOLEAN, method \in {"PockChambolle", "None"}, cfg \in {Baseline, AdaptiveRestart}}
    \cup {Call(m, FALSE, "off", cfg) : m \in {Packing, TwoRows, Equality}, cfg \in {Even, EvenOnGpu, SteadyRestart}}
    \cup {Call(m, TRUE, "Ruiz", Baseline) : m \in {AllFixed, Crossing, NoRows, NoFloor}}
    \cup {Call(Hopeless, FALSE, "off", cfg) : cfg \in {Baseline, OnGpu}}
    \cup {Call(Half, FALSE, "off", Diverging)}
    \cup {[Call(TwoRows, FALSE, "off", OnGpu) EXCEPT !.registered = FALSE],
          [Call(Equality, FALSE, "off", OnGpu) EXCEPT !.lp.csc = FALSE]}

FirstOrderSpec == EndInit /\ [][EndNext]_allEndVars

=============================================================================
