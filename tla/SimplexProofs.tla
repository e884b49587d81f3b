---------------------------- MODULE SimplexProofs ----------------------------
(***************************************************************************)
(* The dual simplex, proved: pivots, flips and warm starts keep one        *)
(* partition of the variables, and an answer is true of the program it is  *)
(* given, provided that the solves with the factors answer for the basis   *)
(* (SolvesRight): what elimination and the eta file compute is an          *)
(* induction over data.                                                    *)
(***************************************************************************)
EXTENDS DualSimplex, Sums, SequenceTheorems

-----------------------------------------------------------------------------
(* Numbers.                                                                *)

\* A product with a whole number is exact.
LEMMA TimesExact ==
    ASSUME NEW a \in Int, a % One = 0, NEW v \in Int
    PROVE  Times(a, v) \in Int /\ One * Times(a, v) = a * v
<1>1. One \in Nat /\ One > 0
  BY OneAssumption
<1> DEFINE k == a \div One
           m == k * v
<1>2. k \in Int /\ a = k * One
  BY <1>1
<1> HIDE DEF k
<1>3. a * v = m * One /\ m \in Int
  BY <1>1, <1>2
<1> HIDE DEF m
<1>4. (m * One) \div One = m
  BY <1>1, <1>3
<1>5. Times(a, v) = m
  <2>1. Magnitude(One) = One /\ ~(One < 0)
    BY <1>1 DEF Magnitude
  <2>2. Times(a, v) = CHOOSE q \in {(a * v) \div One} : q * One = a * v
    BY <2>1 DEF Times, Ratio
  <2>3. (a * v) \div One = m
    BY <1>3, <1>4
  <2> QED BY <1>3, <2>2, <2>3
<1> QED BY <1>1, <1>3, <1>5

-----------------------------------------------------------------------------
(* The program as a matrix: columns, bounds, and the points that satisfy   *)
(* the rows.                                                               *)

LEMMA Shape ==
    ASSUME IsProgram(lp)
    PROVE  /\ lp.m \in Nat /\ lp.n \in Nat
           /\ IsFiniteSet(Rows) /\ IsFiniteSet(Cols) /\ IsFiniteSet(Vars)
           /\ \A v \in Vars : IsCol(v) => v \in Cols
           /\ \A v \in Vars : ~IsCol(v) => v - lp.n \in Rows
           /\ Cols \subseteq Vars /\ \A j \in Cols : IsCol(j)
           /\ \A i \in Rows : Slack(i) \in Vars /\ ~IsCol(Slack(i)) /\ Slack(i) - lp.n = i
<1>1. lp.m \in Nat /\ lp.n \in Nat
  BY DEF IsProgram
<1>2. IsFiniteSet(Rows) /\ IsFiniteSet(Cols) /\ IsFiniteSet(Vars)
  BY <1>1, FS_Interval DEF Rows, Cols, Vars
<1> QED BY <1>1, <1>2 DEF Rows, Cols, Vars, IsCol, Slack

LEMMA Bounds ==
    ASSUME IsProgram(lp), NEW v \in Vars
    PROVE  /\ Low(v) \in Int /\ Up(v) \in Int
           /\ Low(v) = -Infinity \/ Finite(Low(v))
           /\ Up(v) = Infinity \/ Finite(Up(v))
<1>1. CASE IsCol(v)
  <2>1. v \in 1..lp.n
    BY <1>1, Shape DEF Cols
  <2> QED BY <1>1, <2>1 DEF Low, Up, IsProgram, BoundsOK
<1>2. CASE ~IsCol(v)
  <2>1. v - lp.n \in 1..lp.m
    BY <1>2, Shape DEF Rows
  <2> QED BY <1>2, <2>1 DEF Low, Up, IsProgram, BoundsOK
<1> QED BY <1>1, <1>2

LEMMA Entries ==
    ASSUME IsProgram(lp), NEW v \in Vars, NEW r \in Rows
    PROVE  /\ Column(v)[r] \in Int
           /\ IsCol(v) => Column(v)[r] = lp.a[r][v] /\ lp.a[r][v] \in Int
           /\ ~IsCol(v) => Column(v)[r] = IF v = Slack(r) THEN -1 ELSE 0
<1>1. r \in 1..lp.m /\ lp.n \in Nat /\ v \in Int /\ r \in Int
  BY Shape DEF Rows, Vars
<1>2. Column(v)[r] = IF IsCol(v) THEN lp.a[r][v] ELSE IF r = v - lp.n THEN -1 ELSE 0
  BY DEF Column
<1>3. r = v - lp.n <=> v = Slack(r)
  BY <1>1 DEF Slack
<1>4. IsCol(v) => lp.a[r][v] \in Int
  <2>1. IsCol(v) => v \in 1..lp.n
    BY Shape DEF Cols
  <2> QED BY <1>1, <2>1 DEF IsProgram
<1> QED BY <1>2, <1>3, <1>4

\* The value of row r at a point of all variables: what its columns give less its slack.
RowTerms(r, P) == [v \in Vars |-> Column(v)[r] * P[v]]
Kernel(P) == P \in [Vars -> Int] /\ \A r \in Rows : Sum(RowTerms(r, P), Vars) = 0
ColumnPart(P) == [j \in Cols |-> P[j]]

LEMMA RowTermsAreIntegers ==
    ASSUME IsProgram(lp), NEW r \in Rows, NEW P \in [Vars -> Int]
    PROVE  /\ IntegerOn(RowTerms(r, P), Vars)
           /\ \A v \in Vars : RowTerms(r, P)[v] = Column(v)[r] * P[v]
<1>1. \A v \in Vars : Column(v)[r] \in Int /\ P[v] \in Int
  BY Entries
<1>2. \A v \in Vars : Column(v)[r] * P[v] \in Int
  BY <1>1
<1> QED BY <1>2 DEF RowTerms, IntegerOn

LEMMA ActivityIsSum ==
    ASSUME IsProgram(lp), NEW r \in Rows, NEW p \in [Cols -> Int]
    PROVE  /\ Activity(r, p) = Sum([j \in Cols |-> lp.a[r][j] * p[j]], Cols)
           /\ IntegerOn([j \in Cols |-> lp.a[r][j] * p[j]], Cols)
           /\ Activity(r, p) \in Int
<1> DEFINE f == [j \in Cols |-> lp.a[r][j] * p[j]]
<1>1. Activity(r, p) = Sum(f, Cols)
  BY DEF Activity, Total, SumFunction, Sum
<1>2. \A j \in Cols : lp.a[r][j] \in Int /\ p[j] \in Int
  BY Entries, Shape
<1>3. IntegerOn(f, Cols)
  BY <1>2 DEF IntegerOn
<1> QED BY <1>1, <1>3, SumInteger, Shape

LEMMA RowSum ==
    ASSUME IsProgram(lp), NEW r \in Rows, NEW P \in [Vars -> Int]
    PROVE  Sum(RowTerms(r, P), Vars) = Activity(r, ColumnPart(P)) - P[Slack(r)]
<1> DEFINE f == RowTerms(r, P)
           s == Slack(r)
           W == Vars \ {s}
           p == ColumnPart(P)
           g == [j \in Cols |-> lp.a[r][j] * p[j]]
<1>1. s \in Vars /\ ~IsCol(s) /\ IsFiniteSet(Vars) /\ IsFiniteSet(W) /\ Cols \subseteq W /\ IsFiniteSet(Cols)
  BY Shape, FS_Subset
<1>2. IntegerOn(f, Vars) /\ \A v \in Vars : f[v] = Column(v)[r] * P[v] /\ f[v] \in Int
  BY RowTermsAreIntegers DEF IntegerOn
<1>3. p \in [Cols -> Int] /\ \A j \in Cols : p[j] = P[j]
  BY <1>1 DEF ColumnPart
<1>4. Activity(r, p) = Sum(g, Cols) /\ Activity(r, p) \in Int
  BY <1>3, ActivityIsSum
<1>5. \A j \in Cols : f[j] = g[j]
  BY <1>1, <1>2, <1>3, Entries, Shape
<1>6. \A v \in W \ Cols : f[v] = 0
  <2> SUFFICES ASSUME NEW v \in W \ Cols
               PROVE  f[v] = 0
    OBVIOUS
  <2>1. ~IsCol(v) /\ v # Slack(r) /\ v \in Vars
    BY Shape
  <2>2. Column(v)[r] = 0
    BY <2>1, Entries
  <2>3. P[v] \in Int
    BY <2>1
  <2> QED BY <1>2, <2>1, <2>2, <2>3
<1>7. f[s] = -P[s] /\ P[s] \in Int
  <2>1. Column(s)[r] = -1 /\ P[s] \in Int
    BY <1>1, Entries
  <2>2. f[s] = Column(s)[r] * P[s]
    BY <1>1, <1>2
  <2> HIDE DEF f, s
  <2> QED BY <2>1, <2>2
<1>8. IntegerOn(f, W)
  BY <1>2 DEF IntegerOn
<1> HIDE DEF f, g, p
<1>9. Sum(f, Vars) = f[s] + Sum(f, W)
  BY <1>1, <1>2, SumTakes
<1>10. Sum(f, W) = Sum(f, Cols)
  <2> HIDE DEF W
  <2> QED BY <1>1, <1>6, <1>8, SumWithoutZeros
<1>11. Sum(f, Cols) = Sum(g, Cols)
  BY <1>1, <1>5, SumAgrees
<1> HIDE DEF W, s
<1>12. Sum(f, Vars) = Activity(r, p) - P[s]
  BY <1>4, <1>7, <1>9, <1>10, <1>11
<1> QED BY <1>12 DEF f, p, s

\* A point of the columns, with the slacks that satisfy the rows.
Extended(p) == [v \in Vars |-> IF IsCol(v) THEN p[v] ELSE Activity(v - lp.n, p)]

LEMMA ExtendedSolves ==
    ASSUME IsProgram(lp), NEW p \in [Cols -> Int]
    PROVE  /\ Kernel(Extended(p)) /\ ColumnPart(Extended(p)) = p
           /\ FeasiblePoint(p) => \A v \in Vars : Low(v) <= Extended(p)[v] /\ Extended(p)[v] <= Up(v)
<1> DEFINE P == Extended(p)
<1>1. \A v \in Vars : P[v] = IF IsCol(v) THEN p[v] ELSE Activity(v - lp.n, p)
  BY DEF Extended
<1>2. P \in [Vars -> Int]
  <2>1. \A v \in Vars : IsCol(v) => p[v] \in Int
    BY Shape
  <2>2. \A v \in Vars : ~IsCol(v) => Activity(v - lp.n, p) \in Int
    BY Shape, ActivityIsSum
  <2> QED BY <2>1, <2>2 DEF Extended
<1>3. ColumnPart(P) = p
  BY <1>1, Shape DEF ColumnPart
<1>4. ASSUME NEW r \in Rows
      PROVE  Sum(RowTerms(r, P), Vars) = 0
  <2>1. P[Slack(r)] = Activity(r, p) /\ Activity(r, p) \in Int
    BY <1>1, Shape, ActivityIsSum
  <2>2. Sum(RowTerms(r, P), Vars) = Activity(r, ColumnPart(P)) - P[Slack(r)]
    BY <1>2, RowSum
  <2> HIDE DEF P
  <2> QED BY <1>3, <2>1, <2>2
<1>5. ASSUME FeasiblePoint(p), NEW v \in Vars
      PROVE  Low(v) <= P[v] /\ P[v] <= Up(v)
  <2>1. CASE IsCol(v)
    BY <1>1, <1>5, <2>1, Shape DEF FeasiblePoint, Low, Up
  <2>2. CASE ~IsCol(v)
    BY <1>1, <1>5, <2>2, Shape DEF FeasiblePoint, Low, Up
  <2> QED BY <2>1, <2>2
<1> QED BY <1>2, <1>3, <1>4, <1>5 DEF Kernel

\* A point that satisfies the rows and lies between the bounds is feasible.
LEMMA SolvesFeasibly ==
    ASSUME IsProgram(lp), NEW P, Kernel(P), \A v \in Vars : Low(v) <= P[v] /\ P[v] <= Up(v)
    PROVE  FeasiblePoint(ColumnPart(P))
<1>1. \A j \in Cols : lp.lo[j] <= P[j] /\ P[j] <= lp.up[j]
  BY Shape DEF Low, Up
<1>2. ASSUME NEW r \in Rows
      PROVE  lp.rlo[r] <= Activity(r, ColumnPart(P)) /\ Activity(r, ColumnPart(P)) <= lp.rup[r]
  <2>1. Slack(r) \in Vars /\ ~IsCol(Slack(r)) /\ Slack(r) - lp.n = r
    BY Shape
  <2>2. lp.rlo[r] <= P[Slack(r)] /\ P[Slack(r)] <= lp.rup[r]
    BY <2>1 DEF Low, Up
  <2>3. P \in [Vars -> Int] /\ Sum(RowTerms(r, P), Vars) = 0
    BY DEF Kernel
  <2>4. Activity(r, ColumnPart(P)) - P[Slack(r)] = 0
    BY <2>3, RowSum
  <2>5. ColumnPart(P) \in [Cols -> Int]
    BY <2>3, Shape DEF ColumnPart
  <2>6. Activity(r, ColumnPart(P)) \in Int /\ P[Slack(r)] \in Int
    BY <2>1, <2>3, <2>5, ActivityIsSum
  <2>7. Activity(r, ColumnPart(P)) = P[Slack(r)]
    BY <2>4, <2>6
  <2> QED BY <2>2, <2>7
<1> QED BY <1>1, <1>2 DEF FeasiblePoint, ColumnPart

-----------------------------------------------------------------------------
(* Multipliers of the rows: what they make of a point that satisfies them. *)

\* The reduced cost a variable has under multipliers pi.
Priced(pi) == [v \in Vars |-> Dot(Column(v), pi)]
Weighted(h, P) == [v \in Vars |-> h[v] * P[v]]

LEMMA DotIsSum ==
    ASSUME IsProgram(lp), NEW v \in Vars, NEW pi \in [Rows -> Int]
    PROVE  /\ Dot(Column(v), pi) = Sum([r \in Rows |-> Column(v)[r] * pi[r]], Rows)
           /\ IntegerOn([r \in Rows |-> Column(v)[r] * pi[r]], Rows)
           /\ Dot(Column(v), pi) \in Int
<1> DEFINE f == [r \in Rows |-> Column(v)[r] * pi[r]]
<1>1. Dot(Column(v), pi) = Sum(f, Rows)
  BY DEF Dot, Total, SumFunction, Sum
<1>2. \A r \in Rows : Column(v)[r] \in Int /\ pi[r] \in Int
  BY Entries
<1>3. IntegerOn(f, Rows)
  BY <1>2 DEF IntegerOn
<1> QED BY <1>1, <1>3, SumInteger, Shape

LEMMA WeightedIsInteger ==
    ASSUME NEW h \in [Vars -> Int], NEW P \in [Vars -> Int]
    PROVE  IntegerOn(Weighted(h, P), Vars) /\ \A v \in Vars : Weighted(h, P)[v] = h[v] * P[v]
<1>1. \A v \in Vars : h[v] * P[v] \in Int
  OBVIOUS
<1> QED BY <1>1 DEF Weighted, IntegerOn

\* A combination of the rows vanishes at every point that satisfies them.
LEMMA Combination ==
    ASSUME IsProgram(lp), NEW pi \in [Rows -> Int], NEW P, Kernel(P)
    PROVE  Priced(pi) \in [Vars -> Int] /\ Sum(Weighted(Priced(pi), P), Vars) = 0
<1> DEFINE g == [r \in Rows |-> [v \in Vars |-> pi[r] * (Column(v)[r] * P[v])]]
           h == Weighted(Priced(pi), P)
<1>1. P \in [Vars -> Int] /\ \A r \in Rows : Sum(RowTerms(r, P), Vars) = 0
  BY DEF Kernel
<1>2. IsFiniteSet(Rows) /\ IsFiniteSet(Vars)
  BY Shape
<1>3. Priced(pi) \in [Vars -> Int]
  BY DotIsSum DEF Priced
<1>4. \A r \in Rows, v \in Vars : pi[r] \in Int /\ P[v] \in Int /\ Column(v)[r] \in Int
  BY <1>1, Entries
<1>5. \A r \in Rows, v \in Vars : g[r][v] \in Int
  <2> SUFFICES ASSUME NEW r \in Rows, NEW v \in Vars
               PROVE  pi[r] * (Column(v)[r] * P[v]) \in Int
    OBVIOUS
  <2>1. Column(v)[r] * P[v] \in Int
    BY <1>4
  <2> QED BY <1>4, <2>1
<1>6. ASSUME NEW v \in Vars
      PROVE  ByCols(g, Rows, Vars, Rows)[v] = h[v]
  <2> DEFINE f == [r \in Rows |-> Column(v)[r] * pi[r]]
             s == Slice(g, Rows, v)
  <2>1. IntegerOn(f, Rows) /\ Dot(Column(v), pi) = Sum(f, Rows)
    BY DotIsSum
  <2>2. IntegerOn(s, Rows)
    BY <1>5 DEF IntegerOn, Slice
  <2>3. \A r \in Rows : 1 * s[r] = P[v] * f[r]
    <3> SUFFICES ASSUME NEW r \in Rows
                 PROVE  1 * (pi[r] * (Column(v)[r] * P[v])) = P[v] * (Column(v)[r] * pi[r])
      BY DEF Slice
    <3>1. pi[r] \in Int /\ P[v] \in Int /\ Column(v)[r] \in Int
      BY <1>4
    <3> QED BY <3>1, Regrouped
  <2>4. P[v] \in Int
    BY <1>1
  <2> HIDE DEF f, s
  <2>5. 1 * Sum(s, Rows) = P[v] * Sum(f, Rows)
    BY <1>2, <2>1, <2>2, <2>3, <2>4, SumScaled
  <2>6. Sum(s, Rows) \in Int /\ Sum(f, Rows) \in Int
    BY <1>2, <2>1, <2>2, SumInteger
  <2>7. Sum(s, Rows) = Sum(f, Rows) * P[v]
    BY <2>4, <2>5, <2>6
  <2>8. h[v] = Dot(Column(v), pi) * P[v]
    BY DEF Weighted, Priced
  <2> QED BY <2>1, <2>7, <2>8 DEF ByCols, s
<1>7. ASSUME NEW r \in Rows
      PROVE  ByRows(g, Rows, Vars)[r] = 0
  <2> DEFINE f == RowTerms(r, P)
             l == Line(g, Vars, r)
  <2>1. IntegerOn(f, Vars) /\ \A v \in Vars : f[v] = Column(v)[r] * P[v]
    BY <1>1, RowTermsAreIntegers
  <2>2. IntegerOn(l, Vars)
    BY <1>5 DEF IntegerOn, Line
  <2>3. \A v \in Vars : 1 * l[v] = pi[r] * f[v]
    <3> SUFFICES ASSUME NEW v \in Vars
                 PROVE  1 * l[v] = pi[r] * f[v]
      OBVIOUS
    <3>1. l[v] = pi[r] * f[v]
      BY <2>1 DEF Line
    <3>2. l[v] \in Int
      BY <2>2 DEF IntegerOn
    <3> HIDE DEF l, f
    <3> QED BY <3>1, <3>2
  <2> HIDE DEF f, l
  <2>4. 1 * Sum(l, Vars) = pi[r] * Sum(f, Vars)
    BY <1>2, <1>4, <2>1, <2>2, <2>3, SumScaled
  <2>5. Sum(f, Vars) = 0 /\ Sum(l, Vars) \in Int /\ pi[r] \in Int
    BY <1>1, <1>2, <1>4, <2>2, SumInteger DEF f
  <2>6. Sum(l, Vars) = 0
    BY <2>4, <2>5
  <2> QED BY <2>6 DEF ByRows, l
<1>8. IntegerOn(ByRows(g, Rows, Vars), Rows)
  BY <1>7 DEF IntegerOn
<1> HIDE DEF g, h
<1>9. Sum(ByCols(g, Rows, Vars, Rows), Vars) = Sum(ByRows(g, Rows, Vars), Rows)
  BY <1>2, <1>5, SumExchange
<1>10. Sum(ByCols(g, Rows, Vars, Rows), Vars) = Sum(h, Vars)
  BY <1>2, <1>6, SumAgrees
<1>11. Sum(ByRows(g, Rows, Vars), Rows) = Sum(ByRows(g, Rows, Vars), {})
  BY <1>2, <1>7, <1>8, SumWithoutZeros
<1>12. Sum(h, Vars) = 0
  BY <1>9, <1>10, <1>11, SumEmpty
<1> QED BY <1>3, <1>12 DEF h

\* What prices a slack is the dual value of its row.
LEMMA SlackDot ==
    ASSUME IsProgram(lp), NEW v \in Vars, ~IsCol(v), NEW pi \in [Rows -> Int]
    PROVE  Dot(Column(v), pi) = -pi[v - lp.n]
<1> DEFINE f == [r \in Rows |-> Column(v)[r] * pi[r]]
           i == v - lp.n
<1>1. i \in Rows /\ v = Slack(i) /\ IsFiniteSet(Rows)
  BY Shape DEF Slack, Vars
<1>2. Dot(Column(v), pi) = Sum(f, Rows) /\ IntegerOn(f, Rows)
  BY DotIsSum
<1>3. \A r \in Rows : Column(v)[r] = IF r = i THEN -1 ELSE 0
  BY DEF Column
<1>4. \A r \in Rows \ {i} : f[r] = 0
  BY <1>3
<1>5. f[i] = -pi[i] /\ pi[i] \in Int
  <2>1. f[i] = Column(v)[i] * pi[i] /\ Column(v)[i] = -1 /\ pi[i] \in Int
    BY <1>1, <1>3
  <2> HIDE DEF f, i
  <2> QED BY <2>1
<1> HIDE DEF f
<1>6. Sum(f, Rows) = Sum(f, {i})
  BY <1>1, <1>2, <1>4, SumWithoutZeros
<1>7. Sum(f, {i}) = f[i] + Sum(f, {i} \ {i})
  <2>1. IsFiniteSet({i}) /\ i \in {i} /\ IntegerOn(f, {i})
    BY <1>1, <1>2, FS_Singleton DEF IntegerOn
  <2> HIDE DEF i
  <2> QED BY <2>1, SumTakes
<1>8. Sum(f, {i} \ {i}) = 0
  <2>1. {i} \ {i} = {}
    OBVIOUS
  <2> QED BY <2>1, SumEmpty
<1> QED BY <1>2, <1>5, <1>6, <1>7, <1>8

LEMMA CostsWhole ==
    ASSUME IsProgram(lp)
    PROVE  /\ Costs \in [Vars -> Int]
           /\ \A j \in Cols : lp.c[j] \in Int /\ lp.c[j] % One = 0 /\ Costs[j] = lp.c[j]
           /\ \A v \in Vars : ~IsCol(v) => Costs[v] = 0
<1>1. \A j \in Cols : lp.c[j] \in Int /\ lp.c[j] % One = 0
  BY DEF IsProgram, Cols
<1>2. \A v \in Vars : IsCol(v) => lp.c[v] \in Int
  BY <1>1, Shape
<1> QED BY <1>1, <1>2, Shape DEF Costs

\* compute_reduced_costs reads a slack's reduced cost off the dual values and sets those of
\* the basis to 0: both are what the dual values price when they price the basis.
LEMMA ReducedArePriced ==
    ASSUME IsProgram(lp), NEW b, Partition(b), NEW pi \in [Rows -> Int],
           NEW w \in [Vars -> Int], \A v \in Vars : ~IsCol(v) => w[v] = 0,
           \A i \in Rows : Dot(Column(b.basic[i]), pi) = w[b.basic[i]],
           NEW v \in Vars
    PROVE  /\ ReducedCosts(b, w, pi)[v] = w[v] - Dot(Column(v), pi)
           /\ ReducedCosts(b, w, pi)[v] \in Int
<1>1. w[v] \in Int /\ Dot(Column(v), pi) \in Int
  BY DotIsSum
<1>2. ReducedCosts(b, w, pi)[v] =
        IF b.status[v] = "Basic" THEN 0
        ELSE IF IsCol(v) THEN w[v] - Dot(Column(v), pi) ELSE pi[v - lp.n]
  BY DEF ReducedCosts
<1>3. CASE b.status[v] = "Basic"
  <2>1. b.place[v] \in Rows /\ b.basic[b.place[v]] = v
    BY <1>3 DEF Partition
  <2>2. Dot(Column(v), pi) = w[v]
    BY <2>1
  <2> QED BY <1>1, <1>2, <1>3, <2>2
<1>4. CASE b.status[v] # "Basic" /\ IsCol(v)
  BY <1>1, <1>2, <1>4
<1>5. CASE b.status[v] # "Basic" /\ ~IsCol(v)
  <2>1. Dot(Column(v), pi) = -pi[v - lp.n] /\ w[v] = 0 /\ pi[v - lp.n] \in Int
    BY <1>5, SlackDot, Shape
  <2> QED BY <1>1, <1>2, <1>5, <2>1
<1> QED BY <1>3, <1>4, <1>5

\* The objective value, from the costs of all variables.
LEMMA ObjectiveIsSum ==
    ASSUME IsProgram(lp), NEW P \in [Vars -> Int], NEW p, \A j \in Cols : p[j] = P[j]
    PROVE  /\ Objective(p) \in Int
           /\ One * Objective(p) = (One * lp.offset) + Sum(Weighted(Costs, P), Vars)
<1> DEFINE t == [j \in Cols |-> Times(lp.c[j], p[j])]
           w == Weighted(Costs, P)
<1>1. IsFiniteSet(Vars) /\ IsFiniteSet(Cols) /\ Cols \subseteq Vars
  BY Shape
<1>2. IntegerOn(w, Vars) /\ \A v \in Vars : w[v] = Costs[v] * P[v]
  BY CostsWhole, WeightedIsInteger
<1>3. \A v \in Vars \ Cols : w[v] = 0
  <2> SUFFICES ASSUME NEW v \in Vars \ Cols
               PROVE  w[v] = 0
    OBVIOUS
  <2>1. ~IsCol(v) /\ v \in Vars
    BY Shape
  <2>2. Costs[v] = 0 /\ P[v] \in Int
    BY <2>1, CostsWhole
  <2>3. w[v] = Costs[v] * P[v]
    BY <1>2
  <2> HIDE DEF w
  <2> QED BY <2>2, <2>3
<1>4. \A j \in Cols : t[j] \in Int /\ One * t[j] = 1 * w[j]
  <2> SUFFICES ASSUME NEW j \in Cols
               PROVE  t[j] \in Int /\ One * t[j] = 1 * w[j]
    OBVIOUS
  <2>1. lp.c[j] \in Int /\ lp.c[j] % One = 0 /\ Costs[j] = lp.c[j] /\ P[j] \in Int /\ p[j] = P[j]
    BY <1>1, CostsWhole
  <2>2. t[j] = Times(lp.c[j], P[j])
    BY <2>1
  <2>3. t[j] \in Int /\ One * t[j] = lp.c[j] * P[j]
    BY <2>1, <2>2, TimesExact
  <2>4. w[j] = lp.c[j] * P[j] /\ w[j] \in Int
    BY <1>1, <1>2, <2>1 DEF IntegerOn
  <2> HIDE DEF t, w
  <2> QED BY <2>3, <2>4
<1>5. Objective(p) = lp.offset + Sum(t, Cols)
  BY DEF Objective, Total, SumFunction, Sum
<1>6. IntegerOn(t, Cols) /\ IntegerOn(w, Cols)
  BY <1>1, <1>2, <1>4 DEF IntegerOn
<1>7. One \in Int /\ lp.offset \in Int
  BY OneAssumption DEF IsProgram
<1> HIDE DEF t, w
<1>8. One * Sum(t, Cols) = 1 * Sum(w, Cols)
  BY <1>1, <1>4, <1>6, <1>7, SumScaled
<1>9. Sum(w, Vars) = Sum(w, Cols)
  BY <1>1, <1>2, <1>3, SumWithoutZeros
<1>10. Sum(t, Cols) \in Int /\ Sum(w, Cols) \in Int
  BY <1>1, <1>6, SumInteger
<1>11. One * (lp.offset + Sum(t, Cols)) = (One * lp.offset) + (One * Sum(t, Cols))
  BY <1>7, <1>10, Distributes
<1>12. One * (lp.offset + Sum(t, Cols)) = (One * lp.offset) + Sum(w, Vars)
  BY <1>8, <1>9, <1>10, <1>11
<1> QED BY <1>5, <1>7, <1>10, <1>12 DEF w

\* What the costs make of a point is what the reduced costs make of it.
LEMMA CostsPriced ==
    ASSUME IsProgram(lp), NEW w \in [Vars -> Int], NEW pi \in [Rows -> Int], NEW h \in [Vars -> Int],
           \A v \in Vars : h[v] = w[v] - Dot(Column(v), pi),
           NEW P, Kernel(P)
    PROVE  Sum(Weighted(w, P), Vars) = Sum(Weighted(h, P), Vars)
<1> DEFINE f == Weighted(w, P)
           g == Weighted(h, P)
           k == Weighted(Priced(pi), P)
<1>1. Priced(pi) \in [Vars -> Int] /\ Sum(k, Vars) = 0
  BY Combination
<1>2. P \in [Vars -> Int] /\ w \in [Vars -> Int] /\ IsFiniteSet(Vars)
  BY Shape DEF Kernel
<1>3. /\ IntegerOn(f, Vars) /\ IntegerOn(g, Vars) /\ IntegerOn(k, Vars)
      /\ \A v \in Vars : f[v] = w[v] * P[v] /\ g[v] = h[v] * P[v] /\ k[v] = Priced(pi)[v] * P[v]
  BY <1>1, <1>2, WeightedIsInteger
<1>4. Combines(f, g, k, 1, 1, 1, Vars)
  <2> SUFFICES ASSUME NEW v \in Vars
               PROVE  1 * f[v] = (1 * g[v]) + (1 * k[v])
    BY DEF Combines
  <2>1. f[v] = w[v] * P[v] /\ g[v] = h[v] * P[v] /\ k[v] = Priced(pi)[v] * P[v]
    BY <1>3
  <2>2. Priced(pi)[v] = Dot(Column(v), pi)
    BY DEF Priced
  <2>3. w[v] \in Int /\ Priced(pi)[v] \in Int /\ h[v] \in Int /\ P[v] \in Int
    BY <1>1, <1>2
  <2>4. w[v] = h[v] + Priced(pi)[v]
    BY <2>2, <2>3
  <2>5. P[v] * (h[v] + Priced(pi)[v]) = (P[v] * h[v]) + (P[v] * Priced(pi)[v])
    BY <2>3, Distributes
  <2>6. f[v] \in Int /\ g[v] \in Int /\ k[v] \in Int
    BY <1>3 DEF IntegerOn
  <2>7. f[v] = P[v] * (h[v] + Priced(pi)[v]) /\ g[v] = P[v] * h[v] /\ k[v] = P[v] * Priced(pi)[v]
    BY <2>1, <2>3, <2>4
  <2> HIDE DEF f, g, k
  <2> QED BY <2>5, <2>6, <2>7
<1> HIDE DEF f, g, k
<1>5. 1 * Sum(f, Vars) = 1 * Sum(g, Vars) + 1 * Sum(k, Vars)
  BY <1>2, <1>3, <1>4, SumCombines
<1>6. Sum(f, Vars) \in Int /\ Sum(g, Vars) \in Int /\ Sum(k, Vars) \in Int
  BY <1>2, <1>3, SumInteger
<1>7. Sum(f, Vars) = Sum(g, Vars)
  BY <1>1, <1>5, <1>6 DEF k
<1> QED BY <1>7 DEF f, g

-----------------------------------------------------------------------------
(* The verdicts.                                                           *)

LEMMA VectorIsItself ==
    ASSUME NEW k \in Nat, NEW f, f = [i \in 1..k |-> f[i]]
    PROVE  Vector(f) = f
<1> DEFINE S == {f[i] : i \in 1..k}
<1>1. f \in [1..k -> S]
  OBVIOUS
<1>2. f \in Seq(S)
  <2> HIDE DEF S
  <2> QED BY <1>1, IsASeq
<1> HIDE DEF S
<1> QED BY <1>2, ConcatEmptySeq DEF Vector

\* The current point satisfies the rows, and keeps what is not basic where it is.
LEMMA CurrentPoint ==
    ASSUME IsProgram(lp), Partition(basis), PointSolves
    PROVE  /\ Kernel(Current) /\ \A v \in Vars : Finite(Current[v])
           /\ \A v \in basis.nonbasic : v \in Vars /\ basis.status[v] # "Basic" /\ Current[v] = x[v]
<1>1. ASSUME NEW r \in Rows
      PROVE  Sum(RowTerms(r, Current), Vars) = 0
  <2>1. Total(LAMBDA v : Column(v)[r] * Current[v], Vars) = Sum(RowTerms(r, Current), Vars)
    BY DEF Total, SumFunction, Sum, RowTerms
  <2> QED BY <2>1 DEF PointSolves
<1>2. Kernel(Current)
  BY <1>1 DEF Kernel, PointSolves
<1>3. ASSUME NEW v \in basis.nonbasic
      PROVE  v \in Vars /\ basis.status[v] # "Basic" /\ Current[v] = x[v]
  <2> DEFINE xB == Ftran(fact, NonbasicLoad(basis, x))
             f == [w \in Vars |-> IF basis.status[w] = "Basic" THEN xB[basis.place[w]] ELSE x[w]]
  <2>1. v \in Vars /\ basis.status[v] # "Basic"
    BY <1>3 DEF Partition
  <2>2. Current = Vector(f)
    BY DEF Current, BasicValues
  <2>3. f = [w \in Vars |-> f[w]]
    OBVIOUS
  <2>4. f[v] = x[v]
    BY <2>1
  <2>5. lp.n + lp.m \in Nat
    BY Shape
  <2> HIDE DEF f
  <2>6. Vector(f) = f
    BY <2>3, <2>5, VectorIsItself DEF Vars
  <2> QED BY <2>1, <2>2, <2>4, <2>6
<1> QED BY <1>2, <1>3 DEF PointSolves

\* Where a variable that is not basic rests, next to where a feasible point has it.
LEMMA RestsBeside ==
    ASSUME IsProgram(lp), StatusesFit(basis), NEW v \in Vars, basis.status[v] # "Basic",
           NEW q \in Int, Low(v) <= q, q <= Up(v)
    PROVE  /\ RestingValue(basis, v) \in Int
           /\ basis.status[v] = "AtLower" => RestingValue(basis, v) <= q
           /\ basis.status[v] = "AtUpper" => RestingValue(basis, v) >= q
           /\ basis.status[v] = "Fixed" => RestingValue(basis, v) = q
           /\ basis.status[v] \in {"AtLower", "AtUpper", "Fixed", "Free"}
<1>1. Low(v) \in Int /\ Up(v) \in Int
  BY Bounds
<1>2. /\ basis.status[v] \in {"AtLower", "AtUpper", "Fixed", "Free"}
      /\ basis.status[v] = "Fixed" => Low(v) = Up(v)
  BY DEF StatusesFit
<1>3. CASE basis.status[v] = "AtLower"
  BY <1>1, <1>3 DEF RestingValue
<1>4. CASE basis.status[v] = "AtUpper"
  BY <1>1, <1>4 DEF RestingValue
<1>5. CASE basis.status[v] = "Fixed"
  BY <1>1, <1>2, <1>5 DEF RestingValue
<1>6. CASE basis.status[v] = "Free"
  BY <1>6 DEF RestingValue
<1> QED BY <1>2, <1>3, <1>4, <1>5, <1>6

\* Whatever weighs every variable the way its status allows weighs no feasible point less
\* than the current one.
Allows(status, dv) ==
    /\ status = "AtLower" => dv >= 0
    /\ status = "AtUpper" => dv <= 0
    /\ status = "Free" => dv = 0

LEMMA TermAllowed ==
    ASSUME IsProgram(lp), StatusesFit(basis), NEW v \in Vars, basis.status[v] # "Basic",
           NEW q \in Int, Low(v) <= q, q <= Up(v), NEW h \in Int, Allows(basis.status[v], h)
    PROVE  h * RestingValue(basis, v) <= h * q
<1> DEFINE r == RestingValue(basis, v)
<1>1. /\ r \in Int
      /\ basis.status[v] = "AtLower" => r <= q
      /\ basis.status[v] = "AtUpper" => r >= q
      /\ basis.status[v] = "Fixed" => r = q
      /\ basis.status[v] \in {"AtLower", "AtUpper", "Fixed", "Free"}
  BY RestsBeside
<1>2. \/ h >= 0 /\ r <= q
      \/ h <= 0 /\ r >= q
      \/ r = q
      \/ h = 0
  BY <1>1 DEF Allows
<1> HIDE DEF r
<1>3. h * r <= h * q
  <2>1. CASE h >= 0 /\ r <= q
    BY <1>1, <2>1
  <2>2. CASE h <= 0 /\ r >= q
    BY <1>1, <2>2
  <2>3. CASE r = q
    BY <1>1, <2>3
  <2>4. CASE h = 0
    BY <1>1, <2>4
  <2> QED BY <1>2, <2>1, <2>2, <2>3, <2>4
<1> QED BY <1>3 DEF r

\* A basic solution that satisfies the rows costs no more than any feasible point when
\* the reduced costs have the signs its statuses ask for.
LEMMA BasicIsOptimal ==
    ASSUME IsProgram(lp), Partition(basis), StatusesFit(basis), PointSolves, AtTheirBounds,
           NEW pi \in [Rows -> Int],
           \A i \in Rows : Dot(Column(basis.basic[i]), pi) = Costs[basis.basic[i]],
           \A v \in basis.nonbasic : Allows(basis.status[v], ReducedCosts(basis, Costs, pi)[v]),
           NEW p \in [Cols -> Int], FeasiblePoint(p)
    PROVE  Objective(Current) <= Objective(p)
<1> DEFINE h == ReducedCosts(basis, Costs, pi)
           X == Current
           P == Extended(p)
           f == Weighted(h, X)
           g == Weighted(h, P)
<1>1. \A v \in Vars : h[v] = Costs[v] - Dot(Column(v), pi) /\ h[v] \in Int
  BY CostsWhole, ReducedArePriced
<1>2. h \in [Vars -> Int]
  <2>1. h = [v \in Vars |-> h[v]]
    BY DEF ReducedCosts
  <2> QED BY <1>1, <2>1
<1>3. Kernel(X) /\ X \in [Vars -> Int] /\ \A v \in basis.nonbasic : v \in Vars /\ basis.status[v] # "Basic" /\ X[v] = RestingValue(basis, v)
  BY CurrentPoint DEF AtTheirBounds, Kernel
<1>4. Kernel(P) /\ P \in [Vars -> Int] /\ ColumnPart(P) = p /\ \A v \in Vars : Low(v) <= P[v] /\ P[v] <= Up(v)
  BY ExtendedSolves DEF Kernel
<1>5. \A v \in Vars : basis.status[v] = "Basic" => h[v] = 0
  BY DEF ReducedCosts
<1>6. \A v \in Vars : basis.status[v] # "Basic" => v \in basis.nonbasic /\ Allows(basis.status[v], h[v])
  BY DEF Partition
<1>7. IsFiniteSet(Vars)
  BY Shape
<1> HIDE DEF h, X, P
<1>8. /\ IntegerOn(f, Vars) /\ IntegerOn(g, Vars)
      /\ \A v \in Vars : f[v] = h[v] * X[v] /\ g[v] = h[v] * P[v]
  BY <1>2, <1>3, <1>4, WeightedIsInteger
<1>9. \A v \in Vars : f[v] <= g[v]
  <2> SUFFICES ASSUME NEW v \in Vars
               PROVE  h[v] * X[v] <= h[v] * P[v]
    BY <1>8
  <2>1. h[v] \in Int /\ X[v] \in Int /\ P[v] \in Int
    BY <1>2, <1>3, <1>4
  <2>2. CASE basis.status[v] = "Basic"
    <3>1. h[v] = 0
      BY <1>5, <2>2
    <3> QED BY <2>1, <3>1
  <2>3. CASE basis.status[v] # "Basic"
    <3>1. X[v] = RestingValue(basis, v)
      BY <1>3, <1>6, <2>3
    <3>2. h[v] * RestingValue(basis, v) <= h[v] * P[v]
      BY <1>4, <1>6, <2>1, <2>3, TermAllowed
    <3> QED BY <3>1, <3>2
  <2> QED BY <2>2, <2>3
<1>10. Sum(f, Vars) <= Sum(g, Vars)
  <2> HIDE DEF f, g
  <2> QED BY <1>7, <1>8, <1>9, SumAtMost
<1>11. Sum(Weighted(Costs, X), Vars) = Sum(f, Vars) /\ Sum(Weighted(Costs, P), Vars) = Sum(g, Vars)
  BY <1>1, <1>2, <1>3, <1>4, CostsWhole, CostsPriced
<1>12. /\ Objective(X) \in Int
       /\ One * Objective(X) = (One * lp.offset) + Sum(Weighted(Costs, X), Vars)
  BY <1>3, ObjectiveIsSum
<1>13. /\ Objective(p) \in Int
       /\ One * Objective(p) = (One * lp.offset) + Sum(Weighted(Costs, P), Vars)
  <2>1. \A j \in Cols : p[j] = P[j]
    BY <1>4 DEF ColumnPart
  <2> QED BY <1>4, <2>1, ObjectiveIsSum
<1>14. Sum(f, Vars) \in Int /\ Sum(g, Vars) \in Int
  <2> HIDE DEF f, g
  <2> QED BY <1>7, <1>8, SumInteger
<1>15. One \in Int /\ One > 0 /\ lp.offset \in Int
  BY OneAssumption DEF IsProgram
<1> DEFINE u == Objective(X)
           v == Objective(p)
           s == Sum(f, Vars)
           t == Sum(g, Vars)
           o == One * lp.offset
<1>16. o \in Int
  BY <1>15
<1>17. One * u = o + s /\ One * v = o + t /\ s <= t /\ s \in Int /\ t \in Int /\ u \in Int /\ v \in Int
  BY <1>10, <1>11, <1>12, <1>13, <1>14
<1> HIDE DEF u, v, s, t, o
<1>18. One * u <= One * v
  BY <1>16, <1>17
<1>19. u <= v
  BY <1>15, <1>17, <1>18
<1> QED BY <1>19 DEF u, v, X

\* Nothing among numbers whose worst is 0 is above 0.
LEMMA WorstIsZero ==
    ASSUME NEW S, IsFiniteSet(S), NEW h, \A v \in S : h[v] \in Int, Worst({h[v] : v \in S}) = 0
    PROVE  \A v \in S : h[v] <= 0
<1> DEFINE T == {0} \cup {h[v] : v \in S}
<1>1. IsFiniteSet(T)
  <2>1. IsFiniteSet({h[v] : v \in S})
    BY ImageFinite
  <2>2. IsFiniteSet({0})
    BY FS_Singleton
  <2> QED BY <2>1, <2>2, FS_Union
<1>2. T \subseteq Int /\ T # {}
  OBVIOUS
<1>3. Max(T) = 0
  BY DEF Worst
<1>4. \A v \in S : h[v] \in T
  OBVIOUS
<1> HIDE DEF T
<1>5. \A z \in T : 0 >= z
  BY <1>1, <1>2, <1>3, HasGreatest
<1> QED BY <1>4, <1>5

\* Whichever row the pricing takes, its basic variable is outside its bounds.
LEMMA LeavesOutside ==
    ASSUME IsProgram(lp), Partition(basis), NEW X \in [Vars -> Int], NEW p \in LeavingRows(X)
    PROVE  /\ p \in Rows /\ basis.basic[p] \in Vars
           /\ Below(basis.basic[p], X) \/ Above(basis.basic[p], X)
<1> DEFINE all == InfeasibleRows(X)
           size == [i \in Rows |-> Violation(basis.basic[i], X)]
           R == {z \in all \X all : size[z[1]] >= size[z[2]]}
           worst == {i \in all : \A k \in all : Violation(basis.basic[i], X) >= Violation(basis.basic[k], X)}
<1>1. all \subseteq Rows /\ IsFiniteSet(all) /\ all \subseteq Int
  <2>1. all \subseteq Rows
    BY DEF InfeasibleRows
  <2> QED BY <2>1, Shape, FS_Subset DEF Rows
<1>2. \A i \in Rows : basis.basic[i] \in Vars
  BY DEF Partition, IsValid
<1>3. \A i \in Rows : size[i] \in Int
  <2> SUFFICES ASSUME NEW i \in Rows
               PROVE  Violation(basis.basic[i], X) \in Int
    OBVIOUS
  <2>1. X[basis.basic[i]] \in Int /\ Low(basis.basic[i]) \in Int /\ Up(basis.basic[i]) \in Int
    BY <1>2, Bounds
  <2> QED BY <2>1 DEF Violation
<1>4. p \in all
  <2>1. CASE config.pricing = "Devex" \/ all = {}
    BY <2>1 DEF LeavingRows
  <2>2. CASE config.pricing # "Devex" /\ all # {}
    <3>1. p = Min(worst)
      BY <2>2 DEF LeavingRows
    <3>2. worst = Firsts(R, all)
      BY <1>1 DEF Firsts
    <3>3. Ranks(R, all)
      <4>1. \A i \in all : size[i] \in Int
        BY <1>1, <1>3
      <4> HIDE DEF size, all
      <4> QED BY <4>1 DEF Ranks
    <3>4. worst \subseteq all
      OBVIOUS
    <3>5. all # {} /\ IsFiniteSet(all) /\ all \subseteq Int
      BY <1>1, <2>2
    <3> HIDE DEF worst, R, all
    <3>6. Min(worst) \in worst
      BY ONLY <3>2, <3>3, <3>5, LeastFirst
    <3> QED BY <3>1, <3>4, <3>6
  <2> QED BY <2>1, <2>2
<1> QED BY <1>1, <1>2, <1>4 DEF InfeasibleRows

\* The tableau row of a basic variable outside its bounds, when nothing that is not basic
\* may move to bring it back, contradicts every feasible point.
LEMMA NothingHelps ==
    ASSUME IsProgram(lp), Partition(basis), StatusesFit(basis), PointSolves, AtTheirBounds,
           NEW p \in Rows, NEW u \in {One, -One},
           NEW pi, Prices(pi, Unit(p, u)),
           \A v \in basis.nonbasic : ~Helps(v, Dot(Column(v), pi)),
           IF u = -One THEN Below(basis.basic[p], Current) ELSE Above(basis.basic[p], Current),
           NEW q \in [Cols -> Int], FeasiblePoint(q)
    PROVE  FALSE
<1> DEFINE h == Priced(pi)
           X == Current
           P == Extended(q)
           f == Weighted(h, X)
           g == Weighted(h, P)
           o == basis.basic[p]
           W == Vars \ {o}
           k == [v \in Vars |-> -h[v]]
<1>1. pi \in [Rows -> Int] /\ \A i \in Rows : Dot(Column(basis.basic[i]), pi) = Unit(p, u)[i]
  BY DEF Prices
<1>2. Kernel(X) /\ X \in [Vars -> Int] /\ \A v \in basis.nonbasic : v \in Vars /\ basis.status[v] # "Basic" /\ X[v] = RestingValue(basis, v)
  BY CurrentPoint DEF AtTheirBounds, Kernel
<1>3. Kernel(P) /\ P \in [Vars -> Int] /\ \A v \in Vars : Low(v) <= P[v] /\ P[v] <= Up(v)
  BY ExtendedSolves DEF Kernel
<1>4. h \in [Vars -> Int] /\ Sum(f, Vars) = 0 /\ Sum(g, Vars) = 0
  BY <1>1, <1>2, <1>3, Combination
<1>5. \A v \in Vars : h[v] = Dot(Column(v), pi)
  BY DEF Priced
<1>6. o \in Vars /\ h[o] = u /\ u \in Int /\ One \in Int /\ One > 0
  <2>1. o \in Vars
    BY DEF Partition, IsValid
  <2>2. Dot(Column(o), pi) = u
    BY <1>1 DEF Unit
  <2> QED BY <1>5, <2>1, <2>2, OneAssumption
<1>7. \A v \in W : basis.status[v] = "Basic" => h[v] = 0
  <2> SUFFICES ASSUME NEW v \in W, basis.status[v] = "Basic"
               PROVE  h[v] = 0
    OBVIOUS
  <2>1. basis.place[v] \in Rows /\ basis.basic[basis.place[v]] = v
    BY DEF Partition
  <2>2. basis.place[v] # p
    BY <2>1
  <2>3. Dot(Column(v), pi) = 0
    BY <1>1, <2>1, <2>2 DEF Unit
  <2> QED BY <1>5, <2>3
<1>8. \A v \in Vars : basis.status[v] # "Basic" => v \in basis.nonbasic /\ ~Helps(v, h[v])
  BY <1>5 DEF Partition
<1>9. IsFiniteSet(Vars) /\ IsFiniteSet(W) /\ W \subseteq Vars /\ o \notin W
  BY Shape, FS_Subset
<1> HIDE DEF h, X, P, o, W
<1>10. /\ IntegerOn(f, Vars) /\ IntegerOn(g, Vars) /\ IntegerOn(f, W) /\ IntegerOn(g, W)
       /\ \A v \in Vars : f[v] = h[v] * X[v] /\ g[v] = h[v] * P[v]
  <2>1. IntegerOn(f, Vars) /\ IntegerOn(g, Vars)
        /\ \A v \in Vars : f[v] = h[v] * X[v] /\ g[v] = h[v] * P[v]
    BY <1>2, <1>3, <1>4, WeightedIsInteger
  <2> HIDE DEF f, g
  <2> QED BY <1>9, <2>1 DEF IntegerOn
\* What does not help weighs the current point at least as much.
<1>11. \A v \in W : g[v] <= f[v]
  <2> SUFFICES ASSUME NEW v \in W
               PROVE  h[v] * P[v] <= h[v] * X[v]
    BY <1>9, <1>10
  <2>1. v \in Vars /\ h[v] \in Int /\ X[v] \in Int /\ P[v] \in Int
    BY <1>2, <1>3, <1>4, <1>9
  <2>2. CASE basis.status[v] = "Basic"
    <3>1. h[v] = 0
      BY <1>7, <2>2
    <3> QED BY <2>1, <3>1
  <2>3. CASE basis.status[v] # "Basic"
    <3> DEFINE n == -h[v]
               r == X[v]
               z == P[v]
               t == h[v]
    <3>1. X[v] = RestingValue(basis, v)
      BY <1>2, <1>8, <2>1, <2>3
    <3>2. Allows(basis.status[v], n)
      <4>1. ~Helps(v, h[v])
        BY <1>8, <2>1, <2>3
      <4> QED BY <2>1, <4>1 DEF Helps, Allows
    <3>3. n \in Int /\ Low(v) <= P[v] /\ P[v] <= Up(v)
      BY <1>3, <2>1
    <3>4. n * RestingValue(basis, v) <= n * P[v]
      <4> HIDE DEF n
      <4> QED BY <2>1, <2>3, <3>2, <3>3, TermAllowed
    <3>5. (-t) * r <= (-t) * z /\ t \in Int /\ r \in Int /\ z \in Int
      BY <2>1, <3>1, <3>4
    <3>6. (-t) * r = -(t * r) /\ (-t) * z = -(t * z) /\ t * r \in Int /\ t * z \in Int
      <4>1. t \in Int /\ r \in Int /\ z \in Int
        BY <3>5
      <4> HIDE DEF t, r, z
      <4> QED BY <4>1
    <3>7. t * z <= t * r
      <4> DEFINE a == t * r
                 b == t * z
      <4>1. -a <= -b /\ a \in Int /\ b \in Int
        BY <3>5, <3>6
      <4>2. b <= a
        <5> HIDE DEF a, b
        <5> QED BY <4>1
      <4> QED BY <4>2
    <3> QED BY <3>7
  <2> QED BY <2>2, <2>3
<1>12. Sum(g, W) <= Sum(f, W) /\ Sum(g, W) \in Int /\ Sum(f, W) \in Int
  <2> HIDE DEF f, g
  <2> QED BY <1>9, <1>10, <1>11, SumAtMost, SumInteger
<1>13. Sum(f, Vars) = f[o] + Sum(f, W) /\ Sum(g, Vars) = g[o] + Sum(g, W)
  <2> HIDE DEF f, g
  <2> QED BY <1>6, <1>9, <1>10, SumTakes DEF W
<1>14. f[o] = u * X[o] /\ g[o] = u * P[o]
  BY <1>6, <1>10
<1> DEFINE a == X[o]
           b == P[o]
           s == Sum(f, W)
           t == Sum(g, W)
<1>15. a \in Int /\ b \in Int /\ s \in Int /\ t \in Int /\ t <= s /\ u * a + s = 0 /\ u * b + t = 0
  BY <1>2, <1>3, <1>4, <1>6, <1>12, <1>13, <1>14
<1>16. IF u = -One THEN a < b ELSE a > b
  <2>1. Low(o) \in Int /\ Up(o) \in Int /\ Low(o) <= P[o] /\ P[o] <= Up(o)
    BY <1>3, <1>6, Bounds
  <2>2. CASE u = -One
    <3>1. X[o] < Low(o)
      BY <2>2 DEF Below, X, o
    <3> QED BY <1>15, <2>1, <2>2, <3>1
  <2>3. CASE u # -One
    <3>1. X[o] > Up(o)
      BY <2>3 DEF Above, X, o
    <3> QED BY <1>15, <2>1, <2>3, <3>1
  <2> QED BY <2>2, <2>3
<1> HIDE DEF a, b, s, t
<1>17. CASE u = -One
  <2>1. One * a = s /\ One * b = t
    BY <1>6, <1>15, <1>17
  <2>2. One * a < One * b
    BY <1>6, <1>15, <1>16, <1>17
  <2> QED BY <1>15, <2>1, <2>2
<1>18. CASE u = One
  <2>1. u # -One
    BY <1>6, <1>18
  <2>2. One * a = -s /\ One * b = -t
    BY <1>6, <1>15, <1>18
  <2>3. One * a > One * b
    BY <1>6, <1>15, <1>16, <2>1
  <2> QED BY <1>15, <2>2, <2>3
<1> QED BY <1>17, <1>18

-----------------------------------------------------------------------------
(* What the operations make of a basis.                                    *)

\* Everyone is basic in one place or in none.
LEMMA SwapKeeps ==
    ASSUME IsProgram(lp), NEW b, Partition(b), StatusesFit(b), NEW p \in Rows, NEW q \in b.nonbasic,
           NEW leaving \in {"AtLower", "AtUpper"},
           leaving = "AtLower" => Finite(Low(b.basic[p])),
           leaving = "AtUpper" => Finite(Up(b.basic[p]))
    PROVE  Partition(Swap(b, p, q, leaving)) /\ StatusesFit(Swap(b, p, q, leaving))
<1> DEFINE o == b.basic[p]
           e == Swap(b, p, q, leaving)
<1>1. /\ e.basic = [b.basic EXCEPT ![p] = q]
      /\ e.status = [b.status EXCEPT ![o] = leaving, ![q] = "Basic"]
      /\ e.place = [b.place EXCEPT ![o] = 0, ![q] = p]
      /\ e.nonbasic = {v \in Vars : e.status[v] # "Basic"}
  BY DEF Swap
<1>2. /\ DOMAIN b.basic = Rows /\ DOMAIN b.status = Vars /\ DOMAIN b.place = Vars
      /\ \A i \in Rows : b.basic[i] \in Vars /\ b.status[b.basic[i]] = "Basic" /\ b.place[b.basic[i]] = i
      /\ b.nonbasic = {v \in Vars : b.status[v] # "Basic"}
      /\ \A v \in b.nonbasic : b.place[v] = 0
      /\ \A v \in Vars : b.status[v] = "Basic" => b.place[v] \in Rows /\ b.basic[b.place[v]] = v
  BY DEF Partition, IsValid
<1>3. o \in Vars /\ q \in Vars /\ b.status[o] = "Basic" /\ b.status[q] # "Basic" /\ o # q /\ b.place[o] = p
  BY <1>2
<1> HIDE DEF e
<1>4. /\ DOMAIN e.basic = Rows /\ DOMAIN e.status = Vars /\ DOMAIN e.place = Vars
      /\ \A i \in Rows : e.basic[i] = IF i = p THEN q ELSE b.basic[i]
      /\ \A v \in Vars : e.status[v] = IF v = q THEN "Basic" ELSE IF v = o THEN leaving ELSE b.status[v]
      /\ \A v \in Vars : e.place[v] = IF v = q THEN p ELSE IF v = o THEN 0 ELSE b.place[v]
  <2>1. DOMAIN e.basic = Rows /\ \A i \in Rows : e.basic[i] = IF i = p THEN q ELSE b.basic[i]
    BY <1>1, <1>2
  <2>2. DOMAIN e.status = Vars
        /\ \A v \in Vars : e.status[v] = IF v = q THEN "Basic" ELSE IF v = o THEN leaving ELSE b.status[v]
    BY <1>1, <1>2, <1>3
  <2>3. DOMAIN e.place = Vars /\ \A v \in Vars : e.place[v] = IF v = q THEN p ELSE IF v = o THEN 0 ELSE b.place[v]
    BY <1>1, <1>2, <1>3
  <2> QED BY <2>1, <2>2, <2>3
<1>5. leaving # "Basic"
  OBVIOUS
<1> HIDE DEF o
<1>6. \A i \in Rows : e.basic[i] \in Vars /\ e.status[e.basic[i]] = "Basic" /\ e.place[e.basic[i]] = i
  <2> SUFFICES ASSUME NEW i \in Rows
               PROVE  e.basic[i] \in Vars /\ e.status[e.basic[i]] = "Basic" /\ e.place[e.basic[i]] = i
    OBVIOUS
  <2>1. CASE i = p
    BY <1>3, <1>4, <2>1
  <2>2. CASE i # p
    <3>1. e.basic[i] = b.basic[i] /\ b.basic[i] \in Vars /\ b.status[b.basic[i]] = "Basic" /\ b.place[b.basic[i]] = i
      BY <1>2, <1>4, <2>2
    <3>2. b.basic[i] # o /\ b.basic[i] # q
      BY <1>3, <2>2, <3>1
    <3> QED BY <1>4, <3>1, <3>2
  <2> QED BY <2>1, <2>2
<1>7. \A v \in e.nonbasic : e.place[v] = 0
  BY <1>1, <1>2, <1>4
<1>8. \A v \in Vars : e.status[v] = "Basic" => e.place[v] \in Rows /\ e.basic[e.place[v]] = v
  <2> SUFFICES ASSUME NEW v \in Vars, e.status[v] = "Basic"
               PROVE  e.place[v] \in Rows /\ e.basic[e.place[v]] = v
    OBVIOUS
  <2>1. CASE v = q
    BY <1>4, <2>1
  <2>2. CASE v # q
    <3>1. v # o /\ b.status[v] = "Basic" /\ e.place[v] = b.place[v]
      BY <1>4, <1>5, <2>2
    <3>2. b.place[v] \in Rows /\ b.basic[b.place[v]] = v
      BY <1>2, <3>1
    <3>3. b.place[v] # p
      BY <3>1, <3>2 DEF o
    <3> QED BY <1>4, <3>1, <3>2, <3>3
  <2> QED BY <2>1, <2>2
<1>9. StatusesFit(e)
  <2>1. ASSUME NEW v \in Vars
        PROVE  /\ e.status[v] \in {"Basic", "AtLower", "AtUpper", "Fixed", "Free"}
               /\ e.status[v] \in {"AtLower", "Fixed"} => Finite(Low(v))
               /\ e.status[v] = "AtUpper" => Finite(Up(v))
               /\ e.status[v] = "Fixed" => Low(v) = Up(v)
               /\ e.status[v] = "Free" => ~Finite(Low(v)) /\ ~Finite(Up(v))
    <3>1. CASE v = q
      BY <1>4, <3>1
    <3>2. CASE v # q /\ v = o
      BY <1>4, <3>2 DEF o
    <3>3. CASE v # q /\ v # o
      BY <1>4, <3>3 DEF StatusesFit
    <3> QED BY <3>1, <3>2, <3>3
  <2> QED BY <2>1 DEF StatusesFit
<1>10. Partition(e)
  BY <1>1, <1>4, <1>6, <1>7, <1>8 DEF Partition, IsValid
<1> QED BY <1>9, <1>10 DEF e

\* A variable with a bound on one side and a finite range has one on the other.
LEMMA OtherBound ==
    ASSUME IsProgram(lp), NEW v \in Vars, Flippable(v), Finite(Low(v)) \/ Finite(Up(v))
    PROVE  Finite(Low(v)) /\ Finite(Up(v))
<1>1. /\ Low(v) \in Int /\ Up(v) \in Int
      /\ Low(v) = -Infinity \/ Finite(Low(v))
      /\ Up(v) = Infinity \/ Finite(Up(v))
  BY Bounds
<1>2. Infinity \in Nat /\ Infinity > 0
  BY InfinityAssumption
<1>3. Finite(Up(v) - Low(v))
  BY DEF Flippable
<1> DEFINE l == Low(v)
           u == Up(v)
<1>4. l \in Int /\ u \in Int /\ (l = -Infinity \/ Finite(l)) /\ (u = Infinity \/ Finite(u))
      /\ Finite(u - l) /\ (Finite(l) \/ Finite(u))
  BY <1>1, <1>3
<1> HIDE DEF l, u
<1>5. Finite(l) /\ Finite(u)
  BY <1>2, <1>4 DEF Finite
<1> QED BY <1>5 DEF l, u

LEMMA FlipKeeps ==
    ASSUME IsProgram(lp), NEW b, Partition(b), StatusesFit(b), NEW S,
           \A v \in S : v \in b.nonbasic /\ b.status[v] \in {"AtLower", "AtUpper"} /\ Flippable(v)
    PROVE  /\ Partition(Flipped(b, S)) /\ StatusesFit(Flipped(b, S))
           /\ Flipped(b, S).basic = b.basic /\ Flipped(b, S).nonbasic = b.nonbasic
           /\ \A v \in Vars : Flipped(b, S).status[v] = "Basic" <=> b.status[v] = "Basic"
<1> DEFINE e == Flipped(b, S)
<1>1. /\ e.basic = b.basic /\ e.place = b.place /\ e.nonbasic = b.nonbasic
      /\ e.status = [v \in Vars |-> IF v \in S THEN Opposite[b.status[v]] ELSE b.status[v]]
  BY DEF Flipped
<1> HIDE DEF e
<1>2. /\ DOMAIN b.basic = Rows /\ DOMAIN b.status = Vars /\ DOMAIN b.place = Vars
      /\ \A i \in Rows : b.basic[i] \in Vars /\ b.status[b.basic[i]] = "Basic" /\ b.place[b.basic[i]] = i
      /\ b.nonbasic = {v \in Vars : b.status[v] # "Basic"}
      /\ \A v \in b.nonbasic : b.place[v] = 0
      /\ \A v \in Vars : b.status[v] = "Basic" => b.place[v] \in Rows /\ b.basic[b.place[v]] = v
  BY DEF Partition, IsValid
<1>3. \A v \in Vars :
        /\ v \in S => /\ b.status[v] = "AtLower" => e.status[v] = "AtUpper"
                      /\ b.status[v] = "AtUpper" => e.status[v] = "AtLower"
                      /\ b.status[v] \in {"AtLower", "AtUpper"}
        /\ v \notin S => e.status[v] = b.status[v]
  <2>1. Opposite["AtLower"] = "AtUpper" /\ Opposite["AtUpper"] = "AtLower"
    BY DEF Opposite
  <2>2. \A v \in Vars : e.status[v] = IF v \in S THEN Opposite[b.status[v]] ELSE b.status[v]
    BY <1>1
  <2> QED BY <2>1, <2>2
<1>4. \A v \in Vars : e.status[v] = "Basic" <=> b.status[v] = "Basic"
  BY <1>3
<1>5. \A v \in Vars : v \in S => Finite(Low(v)) /\ Finite(Up(v))
  <2> SUFFICES ASSUME NEW v \in Vars, v \in S
               PROVE  Finite(Low(v)) /\ Finite(Up(v))
    OBVIOUS
  <2>1. Flippable(v) /\ (Finite(Low(v)) \/ Finite(Up(v)))
    BY DEF StatusesFit
  <2> QED BY <2>1, OtherBound
<1>6. StatusesFit(e)
  <2>1. ASSUME NEW v \in Vars
        PROVE  /\ e.status[v] \in {"Basic", "AtLower", "AtUpper", "Fixed", "Free"}
               /\ e.status[v] \in {"AtLower", "Fixed"} => Finite(Low(v))
               /\ e.status[v] = "AtUpper" => Finite(Up(v))
               /\ e.status[v] = "Fixed" => Low(v) = Up(v)
               /\ e.status[v] = "Free" => ~Finite(Low(v)) /\ ~Finite(Up(v))
    <3>1. CASE v \in S
      <4>1. e.status[v] \in {"AtLower", "AtUpper"} /\ Finite(Low(v)) /\ Finite(Up(v))
        BY <1>3, <1>5, <3>1
      <4> QED BY <4>1
    <3>2. CASE v \notin S
      <4>1. e.status[v] = b.status[v]
        BY <1>3, <3>2
      <4> QED BY <4>1 DEF StatusesFit
    <3> QED BY <3>1, <3>2
  <2> QED BY <2>1 DEF StatusesFit
<1>7. e.nonbasic = {v \in Vars : e.status[v] # "Basic"}
  BY <1>1, <1>2, <1>4
<1>8. IsValid(e)
  BY <1>1, <1>2, <1>4 DEF IsValid
<1>9. Partition(e)
  BY <1>1, <1>2, <1>4, <1>7, <1>8 DEF Partition
<1> QED BY <1>1, <1>4, <1>6, <1>9 DEF e

\* The slack basis, with every column at the bound its cost pulls it to.
LEMMA SlackBasisFits ==
    ASSUME IsProgram(lp)
    PROVE  Partition(SlackBasis) /\ StatusesFit(SlackBasis)
<1> DEFINE e == SlackBasis
<1>1. /\ e.basic = [i \in Rows |-> Slack(i)]
      /\ e.status = [v \in Vars |-> IF IsCol(v) THEN RestAt(v) ELSE "Basic"]
      /\ e.place = [v \in Vars |-> IF IsCol(v) THEN 0 ELSE v - lp.n]
      /\ e.nonbasic = Cols
  BY DEF SlackBasis
<1> HIDE DEF e
<1>2. \A v \in Vars :
        /\ RestAt(v) \in {"AtLower", "AtUpper", "Fixed", "Free"}
        /\ RestAt(v) \in {"AtLower", "Fixed"} => Finite(Low(v))
        /\ RestAt(v) = "AtUpper" => Finite(Up(v))
        /\ RestAt(v) = "Fixed" => Low(v) = Up(v)
        /\ RestAt(v) = "Free" => ~Finite(Low(v)) /\ ~Finite(Up(v))
  <2> SUFFICES ASSUME NEW v \in Vars
               PROVE  /\ RestAt(v) \in {"AtLower", "AtUpper", "Fixed", "Free"}
                      /\ RestAt(v) \in {"AtLower", "Fixed"} => Finite(Low(v))
                      /\ RestAt(v) = "AtUpper" => Finite(Up(v))
                      /\ RestAt(v) = "Fixed" => Low(v) = Up(v)
                      /\ RestAt(v) = "Free" => ~Finite(Low(v)) /\ ~Finite(Up(v))
    OBVIOUS
  <2>1. /\ Low(v) = -Infinity \/ Finite(Low(v))
        /\ Up(v) = Infinity \/ Finite(Up(v))
    BY Bounds
  <2>2. Infinity # -Infinity /\ ~Finite(-Infinity) /\ ~Finite(Infinity)
    BY InfinityAssumption DEF Finite
  <2> QED BY <2>1, <2>2 DEF RestAt
<1>3. \A v \in Vars : e.status[v] = "Basic" <=> ~IsCol(v)
  <2> SUFFICES ASSUME NEW v \in Vars
               PROVE  e.status[v] = "Basic" <=> ~IsCol(v)
    OBVIOUS
  <2>1. e.status[v] = IF IsCol(v) THEN RestAt(v) ELSE "Basic"
    BY <1>1
  <2>2. RestAt(v) # "Basic"
    BY <1>2
  <2> QED BY <2>1, <2>2
<1>4. e.nonbasic = {v \in Vars : e.status[v] # "Basic"}
  BY <1>1, <1>3, Shape
<1>5. IsValid(e) /\ DOMAIN e.place = Vars
  BY <1>1, <1>3, Shape DEF IsValid
<1>6. \A v \in e.nonbasic : e.place[v] = 0
  BY <1>1, Shape
<1>7. \A v \in Vars : e.status[v] = "Basic" => e.place[v] \in Rows /\ e.basic[e.place[v]] = v
  <2> SUFFICES ASSUME NEW v \in Vars, ~IsCol(v)
               PROVE  e.place[v] \in Rows /\ e.basic[e.place[v]] = v
    BY <1>3
  <2>1. v - lp.n \in Rows /\ e.place[v] = v - lp.n
    BY <1>1, Shape
  <2>2. Slack(v - lp.n) = v
    BY Shape DEF Slack, Vars
  <2> QED BY <1>1, <2>1, <2>2
<1>8. StatusesFit(e)
  <2>1. ASSUME NEW v \in Vars
        PROVE  /\ e.status[v] \in {"Basic", "AtLower", "AtUpper", "Fixed", "Free"}
               /\ e.status[v] \in {"AtLower", "Fixed"} => Finite(Low(v))
               /\ e.status[v] = "AtUpper" => Finite(Up(v))
               /\ e.status[v] = "Fixed" => Low(v) = Up(v)
               /\ e.status[v] = "Free" => ~Finite(Low(v)) /\ ~Finite(Up(v))
    <3>1. e.status[v] = IF IsCol(v) THEN RestAt(v) ELSE "Basic"
      BY <1>1
    <3>2. CASE IsCol(v)
      <4>1. e.status[v] = RestAt(v)
        BY <3>1, <3>2
      <4> QED BY <1>2, <4>1
    <3>3. CASE ~IsCol(v)
      <4>1. e.status[v] = "Basic"
        BY <3>1, <3>3
      <4> QED BY <4>1
    <3> QED BY <3>2, <3>3
  <2> QED BY <2>1 DEF StatusesFit
<1>9. Partition(e)
  BY <1>4, <1>5, <1>6, <1>7 DEF Partition
<1> QED BY <1>8, <1>9 DEF e

\* A basis of a model with rows is not the one solve() starts with.
LEMMA PartitionStarted ==
    ASSUME IsProgram(lp), lp.m # 0, NEW b, Partition(b)
    PROVE  b # NoBasis
<1>1. DOMAIN b.basic = Rows /\ 1 \in Rows
  BY Shape DEF Partition, IsValid, Rows
<1>2. NoBasis.basic = <<>> /\ DOMAIN <<>> = {}
  BY DEF NoBasis
<1> QED BY <1>1, <1>2

\* Dual values are those of the basic variables' costs, reduced costs depend on who is
\* basic.
LEMMA SameBasics ==
    ASSUME NEW b, NEW e, e.basic = b.basic, \A v \in Vars : e.status[v] = "Basic" <=> b.status[v] = "Basic",
           NEW f, NEW w, NEW z
    PROVE  DualValues(e, f, w) = DualValues(b, f, w) /\ ReducedCosts(e, w, z) = ReducedCosts(b, w, z)
<1>1. DualValues(e, f, w) = DualValues(b, f, w)
  BY DEF DualValues
<1>2. ReducedCosts(e, w, z) = ReducedCosts(b, w, z)
  BY DEF ReducedCosts
<1> QED BY <1>1, <1>2

-----------------------------------------------------------------------------
(* The invariant, step by step.                                            *)

\* What the verdicts are worth at every point, not only at those of the grid.
Answered(status) == pc = "done" /\ result.status = status
Unquestioned == result.primal_inf = 0 /\ result.dual_inf = 0 /\ lp.m # 0 /\ lp.n # 0 /\ ~FreeIgnored
TrueVerdicts ==
    /\ Answered("OPTIMAL") /\ Unquestioned =>
         /\ FeasiblePoint([j \in Cols |-> x[j]])
         /\ \A p \in [Cols -> Int] : FeasiblePoint(p) => result.objective <= Objective(p)
    /\ Answered("PRIMAL_INFEASIBLE") => \A p \in [Cols -> Int] : ~FeasiblePoint(p)

\* A start from the slacks, or from a basis that is a partition when it fits in size.
RightStart == initial # NoBasis /\ IsValid(initial) => Partition(initial) /\ StatusesFit(initial)

Strong == TypeOK /\ BasisPartition /\ StatusesMeanBounds /\ WorkConsistent /\ TrueVerdicts /\ RightStart

LEMMA Certified ==
    ASSUME TrueVerdicts
    PROVE  VerdictsCertified
<1>1. Grid \subseteq [Cols -> Int] /\ \A p \in Grid : FeasiblePoint(p)
  <2>1. Halves \subseteq Int
    BY OneAssumption DEF Halves
  <2>2. UNION {GridSide(j) : j \in Cols} \subseteq Int
    BY <2>1 DEF GridSide
  <2> QED BY <2>2 DEF Grid
<1>2. OptimalCertified
  BY <1>1 DEF TrueVerdicts, OptimalCertified, Answered, Unquestioned
<1>3. InfeasibleCertified
  BY <1>1 DEF TrueVerdicts, InfeasibleCertified, Answered
<1> QED BY <1>2, <1>3 DEF VerdictsCertified

\* The arguments do not change, and nor does what is said of them.
LEMMA ArgsKept ==
    ASSUME UNCHANGED args, IsProgram(lp), config \in Configs, RightStart
    PROVE  IsProgram(lp)' /\ (config \in Configs)' /\ RightStart'
<1>1. lp' = lp /\ config' = config /\ initial' = initial
  BY DEF args
<1>2. IsProgram(lp)'
  BY <1>1 DEF IsProgram, BoundsOK, Finite
<1>3. RightStart'
  BY <1>1 DEF RightStart, IsValid, Partition, StatusesFit, Low, Up, IsCol, Vars, Rows, Finite, NoBasis
<1> QED BY <1>1, <1>2, <1>3

LEMMA BasisTaken ==
    ASSUME UNCHANGED args, NEW b, basis' = b, Partition(b), StatusesFit(b)
    PROVE  BasisPartition' /\ StatusesMeanBounds'
<1>1. lp' = lp
  BY DEF args
<1>2. Partition(basis)'
  BY <1>1 DEF Partition, IsValid, Vars, Rows
<1>3. StatusesFit(basis)'
  BY <1>1 DEF StatusesFit, Low, Up, IsCol, Vars, Finite
<1> QED BY <1>2, <1>3 DEF BasisPartition, StatusesMeanBounds

LEMMA BasisKept ==
    ASSUME UNCHANGED args, UNCHANGED basis, BasisPartition, StatusesMeanBounds
    PROVE  BasisPartition' /\ StatusesMeanBounds'
<1>1. CASE Started
  <2>1. Partition(basis) /\ StatusesFit(basis)
    BY <1>1 DEF BasisPartition, StatusesMeanBounds
  <2> QED BY <2>1, BasisTaken
<1>2. CASE ~Started
  <2>1. ~(Started')
    BY <1>2 DEF Started, NoBasis
  <2> QED BY <2>1 DEF BasisPartition, StatusesMeanBounds
<1> QED BY <1>1, <1>2

LEMMA RestTaken ==
    ASSUME UNCHANGED args, NEW b, basis' = b, \A v \in b.nonbasic : x'[v] = RestingValue(b, v)
    PROVE  AtTheirBounds'
<1>1. lp' = lp
  BY DEF args
<1> QED BY <1>1 DEF AtTheirBounds, RestingValue, Low, Up, IsCol

LEMMA SyncedRests ==
    ASSUME NEW b, Partition(b), NEW X, NEW v \in b.nonbasic
    PROVE  Synced(b, X)[v] = RestingValue(b, v)
BY DEF Partition, Synced

LEMMA DualsTaken ==
    ASSUME UNCHANGED args, NEW b, basis' = b, NEW f, fact' = f, NEW w, c' = w,
           NEW z, y' = z, z = DualValues(b, f, w), d' = ReducedCosts(b, w, z)
    PROVE  (y = DualValues(basis, fact, c) /\ d = ReducedCosts(basis, c, y))'
<1>1. lp' = lp
  BY DEF args
<1>2. (y = DualValues(basis, fact, c))'
  BY <1>1 DEF DualValues, Rows
<1>3. (d = ReducedCosts(basis, c, y))'
  BY <1>1 DEF ReducedCosts, Vars, IsCol, Dot, Total, Column, Rows
<1> QED BY <1>2, <1>3

LEMMA CostsKept ==
    ASSUME UNCHANGED args
    PROVE  Costs' = Costs /\ Vars' = Vars
<1>1. lp' = lp
  BY DEF args
<1> QED BY <1>1 DEF Costs, Vars, IsCol

\* A step that gives no answer keeps the invariant when the work it leaves is right.
LEMMA StepTaken ==
    ASSUME Strong, UNCHANGED args, TypeOK', BasisPartition', StatusesMeanBounds',
           pc' # "start", pc' # "done" \/ result' = NoResult,
           Working' => (/\ Started /\ lp.m # 0 /\ lp.n # 0
                        /\ AtTheirBounds
                        /\ y = DualValues(basis, fact, c) /\ d = ReducedCosts(basis, c, y)
                        /\ shift \in [Vars -> Int]
                        /\ c = IF pc \in {"dual", "restore"} THEN [v \in Vars |-> Costs[v] + shift[v]] ELSE Costs
                        /\ result = NoResult \/ pc = "assemble")'
    PROVE  Strong'
<1>1. RightStart'
  BY ArgsKept DEF Strong, TypeOK
<1>2. TrueVerdicts'
  <2>1. ~Answered("OPTIMAL")' /\ ~Answered("PRIMAL_INFEASIBLE")'
    BY DEF Answered, NoResult
  <2> QED BY <2>1 DEF TrueVerdicts
<1>3. WorkConsistent'
  BY DEF WorkConsistent
<1> QED BY <1>1, <1>2, <1>3 DEF Strong

LEMMA StartsRight ==
    ASSUME Strong, SolvesRight', Begin
    PROVE  Strong'
<1> DEFINE b == StartBasis
           f == Factorized(fact, BasisMatrix(b.basic))
           y0 == DualValues(b, f, c)
           s == Shifts(b, ReducedCosts(b, c, y0))
           costs == [v \in Vars |-> c[v] + s[v]]
<1>1. /\ pc = "start" /\ lp.m # 0 /\ lp.n # 0 /\ basis' = b /\ fact' = f /\ x' = Synced(b, x)
      /\ UNCHANGED args /\ iter' = iter /\ cleanups' = cleanups /\ result' = result
      /\ \/ /\ c' = costs /\ shift' = s /\ y' = DualValues(b, f, costs) /\ d' = ReducedCosts(b, costs, y')
            /\ pc' = "dual"
         \/ UNCHANGED <<c, shift, y, d>> /\ pc' = "done"
  BY DEF Begin
<1>2. IsProgram(lp) /\ RightStart /\ c = Costs /\ result = NoResult /\ TypeOK
  BY <1>1 DEF Strong, WorkConsistent, TypeOK
<1>3. Partition(b) /\ StatusesFit(b)
  BY <1>2, SlackBasisFits DEF StartBasis, RightStart
<1> HIDE DEF b, f
<1>4. BasisPartition' /\ StatusesMeanBounds'
  BY <1>1, <1>3, BasisTaken
<1>5. AtTheirBounds'
  BY <1>1, <1>3, RestTaken, SyncedRests
<1>6. b # NoBasis
  BY <1>1, <1>2, <1>3, PartitionStarted
<1>7. TypeOK'
  <2>1. IsProgram(lp)' /\ (config \in Configs)' /\ config' = config
    BY <1>1, <1>2, ArgsKept DEF TypeOK, args
  <2> QED BY <1>1, <1>2, <2>1 DEF TypeOK
\* A shift is the cost of nobody in the basis: the dual values stay as they are.
<1>8. \A i \in Rows : s[b.basic[i]] = 0 /\ b.basic[i] \in Vars
  BY <1>3 DEF Shifts, Partition, IsValid
<1>9. ASSUME pc' = "dual"
      PROVE  /\ y' = y0 /\ s \in [Vars -> Int] /\ c' = costs /\ shift' = s
             /\ y' = DualValues(b, f, costs) /\ d' = ReducedCosts(b, costs, y')
  <2>1. /\ c' = costs /\ shift' = s /\ y' = DualValues(b, f, costs) /\ d' = ReducedCosts(b, costs, y')
    BY <1>1, <1>9
  <2>2. Costs \in [Vars -> Int]
    BY <1>2, CostsWhole
  <2>3. \A i \in Rows : costs[b.basic[i]] = c[b.basic[i]]
    BY <1>2, <1>8, <2>2
  <2>4. y' = y0
    <3> HIDE DEF costs
    <3> QED BY <2>1, <2>3 DEF DualValues
  <2>5. y' \in [Rows -> Int]
    <3>1. Working' /\ lp' = lp
      BY <1>1, <1>9 DEF Working, args
    <3>2. DualValues(basis, fact, c)' \in [Rows -> Int]
      BY <3>1 DEF SolvesRight, Prices, Rows
    <3>3. DualValues(basis, fact, c)' = y'
      BY <1>1, <2>1, <3>1 DEF DualValues, Rows
    <3> QED BY <3>2, <3>3
  <2>6. \A v \in Vars : ReducedCosts(b, c, y0)[v] \in Int
    <3> SUFFICES ASSUME NEW v \in Vars
                 PROVE  ReducedCosts(b, c, y0)[v] \in Int
      OBVIOUS
    <3>1. c[v] \in Int /\ (IsCol(v) => Dot(Column(v), y0) \in Int) /\ (~IsCol(v) => y0[v - lp.n] \in Int)
      BY <1>2, <2>2, <2>4, <2>5, DotIsSum, Shape
    <3> QED BY <3>1 DEF ReducedCosts
  <2>7. s \in [Vars -> Int]
    <3> HIDE DEF y0
    <3> QED BY <2>6 DEF Shifts
  <2> QED BY <2>1, <2>4, <2>7
<1>10. ASSUME Working'
       PROVE  (/\ Started /\ lp.m # 0 /\ lp.n # 0
               /\ AtTheirBounds
               /\ y = DualValues(basis, fact, c) /\ d = ReducedCosts(basis, c, y)
               /\ shift \in [Vars -> Int]
               /\ c = IF pc \in {"dual", "restore"} THEN [v \in Vars |-> Costs[v] + shift[v]] ELSE Costs
               /\ result = NoResult \/ pc = "assemble")'
  <2>1. pc' = "dual" /\ lp' = lp
    BY <1>1, <1>10 DEF Working, args
  <2>2. s \in [Vars -> Int] /\ c' = costs /\ shift' = s /\ y' = DualValues(b, f, costs) /\ d' = ReducedCosts(b, costs, y')
    BY <1>9, <2>1
  <2>3. (y = DualValues(basis, fact, c) /\ d = ReducedCosts(basis, c, y))'
    <3> DEFINE z == y'
    <3>1. y' = z /\ z = DualValues(b, f, costs) /\ d' = ReducedCosts(b, costs, z)
      BY <2>2
    <3> HIDE DEF z, costs
    <3> QED BY <1>1, <2>2, <3>1, DualsTaken
  <2>4. Vars' = Vars /\ Costs' = Costs
    BY <1>1, CostsKept
  <2>5. (shift \in [Vars -> Int])' /\ c' = [v \in Vars' |-> Costs'[v] + shift'[v]]
    BY <1>2, <2>2, <2>4
  <2>6. Started'
    BY <1>1, <1>6 DEF Started, NoBasis
  <2>7. (result = NoResult)'
    BY <1>1, <1>2 DEF NoResult
  <2> QED BY <1>1, <1>5, <2>1, <2>3, <2>5, <2>6, <2>7
<1>11. pc' # "start" /\ (result' = NoResult)
  BY <1>1, <1>2
<1> QED BY <1>1, <1>4, <1>7, <1>10, <1>11, StepTaken

\* The conjuncts that a step from a working state can use.
LEMMA AtWork ==
    ASSUME Strong, Working
    PROVE  /\ IsProgram(lp) /\ config \in Configs /\ config.max_iterations \in Nat /\ RightStart /\ TypeOK
           /\ Partition(basis) /\ StatusesFit(basis) /\ BasisPartition /\ StatusesMeanBounds
           /\ Started /\ lp.m # 0 /\ lp.n # 0 /\ AtTheirBounds
           /\ y = DualValues(basis, fact, c) /\ d = ReducedCosts(basis, c, y)
           /\ shift \in [Vars -> Int]
           /\ c = IF pc \in {"dual", "restore"} THEN [v \in Vars |-> Costs[v] + shift[v]] ELSE Costs
           /\ result = NoResult \/ pc = "assemble"
<1>1. /\ IsProgram(lp) /\ config \in Configs /\ RightStart /\ TypeOK /\ BasisPartition /\ StatusesMeanBounds
  BY DEF Strong, TypeOK
<1>2. config.max_iterations \in Nat
  BY <1>1, ConfigsAssumption
<1>3. /\ Started /\ lp.m # 0 /\ lp.n # 0 /\ AtTheirBounds
      /\ y = DualValues(basis, fact, c) /\ d = ReducedCosts(basis, c, y)
      /\ shift \in [Vars -> Int]
      /\ c = IF pc \in {"dual", "restore"} THEN [v \in Vars |-> Costs[v] + shift[v]] ELSE Costs
      /\ result = NoResult \/ pc = "assemble"
  BY DEF Strong, WorkConsistent
<1> QED BY <1>1, <1>2, <1>3 DEF BasisPartition, StatusesMeanBounds

\* Steps that leave the basis and the factors alone.
LEMMA BasisAlone ==
    ASSUME Strong, Working, UNCHANGED args, UNCHANGED <<basis, fact, shift, iter, cleanups>>,
           \A v \in basis.nonbasic : x'[v] = x[v],
           pc' \in {"restore", "cleanup", "assemble"},
           result' = NoResult \/ (pc' = "assemble" /\ result'.status = "DUAL_INFEASIBLE_UNBOUNDED"),
           \/ UNCHANGED <<c, y, d>>
              /\ (pc \in {"dual", "restore"} /\ pc' # "restore" => c = Costs)
              /\ (pc' = "restore" => pc = "dual")
           \/ /\ c' = Costs /\ y' = DualValues(basis, fact, c') /\ d' = ReducedCosts(basis, c', y')
              /\ pc' # "restore"
    PROVE  Strong'
<1>1. /\ IsProgram(lp) /\ config \in Configs /\ RightStart /\ TypeOK
      /\ Partition(basis) /\ StatusesFit(basis) /\ BasisPartition /\ StatusesMeanBounds
      /\ Started /\ lp.m # 0 /\ lp.n # 0 /\ AtTheirBounds
      /\ y = DualValues(basis, fact, c) /\ d = ReducedCosts(basis, c, y)
      /\ shift \in [Vars -> Int]
      /\ c = IF pc \in {"dual", "restore"} THEN [v \in Vars |-> Costs[v] + shift[v]] ELSE Costs
  BY AtWork
<1>2. lp' = lp /\ config' = config /\ Vars' = Vars /\ Costs' = Costs
  BY CostsKept DEF args
<1>3. BasisPartition' /\ StatusesMeanBounds' /\ Started'
  <2>1. Started'
    BY <1>1 DEF Started, NoBasis
  <2> QED BY <1>1, <2>1, BasisKept
<1>4. TypeOK'
  <2>1. IsProgram(lp)' /\ (config \in Configs)'
    BY <1>1, ArgsKept
  <2>2. result'.status \in {"NUMERICAL_FAILURE", "DUAL_INFEASIBLE_UNBOUNDED"}
    BY DEF NoResult
  <2> QED BY <1>1, <1>2, <2>1, <2>2 DEF TypeOK
<1>5. AtTheirBounds'
  <2> DEFINE b == basis
  <2>1. basis' = b /\ \A v \in b.nonbasic : x'[v] = RestingValue(b, v)
    BY <1>1 DEF AtTheirBounds
  <2> HIDE DEF b
  <2> QED BY <2>1, RestTaken
<1>6. (y = DualValues(basis, fact, c) /\ d = ReducedCosts(basis, c, y))'
  <2> DEFINE b == basis
             f == fact
             w == c'
             z == y'
  <2>1. basis' = b /\ fact' = f /\ c' = w /\ y' = z /\ z = DualValues(b, f, w) /\ d' = ReducedCosts(b, w, z)
    BY <1>1
  <2> HIDE DEF b, f, w, z
  <2> QED BY <2>1, DualsTaken
<1>7. (shift \in [Vars -> Int])'
  BY <1>1, <1>2
<1>8. (c = IF pc \in {"dual", "restore"} THEN [v \in Vars |-> Costs[v] + shift[v]] ELSE Costs)'
  <2>1. CASE pc' = "restore"
    <3>1. c' = c /\ pc = "dual"
      BY <2>1
    <3>2. c' = [v \in Vars |-> Costs[v] + shift[v]]
      BY <1>1, <3>1
    <3> QED BY <1>2, <2>1, <3>2
  <2>2. CASE pc' # "restore"
    <3>1. c' = Costs
      <4>1. CASE c' = c /\ (pc \in {"dual", "restore"} /\ pc' # "restore" => c = Costs)
        BY <1>1, <2>2, <4>1
      <4> QED BY <4>1
    <3> QED BY <1>2, <2>2, <3>1
  <2> QED BY <2>1, <2>2
<1>9. pc' # "start" /\ pc' # "done" /\ (result = NoResult \/ pc = "assemble")'
  BY DEF NoResult
<1> QED BY <1>1, <1>2, <1>3, <1>4, <1>5, <1>6, <1>7, <1>8, <1>9, StepTaken

LEMMA PausesRight ==
    ASSUME Strong, SolvesRight, PrimalFeasible \/ OutOfTime \/ RestoreCosts \/ CleanupEnds \/ PrimalUnbounded
    PROVE  Strong'
<1>1. CASE PrimalFeasible
  <2>1. /\ pc = "dual" /\ x' = Current /\ pc' = "restore"
        /\ UNCHANGED <<args, basis, c, shift, y, d, fact, iter, cleanups, result>>
    BY <1>1 DEF PrimalFeasible
  <2>2. Working /\ PointSolves
    BY <2>1 DEF Working, SolvesRight
  <2>3. result = NoResult /\ IsProgram(lp) /\ Partition(basis)
    BY <2>1, <2>2, AtWork
  <2>4. \A v \in basis.nonbasic : x'[v] = x[v]
    BY <2>1, <2>2, <2>3, CurrentPoint
  <2> QED BY <2>1, <2>2, <2>3, <2>4, BasisAlone
<1>2. CASE OutOfTime
  <2>1. pc = "dual" /\ pc' = "restore" /\ UNCHANGED <<args, basis, x, c, shift, y, d, fact, iter, cleanups, result>>
    BY <1>2 DEF OutOfTime, numbers
  <2>2. Working
    BY <2>1 DEF Working
  <2>3. result = NoResult
    BY <2>1, <2>2, AtWork
  <2> QED BY <2>1, <2>2, <2>3, BasisAlone
<1>3. CASE RestoreCosts
  <2>1. /\ pc = "restore"
        /\ \/ shift = ZeroVars /\ pc' = "assemble" /\ UNCHANGED <<c, y, d>>
           \/ /\ c' = [v \in Vars |-> c[v] - shift[v]] /\ y' = DualValues(basis, fact, c')
              /\ d' = ReducedCosts(basis, c', y') /\ pc' = "cleanup"
        /\ UNCHANGED <<args, basis, x, shift, fact, iter, cleanups, result>>
    BY <1>3 DEF RestoreCosts
  <2>2. Working
    BY <2>1 DEF Working
  <2>3. /\ result = NoResult /\ shift \in [Vars -> Int] /\ c = [v \in Vars |-> Costs[v] + shift[v]]
        /\ IsProgram(lp)
    BY <2>1, <2>2, AtWork
  <2>4. Costs \in [Vars -> Int]
    BY <2>3, CostsWhole
  <2>5. shift = ZeroVars => c = Costs
    BY <2>3, <2>4 DEF ZeroVars
  <2>6. [v \in Vars |-> c[v] - shift[v]] = Costs
    <3>1. \A v \in Vars : c[v] - shift[v] = Costs[v]
      <4> SUFFICES ASSUME NEW v \in Vars
                   PROVE  c[v] - shift[v] = Costs[v]
        OBVIOUS
      <4>1. c[v] = Costs[v] + shift[v] /\ Costs[v] \in Int /\ shift[v] \in Int
        BY <2>3, <2>4
      <4> QED BY <4>1
    <3> QED BY <2>4, <3>1
  <2> QED BY <2>1, <2>2, <2>3, <2>5, <2>6, BasisAlone
<1>4. CASE CleanupEnds
  <2>1. pc = "cleanup" /\ pc' = "assemble" /\ UNCHANGED <<args, basis, x, c, shift, y, d, fact, iter, cleanups, result>>
    BY <1>4 DEF CleanupEnds, numbers
  <2>2. Working
    BY <2>1 DEF Working
  <2>3. result = NoResult
    BY <2>1, <2>2, AtWork
  <2> QED BY <2>1, <2>2, <2>3, BasisAlone
<1>5. CASE PrimalUnbounded
  <2>1. /\ pc = "cleanup" /\ pc' = "assemble" /\ result' = [result EXCEPT !.status = "DUAL_INFEASIBLE_UNBOUNDED"]
        /\ UNCHANGED <<args, basis, x, c, shift, y, d, fact, iter, cleanups>>
    BY <1>5 DEF PrimalUnbounded, CleaningUp, numbers
  <2>2. Working
    BY <2>1 DEF Working
  <2>3. result = NoResult
    BY <2>1, <2>2, AtWork
  <2>4. result'.status = "DUAL_INFEASIBLE_UNBOUNDED"
    BY <2>1, <2>3 DEF NoResult
  <2> QED BY <2>1, <2>2, <2>4, BasisAlone
<1> QED BY <1>1, <1>2, <1>3, <1>4, <1>5

\* Candidates are variables that are not basic and would help; the first of them, as many
\* as the flips take, can be flipped, and the one that enters is another or the first.
LEMMA CandidatesFit ==
    ASSUME IsProgram(lp), Partition(basis), NEW alpha, NEW s \in ByRatio(alpha), s # <<>>, NEW violation
    PROVE  LET k == Flips(s, alpha, violation)
           IN /\ Entering(s, k) \in basis.nonbasic
              /\ \A n \in 1..k : /\ s[n] \in basis.nonbasic /\ Flippable(s[n])
                                 /\ basis.status[s[n]] \in {"AtLower", "AtUpper", "Free"}
<1> DEFINE C == {v \in basis.nonbasic : Helps(v, alpha[v])}
           k == Flips(s, alpha, violation)
           N == Cardinality(C)
           F == {i \in 0..Len(s) : \A l \in 1..i : Flippable(s[l]) /\
                    Total(LAMBDA n : Relief(s[n], alpha), 1..l) < One * violation}
<1>1. s \in SetToSeqs(C)
  BY DEF ByRatio
<1>2. s \in [1..N -> C]
  BY <1>1 DEF SetToSeqs
<1>3. IsFiniteSet(C)
  <2>1. basis.nonbasic \subseteq Vars
    BY DEF Partition
  <2>2. C \subseteq Vars
    BY <2>1
  <2> HIDE DEF C
  <2> QED BY <2>2, Shape, FS_Subset
<1>4. N \in Nat
  <2> HIDE DEF C
  <2> QED BY <1>3, FS_CardinalityType
<1>5. \A v \in C : v \in basis.nonbasic /\ basis.status[v] \in {"AtLower", "AtUpper", "Free"}
  BY DEF Helps
<1> HIDE DEF C, N
<1>6. Len(s) = N /\ s \in Seq(C)
  BY <1>2, <1>4, IsASeq, LenProperties
<1>7. N # 0
  BY <1>2, <1>4, <1>6, EmptySeq
<1>8. k \in 0..N /\ \A n \in 1..k : Flippable(s[n])
  <2>1. CASE config.ratio = "Standard"
    BY <1>4, <2>1 DEF Flips
  <2>2. CASE config.ratio # "Standard"
    <3>1. k = Max(F)
      BY <2>2 DEF Flips
    <3>2. F \subseteq 0..N /\ \A i \in F : \A n \in 1..i : Flippable(s[n])
      BY <1>6
    <3>3. 0 \in F
      <4>1. 0 \in 0..Len(s) /\ \A l \in 1..0 : FALSE
        BY <1>4, <1>6
      <4> QED BY <4>1, Zenon
    <3>4. IsFiniteSet(0..N)
      BY <1>4, FS_Interval
    <3> HIDE DEF F
    <3>5. IsFiniteSet(F) /\ F # {} /\ F \subseteq Int
      <4>1. F \in SUBSET (0..N) /\ F # {}
        BY <3>2, <3>3
      <4>2. IsFiniteSet(F)
        BY <3>4, <4>1, FS_Subset
      <4> QED BY <1>4, <4>1, <4>2
    <3>6. Max(F) \in F
      BY <3>5, HasGreatest
    <3> QED BY <3>1, <3>2, <3>6
  <2> QED BY <2>1, <2>2
<1> HIDE DEF k, F
<1>9. Entering(s, k) \in C
  BY <1>2, <1>4, <1>6, <1>7, <1>8 DEF Entering
<1>10. \A n \in 1..k : s[n] \in C
  BY <1>2, <1>4, <1>8
<1> QED BY <1>5, <1>8, <1>9, <1>10 DEF k

\* A free variable has no other bound to go to.
LEMMA FreeStays ==
    ASSUME IsProgram(lp), StatusesFit(basis), NEW v \in Vars, Flippable(v)
    PROVE  basis.status[v] # "Free"
<1>1. SUFFICES ASSUME basis.status[v] = "Free"
               PROVE  FALSE
  OBVIOUS
<1>2. ~Finite(Low(v)) /\ ~Finite(Up(v))
  BY <1>1 DEF StatusesFit
<1>3. Low(v) = -Infinity /\ Up(v) = Infinity
  BY <1>2, Bounds
<1>4. Finite(Infinity - (-Infinity))
  BY <1>3 DEF Flippable
<1> QED BY <1>4, InfinityAssumption DEF Finite

\* Steps that put another basis in place.
LEMMA BasisReplaced ==
    ASSUME Strong, Working, result = NoResult, UNCHANGED args, UNCHANGED <<c, shift, result>>,
           NEW b, basis' = b, Partition(b), StatusesFit(b),
           NEW X, x' = Synced(b, X), NEW f, fact' = f,
           pc' = pc \/ pc' = "done",
           iter' \in Nat, cleanups' \in 0..MaxCleanup, iter' <= config.max_iterations + cleanups',
           pc' # "done" => y' = DualValues(b, f, c) /\ d' = ReducedCosts(b, c, y')
    PROVE  Strong'
<1>1. /\ IsProgram(lp) /\ config \in Configs /\ RightStart /\ TypeOK
      /\ Started /\ lp.m # 0 /\ lp.n # 0
      /\ shift \in [Vars -> Int]
      /\ c = IF pc \in {"dual", "restore"} THEN [v \in Vars |-> Costs[v] + shift[v]] ELSE Costs
  BY AtWork
<1>2. lp' = lp /\ config' = config /\ Vars' = Vars /\ Costs' = Costs
  BY CostsKept DEF args
<1>3. BasisPartition' /\ StatusesMeanBounds' /\ Started'
  <2>1. b # NoBasis
    BY <1>1, PartitionStarted
  <2>2. Started'
    BY <2>1 DEF Started, NoBasis
  <2> QED BY <2>2, BasisTaken
<1>4. TypeOK'
  <2>1. IsProgram(lp)' /\ (config \in Configs)'
    BY <1>1, ArgsKept
  <2> QED BY <1>1, <1>2, <2>1 DEF TypeOK
<1>5. AtTheirBounds'
  BY SyncedRests, RestTaken
<1>6. ASSUME pc' # "done"
      PROVE  (y = DualValues(basis, fact, c) /\ d = ReducedCosts(basis, c, y))'
  <2> DEFINE w == c
             z == y'
  <2>1. c' = w /\ y' = z /\ z = DualValues(b, f, w) /\ d' = ReducedCosts(b, w, z)
    BY <1>6
  <2> HIDE DEF w, z
  <2> QED BY <2>1, DualsTaken
<1>7. (shift \in [Vars -> Int])'
  BY <1>1, <1>2
<1>8. pc' # "done" => (c = IF pc \in {"dual", "restore"} THEN [v \in Vars |-> Costs[v] + shift[v]] ELSE Costs)'
  <2>1. CASE pc \in {"dual", "restore"}
    <3>1. c' = [v \in Vars' |-> Costs'[v] + shift'[v]]
      BY <1>1, <1>2, <2>1
    <3> QED BY <2>1, <3>1
  <2>2. CASE pc \notin {"dual", "restore"}
    BY <1>1, <1>2, <2>2
  <2> QED BY <2>1, <2>2
<1>9. pc' # "start" /\ (result = NoResult)' /\ result' = NoResult
  BY DEF NoResult, Working
<1>10. Working' => pc' # "done"
  BY DEF Working
<1> QED BY <1>1, <1>2, <1>3, <1>4, <1>5, <1>6, <1>7, <1>8, <1>9, <1>10, StepTaken

\* A variable outside a bound has that bound.
LEMMA OutsideFinite ==
    ASSUME IsProgram(lp), NEW v \in Vars, NEW X \in [Vars -> Int], Finite(X[v])
    PROVE  /\ Below(v, X) => Finite(Low(v))
           /\ Above(v, X) => Finite(Up(v))
<1>1. /\ Low(v) \in Int /\ Up(v) \in Int
      /\ Low(v) = -Infinity \/ Finite(Low(v))
      /\ Up(v) = Infinity \/ Finite(Up(v))
  BY Bounds
<1>2. Infinity \in Nat /\ Infinity > 0 /\ X[v] \in Int
  BY InfinityAssumption
<1> DEFINE l == Low(v)
           u == Up(v)
           z == X[v]
<1>3. /\ l \in Int /\ u \in Int /\ z \in Int /\ Finite(z)
      /\ (l = -Infinity \/ Finite(l)) /\ (u = Infinity \/ Finite(u))
  BY <1>1, <1>2
<1> HIDE DEF l, u, z
<1>4. (z < l => Finite(l)) /\ (z > u => Finite(u))
  BY <1>2, <1>3 DEF Finite
<1> QED BY <1>4 DEF Below, Above, l, u, z

LEMMA DualPivotsRight ==
    ASSUME Strong, SolvesRight, DualPivot
    PROVE  Strong'
<1>1. pc = "dual" /\ InTime /\ UNCHANGED <<args, c, shift, cleanups, result>>
  BY DEF DualPivot
<1>2. Working /\ PointSolves
  BY <1>1 DEF Working, SolvesRight
<1>3. /\ IsProgram(lp) /\ Partition(basis) /\ StatusesFit(basis) /\ TypeOK /\ result = NoResult
      /\ config.max_iterations \in Nat
  BY <1>1, <1>2, AtWork
<1> DEFINE values == Current
<1>4. values \in [Vars -> Int] /\ \A v \in Vars : Finite(values[v])
  BY <1>2 DEF PointSolves
<1>5. PICK p \in LeavingRows(values) :
        LET out == basis.basic[p]
            alpha == TableauRow(p, IF Below(out, values) THEN 1 ELSE -1)
        IN \E s \in ByRatio(alpha) :
             /\ s # <<>>
             /\ LET k == Flips(s, alpha, Violation(out, values))
                IN Pivot(values, p, Entering(s, k), {s[n] : n \in 1..k})
  BY DEF DualPivot
<1> DEFINE out == basis.basic[p]
           alpha == TableauRow(p, IF Below(out, values) THEN 1 ELSE -1)
<1>6. PICK s \in ByRatio(alpha) :
        /\ s # <<>>
        /\ LET k == Flips(s, alpha, Violation(out, values))
           IN Pivot(values, p, Entering(s, k), {s[n] : n \in 1..k})
  BY <1>5
<1> DEFINE k == Flips(s, alpha, Violation(out, values))
           q == Entering(s, k)
           S == {s[n] : n \in 1..k}
           column == [r \in Rows |-> Column(q)[r] * One]
           f == PivotFactors(p, column)
           v == Ftran(f, column)
           flipped == Flipped(basis, S)
           leaving == IF Below(out, values) THEN "AtLower" ELSE "AtUpper"
           b == Swap(flipped, p, q, leaving)
           g == FactorsAfter(f, b, p, v)
<1>7. Pivot(values, p, q, S)
  BY <1>6
<1>8. /\ q \in basis.nonbasic
      /\ \A n \in 1..k : /\ s[n] \in basis.nonbasic /\ Flippable(s[n])
                         /\ basis.status[s[n]] \in {"AtLower", "AtUpper", "Free"}
  <2> HIDE DEF alpha
  <2> QED BY <1>3, <1>6, CandidatesFit
<1> HIDE DEF values
<1>9. p \in Rows /\ out \in Vars /\ (Below(out, values) \/ Above(out, values))
  BY <1>3, <1>4, LeavesOutside
<1>10. \/ /\ v[p] = 0 /\ basis' = flipped /\ x' = Synced(flipped, values) /\ fact' = f /\ pc' = "done"
          /\ iter' = iter
       \/ /\ basis' = b /\ fact' = g /\ x' = Synced(b, values)
          /\ y' = DualValues(b, g, c) /\ d' = ReducedCosts(b, c, y') /\ iter' = iter + 1 /\ pc' = pc
  BY <1>7 DEF Pivot
<1> HIDE DEF f, v, g, column, q, k
<1>11. \A w \in S : w \in basis.nonbasic /\ basis.status[w] \in {"AtLower", "AtUpper"} /\ Flippable(w)
  <2> SUFFICES ASSUME NEW n \in 1..k
               PROVE  s[n] \in basis.nonbasic /\ basis.status[s[n]] \in {"AtLower", "AtUpper"} /\ Flippable(s[n])
    OBVIOUS
  <2>1. s[n] \in basis.nonbasic /\ Flippable(s[n]) /\ basis.status[s[n]] \in {"AtLower", "AtUpper", "Free"}
    BY <1>8
  <2>2. s[n] \in Vars
    BY <1>3, <2>1 DEF Partition
  <2>3. basis.status[s[n]] # "Free"
    BY <1>3, <2>1, <2>2, FreeStays
  <2> QED BY <2>1, <2>3
<1> HIDE DEF S
<1>12. /\ Partition(flipped) /\ StatusesFit(flipped) /\ flipped.basic = basis.basic /\ flipped.nonbasic = basis.nonbasic
  BY <1>3, <1>11, FlipKeeps
<1> HIDE DEF flipped
<1>13. Partition(b) /\ StatusesFit(b)
  <2>1. q \in flipped.nonbasic /\ flipped.basic[p] = out
    BY <1>8, <1>12
  <2>2. leaving \in {"AtLower", "AtUpper"} /\ (leaving = "AtLower" => Finite(Low(out))) /\ (leaving = "AtUpper" => Finite(Up(out)))
    BY <1>3, <1>4, <1>9, OutsideFinite
  <2> HIDE DEF leaving, out
  <2> QED BY <1>3, <1>9, <1>12, <2>1, <2>2, SwapKeeps
<1>14. iter \in Nat /\ cleanups \in 0..MaxCleanup /\ iter + 1 <= config.max_iterations + cleanups /\ MaxCleanup \in Nat
  BY <1>1, <1>3, InfinityAssumption DEF TypeOK, InTime
<1>15. iter' \in Nat /\ cleanups' \in 0..MaxCleanup /\ iter' <= config.max_iterations + cleanups'
  BY <1>1, <1>3, <1>10, <1>14
<1> HIDE DEF b
<1>16. CASE basis' = flipped /\ x' = Synced(flipped, values) /\ fact' = f /\ pc' = "done"
  BY <1>1, <1>2, <1>3, <1>12, <1>15, <1>16, BasisReplaced
<1>17. CASE /\ basis' = b /\ fact' = g /\ x' = Synced(b, values)
            /\ y' = DualValues(b, g, c) /\ d' = ReducedCosts(b, c, y') /\ pc' = pc
  BY <1>1, <1>2, <1>3, <1>13, <1>15, <1>17, BasisReplaced
<1> QED BY <1>10, <1>16, <1>17

\* With the shifts taken back, the dual values price the basis and the reduced costs are
\* whole numbers.
LEMMA PricedAtWork ==
    ASSUME Strong, SolvesRight, Working, c = Costs
    PROVE  /\ y \in [Rows -> Int]
           /\ \A i \in Rows : Dot(Column(basis.basic[i]), y) = Costs[basis.basic[i]]
           /\ \A v \in Vars : d[v] \in Int
<1>1. IsProgram(lp) /\ Partition(basis) /\ y = DualValues(basis, fact, c) /\ d = ReducedCosts(basis, c, y)
  BY AtWork
<1>2. Prices(y, [i \in Rows |-> c[basis.basic[i]]])
  BY <1>1 DEF SolvesRight
<1>3. y \in [Rows -> Int] /\ \A i \in Rows : Dot(Column(basis.basic[i]), y) = Costs[basis.basic[i]]
  BY <1>2 DEF Prices
<1>4. \A v \in Vars : d[v] \in Int
  BY <1>1, <1>3, CostsWhole, ReducedArePriced
<1> QED BY <1>3, <1>4

LEMMA SteepestImproves ==
    ASSUME IsProgram(lp), Partition(basis), \A v \in Vars : d[v] \in Int, Improving # {}
    PROVE  Steepest \in Improving
<1> DEFINE S == Improving
           R == {z \in S \X S : Magnitude(d[z[1]]) >= Magnitude(d[z[2]])}
           F == {v \in Improving : \A w \in Improving : Magnitude(d[v]) >= Magnitude(d[w])}
<1>1. S \subseteq Vars
  BY DEF Improving, Partition
<1>2. IsFiniteSet(S) /\ S \subseteq Int /\ S # {}
  <2> HIDE DEF S
  <2>1. IsFiniteSet(S)
    BY <1>1, Shape, FS_Subset
  <2>2. S \subseteq Int
    BY <1>1 DEF Vars
  <2> QED BY <2>1, <2>2 DEF S
<1>3. \A v \in S : Magnitude(d[v]) \in Int
  BY <1>1 DEF Magnitude
<1>4. F = Firsts(R, S)
  BY DEF Firsts
<1>5. Ranks(R, S)
  <2> DEFINE h == [v \in S |-> Magnitude(d[v])]
  <2>1. R = {z \in S \X S : h[z[1]] >= h[z[2]]}
    OBVIOUS
  <2>2. \A v \in S : h[v] \in Int
    BY <1>3
  <2> HIDE DEF h, S, R
  <2> QED BY <2>1, <2>2 DEF Ranks
<1>6. F \subseteq S
  OBVIOUS
<1>7. Steepest = Min(F)
  BY DEF Steepest
<1> HIDE DEF S, R, F
<1>8. Min(F) \in F
  BY ONLY <1>2, <1>4, <1>5, LeastFirst
<1> QED BY <1>6, <1>7, <1>8 DEF S

\* Cross products order fractions.
LEMMA Fractions ==
    ASSUME NEW a \in Int, NEW b \in Int, NEW e \in Int, NEW k \in Int, NEW l \in Int, NEW n \in Int,
           k > 0, l > 0, n > 0, a * l <= b * k, b * n <= e * l
    PROVE  a * n <= e * k
<1>1. (a * l) * n <= (b * k) * n
  <2> DEFINE u == a * l
             v == b * k
  <2>1. u \in Int /\ v \in Int /\ u <= v
    OBVIOUS
  <2> HIDE DEF u, v
  <2>2. u * n <= v * n
    BY <2>1
  <2> QED BY <2>2 DEF u, v
<1>2. (b * n) * k <= (e * l) * k
  <2> DEFINE u == b * n
             v == e * l
  <2>1. u \in Int /\ v \in Int /\ u <= v
    OBVIOUS
  <2> HIDE DEF u, v
  <2>2. u * k <= v * k
    BY <2>1
  <2> QED BY <2>2 DEF u, v
<1>3. (a * l) * n = (a * n) * l /\ (b * k) * n = (b * n) * k /\ (e * l) * k = (e * k) * l
  OBVIOUS
<1> DEFINE u == a * n
           v == e * k
<1>4. u \in Int /\ v \in Int
  OBVIOUS
<1>5. u * l <= v * l
  <2>1. (a * l) * n \in Int /\ (b * k) * n \in Int /\ (e * l) * k \in Int
    OBVIOUS
  <2> QED BY <1>1, <1>2, <1>3, <2>1
<1> HIDE DEF u, v
<1>6. u <= v
  BY <1>4, <1>5
<1> QED BY <1>6 DEF u, v

LEMMA BlocksSomewhere ==
    ASSUME IsProgram(lp), Partition(basis), NEW q, NEW v \in [Rows -> Int], NEW X \in [Vars -> Int],
           Blocking(q, v, X) # 0
    PROVE  /\ Blocking(q, v, X) \in Rows /\ Rate(q, v, Blocking(q, v, X)) # 0
           /\ Finite(Room(Blocking(q, v, X), Rate(q, v, Blocking(q, v, X)), X))
<1> DEFINE rate == [i \in Rows |-> Rate(q, v, i)]
           room == [i \in Rows |-> Room(i, rate[i], X)]
           all == {i \in Rows : rate[i] # 0 /\ Finite(room[i]) /\
                      room[i] * One < (Up(q) - Low(q)) * Magnitude(rate[i])}
           first == {i \in all : \A k \in all : room[i] * Magnitude(rate[k]) <= room[k] * Magnitude(rate[i])}
           R == {z \in all \X all : room[z[1]] * Magnitude(rate[z[2]]) <= room[z[2]] * Magnitude(rate[z[1]])}
           size == [i \in Rows |-> Magnitude(rate[i])]
<1>1. all # {} /\ Blocking(q, v, X) = Min(first)
  BY DEF Blocking
<1>2. all \subseteq Rows /\ first \subseteq all /\ \A i \in all : rate[i] # 0 /\ Finite(room[i])
  OBVIOUS
<1>3. \A i \in Rows : rate[i] \in Int
  BY DEF Rate
<1>4. \A i \in Rows : room[i] \in Int
  <2> SUFFICES ASSUME NEW i \in Rows
               PROVE  Room(i, rate[i], X) \in Int
    OBVIOUS
  <2>1. basis.basic[i] \in Vars
    BY DEF Partition, IsValid
  <2>2. X[basis.basic[i]] \in Int /\ Low(basis.basic[i]) \in Int /\ Up(basis.basic[i]) \in Int
    BY <2>1, Bounds
  <2> QED BY <2>2 DEF Room, Larger
<1>5. first = Firsts(R, all)
  BY DEF Firsts
<1>6. \A i \in Rows : size[i] \in Int /\ (rate[i] # 0 => size[i] > 0)
  <2> SUFFICES ASSUME NEW i \in Rows
               PROVE  Magnitude(rate[i]) \in Int /\ (rate[i] # 0 => Magnitude(rate[i]) > 0)
    OBVIOUS
  <2> DEFINE t == rate[i]
  <2>1. t \in Int
    BY <1>3
  <2> HIDE DEF t
  <2>2. Magnitude(t) \in Int /\ (t # 0 => Magnitude(t) > 0)
    BY <2>1 DEF Magnitude
  <2> QED BY <2>2 DEF t
<1>7. R = {z \in all \X all : room[z[1]] * size[z[2]] <= room[z[2]] * size[z[1]]}
  OBVIOUS
<1>8. \A i \in all : i \in Rows /\ room[i] \in Int /\ size[i] \in Int /\ size[i] > 0
  BY <1>2, <1>4, <1>6
<1>9. \A i \in Rows : rate[i] = Rate(q, v, i) /\ room[i] = Room(i, Rate(q, v, i), X)
  OBVIOUS
<1> HIDE DEF rate, room, all, first, R, size
<1>10. Ranks(R, all)
  <2>1. ASSUME NEW i \in all, NEW k \in all
        PROVE  <<i, k>> \in R \/ <<k, i>> \in R
    <3>1. room[i] * size[k] \in Int /\ room[k] * size[i] \in Int
      BY <1>8
    <3>2. room[i] * size[k] <= room[k] * size[i] \/ room[k] * size[i] <= room[i] * size[k]
      BY <3>1
    <3> QED BY <1>7, <3>2
  <2>2. ASSUME NEW i \in all, NEW k \in all, NEW l \in all, <<i, k>> \in R, <<k, l>> \in R
        PROVE  <<i, l>> \in R
    <3>1. room[i] * size[k] <= room[k] * size[i] /\ room[k] * size[l] <= room[l] * size[k]
      BY <1>7, <2>2
    <3>2. room[i] * size[l] <= room[l] * size[i]
      BY <1>8, <3>1, Fractions
    <3> QED BY <1>7, <3>2
  <2> QED BY <2>1, <2>2 DEF Ranks
<1>11. IsFiniteSet(all) /\ all \subseteq Int /\ all # {}
  <2>1. IsFiniteSet(all)
    BY <1>2, Shape, FS_Subset
  <2> QED BY <1>1, <1>2, <2>1 DEF Rows
<1>12. Min(first) \in first
  BY ONLY <1>5, <1>10, <1>11, LeastFirst
<1> QED BY <1>1, <1>2, <1>9, <1>12

LEMMA PrimalStepsRight ==
    ASSUME Strong, SolvesRight, PrimalPivot \/ PrimalFlip
    PROVE  Strong'
<1>1. /\ pc = "cleanup" /\ Improving # {} /\ cleanups < MaxCleanup
      /\ UNCHANGED <<args, c, shift, pc, result>>
      /\ iter' = iter + 1 /\ cleanups' = cleanups + 1
  BY DEF PrimalPivot, PrimalFlip, CleaningUp
<1>2. Working
  BY <1>1 DEF Working
<1>3. /\ IsProgram(lp) /\ Partition(basis) /\ StatusesFit(basis) /\ TypeOK /\ result = NoResult
      /\ config.max_iterations \in Nat /\ c = Costs
      /\ y = DualValues(basis, fact, c) /\ d = ReducedCosts(basis, c, y)
  BY <1>1, <1>2, AtWork
<1> DEFINE q == Steepest
           v == PrimalColumn
           X == Current
           p == Blocking(q, v, X)
<1>4. q \in basis.nonbasic /\ q \in Vars /\ basis.status[q] \in {"AtLower", "AtUpper"}
  <2>1. \A w \in Vars : d[w] \in Int
    BY <1>2, <1>3, PricedAtWork
  <2>2. q \in Improving
    BY <1>1, <1>3, <2>1, SteepestImproves
  <2> QED BY <1>3, <2>2 DEF Improving, WrongSign, Partition
<1>5. v \in [Rows -> Int] /\ X \in [Vars -> Int] /\ \A w \in Vars : Finite(X[w])
  BY <1>2, <1>4 DEF SolvesRight, Answers, PointSolves, PrimalColumn
<1>6. iter' \in Nat /\ cleanups' \in 0..MaxCleanup /\ iter' <= config.max_iterations + cleanups'
  BY <1>1, <1>3, InfinityAssumption DEF TypeOK
<1>7. CASE PrimalPivot
  <2> DEFINE leaving == IF Rate(q, v, p) > 0 THEN "AtLower" ELSE "AtUpper"
             b == Swap(basis, p, q, leaving)
             f == Factorized(fact, BasisMatrix(b.basic))
             o == basis.basic[p]
  <2>1. /\ p # 0 /\ basis' = b /\ fact' = f /\ x' = Synced(b, x)
        /\ y' = DualValues(b, f, c) /\ d' = ReducedCosts(b, c, y')
    BY <1>7 DEF PrimalPivot
  <2> HIDE DEF q, v, X
  <2>2. p \in Rows /\ Finite(Room(p, Rate(q, v, p), X))
    BY <1>3, <1>5, <2>1, BlocksSomewhere
  <2> HIDE DEF p
  <2>3. o \in Vars
    BY <1>3, <2>2 DEF Partition, IsValid
  <2> DEFINE l == Low(o)
             u == Up(o)
             z == X[o]
  <2>4. /\ leaving = "AtLower" => Finite(l)
        /\ leaving = "AtUpper" => Finite(u)
    <3>1. /\ l \in Int /\ u \in Int /\ z \in Int /\ Finite(z)
          /\ (l = -Infinity \/ Finite(l)) /\ (u = Infinity \/ Finite(u))
      BY <1>3, <1>5, <2>3, Bounds
    <3>2. Finite(Larger(0, IF Rate(q, v, p) > 0 THEN z - l ELSE u - z))
      BY <2>2 DEF Room
    <3> HIDE DEF l, u, z
    <3>3. CASE Rate(q, v, p) > 0
      <4>1. Finite(Larger(0, z - l)) /\ leaving = "AtLower"
        BY <3>2, <3>3
      <4> HIDE DEF leaving
      <4> QED BY <3>1, <4>1, InfinityAssumption DEF Finite, Larger
    <3>4. CASE ~(Rate(q, v, p) > 0)
      <4>1. Finite(Larger(0, u - z)) /\ leaving = "AtUpper"
        BY <3>2, <3>4
      <4> HIDE DEF leaving
      <4> QED BY <3>1, <4>1, InfinityAssumption DEF Finite, Larger
    <3> QED BY <3>3, <3>4
  <2>5. leaving \in {"AtLower", "AtUpper"}
    OBVIOUS
  <2> HIDE DEF leaving
  <2>6. Partition(b) /\ StatusesFit(b)
    BY <1>3, <1>4, <2>2, <2>4, <2>5, SwapKeeps DEF q
  <2> HIDE DEF b, f
  <2> QED BY <1>1, <1>2, <1>3, <1>6, <2>1, <2>6, BasisReplaced
<1>8. CASE PrimalFlip
  <2> DEFINE b == Flipped(basis, {q})
  <2>1. Flippable(q) /\ basis' = b /\ x' = Synced(b, x) /\ UNCHANGED <<y, d, fact>>
    BY <1>8 DEF PrimalFlip
  <2> HIDE DEF q
  <2>2. \A w \in {q} : w \in basis.nonbasic /\ basis.status[w] \in {"AtLower", "AtUpper"} /\ Flippable(w)
    BY <1>4, <2>1
  <2>3. /\ Partition(b) /\ StatusesFit(b) /\ b.basic = basis.basic
        /\ \A w \in Vars : b.status[w] = "Basic" <=> basis.status[w] = "Basic"
    BY <1>3, <2>2, FlipKeeps
  <2> HIDE DEF b
  <2>4. y' = DualValues(b, fact, c) /\ d' = ReducedCosts(b, c, y')
    <3>1. y' = y /\ d' = d
      BY <2>1
    <3>2. DualValues(b, fact, c) = DualValues(basis, fact, c) /\ ReducedCosts(b, c, y) = ReducedCosts(basis, c, y)
      BY <2>3, SameBasics
    <3> QED BY <1>3, <3>1, <3>2
  <2>5. fact' = fact
    BY <2>1
  <2> QED BY <1>1, <1>2, <1>3, <1>6, <2>1, <2>3, <2>4, <2>5, BasisReplaced
<1> QED BY <1>7, <1>8

\* The answer of the loop: a row nothing can satisfy.
LEMMA InfeasibleRight ==
    ASSUME Strong, SolvesRight, DualUnbounded
    PROVE  Strong'
<1>1. /\ pc = "dual" /\ pc' = "done" /\ result' = [result EXCEPT !.status = "PRIMAL_INFEASIBLE"]
      /\ UNCHANGED <<args, basis, x, c, shift, y, d, fact, iter, cleanups>>
  BY DEF DualUnbounded, numbers
<1>2. Working /\ PointSolves
  BY <1>1 DEF Working, SolvesRight
<1>3. /\ IsProgram(lp) /\ Partition(basis) /\ StatusesFit(basis) /\ TypeOK /\ result = NoResult
      /\ AtTheirBounds /\ BasisPartition /\ StatusesMeanBounds /\ config \in Configs /\ RightStart
  BY <1>1, <1>2, AtWork
<1> DEFINE X == Current
<1>4. PICK p \in LeavingRows(X) :
        LET alpha == TableauRow(p, IF Below(basis.basic[p], X) THEN 1 ELSE -1)
        IN \A v \in basis.nonbasic : ~Helps(v, alpha[v])
  BY DEF DualUnbounded
<1>5. X \in [Vars -> Int]
  BY <1>2 DEF PointSolves
<1>6. p \in Rows /\ (Below(basis.basic[p], X) \/ Above(basis.basic[p], X))
  BY <1>3, <1>5, LeavesOutside
<1> DEFINE sigma == IF Below(basis.basic[p], X) THEN 1 ELSE -1
           u == -sigma * One
           pi == Btran(fact, Unit(p, u))
<1>7. u \in {One, -One} /\ (IF u = -One THEN Below(basis.basic[p], X) ELSE Above(basis.basic[p], X))
  <2>1. One \in Int /\ One > 0
    BY OneAssumption
  <2>2. CASE Below(basis.basic[p], X)
    BY <2>1, <2>2
  <2>3. CASE ~Below(basis.basic[p], X)
    <3>1. u = One /\ u # -One
      BY <2>1, <2>3
    <3> QED BY <1>6, <2>3, <3>1
  <2> QED BY <2>2, <2>3
<1>8. \A v \in basis.nonbasic : ~Helps(v, Dot(Column(v), pi))
  BY <1>4 DEF TableauRow
<1> HIDE DEF u
<1>9. Prices(pi, Unit(p, u))
  BY <1>2, <1>6, <1>7 DEF SolvesRight
<1> HIDE DEF pi
<1>10. \A q \in [Cols -> Int] : ~FeasiblePoint(q)
  <2> SUFFICES ASSUME NEW q \in [Cols -> Int], FeasiblePoint(q)
               PROVE  FALSE
    OBVIOUS
  <2> QED BY <1>2, <1>3, <1>6, <1>7, <1>8, <1>9, NothingHelps
<1>11. result'.status = "PRIMAL_INFEASIBLE"
  BY <1>1, <1>3 DEF NoResult
<1>12. lp' = lp /\ config' = config /\ IsProgram(lp)' /\ (config \in Configs)' /\ RightStart'
  BY <1>1, <1>3, ArgsKept DEF args
<1>13. TrueVerdicts'
  <2>1. ~Answered("OPTIMAL")'
    BY <1>11 DEF Answered
  <2>2. (\A q \in [Cols -> Int] : ~FeasiblePoint(q))'
    BY <1>10, <1>12 DEF FeasiblePoint, Activity, Total, Cols, Rows
  <2> QED BY <2>1, <2>2 DEF TrueVerdicts
<1>14. TypeOK'
  BY <1>1, <1>3, <1>11, <1>12 DEF TypeOK
<1>15. BasisPartition' /\ StatusesMeanBounds'
  BY <1>1, <1>3, BasisKept
<1>16. WorkConsistent'
  BY <1>1 DEF WorkConsistent, Working
<1> QED BY <1>12, <1>13, <1>14, <1>15, <1>16 DEF Strong

\* The answer after the last iteration: no residual, no better point.
LEMMA OptimumRight ==
    ASSUME Strong, SolvesRight, Assemble
    PROVE  Strong'
<1> DEFINE X == Current
           far == [v \in Vars |-> Larger(Low(v) - X[v], X[v] - Up(v))]
           wrong == [v \in Improving |-> Magnitude(d[v])]
           primal == Worst({far[v] : v \in Vars})
           dual == Worst({wrong[v] : v \in Improving})
<1>1. /\ pc = "assemble" /\ pc' = "done" /\ x' = X
      /\ UNCHANGED <<args, basis, c, shift, y, d, fact, iter, cleanups>>
  BY DEF Assemble
<1>2. result' = [status |-> IF primal = 0 /\ dual = 0 THEN "OPTIMAL"
                            ELSE IF iter >= config.max_iterations THEN "MAX_ITERATIONS"
                            ELSE "OPTIMAL",
                 objective |-> Objective(X), primal_inf |-> primal, dual_inf |-> dual]
  <2>1. {far[v] : v \in Vars} = {Larger(Low(v) - X[v], X[v] - Up(v)) : v \in Vars}
    OBVIOUS
  <2>2. {wrong[v] : v \in Improving} = {Magnitude(d[v]) : v \in Improving}
    OBVIOUS
  <2>3. x' = X
    BY <1>1
  <2>4. result' = [status |-> IF Worst({Larger(Low(v) - x'[v], x'[v] - Up(v)) : v \in Vars}) = 0
                                   /\ Worst({Magnitude(d[v]) : v \in Improving}) = 0 THEN "OPTIMAL"
                              ELSE IF iter >= config.max_iterations THEN "MAX_ITERATIONS"
                              ELSE "OPTIMAL",
                   objective |-> Objective(x'),
                   primal_inf |-> Worst({Larger(Low(v) - x'[v], x'[v] - Up(v)) : v \in Vars}),
                   dual_inf |-> Worst({Magnitude(d[v]) : v \in Improving})]
    BY DEF Assemble
  <2> HIDE DEF X
  <2> QED BY <2>1, <2>2, <2>3, <2>4
<1>3. Working /\ PointSolves
  BY <1>1 DEF Working, SolvesRight
<1>4. /\ IsProgram(lp) /\ Partition(basis) /\ StatusesFit(basis) /\ TypeOK /\ c = Costs
      /\ AtTheirBounds /\ BasisPartition /\ StatusesMeanBounds /\ config \in Configs /\ RightStart
      /\ d = ReducedCosts(basis, c, y)
  BY <1>1, <1>3, AtWork
<1>5. /\ y \in [Rows -> Int] /\ \A i \in Rows : Dot(Column(basis.basic[i]), y) = Costs[basis.basic[i]]
      /\ \A v \in Vars : d[v] \in Int
  BY <1>3, <1>4, PricedAtWork
<1>6. Kernel(X) /\ X \in [Vars -> Int]
  BY <1>3, <1>4, CurrentPoint DEF PointSolves
<1>7. lp' = lp /\ config' = config /\ IsProgram(lp)' /\ (config \in Configs)' /\ RightStart'
  BY <1>1, <1>4, ArgsKept DEF args
<1> HIDE DEF X
<1>8. ASSUME primal = 0
      PROVE  \A v \in Vars : Low(v) <= X[v] /\ X[v] <= Up(v)
  <2>1. \A v \in Vars : Low(v) \in Int /\ Up(v) \in Int /\ X[v] \in Int
    BY <1>4, <1>6, Bounds
  <2>2. \A v \in Vars : far[v] \in Int
    BY <2>1 DEF Larger
  <2>3. IsFiniteSet(Vars)
    BY <1>4, Shape
  <2>4. \A v \in Vars : far[v] <= 0
    <3> HIDE DEF far
    <3> QED BY <1>8, <2>2, <2>3, WorstIsZero
  <2> SUFFICES ASSUME NEW v \in Vars
               PROVE  Low(v) <= X[v] /\ X[v] <= Up(v)
    OBVIOUS
  <2>5. Larger(Low(v) - X[v], X[v] - Up(v)) <= 0
    BY <2>4
  <2> QED BY <2>1, <2>5 DEF Larger
<1>9. ASSUME dual = 0
      PROVE  Improving = {}
  <2>1. Improving \subseteq Vars
    BY <1>4 DEF Improving, Partition
  <2>2. \A v \in Improving : wrong[v] \in Int
    BY <1>5, <2>1 DEF Magnitude
  <2>3. IsFiniteSet(Improving)
    BY <1>4, <2>1, Shape, FS_Subset
  <2>4. \A v \in Improving : wrong[v] <= 0
    <3> HIDE DEF wrong
    <3> QED BY <1>9, <2>2, <2>3, WorstIsZero
  <2> SUFFICES ASSUME NEW v \in Improving
               PROVE  FALSE
    OBVIOUS
  <2>5. Magnitude(d[v]) <= 0 /\ d[v] \in Int
    BY <1>5, <2>1, <2>4
  <2>6. d[v] # 0
    BY <2>5 DEF Improving, WrongSign
  <2> QED BY <2>5, <2>6 DEF Magnitude
<1>10. ASSUME primal = 0, dual = 0, ~FreeIgnored
       PROVE  /\ FeasiblePoint(ColumnPart(X))
              /\ \A p \in [Cols -> Int] : FeasiblePoint(p) => Objective(X) <= Objective(p)
  <2>1. FeasiblePoint(ColumnPart(X))
    BY <1>4, <1>6, <1>8, <1>10, SolvesFeasibly
  <2>2. \A v \in basis.nonbasic : Allows(basis.status[v], ReducedCosts(basis, Costs, y)[v])
    <3> SUFFICES ASSUME NEW v \in basis.nonbasic
                 PROVE  Allows(basis.status[v], d[v])
      BY <1>4
    <3>1. v \in Vars /\ d[v] \in Int
      BY <1>4, <1>5 DEF Partition
    <3>2. ~WrongSign(basis.status[v], d[v])
      BY <1>9, <1>10 DEF Improving
    <3>3. basis.status[v] = "Free" => d[v] = 0
      BY <1>10 DEF FreeIgnored
    <3> QED BY <3>1, <3>2, <3>3 DEF WrongSign, Allows
  <2>3. ASSUME NEW p \in [Cols -> Int], FeasiblePoint(p)
        PROVE  Objective(X) <= Objective(p)
    BY <1>3, <1>4, <1>5, <2>2, <2>3, BasicIsOptimal DEF X
  <2> QED BY <2>1, <2>3
<1>11. /\ result'.status \in {"OPTIMAL", "MAX_ITERATIONS"} /\ result'.objective = Objective(X)
       /\ result'.primal_inf = primal /\ result'.dual_inf = dual
  <2> HIDE DEF primal, dual
  <2> QED BY <1>2
<1> HIDE DEF primal, dual
<1>12. TrueVerdicts'
  <2>1. ~Answered("PRIMAL_INFEASIBLE")'
    BY <1>11 DEF Answered
  <2>2. ASSUME Unquestioned'
        PROVE  /\ FeasiblePoint([j \in Cols |-> x[j]])'
               /\ (\A p \in [Cols -> Int] : FeasiblePoint(p) => result.objective <= Objective(p))'
    <3>1. primal = 0 /\ dual = 0 /\ ~FreeIgnored
      BY <1>1, <1>11, <2>2 DEF Unquestioned, FreeIgnored
    <3>2. /\ FeasiblePoint(ColumnPart(X))
          /\ \A p \in [Cols -> Int] : FeasiblePoint(p) => Objective(X) <= Objective(p)
      BY <1>10, <3>1
    <3>3. FeasiblePoint([j \in Cols |-> x[j]])'
      BY <1>1, <1>7, <3>2 DEF FeasiblePoint, ColumnPart, Activity, Total, Cols, Rows
    <3>4. (\A p \in [Cols -> Int] : FeasiblePoint(p) => result.objective <= Objective(p))'
      <4> DEFINE o == Objective(X)
      <4>1. \A p \in [Cols -> Int] : FeasiblePoint(p) => o <= Objective(p)
        BY <3>2
      <4>2. result'.objective = o
        BY <1>11
      <4> HIDE DEF o
      <4> QED BY <1>7, <4>1, <4>2 DEF FeasiblePoint, Activity, Objective, Total, Cols, Rows
    <3> QED BY <3>3, <3>4
  <2> QED BY <2>1, <2>2 DEF TrueVerdicts
<1>13. TypeOK'
  BY <1>1, <1>4, <1>7, <1>11 DEF TypeOK
<1>14. BasisPartition' /\ StatusesMeanBounds'
  BY <1>1, <1>4, BasisKept
<1>15. WorkConsistent'
  BY <1>1 DEF WorkConsistent, Working
<1> QED BY <1>7, <1>12, <1>13, <1>14, <1>15 DEF Strong

\* A model without rows or columns is answered at once, and no residual is computed.
LEMMA EmptyRight ==
    ASSUME Strong, NoRows \/ NoColumns
    PROVE  Strong'
<1>1. /\ pc = "start" /\ pc' = "done" /\ UNCHANGED <<args, basis, iter, cleanups>>
      /\ lp.m = 0 \/ lp.n = 0
      /\ result'.status = "OPTIMAL"
  <2>1. CASE NoRows
    <3>1. pc = "start" /\ pc' = "done" /\ UNCHANGED <<args, basis, iter, cleanups>> /\ lp.m = 0
      BY <2>1 DEF NoRows
    <3>2. result'.status = "OPTIMAL"
      BY <2>1 DEF NoRows, NoResult
    <3> QED BY <3>1, <3>2
  <2>2. CASE NoColumns
    <3>1. pc = "start" /\ pc' = "done" /\ UNCHANGED <<args, basis, iter, cleanups>> /\ lp.n = 0
      BY <2>2 DEF NoColumns
    <3>2. result'.status = "OPTIMAL"
      BY <2>2 DEF NoColumns, NoResult
    <3> QED BY <3>1, <3>2
  <2> QED BY <2>1, <2>2
<1>2. TypeOK /\ RightStart /\ BasisPartition /\ StatusesMeanBounds /\ IsProgram(lp) /\ config \in Configs
  BY DEF Strong, TypeOK
<1>3. lp' = lp /\ config' = config /\ IsProgram(lp)' /\ (config \in Configs)' /\ RightStart'
  BY <1>1, <1>2, ArgsKept DEF args
<1>4. TrueVerdicts'
  <2>1. ~(Unquestioned')
    BY <1>1, <1>3 DEF Unquestioned
  <2>2. ~Answered("PRIMAL_INFEASIBLE")'
    BY <1>1 DEF Answered
  <2> QED BY <2>1, <2>2 DEF TrueVerdicts
<1>5. TypeOK'
  BY <1>1, <1>2, <1>3 DEF TypeOK
<1>6. BasisPartition' /\ StatusesMeanBounds'
  BY <1>1, <1>2, BasisKept
<1>7. WorkConsistent'
  BY <1>1 DEF WorkConsistent, Working
<1> QED BY <1>3, <1>4, <1>5, <1>6, <1>7 DEF Strong

LEMMA StutterRight ==
    ASSUME Strong, UNCHANGED vars
    PROVE  Strong'
<1>1. UNCHANGED args /\ UNCHANGED <<lp, config, initial, basis, x, c, shift, y, d, fact, iter, cleanups, pc, result>>
  BY DEF vars, args
<1>2. TypeOK /\ RightStart /\ BasisPartition /\ StatusesMeanBounds /\ IsProgram(lp) /\ config \in Configs
  BY DEF Strong, TypeOK
<1>3. IsProgram(lp)' /\ (config \in Configs)' /\ RightStart' /\ BasisPartition' /\ StatusesMeanBounds'
  BY <1>1, <1>2, ArgsKept, BasisKept
<1>4. TypeOK'
  BY <1>1, <1>2, <1>3 DEF TypeOK
<1>5. WorkConsistent'
  <2>1. WorkConsistent
    BY DEF Strong
  <2> QED BY <1>1, <2>1 DEF WorkConsistent, Working, Started, NoBasis, NoResult, AtTheirBounds, RestingValue,
       DualValues, ReducedCosts, Costs, Low, Up, IsCol, Dot, Total, Column, Vars, Rows
<1>6. TrueVerdicts'
  <2>1. TrueVerdicts
    BY DEF Strong
  <2> QED BY <1>1, <2>1 DEF TrueVerdicts, Answered, Unquestioned, FreeIgnored, FeasiblePoint, Activity, Objective,
       Total, Cols, Rows
<1> QED BY <1>3, <1>4, <1>5, <1>6 DEF Strong

-----------------------------------------------------------------------------
(* The theorems.                                                           *)

\* solve() called with an initial basis: a warm start, or none.
WarmInit == lp \in Models /\ config \in Configs /\ Start /\ RightStart
WarmSpec == WarmInit /\ [][Next]_vars

LEMMA StartStrong ==
    ASSUME WarmInit
    PROVE  Strong
<1>1. /\ lp \in Models /\ config \in Configs /\ RightStart /\ basis = NoBasis /\ c = Costs /\ pc = "start"
      /\ iter = 0 /\ cleanups = 0 /\ result = NoResult
  BY DEF WarmInit, Start
<1>2. IsProgram(lp) /\ config.max_iterations \in Nat
  BY <1>1, ModelsAssumption, ConfigsAssumption
<1>3. TypeOK
  BY <1>1, <1>2, InfinityAssumption DEF TypeOK, NoResult
<1>4. BasisPartition /\ StatusesMeanBounds
  BY <1>1 DEF BasisPartition, StatusesMeanBounds, Started
<1>5. WorkConsistent
  BY <1>1 DEF WorkConsistent, Working
<1>6. TrueVerdicts
  BY <1>1 DEF TrueVerdicts, Answered
<1> QED BY <1>1, <1>3, <1>4, <1>5, <1>6 DEF Strong

LEMMA StepStrong ==
    ASSUME Strong, SolvesRight, SolvesRight', [Next]_vars
    PROVE  Strong'
<1>1. CASE NoRows \/ NoColumns
  BY <1>1, EmptyRight
<1>2. CASE Begin
  BY <1>2, StartsRight
<1>3. CASE PrimalFeasible \/ OutOfTime \/ RestoreCosts \/ CleanupEnds \/ PrimalUnbounded
  BY <1>3, PausesRight
<1>4. CASE DualPivot
  BY <1>4, DualPivotsRight
<1>5. CASE DualUnbounded
  BY <1>5, InfeasibleRight
<1>6. CASE PrimalPivot \/ PrimalFlip
  BY <1>6, PrimalStepsRight
<1>7. CASE Assemble
  BY <1>7, OptimumRight
<1>8. CASE UNCHANGED vars
  BY <1>8, StutterRight
<1> QED BY <1>1, <1>2, <1>3, <1>4, <1>5, <1>6, <1>7, <1>8 DEF Next

LEMMA AlwaysStrong == WarmSpec /\ []SolvesRight => []Strong
<1>1. WarmInit => Strong
  BY StartStrong
<1>2. Strong /\ SolvesRight /\ SolvesRight' /\ [Next]_vars => Strong'
  BY StepStrong
<1> QED BY <1>1, <1>2, PTL DEF WarmSpec

\* Cold starts are among the warm ones.
LEMMA ColdIsWarm == Spec => WarmSpec
<1>1. Init => WarmInit
  BY DEF Init, WarmInit, RightStart
<1> QED BY <1>1, PTL DEF Spec, WarmSpec

\* Basis and solve(): through any number of pivots, flips and refactorizations, from the
\* slacks or a warm start, the list of basic variables, the statuses, the places and the
\* list of nonbasic variables describe one partition, no status names a bound that is not
\* there, and point, dual values and reduced costs are those of that basis.
THEOREM BasisStands == (Spec \/ WarmSpec) /\ []SolvesRight => []BasisConsistent
<1>1. Strong => BasisConsistent
  BY DEF Strong, BasisConsistent
<1> QED BY <1>1, AlwaysStrong, ColdIsWarm, PTL

\* solve(): an answer OPTIMAL without residuals costs no more than any feasible point,
\* and PRIMAL_INFEASIBLE means that there is none: at every point whose entries are whole
\* units, not only at those TLC compares.
THEOREM VerdictsTrue == (Spec \/ WarmSpec) /\ []SolvesRight => []TrueVerdicts
<1>1. Strong => TrueVerdicts
  BY DEF Strong
<1> QED BY <1>1, AlwaysStrong, ColdIsWarm, PTL

\* solve(): the same as the run states it.
THEOREM VerdictsStand == (Spec \/ WarmSpec) /\ []SolvesRight => []VerdictsCertified
<1>1. Strong => VerdictsCertified
  BY Certified DEF Strong
<1> QED BY <1>1, AlwaysStrong, ColdIsWarm, PTL

=============================================================================
